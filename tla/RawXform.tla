------------------------------ MODULE RawXform ------------------------------
(***************************************************************************)
(* The program rawxform (src/src/rawxform.c) around its table: the options *)
(* in order, the table files, the choice of interpolation, and the files   *)
(* of numbers, mapped in blocks of BUF_SZ.  A call of the library          *)
(* (XformTable) is a step of both, and the program does nothing before the *)
(* call returns.  Memory may run out wherever it is asked for.             *)
(*                                                                         *)
(* A line of a table file, or the argument of -e, is a record of its kind  *)
(* and its entry.  Table files are not standard input, which holds         *)
(* numbers.  That format_opts has no terminator (rawxform.c:232) is not    *)
(* modelled: the memory after it is taken to be zero.                      *)
(***************************************************************************)
EXTENDS XformTable, FiniteSets

CONSTANTS
    BUF_SZ,     \* the numbers in a block
    Streams,    \* the open inputs (FILE objects)
    StdIn,      \* the stream that every "-" argument stands for
    Data,       \* the numbers that each of them holds
    TableLines, \* the lines that each table file holds
    Commands    \* [options, files] records

ASSUME BufferAssumption == BUF_SZ \in Nat \ {0}

ASSUME StreamsAssumption ==
    StdIn \in Streams /\ Data \in [Streams -> Seq(Double)]

\* What the program makes of a line of a table file, or of the argument of -e.
Records == [kind : {"entry", "comment", "garbage"}, entry : Given]

ASSUME CommandsAssumption ==
    /\ \A f \in DOMAIN TableLines : TableLines[f] \in Seq(Records)
    /\ \A c \in Commands :
           /\ c.files \in Seq(Streams)
           /\ Len(c.options) \in Nat /\ DOMAIN c.options = 1..Len(c.options)
           /\ \A k \in DOMAIN c.options :
                  /\ c.options[k].key = "f" => c.options[k].arg \in DOMAIN TableLines
                  /\ c.options[k].key = "e" => c.options[k].arg \in Records

VARIABLES
    options, files,     \* the command line
    next,               \* index of the next option
    table_files,        \* the names -f has stored; those left to load
    input_files,        \* the inputs; those left to map
    interpolation, input_format, output_format,
    lines,              \* what load_table has still to read
    pos,                \* the numbers taken from each input
    rest,               \* the block: what has still to be mapped
    done,               \* and what has been
    out,                \* the numbers fwrite has accepted
    no_memory,          \* history: memory has run out
    at                  \* where the program is, or how it ended

call    == <<copying, lookup, pc>>
args    == <<options, files, interpolation, input_format, output_format>>
loading == <<table_files, lines>>
stream  == <<input_files, pos, rest, done, out>>
vars    == <<table, call, args, next, loading, stream, no_memory, at>>

Exits == {"ok", "usage", "alloc_error", "open_error", "table_error", "assertion",
          "read_error", "write_error"}

\* xform_table_alloc may fail.
Init ==
    /\ xform_table_alloc(0)
    /\ \E c \in Commands : options = c.options /\ files = c.files
    /\ interpolation = "none" /\ input_format = "double" /\ output_format = "double"
    /\ next = 1 /\ table_files = << >> /\ lines = << >>
    /\ input_files = << >> /\ pos = [s \in Streams |-> 0]
    /\ rest = << >> /\ done = << >> /\ out = << >>
    /\ no_memory = FALSE
    /\ at \in {"options", "alloc_error"}

\* The library is at work; all of the program waits.
Library ==
    /\ AppendNaN \/ AppendEntry \/ AppendEnd
       \/ Bisect \/ BisectEnd \/ MapFound
    /\ UNCHANGED <<args, next, loading, stream, no_memory, at>>

Idle == pc = "idle"

-----------------------------------------------------------------------------
(* The options.  After a failure that is not a usage error p_opt returns,  *)
(* argp_parse stops and main, which does not look at its result, goes on.  *)

option == options[next]
IsNext(key) == Idle /\ at = "options" /\ next <= Len(options) /\ option.key = key

NextOption == next' = next + 1 /\ UNCHANGED at
Usage      == at' = "usage" /\ UNCHANGED next
NoMemory   == no_memory' = TRUE /\ at' = "tables" /\ UNCHANGED next

StoreTableFile ==
    /\ IsNext("f")
    /\ \/ /\ table_files' = Append(table_files, option.arg)
          /\ NextOption /\ UNCHANGED no_memory
       \/ NoMemory /\ UNCHANGED table_files
    /\ UNCHANGED <<table, call, args, lines, stream>>

\* handle_table_entry.
AddEntry ==
    /\ IsNext("e")
    /\ \/ /\ option.arg.kind # "entry"
          /\ Usage /\ UNCHANGED <<table, call, no_memory>>
       \/ /\ option.arg.kind = "entry"
          /\ AppendBegin(<<option.arg.entry>>)
          /\ NextOption /\ UNCHANGED no_memory
       \/ /\ option.arg.kind = "entry"
          /\ AppendFails(<<option.arg.entry>>)
          /\ NoMemory
    /\ UNCHANGED <<args, loading, stream>>

SetInterpolation ==
    /\ IsNext("I")
    /\ IF option.arg \in {"none", "linear"}
         THEN interpolation' = option.arg /\ NextOption
         ELSE Usage /\ UNCHANGED interpolation
    /\ UNCHANGED <<table, call, options, files, input_format, output_format, loading,
                   stream, no_memory>>

\* Any format that is known is taken: the test for the others is never made.
SetInputFormat ==
    /\ IsNext("t")
    /\ IF option.arg \in {"uint8", "float", "double"}
         THEN input_format' = option.arg /\ NextOption
         ELSE Usage /\ UNCHANGED input_format
    /\ UNCHANGED <<table, call, options, files, interpolation, output_format, loading,
                   stream, no_memory>>

SetOutputFormat ==
    /\ IsNext("T")
    /\ IF option.arg \in {"uint8", "float", "double"}
         THEN output_format' = option.arg /\ NextOption
         ELSE Usage /\ UNCHANGED output_format
    /\ UNCHANGED <<table, call, options, files, interpolation, input_format, loading,
                   stream, no_memory>>

\* ARGP_KEY_ARGS and ARGP_KEY_NO_ARGS.
StoreFiles ==
    /\ Idle /\ at = "options" /\ next > Len(options)
    /\ \/ /\ input_files' = (IF files = << >> THEN <<StdIn>> ELSE files)
          /\ at' = "tables" /\ UNCHANGED <<next, no_memory>>
       \/ NoMemory /\ UNCHANGED input_files
    /\ UNCHANGED <<table, call, args, loading, pos, rest, done, out>>

-----------------------------------------------------------------------------
(* The table files, after all of the options.                              *)

OpenTable ==
    /\ Idle /\ at = "tables" /\ table_files # << >>
    /\ \/ lines' = TableLines[Head(table_files)] /\ at' = "lines"
       \/ at' = "open_error" /\ UNCHANGED lines
    /\ UNCHANGED <<table, call, args, next, table_files, stream, no_memory>>

ReadLine(kind) ==
    /\ Idle /\ at = "lines" /\ lines # << >> /\ Head(lines).kind = kind
    /\ lines' = Tail(lines)
    /\ UNCHANGED <<args, next, table_files, stream>>

SkipLine ==
    /\ ReadLine("comment")
    /\ UNCHANGED <<table, call, no_memory, at>>

LoadEntry_OnlyNew ==   \* mutant: a second entry of the same bound is dropped
    LET e == Head(lines).entry
    IN  /\ ReadLine("entry")
        /\ IF \E i \in DOMAIN ents : ents[i].bound = e.bound
             THEN UNCHANGED <<table, call>>
             ELSE AppendBegin(<<e>>)
        /\ UNCHANGED <<no_memory, at>>

\* The result of xform_table_append is not looked at: an entry that there is
\* no memory for is left out.
LoadEntry ==
    LET e == Head(lines).entry
    IN  /\ ReadLine("entry")
        /\ \/ AppendBegin(<<e>>) /\ UNCHANGED no_memory
           \/ AppendFails(<<e>>) /\ no_memory' = TRUE
        /\ UNCHANGED at

GarbageLine ==
    /\ ReadLine("garbage")
    /\ at' = "table_error"
    /\ UNCHANGED <<table, call, no_memory>>

\* getline fails before the end of the file.
TableReadError ==
    /\ Idle /\ at = "lines"
    /\ at' = "table_error"
    /\ UNCHANGED <<table, call, args, next, loading, stream, no_memory>>

EndOfTable ==
    /\ Idle /\ at = "lines" /\ lines = << >>
    /\ table_files' = Tail(table_files)
    /\ at' = "tables"
    /\ UNCHANGED <<table, call, args, next, lines, stream, no_memory>>

-----------------------------------------------------------------------------
(* The numbers.                                                            *)

Prepare_First ==   \* mutant: coefficients are asked for before the files
    /\ Idle /\ at = "tables"
    /\ \/ interpolation = "linear" /\ l_coefs = << >> /\ LinearInterp
          /\ UNCHANGED <<at>>
       \/ table_files = << >> /\ at' = "output" /\ UNCHANGED <<table, call>>
    /\ UNCHANGED <<args, next, loading, stream, no_memory>>

\* Nor is the result of xform_table_linear_interp: a table of less than two
\* entries, or no memory, leaves the values as they are.
Prepare ==
    /\ Idle /\ at = "tables" /\ table_files = << >>
    /\ \/ /\ interpolation = "none"
          /\ UNCHANGED <<table, call, no_memory>>
       \/ /\ interpolation = "linear" /\ LinearInterp
          /\ UNCHANGED no_memory
       \/ /\ interpolation = "linear" /\ LinearInterpFails
          /\ no_memory' = (no_memory \/ Len(ents) >= 2)
    /\ at' = "output"
    /\ UNCHANGED <<args, next, loading, stream>>

OpenOutput ==
    /\ Idle /\ at = "output"
    /\ at' \in {"files", "open_error"}
    /\ UNCHANGED <<table, call, args, next, loading, stream, no_memory>>

\* The next input is opened, and apply_table starts with its assertions.
OpenInput ==
    /\ Idle /\ at = "files" /\ input_files # << >>
    /\ at' \in {IF input_format = "uint8" THEN "assertion" ELSE "read", "open_error"}
    /\ UNCHANGED <<table, call, args, next, loading, stream, no_memory>>

stream_in == Head(input_files)
available == Len(Data[stream_in]) - pos[stream_in]

\* One fread.  An error may cut the block short; if nothing has been read it
\* is either the end of the file or an error.
ReadBlock ==
    /\ Idle /\ at = "read"
    /\ \E n \in 0..BUF_SZ :
        /\ n <= available
        /\ rest' = SubSeq(Data[stream_in], pos[stream_in] + 1, pos[stream_in] + n)
        /\ pos' = [pos EXCEPT ![stream_in] = @ + n]
        /\ \/ n > 0 /\ at' = "map" /\ UNCHANGED input_files
           \/ /\ n = 0 /\ available = 0
              /\ input_files' = Tail(input_files) /\ at' = "files"
           \/ n = 0 /\ at' = "read_error" /\ UNCHANGED input_files
    /\ UNCHANGED <<table, call, args, next, loading, done, out, no_memory>>

MapNext ==
    /\ Idle /\ at = "map" /\ rest # << >>
    /\ ApplyBegin(Head(rest))
    /\ rest' = Tail(rest)
    /\ UNCHANGED <<args, next, loading, input_files, pos, done, out, no_memory, at>>

TakeOutcome ==
    /\ at = "map"
    /\ Return
    /\ done' = Append(done, to)
    /\ UNCHANGED <<args, next, loading, input_files, pos, rest, out, no_memory, at>>

UInt8_Wraps(q) == IF q[2] = 0 THEN 0 ELSE (q[1] \div q[2]) % 256   \* mutant: no BOUND

\* uint8s_from_doubles: the fraction, cut to the range and truncated; BOUND
\* gives 255 for NaN.
UInt8(q) ==
    IF q[2] = 0 THEN (IF q[1] < 0 THEN 0 ELSE 255)
    ELSE IF q[1] < 0 THEN 0
    ELSE IF q[1] >= 255 * q[2] THEN 255
    ELSE q[1] \div q[2]

\* What is written for an outcome; the rounding to float is left open.
Written(q) == [format |-> output_format,
               value  |-> IF output_format = "uint8" THEN <<UInt8(q), 1>> ELSE q]

WriteBlock_Keeps ==   \* mutant: the block is not begun anew
    /\ Idle /\ at = "map" /\ rest = << >>
    /\ out' = out \o [i \in DOMAIN done |-> Written(done[i])]
    /\ at' = "read"
    /\ UNCHANGED <<table, call, args, next, loading, input_files, pos, rest, done, no_memory>>

\* A write may fail when some of the block has been taken.
WriteBlock ==
    /\ Idle /\ at = "map" /\ rest = << >>
    /\ \/ /\ out' = out \o [i \in DOMAIN done |-> Written(done[i])]
          /\ at' = "read"
       \/ /\ \E n \in 0..(Len(done) - 1) :
                 out' = out \o [i \in 1..n |-> Written(done[i])]
          /\ at' = "write_error"
    /\ done' = << >>
    /\ UNCHANGED <<table, call, args, next, loading, input_files, pos, rest, no_memory>>

Finish ==
    /\ Idle /\ at = "files" /\ input_files = << >>
    /\ at' = "ok"
    /\ UNCHANGED <<table, call, args, next, loading, stream, no_memory>>

\* The program has ended; nothing happens any more.
Ended == at \in Exits /\ UNCHANGED vars

Options == StoreTableFile \/ AddEntry \/ SetInterpolation \/ SetInputFormat
               \/ SetOutputFormat \/ StoreFiles
Loading == OpenTable \/ SkipLine \/ LoadEntry \/ GarbageLine \/ TableReadError \/ EndOfTable
Mapping == Prepare \/ OpenOutput \/ OpenInput \/ ReadBlock \/ MapNext \/ TakeOutcome
               \/ WriteBlock \/ Finish
Next    == Library \/ Options \/ Loading \/ Mapping \/ Ended

\* One sequential thread over finite inputs: while a step can be taken, one
\* is.
Spec == Init /\ [][Next]_vars /\ WF_vars(Next)

-----------------------------------------------------------------------------
(* Properties.                                                             *)

\* The state is well formed, the table's included; no input is read past its
\* end and no block exceeds the buffers (rawxform.c:136-147).
TypeOK ==
    /\ TableTypeOK
    /\ next \in 1..(Len(options) + 1)
    /\ interpolation \in {"none", "linear"}
    /\ {input_format, output_format} \subseteq {"uint8", "float", "double"}
    /\ input_files \in Seq(Streams)
    /\ pos \in [Streams -> Nat] /\ \A s \in Streams : pos[s] <= Len(Data[s])
    /\ rest \in Seq(Double) /\ done \in Seq(Int \X Int)
    /\ Len(rest) + Len(done) <= BUF_SZ
    /\ no_memory \in BOOLEAN
    /\ at \in {"options", "tables", "lines", "output", "files", "read", "map"} \cup Exits

Loaded == at \in {"output", "files", "read", "map", "ok", "assertion", "read_error", "write_error"}

\* The entries the user asks for: those of the options, then those of the
\* files, each in the order given.
EntriesOf(records) ==
    FlattenSeq([i \in DOMAIN records |->
        IF records[i].kind = "entry" THEN <<records[i].entry>> ELSE << >>])
ArgsOf(opts, key) ==
    FlattenSeq([i \in DOMAIN opts |-> IF opts[i].key = key THEN <<opts[i].arg>> ELSE << >>])
EntriesIn(names) == FlattenSeq([i \in DOMAIN names |-> EntriesOf(TableLines[names[i]])])
AskedFor == EntriesOf(ArgsOf(options, "e")) \o EntriesIn(ArgsOf(options, "f"))

\* es holds each entry of the list asked as often as that does, but those for
\* NaN, of which v has the last.
Holds(es, v, asked) ==
    LET Count(t, e) == Cardinality({i \in DOMAIN t : t[i] = e})
        nans == {i \in DOMAIN asked : asked[i].bound = NaN}
    IN  /\ \A e \in ToSet(es) \cup ToSet(asked) :
               e.bound # NaN => Count(es, e) = Count(asked, e)
        /\ v = IF nans = {} THEN NaN ELSE asked[Max(nans)].value

\* The table that is used is the one that was asked for, once every source
\* of entries has been read, grown for and sorted: each entry once, the last
\* one for NaN apart; and it never holds one that was not (rawxform.c:94-112,
\* 347-363, 493-519).
TableIsAsGiven ==
    /\ \A i \in DOMAIN ents : ents[i].bound # NaN /\ ents[i] \in ToSet(AskedFor)
    /\ Loaded /\ ~no_memory => Holds(ents, nan_value, AskedFor)

\* The library does not keep coefficients in step with the table; the way
\* rawxform uses it they are: no entry is added after they are computed, and
\* they are there when asked for (rawxform.c:524-527, xform.c:156-198).
CoefsAreCurrent ==
    Loaded =>
        /\ l_coefs # << >> => l_coefs = Coefs(ents) /\ Sorted(ents)
        /\ l_coefs # << >> => interpolation = "linear"
        /\ ~no_memory /\ interpolation = "linear" /\ Len(ents) >= 2 => l_coefs # << >>

\* All of the numbers, file after file; an input that is given again is at
\* its end.
Numbers ==
    LET names == IF files = << >> THEN <<StdIn>> ELSE files
    IN  FlattenSeq([i \in DOMAIN names |->
            IF \E j \in 1..(i - 1) : names[j] = names[i] THEN << >>
            ELSE Data[names[i]]])

\* The byte u stands for the outcome of v as README has it: out-of-range
\* values become the least or the most that can be represented.
Clamped(x) == IF x < 0 THEN 0 ELSE IF x > 255 THEN 255 ELSE x
IsByteFor(v, u) ==
    /\ u \in 0..255
    /\ v # NaN /\ Strict(ents) => \A i \in Interval(v) :
           /\ Flat(v, i) => u = Clamped(ents[i].value)
           /\ Sloped(v, i) =>
                  \E m, n \in {Clamped(ents[i].value), Clamped(ents[i + 1].value)} : u \in m..n

\* Every number written is what README has the number read at that place
\* mapped to, across blocks and files (rawxform.c:147-183, 534-562); of what a
\* number below the table becomes, nothing is said (see IsDocumented).
OutputIsMapped ==
    /\ Len(out) <= Len(Numbers)
    /\ \A k \in DOMAIN out :
           IF out[k].format = "uint8" THEN IsByteFor(Numbers[k], out[k].value[1])
           ELSE IsDocumented(Numbers[k], out[k].value)
=============================================================================
