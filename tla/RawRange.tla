------------------------------ MODULE RawRange ------------------------------
(***************************************************************************)
(* The program rawrange (src/src/rawrange.c and lib/numrange.c): the least *)
(* and the greatest number of its inputs, found block by block.            *)
(*                                                                         *)
(* Standard input is what its writer has written so far (piped); fread     *)
(* waits for a whole block or for the writer to be gone (closed).  The     *)
(* numbers of an input are those that the format makes of its bytes; an    *)
(* argument of -t is the set of the formats it is a beginning of.          *)
(***************************************************************************)
EXTENDS Integers, FiniteSets, Sequences, SequencesExt

CONSTANTS
    NaN,
    BUF_SZ,     \* bytes in a block
    Size,       \* the size of a number of each format
    Streams,    \* the open inputs (FILE objects)
    StdIn,      \* the stream that every "-" argument stands for
    NoFile,     \* what a name that cannot be opened stands for
    Data,       \* the numbers that each input but StdIn holds
    Commands,   \* [options, files] records
    Noise       \* what memory that was never set may be read as

VARIABLES
    piped, closed,  \* standard input; the environment's
    options, args,  \* the command line
    next,           \* index of the next option
    format,
    files,          \* the inputs; those left to read
    pos, feof,      \* of each of the streams
    has_range_p,
    min, max,       \* of no meaning until has_range_p
    printed,        \* the line of output, << >> before it
    no_memory,      \* history: memory has run out
    io_error,       \* history: an error has ended the reading of an input
    at              \* where the program is, or how it ended

commandLine == <<options, args>>
stream      == <<pos, feof, io_error>>
range       == <<has_range_p, min, max>>
vars == <<commandLine, next, format, files, stream, range, printed, no_memory, at>>

Exits == {"ok", "usage", "open_error"}

Init ==
    /\ \E c \in Commands : options = c.options /\ args = c.files
    /\ next = 1 /\ format = "uint8" /\ files = << >>
    /\ pos = [s \in Streams |-> 0] /\ feof = [s \in Streams |-> FALSE]
    /\ has_range_p = FALSE /\ min = 0 /\ max = 0
    /\ printed = << >>
    /\ no_memory = FALSE /\ io_error = FALSE
    /\ at = "options"

\* A beginning of more than one name is refused, as is one of none.
p_arg_string(names) == IF Cardinality(names) = 1 THEN names ELSE {}

SetFormat ==
    LET found == p_arg_string(options[next])
    IN  /\ at = "options" /\ next <= Len(options)
        /\ \/ format' \in found /\ next' = next + 1 /\ UNCHANGED at
           \/ found = {} /\ at' = "usage" /\ UNCHANGED <<next, format>>
        /\ UNCHANGED <<commandLine, files, stream, range, printed, no_memory>>

\* When the names cannot be stored argp_parse stops, and main goes on.
StoreFiles ==
    /\ at = "options" /\ next > Len(options)
    /\ \/ files' = (IF args = << >> THEN <<StdIn>> ELSE args) /\ UNCHANGED no_memory
       \/ no_memory' = TRUE /\ UNCHANGED files
    /\ at' = "files"
    /\ UNCHANGED <<commandLine, next, format, stream, range, printed>>

OpenInput ==
    /\ at = "files" /\ files # << >>
    /\ \/ Head(files) # NoFile /\ at' = "read"
       \/ at' = "open_error"
    /\ UNCHANGED <<commandLine, next, format, files, stream, range, printed, no_memory>>

fp        == Head(files)
buf_elts  == BUF_SZ \div Size[format]
contents  == IF fp = StdIn THEN piped ELSE Data[fp]
available == Len(contents) - pos[fp]
complete_Empty == TRUE   \* mutant: a pipe that is empty is taken for its end
complete  == fp = StdIn => closed   \* nothing will be added to it

Less(x, y) == x # NaN /\ y # NaN /\ x < y

\* nrange_extend_*: of a sequence, its first number included, or not.
Extended(lo, hi, vec) ==
    FoldLeft(LAMBDA r, x : <<IF Less(x, r[1]) THEN x ELSE r[1], IF Less(r[2], x) THEN x ELSE r[2]>>,
             <<lo, hi>>, vec)

Extend_EachBlock(block) ==   \* mutant: has_range_p is not looked at
    LET r == Extended(Head(block), Head(block), Tail(block))
    IN  min' = r[1] /\ max' = r[2] /\ has_range_p' = TRUE

\* The first number of all is both ends of the range.
Extend(block) ==
    LET r == IF has_range_p THEN Extended(min, max, block)
                            ELSE Extended(Head(block), Head(block), Tail(block))
    IN  min' = r[1] /\ max' = r[2] /\ has_range_p' = TRUE

\* fread has returned n numbers; fewer than asked for after an error or at
\* the end of the file.
ReadBlock ==
    /\ at = "read" /\ ~feof[fp]
    /\ \E n \in 1..buf_elts :
        /\ n <= available
        /\ Extend(SubSeq(contents, pos[fp] + 1, pos[fp] + n))
        /\ pos' = [pos EXCEPT ![fp] = @ + n]
        /\ \/ n = buf_elts /\ UNCHANGED feof
           \/ n < buf_elts /\ n = available /\ complete /\ feof' = [feof EXCEPT ![fp] = TRUE]
           \/ n < buf_elts /\ UNCHANGED feof
    /\ UNCHANGED <<commandLine, next, format, files, io_error, printed, no_memory, at>>

\* The end of the file, seen by an earlier fread or by this one, or an error
\* that leaves nothing read.
EndInput ==
    /\ at = "read"
    /\ \/ feof[fp] /\ UNCHANGED <<feof, io_error>>
       \/ ~feof[fp] /\ available = 0 /\ complete
              /\ feof' = [feof EXCEPT ![fp] = TRUE] /\ UNCHANGED io_error
       \/ ~feof[fp] /\ io_error' = TRUE /\ UNCHANGED feof
    /\ files' = Tail(files)
    /\ at' = "files"
    /\ UNCHANGED <<commandLine, next, format, pos, range, printed, no_memory>>

\* Without a single number what is printed was never set.
PrintRange ==
    /\ at = "files" /\ files = << >>
    /\ \/ has_range_p /\ printed' = <<min, max>>
       \/ ~has_range_p /\ printed' \in Noise \X Noise
    /\ at' = "ok"
    /\ UNCHANGED <<commandLine, next, format, files, stream, range, no_memory>>

\* The program has ended; nothing happens any more.
Ended == at \in Exits /\ UNCHANGED vars

Next == SetFormat \/ StoreFiles \/ OpenInput \/ ReadBlock \/ EndInput \/ PrintRange \/ Ended

-----------------------------------------------------------------------------
(* Properties.                                                             *)

\* The state is well formed; no input is read past its end.
TypeOK ==
    /\ next \in 1..(Len(options) + 1)
    /\ format \in DOMAIN Size
    /\ files \in Seq(Streams \cup {NoFile})
    /\ pos \in [Streams -> Nat] /\ feof \in [Streams -> BOOLEAN]
    /\ \A s \in Streams : pos[s] <= Len(IF s = StdIn THEN piped ELSE Data[s])
    /\ has_range_p \in BOOLEAN
    /\ {min, max} \subseteq Int \cup {NaN}
    /\ no_memory \in BOOLEAN /\ io_error \in BOOLEAN
    /\ at \in {"options", "files", "read"} \cup Exits

\* All of the numbers, file after file, standard input as it is now.
Numbers ==
    LET names == IF args = << >> THEN <<StdIn>> ELSE args
        Of(s) == IF s = StdIn THEN piped ELSE Data[s]
    IN  FlattenSeq([i \in DOMAIN names |->
            IF \E j \in 1..(i - 1) : names[j] = names[i] THEN << >> ELSE Of(names[i])])

\* What is printed is the range of all the numbers there are, across blocks
\* and files, numbers after a NaN included; a NaN that comes first stays
\* both of the ends.  Only an error that fread has no number to return with,
\* and the want of memory for the names, leave numbers out
\* (rawrange.c:247-279, numrange.c:25-42).
PrintsRange ==
    at = "ok" /\ ~io_error /\ ~no_memory /\ Numbers # << >> =>
        LET numbers == ToSet(Numbers) \ {NaN}
        IN  IF Head(Numbers) = NaN THEN printed = <<NaN, NaN>>
            ELSE /\ {printed[1], printed[2]} \subseteq numbers
                 /\ \A x \in numbers : printed[1] <= x /\ x <= printed[2]
=============================================================================
