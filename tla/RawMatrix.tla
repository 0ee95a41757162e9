----------------------------- MODULE RawMatrix ------------------------------
(***************************************************************************)
(* The program rawmatrix (src/src/rawmatrix.c, with the list of elements   *)
(* of src/lib/parselts.c): the options, which depend on one another's      *)
(* order, and the loop that multiplies vector after vector by the matrix.  *)
(*                                                                         *)
(* An argument is [elts, end, file]: read as a matrix it is the numbers    *)
(* elts, then the end of the string ("nul") or something else ("junk");    *)
(* read as a name it is the stream file.  Numbers are integers.  argp      *)
(* hands over all of the options, wherever they are, and then the other    *)
(* arguments, of which the first is the matrix if there is none yet.       *)
(***************************************************************************)
EXTENDS Integers, Sequences, SequencesExt

CONSTANTS
    Streams,    \* the open inputs (FILE objects)
    StdIn,      \* the stream that every "-" argument stands for
    NoFile,     \* what a name that cannot be opened stands for
    Data,       \* the numbers that each stream holds
    Commands,   \* [options, args] records
    MaxOut      \* bound: the numbers written by a run that does not end

ASSUME DataAssumption ==
    /\ StdIn \in Streams /\ NoFile \notin Streams
    /\ Data \in [Streams -> Seq(Int)]

\* An argument of the command line, and of -m.
Arguments == [elts : Seq(Int), end : {"nul", "junk"}, file : Streams \cup {NoFile}]

ASSUME CommandsAssumption ==
    \A c \in Commands :
        /\ c.args \in Seq(Arguments)
        /\ Len(c.options) \in Nat /\ DOMAIN c.options = 1..Len(c.options)
        /\ \A k \in DOMAIN c.options :
               /\ c.options[k].key = "s" => c.options[k].arg \in Int
               /\ c.options[k].key = "m" => c.options[k].arg \in Arguments

VARIABLES
    options, args,  \* the command line
    next,           \* index of the next option, and then of the arguments
    trailing_1_p,   \* --trailing-1 has been given
    vector_size,    \* the argument of -s, or 0
    rows, columns, values,  \* the matrix
    matrix_read_p,  \* and whether there is one
    output_file,    \* -o has been given, or the default set
    input_files,    \* the inputs; those left to read
    pos,            \* the numbers taken from each input
    i_buf,          \* the vector read
    out,            \* the numbers fwrite has accepted
    sent,           \* how many of them stdio has passed on
    no_memory,      \* history: memory has run out
    lost,           \* history: the last flush has failed
    at              \* where the program is, or how it ended

commandLine == <<options, args>>
flags       == <<trailing_1_p, vector_size>>
matrix      == <<rows, columns, values, matrix_read_p>>
output      == <<out, sent, lost>>
vars == <<commandLine, next, flags, matrix, output_file, input_files, pos, i_buf, output,
          no_memory, at>>

Exits == {"ok", "usage", "assertion", "crash", "open_error", "read_error", "write_error",
          "killed"}

Init ==
    /\ \E c \in Commands : options = c.options /\ args = c.args
    /\ next = 1 /\ trailing_1_p = FALSE /\ vector_size = 0
    /\ rows = 0 /\ columns = 0 /\ values = << >> /\ matrix_read_p = FALSE
    /\ output_file = FALSE /\ input_files = << >>
    /\ pos = [s \in Streams |-> 0] /\ i_buf = << >>
    /\ out = << >> /\ sent = 0 /\ lost = FALSE
    /\ no_memory = FALSE
    /\ at = "options"

-----------------------------------------------------------------------------
(* The options.                                                            *)

option == options[next]
IsNext(key) == at = "options" /\ next <= Len(options) /\ option.key = key
NextOption  == next' = next + 1 /\ UNCHANGED at

SetTrailing1 ==
    /\ IsNext("trailing-1")
    /\ trailing_1_p' = TRUE
    /\ NextOption
    /\ UNCHANGED <<commandLine, vector_size, matrix, output_file, input_files, pos, i_buf,
                   output, no_memory>>

\* The argument is what p_arg_long makes of it, 0 for what is not a number.
SetVectorSize ==
    /\ IsNext("s")
    /\ IF option.arg < 1
         THEN at' = "usage" /\ UNCHANGED <<next, vector_size>>
         ELSE vector_size' = option.arg /\ NextOption
    /\ UNCHANGED <<commandLine, trailing_1_p, matrix, output_file, input_files, pos, i_buf,
                   output, no_memory>>

SetOutput ==
    /\ IsNext("o")
    /\ output_file' = TRUE
    /\ NextOption
    /\ UNCHANGED <<commandLine, flags, matrix, input_files, pos, i_buf, output, no_memory>>

-----------------------------------------------------------------------------
(* The matrix.                                                             *)

Root(n) == CHOOSE k \in 0..n : k * k <= n /\ n < (k + 1) * (k + 1)

\* The columns of a matrix of n elements, after the options so far.
Columns(n) == (IF vector_size > 0 THEN vector_size ELSE Root(n)) + (IF trailing_1_p THEN 1 ELSE 0)

Fits_AnySquare(n) == vector_size > 0 => n % Columns(n) = 0   \* mutant: the root is not checked

\* M x M elements, or M x (M + 1) with the trailing one.
Fits(n) ==
    /\ vector_size > 0 => n % Columns(n) = 0
    /\ n = (IF trailing_1_p THEN Columns(n) - 1 ELSE Columns(n)) * Columns(n)

\* What is made of a list that was read to its end.
Shape(elts) ==
    LET n == Len(elts)
    IN  \/ n = 0 /\ at' = "assertion" /\ UNCHANGED <<next, matrix>>
        \/ n > 0 /\ ~Fits(n) /\ at' = "usage" /\ UNCHANGED <<next, matrix>>
        \/ /\ n > 0 /\ Fits(n)
           /\ values' = elts /\ columns' = Columns(n) /\ rows' = n \div Columns(n)
           /\ matrix_read_p' = TRUE
           /\ NextOption

\* ensure_enough_space makes the array longer when it holds 0, 3, 7, 15...
GrowsAt(n) == n = 0 \/ \E k \in 2..(n + 1) : n + 1 = 2^k

\* parse_elts_delim: the elements it has stored, and where the tail is set to.
\* It is not set at all when there is no memory for an element.
parse_elts_delim(arg) ==
    {[elts |-> arg.elts, tail |-> IF arg.elts = << >> THEN "start" ELSE arg.end]} \cup
    {[elts |-> SubSeq(arg.elts, 1, n), tail |-> "unset"] :
        n \in {k \in 0..(Len(arg.elts) - 1) : GrowsAt(k)}}

\* load_matrix_csv looks at the tail and at nothing else: what one that was
\* not set points to, if to anything, may be the end of a string or not.
LoadMatrix(arg) ==
    \E list \in parse_elts_delim(arg) :
        /\ no_memory' = (no_memory \/ list.tail = "unset")
        /\ \/ list.tail # "nul" /\ at' = "usage" /\ UNCHANGED <<next, matrix>>
           \/ list.tail = "unset" /\ at' = "crash" /\ UNCHANGED <<next, matrix>>
           \/ list.tail \in {"nul", "unset"} /\ Shape(list.elts)

ReadMatrix ==
    /\ IsNext("m")
    /\ LoadMatrix(option.arg)
    /\ UNCHANGED <<commandLine, flags, output_file, input_files, pos, i_buf, output>>

-----------------------------------------------------------------------------
(* The other arguments, and the end of the command line.                   *)

argument == SubSeq(args, next - Len(options), Len(args))
OptionsRead == at = "options" /\ next > Len(options)

\* ARGP_KEY_ARG.
ReadMatrixArgument ==
    /\ OptionsRead /\ ~matrix_read_p /\ argument # << >>
    /\ LoadMatrix(Head(argument))
    /\ UNCHANGED <<commandLine, flags, output_file, input_files, pos, i_buf, output>>

NoMatrix ==
    /\ OptionsRead /\ ~matrix_read_p /\ argument = << >>
    /\ at' = "usage"
    /\ UNCHANGED <<commandLine, next, flags, matrix, output_file, input_files, pos, i_buf,
                   output, no_memory>>

\* ARGP_KEY_ARGS and ARGP_KEY_END.  When the names cannot be stored
\* argp_parse stops, and main, which does not look at its result, goes on;
\* without memory for the formats an assertion fails.
StoreFiles ==
    /\ OptionsRead /\ matrix_read_p
    /\ \/ /\ input_files' = (IF argument = << >> THEN <<StdIn>>
                             ELSE [i \in DOMAIN argument |-> argument[i].file])
          /\ output_file' = TRUE
          /\ \/ at' = "main" /\ UNCHANGED no_memory
             \/ at' = "assertion" /\ no_memory' = TRUE
       \/ /\ at' = "main" /\ no_memory' = TRUE
          /\ UNCHANGED <<input_files, output_file>>
    /\ UNCHANGED <<commandLine, next, flags, matrix, pos, i_buf, output>>

-----------------------------------------------------------------------------
(* main and apply_matrix.                                                  *)

\* exit flushes what stdio holds; nobody sees it fail.
Flush ==
    \/ sent' = Len(out') /\ UNCHANGED lost
    \/ sent' \in sent..(Len(out') - 1) /\ lost' = TRUE

\* A name that was never set cannot be opened.
OpenOutput ==
    /\ at = "main"
    /\ \/ output_file /\ at' = "files"
       \/ at' = "open_error"
    /\ UNCHANGED <<commandLine, next, flags, matrix, output_file, input_files, pos, i_buf,
                   output, no_memory>>

OpenInput ==
    /\ at = "files" /\ input_files # << >>
    /\ \/ Head(input_files) # NoFile /\ at' = "read" /\ UNCHANGED output
       \/ at' = "open_error" /\ UNCHANGED out /\ Flush
    /\ UNCHANGED <<commandLine, next, flags, matrix, output_file, input_files, pos, i_buf,
                   no_memory>>

in        == Head(input_files)
available == Len(Data[in]) - pos[in]
in_sz     == columns - (IF trailing_1_p THEN 1 ELSE 0)

\* fread has taken n numbers.
Take(n) ==
    /\ pos' = [pos EXCEPT ![in] = @ + n]
    /\ UNCHANGED <<commandLine, next, flags, matrix, output_file, no_memory>>

ReadVector_KeepsLast ==   \* mutant: the element after the vector is as it was
    /\ at = "read" /\ available >= in_sz
    /\ i_buf' = SubSeq(Data[in], pos[in] + 1, pos[in] + in_sz)
                    \o (IF ~trailing_1_p THEN << >>
                        ELSE IF i_buf = << >> THEN <<0>> ELSE <<Last(i_buf)>>)
    /\ at' = "write"
    /\ Take(in_sz) /\ UNCHANGED <<input_files, output>>

\* A vector of no elements can always be read.
ReadVector ==
    /\ at = "read" /\ available >= in_sz
    /\ i_buf' = SubSeq(Data[in], pos[in] + 1, pos[in] + in_sz)
                    \o (IF trailing_1_p THEN <<1>> ELSE << >>)
    /\ at' = "write"
    /\ Take(in_sz) /\ UNCHANGED <<input_files, output>>

ReadEnd_Again ==   \* mutant: np is not moved on
    /\ at = "read" /\ available < in_sz
    /\ at' = "files"
    /\ Take(available) /\ UNCHANGED <<i_buf, input_files, output>>

\* The end of the file; what is left of a vector there is dropped.
ReadEnd ==
    /\ at = "read" /\ available < in_sz
    /\ input_files' = Tail(input_files)
    /\ at' = "files"
    /\ Take(available) /\ UNCHANGED <<i_buf, output>>

ReadError ==
    /\ at = "read"
    /\ \E n \in 0..(in_sz - 1) : n <= available /\ Take(n)
    /\ at' = "read_error"
    /\ UNCHANGED out /\ Flush
    /\ UNCHANGED <<i_buf, input_files>>

Sum(s) == FoldLeft(LAMBDA x, y : x + y, 0, s)

scalar_product(a, b) == Sum([k \in DOMAIN a |-> a[k] * b[k]])

RowOf(i) == SubSeq(values, (i - 1) * columns + 1, i * columns)

matrix_by_vector == [i \in 1..rows |-> scalar_product(RowOf(i), i_buf)]

\* stdio passes on what it has whenever its buffer is full.
WriteVector ==
    /\ at = "write" /\ Len(out) < MaxOut
    /\ out' = out \o matrix_by_vector
    /\ sent' \in {sent, Len(out')}
    /\ at' = "read"
    /\ UNCHANGED <<commandLine, next, flags, matrix, output_file, input_files, pos, i_buf,
                   no_memory, lost>>

\* An fwrite that fails may have accepted some of the vector.
WriteError ==
    /\ at = "write"
    /\ \E n \in 0..(rows - 1) : out' = out \o SubSeq(matrix_by_vector, 1, n)
    /\ Flush
    /\ at' = "write_error"
    /\ UNCHANGED <<commandLine, next, flags, matrix, output_file, input_files, pos, i_buf,
                   no_memory>>

Finish ==
    /\ at = "files" /\ input_files = << >>
    /\ UNCHANGED out /\ Flush
    /\ at' = "ok"
    /\ UNCHANGED <<commandLine, next, flags, matrix, output_file, input_files, pos, i_buf,
                   no_memory>>

\* The program has ended; nothing happens any more.
Ended == at \in Exits /\ UNCHANGED vars

\* The bound has been reached by a run without an end.
AtBound == at = "write" /\ Len(out) >= MaxOut /\ UNCHANGED vars

Options  == SetTrailing1 \/ SetVectorSize \/ SetOutput \/ ReadMatrix \/ ReadMatrixArgument
                \/ NoMatrix \/ StoreFiles
Applying == OpenOutput \/ OpenInput \/ ReadVector \/ ReadEnd \/ ReadError
                \/ WriteVector \/ WriteError \/ Finish
Next     == Options \/ Applying \/ Ended \/ AtBound

Spec == Init /\ [][Next]_vars /\ WF_vars(Next)

-----------------------------------------------------------------------------
(* Properties.                                                             *)

\* The state is well formed: the product reads no more than the matrix and
\* the vector hold (rawmatrix.c:168-181, 241-253), and no input is read past
\* its end.
TypeOK ==
    /\ next \in 1..(Len(options) + Len(args) + 1)
    /\ trailing_1_p \in BOOLEAN /\ vector_size \in Nat /\ matrix_read_p \in BOOLEAN
    /\ values \in Seq(Int) /\ rows * columns = Len(values)
    /\ output_file \in BOOLEAN
    /\ input_files \in Seq(Streams \cup {NoFile})
    /\ pos \in [Streams -> Nat] /\ \A s \in Streams : pos[s] <= Len(Data[s])
    /\ i_buf \in Seq(Int) /\ (at = "write" => Len(i_buf) = columns)
    /\ out \in Seq(Int) /\ sent \in 0..Len(out)
    /\ no_memory \in BOOLEAN /\ lost \in BOOLEAN
    /\ at \in {"options", "main", "files", "read", "write"} \cup Exits

Applied == matrix_read_p /\ at \in {"files", "read", "write", "ok", "read_error", "write_error"}

\* What the command line says: the last -m, or else the first argument, and
\* whether --trailing-1 and what -s came before it.
Matrices == {k \in DOMAIN options : options[k].key = "m"}
LastMatrix == CHOOSE k \in Matrices : \A j \in Matrices : j <= k
GivenMatrix == IF Matrices = {} THEN Head(args).elts ELSE options[LastMatrix].arg.elts
Before(key) ==
    {k \in DOMAIN options :
        options[k].key = key /\ (Matrices = {} \/ k < LastMatrix)}
GivenFiles ==
    LET names == IF Matrices = {} THEN Tail(args) ELSE args
    IN  IF names = << >> THEN <<StdIn>> ELSE [i \in DOMAIN names |-> names[i].file]

\* What is applied is the last list that was given, whole; only without
\* memory is it the beginning of that list.  It has the columns that -s asked
\* for, else as many as rows, and one more with --trailing-1, counting only
\* the options before it (doc/rawtools.texi:128-133; rawmatrix.c:202-212,
\* 408-449).  That with -s, too, the code takes no list but a square one is
\* not part of it: the manual does not say so, nor does the message of
\* rawmatrix.c:427.
MatrixIsAsGiven ==
    LET extra == IF Before("trailing-1") = {} THEN 0 ELSE 1
        LastSize == CHOOSE k \in Before("s") : \A j \in Before("s") : j <= k
    IN  Applied =>
            /\ rows * columns = Len(values)
            /\ columns = extra + (IF Before("s") = {} THEN rows ELSE options[LastSize].arg)
            /\ IF no_memory THEN IsPrefix(values, GivenMatrix) ELSE values = GivenMatrix

\* The whole vectors of each of the files, in order; no vector is made of
\* the ends of two files, and an input that is given again is at its end.
Vectors ==
    LET names  == GivenFiles
        VectorsOf(s) == [k \in 1..(Len(Data[s]) \div in_sz) |->
                            SubSeq(Data[s], (k - 1) * in_sz + 1, k * in_sz)]
    IN  FlattenSeq([i \in DOMAIN names |->
            IF names[i] = NoFile \/ \E j \in 1..(i - 1) : names[j] = names[i]
              THEN << >> ELSE VectorsOf(names[i])])

\* The i-th coordinate of what the matrix makes of v: a linear map, or an
\* affine one with the last column for its constant.
Image(i, v) ==
    LET coef == [j \in 1..columns |-> values[(i - 1) * columns + j]]
    IN  Sum([j \in 1..Len(v) |-> coef[j] * v[j]]) + (IF trailing_1_p THEN coef[columns] ELSE 0)

\* Each number written is the coordinate that belongs there, across vectors
\* and files, and a success means that every whole vector has been mapped
\* and, the last flush apart, passed on; only when memory ran out in the
\* command line are they left out (rawmatrix.c:225-271, 487-497, 540-570).
OutputIsProduct ==
    Applied /\ in_sz > 0 =>
        /\ Len(out) <= rows * Len(Vectors)
        /\ \A k \in DOMAIN out :
               out[k] = Image(((k - 1) % rows) + 1, Vectors[((k - 1) \div rows) + 1])
        /\ at = "ok" =>
               /\ sent = Len(out) \/ lost
               /\ Len(out) = rows * Len(Vectors) \/ (no_memory /\ out = << >>)
=============================================================================
