------------------------------ MODULE Pipeline ------------------------------
(***************************************************************************)
(* "rawmatrix ... | rawrange ...": two programs of rawtools at work at the *)
(* same time, as they are meant to be used.  What stdio has passed on of   *)
(* the one's output is the other's standard input; the pipe is closed as   *)
(* the writer ends, and breaks when the reader does.  The room in a pipe   *)
(* is not modelled: a writer that waits for room is one that takes no step *)
(* for a while.                                                            *)
(***************************************************************************)
EXTENDS RawMatrix, FiniteSets

CONSTANTS NaN, BUF_SZ, Size, RangeStreams, RangeStdIn, RangeData, RangeCommands, Noise

\* A number of any format fits in a block of the reader; its inputs but the
\* pipe are files of numbers.
ASSUME FormatsAssumption ==
    /\ NaN \notin Int /\ BUF_SZ \in Nat
    /\ {"uint8", "double"} \subseteq DOMAIN Size
    /\ \A f \in DOMAIN Size : Size[f] \in 1..BUF_SZ

ASSUME RangeDataAssumption ==
    /\ RangeStdIn \in RangeStreams /\ NoFile \notin RangeStreams
    /\ RangeData \in [RangeStreams \ {RangeStdIn} -> Seq(Int \cup {NaN})]

\* Its options are arguments of -t.
ASSUME RangeCommandsAssumption ==
    \A c \in RangeCommands :
        /\ c.options \in Seq(SUBSET DOMAIN Size)
        /\ c.files \in Seq(RangeStreams \cup {NoFile})

VARIABLES
    r_options, r_args, r_next, format, r_files, r_pos, feof, has_range_p, min, max,
    printed, r_no_memory, io_error, r_at

r_vars == <<r_options, r_args, r_next, format, r_files, r_pos, feof, has_range_p, min, max,
            printed, r_no_memory, io_error, r_at>>

RR == INSTANCE RawRange WITH
    Streams <- RangeStreams, StdIn <- RangeStdIn, Data <- RangeData, Commands <- RangeCommands,
    piped <- SubSeq(out, 1, sent), closed <- at \in Exits,
    options <- r_options, args <- r_args, next <- r_next, files <- r_files, pos <- r_pos,
    no_memory <- r_no_memory, at <- r_at

PipelineInit == Init /\ RR!Init

\* Nothing is passed on when there is nobody to read it.
Write == Next /\ (r_at \in RR!Exits => sent' = sent) /\ UNCHANGED r_vars

Read == RR!Next /\ UNCHANGED vars

\* SIGPIPE: stdio passes on a full buffer, or the last one, to a reader that
\* has ended.
BrokenPipe ==
    /\ r_at \in RR!Exits /\ at \in {"files", "read", "write"}
    /\ sent < Len(out) \/ at = "write"
    /\ at' = "killed"
    /\ UNCHANGED <<commandLine, next, flags, matrix, output_file, input_files, pos, i_buf,
                   output, no_memory, r_vars>>

PipelineNext == Write \/ Read \/ BrokenPipe

\* The processes are scheduled independently; either goes on while it can.
PipelineSpec ==
    /\ PipelineInit /\ [][PipelineNext]_<<vars, r_vars>>
    /\ WF_<<vars, r_vars>>(Write \/ BrokenPipe) /\ WF_<<vars, r_vars>>(Read)

-----------------------------------------------------------------------------
(* Properties.                                                             *)

\* rawrange prints the range of what it has been given; see RawRange.
PrintsRange == RR!PrintsRange

\* The two together: if both end well, nothing was lost at the last flush
\* and no read failed, what is printed bounds every coordinate of every
\* vector, however reads and writes were interleaved; and the reader is
\* never ahead of the writer (rawmatrix.c:255-270, rawrange.c:261-279).
RangeOfProducts ==
    /\ r_pos[RangeStdIn] <= sent
    /\ /\ at = "ok" /\ r_at = "ok" /\ in_sz > 0 /\ r_args = <<RangeStdIn>>
       /\ ~lost /\ ~io_error /\ ~no_memory /\ ~r_no_memory
       => \A k \in DOMAIN Vectors : \A i \in 1..rows :
              Image(i, Vectors[k]) \in printed[1]..printed[2]

\* Both programs come to their end, the one after the other, unless the
\* vectors have no elements (rawmatrix.c:236, 246).
BothEnd == <>((at \in Exits /\ r_at \in RR!Exits) \/ (Applied /\ in_sz = 0))
=============================================================================
