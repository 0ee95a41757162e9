---------------------------- MODULE Deinterleave ----------------------------
(***************************************************************************)
(* rawilv in de-interleave mode (src/src/rawilv.c, --input): the blocks of *)
(* one input are dealt to the outputs in turn, through a buffer for each   *)
(* output.  The module starts where the files are open and the buffers     *)
(* allocated.                                                              *)
(*                                                                         *)
(* A byte is its offset in the input.                                      *)
(***************************************************************************)
EXTENDS Naturals, FiniteSets, Sequences, SequencesExt

CONSTANTS
    BUF_SZ,     \* capacity of each output's buffer, in bytes
    Streams,    \* the open output streams (FILE objects)
    StdOut,     \* the stream that every "-" argument stands for
    Commands,   \* what the option parser hands over: [noas, sizes] records
    Lengths     \* the lengths the input may have

ASSUME BufferAssumption == BUF_SZ \in Nat \ {0}

ASSUME StreamsAssumption == StdOut \in Streams /\ Lengths \subseteq Nat

\* Every file name is opened anew, so that only "-" gives a stream twice.
ASSUME CommandsAssumption ==
    \A c \in Commands :
        /\ c.noas \in Seq(Streams) /\ Len(c.noas) > 0
        /\ c.sizes \in Seq(Nat \ {0}) /\ Len(c.sizes) = Len(c.noas)
        /\ \A i, j \in 1..Len(c.noas) :
               i # j /\ c.noas[i] = c.noas[j] => c.noas[i] = StdOut

VARIABLES
    noas,       \* the outputs, one per file argument
    sizes,      \* their block sizes
    len,        \* the bytes the input holds
    pos,        \* the bytes fread has taken from the input
    fp,         \* the current output (fp, sp, bp, bp0, np, rest_files
                \* move together)
    rest_bytes, \* bytes left in the current block
    bufs,       \* the buffered bytes of each output (from *bp0 up to *bp)
    outs,       \* the bytes fwrite has accepted on each stream
    pc          \* where the program is, or how it ended

inputs == <<noas, sizes, len>>
vars   == <<inputs, pos, fp, rest_bytes, bufs, outs, pc>>

Slots == 1..Len(noas)
Exits == {"ok", "mid_block", "between_files", "read_error", "write_error"}

Init ==
    /\ \E c \in Commands : noas = c.noas /\ sizes = c.sizes
    /\ len \in Lengths /\ pos = 0
    /\ fp = 1 /\ rest_bytes = sizes[1]
    /\ bufs = [i \in Slots |-> << >>] /\ outs = [s \in Streams |-> << >>]
    /\ pc = "advance"

-----------------------------------------------------------------------------
(* The head of the loop: whose block the next bytes belong to.             *)

StayInBlock ==
    /\ pc = "advance" /\ rest_bytes > 0
    /\ pc' = "read"
    /\ UNCHANGED <<inputs, pos, fp, rest_bytes, bufs, outs>>

StartBlock(i) ==
    /\ fp' = i /\ rest_bytes' = sizes[i]
    /\ pc' = "read"
    /\ UNCHANGED <<inputs, pos, bufs, outs>>

NextFile ==
    /\ pc = "advance" /\ rest_bytes = 0 /\ fp < Len(noas)
    /\ StartBlock(fp + 1)

WrapAround_OldSize ==   \* mutant: sp is not set back to the first size
    /\ pc = "advance" /\ rest_bytes = 0 /\ fp = Len(noas)
    /\ fp' = 1 /\ rest_bytes' = sizes[fp]
    /\ pc' = "read"
    /\ UNCHANGED <<inputs, pos, bufs, outs>>

WrapAround ==
    /\ pc = "advance" /\ rest_bytes = 0 /\ fp = Len(noas)
    /\ StartBlock(1)

-----------------------------------------------------------------------------
(* The body of the loop: one fread, and an fwrite when a buffer is full.   *)

available == len - pos
space     == BUF_SZ - Len(bufs[fp])
to_read_Unbounded == rest_bytes   \* mutant: the buffer's space is ignored
to_read   == IF rest_bytes <= space THEN rest_bytes ELSE space

\* fread puts the next rv bytes of the input in the current output's buffer.
TakeBytes(rv) ==
    /\ bufs' = [bufs EXCEPT ![fp] = @ \o [j \in 1..rv |-> pos + j]]
    /\ pos' = pos + rv
    /\ rest_bytes' = rest_bytes - rv
    /\ UNCHANGED <<inputs, outs>>

ReadFull ==
    /\ pc = "read" /\ available >= to_read
    /\ TakeBytes(to_read)
    /\ pc' = IF to_read < space THEN "advance" ELSE "flush"
    /\ UNCHANGED fp

\* A reading error: fewer bytes than asked for, and no end of file.
ReadError ==
    /\ pc = "read"
    /\ \E rv \in 0..(to_read - 1) : rv <= available /\ TakeBytes(rv)
    /\ pc' = "read_error"
    /\ UNCHANGED fp

ReadEof_NoCheck ==   \* mutant: what was read last is not looked at
    /\ pc = "read" /\ available < to_read
    /\ TakeBytes(available)
    /\ pc' = "drain" /\ fp' = 1

\* The end of the input.  It is an error only if this very fread has
\* returned something; the buffers are then dropped.
ReadEof ==
    /\ pc = "read" /\ available < to_read
    /\ TakeBytes(available)
    /\ pc' = CASE available # 0 /\ rest_bytes > available -> "mid_block"
               [] available # 0 /\ rest_bytes = available /\ fp < Len(noas)
                      -> "between_files"
               [] OTHER -> "drain"
    /\ fp' = IF pc' = "drain" THEN 1 ELSE fp

Write_KeepsBuffer(next) ==   \* mutant: *bp is not set back to *bp0
    /\ outs' = [outs EXCEPT ![noas[fp]] = @ \o bufs[fp]]
    /\ pc' = next
    /\ UNCHANGED <<inputs, pos, rest_bytes, bufs>>

\* The current output is given its buffer, and the buffer is empty again.
Write(next) ==
    /\ outs' = [outs EXCEPT ![noas[fp]] = @ \o bufs[fp]]
    /\ bufs' = [bufs EXCEPT ![fp] = << >>]
    /\ pc' = next
    /\ UNCHANGED <<inputs, pos, rest_bytes>>

FlushOk ==
    /\ pc = "flush"
    /\ Write("advance")
    /\ UNCHANGED fp

\* After the loop every output in turn is given what its buffer holds.
DrainOk ==
    /\ pc = "drain"
    /\ Write(IF fp < Len(noas) THEN "drain" ELSE "ok")
    /\ fp' = IF fp < Len(noas) THEN fp + 1 ELSE fp

\* fwrite may have taken some of the bytes when it fails; the outputs that
\* have not had their turn get nothing.
WriteFail ==
    /\ pc \in {"flush", "drain"}
    /\ \E k \in 0..(Len(bufs[fp]) - 1) :
           outs' = [outs EXCEPT ![noas[fp]] = @ \o SubSeq(bufs[fp], 1, k)]
    /\ pc' = "write_error"
    /\ UNCHANGED <<inputs, pos, fp, rest_bytes, bufs>>

\* The program has ended; nothing happens any more.
Ended == pc \in Exits /\ UNCHANGED vars

Advance == StayInBlock \/ NextFile \/ WrapAround
Read    == ReadFull \/ ReadError \/ ReadEof
Next    == Advance \/ Read \/ FlushOk \/ DrainOk \/ WriteFail \/ Ended

\* One sequential thread over a finite input: while a step can be taken, one
\* is.
Spec == Init /\ [][Next]_vars /\ WF_vars(Next)

-----------------------------------------------------------------------------
(* Properties.                                                             *)

\* The state is well formed: nothing is read past the end of the input, no
\* buffer overflows (rawilv.c:482) and no pointer leaves its array.
TypeOK ==
    /\ noas \in Seq(Streams) /\ Len(noas) > 0
    /\ sizes \in Seq(Nat \ {0}) /\ Len(sizes) = Len(noas)
    /\ len \in Nat /\ pos \in 0..len
    /\ fp \in Slots
    /\ rest_bytes \in Nat
    /\ bufs \in [Slots -> Seq(Nat \ {0})] /\ \A i \in Slots : Len(bufs[i]) <= BUF_SZ
    /\ outs \in [Streams -> Seq(Nat \ {0})]
    /\ pc \in {"advance", "read", "flush", "drain"} \cup Exits

\* assert (to_read > 0), rawilv.c:484: the buffer of the output whose turn
\* it is always has room, though the others may have been left nearly full.
AssertionHolds == pc = "read" => to_read > 0

\* Every argument is a stream of its own: "-" is given at most once.
Distinct == \A i, j \in Slots : noas[i] = noas[j] => i = j

\* The outputs of one round, byte by byte, and the output that byte k of the
\* input belongs to.
Round    == FlattenSeq([i \in Slots |-> [k \in 1..sizes[i] |-> i]])
Owner(k) == Round[((k - 1) % Len(Round)) + 1]
Share(i) == {k \in 1..pos : Owner(k) = i}

\* s holds the bytes of S, each once and in the input's order.
Lists(s, S) ==
    /\ ToSet(s) = S
    /\ \A i, j \in DOMAIN s : i < j => s[i] < s[j]

\* Each output is given just its own blocks, whole and in order, whatever the
\* block sizes are relative to the buffers: its share of the bytes read is
\* on it or in its buffer, and all of it is on it when the program reports
\* success (rawilv.c:467-511, 514-525).
DealtInTurn ==
    Distinct =>
        /\ pc # "write_error" =>
               \A i \in Slots : Lists(outs[noas[i]] \o bufs[i], Share(i))
        /\ pc = "ok" => \A i \in Slots : Lists(outs[noas[i]], Share(i))

\* The program complains of the middle of a block only if the input does end
\* in one (rawilv.c:492), and takes such an end for a success only if the
\* bytes of the unfinished output just fill its buffers (rawilv.c:499).
TornOnlyAtFullBuffer ==
    LET cut  == len % Len(Round)    \* bytes of the unfinished round
        torn == /\ cut # 0 /\ Round[cut] = Round[cut + 1]
    IN  /\ pc = "mid_block" => torn
        /\ pc = "ok" /\ torn => Cardinality(Share(Round[cut])) % BUF_SZ = 0
=============================================================================
