----------------------------- MODULE Interleave -----------------------------
(***************************************************************************)
(* rawilv in interleave mode (src/src/rawilv.c): one block of every input  *)
(* in turn is copied, through one buffer, to one output.  The module       *)
(* starts where the command line has been parsed and every file has been   *)
(* opened, and ends with the program.                                      *)
(*                                                                         *)
(* A byte is the pair of the stream it came from and its offset there, so  *)
(* that a byte lost, repeated or out of order can be told.                 *)
(***************************************************************************)
EXTENDS Naturals, FiniteSets, Sequences, SequencesExt

CONSTANTS
    BUF_SZ,     \* capacity of the copy buffer, in bytes
    Streams,    \* the open input streams (FILE objects)
    StdIn,      \* the stream that every "-" argument stands for
    Commands,   \* what the option parser hands over: [noas, sizes] records
    Lengths     \* the lengths an input may have

ASSUME BufferAssumption == BUF_SZ \in Nat \ {0}

ASSUME StreamsAssumption == StdIn \in Streams /\ Lengths \subseteq Nat

\* Every file name is opened anew, so that only "-" gives a stream twice.
ASSUME CommandsAssumption ==
    \A c \in Commands :
        /\ c.noas \in Seq(Streams) /\ Len(c.noas) > 0
        /\ c.sizes \in Seq(Nat \ {0}) /\ Len(c.sizes) = Len(c.noas)
        /\ \A i, j \in 1..Len(c.noas) :
               i # j /\ c.noas[i] = c.noas[j] => c.noas[i] = StdIn

VARIABLES
    noas,       \* the inputs, one per file argument
    sizes,      \* their block sizes
    len,        \* the bytes each stream holds
    pos,        \* the bytes fread has taken from each stream
    feof,       \* the end-of-file indicator of each stream
    fp,         \* the current input (fp, sp, np, rest_files move together)
    rest_bytes, \* bytes left in the current block
    eof_p,      \* an input has ended: finish the round, start no other
    buf,        \* the buffered bytes (from buf up to bp)
    out,        \* the bytes fwrite has accepted
    pc          \* where the program is, or how it ended

inputs == <<noas, sizes, len>>
vars   == <<inputs, pos, feof, fp, rest_bytes, eof_p, buf, out, pc>>

Slots  == 1..Len(noas)
Byte   == Streams \X (Nat \ {0})
merged == out \o buf
Exits  == {"ok", "premature_eof", "mid_block", "read_error", "write_error"}

Init ==
    /\ \E c \in Commands : noas = c.noas /\ sizes = c.sizes
    /\ len \in [Streams -> Lengths]
    /\ pos = [s \in Streams |-> 0] /\ feof = [s \in Streams |-> FALSE]
    /\ fp = 1 /\ rest_bytes = sizes[1] /\ eof_p = FALSE
    /\ buf = << >> /\ out = << >>
    /\ pc = "advance"

-----------------------------------------------------------------------------
(* The head of the loop: which input the next bytes come from.             *)

StayInBlock ==
    /\ pc = "advance" /\ rest_bytes > 0
    /\ pc' = "read"
    /\ UNCHANGED <<inputs, pos, feof, fp, rest_bytes, eof_p, buf, out>>

StartBlock_StaleSize(i) ==   \* mutant: sp is left behind
    /\ fp' = i /\ rest_bytes' = sizes[fp]
    /\ pc' = "read"
    /\ UNCHANGED <<inputs, pos, feof, eof_p, buf, out>>

StartBlock(i) ==
    /\ fp' = i /\ rest_bytes' = sizes[i]
    /\ pc' = "read"
    /\ UNCHANGED <<inputs, pos, feof, eof_p, buf, out>>

NextFile ==
    /\ pc = "advance" /\ rest_bytes = 0 /\ fp < Len(noas)
    /\ StartBlock(fp + 1)

WrapAround ==
    /\ pc = "advance" /\ rest_bytes = 0 /\ fp = Len(noas) /\ ~eof_p
    /\ StartBlock(1)

LeaveLoop_AtOnce ==   \* mutant: the round is not finished
    /\ pc = "advance" /\ rest_bytes = 0 /\ eof_p
    /\ pc' = "drain"
    /\ UNCHANGED <<inputs, pos, feof, fp, rest_bytes, eof_p, buf, out>>

LeaveLoop ==
    /\ pc = "advance" /\ rest_bytes = 0 /\ fp = Len(noas) /\ eof_p
    /\ pc' = "drain"
    /\ UNCHANGED <<inputs, pos, feof, fp, rest_bytes, eof_p, buf, out>>

-----------------------------------------------------------------------------
(* The body of the loop: one fread, and an fwrite when the buffer is full. *)

file      == noas[fp]
available == len[file] - pos[file]
space     == BUF_SZ - Len(buf)
to_read_Unbounded == rest_bytes   \* mutant: the buffer's space is ignored
to_read   == IF rest_bytes <= space THEN rest_bytes ELSE space

\* fread puts the next rv bytes of the current input in the buffer.
TakeBytes(rv) ==
    /\ buf' = buf \o [j \in 1..rv |-> <<file, pos[file] + j>>]
    /\ pos' = [pos EXCEPT ![file] = @ + rv]
    /\ UNCHANGED <<inputs, fp, out>>

ReadFull ==
    /\ pc = "read" /\ available >= to_read
    /\ TakeBytes(to_read)
    /\ rest_bytes' = rest_bytes - to_read
    /\ pc' = IF to_read < space THEN "advance" ELSE "flush"
    /\ UNCHANGED <<feof, eof_p>>

\* A reading error: fewer bytes than asked for, and no end of file.
ReadError ==
    /\ pc = "read" /\ ~feof[file]
    /\ \E rv \in 0..(to_read - 1) :
           rv <= available /\ TakeBytes(rv) /\ rest_bytes' = rest_bytes - rv
    /\ pc' = "read_error"
    /\ UNCHANGED <<feof, eof_p>>

ReadEof_KeepsBlock ==   \* mutant: rest_bytes is not reset at the end
    /\ pc = "read" /\ available < to_read
    /\ TakeBytes(available)
    /\ feof' = [feof EXCEPT ![file] = TRUE]
    /\ rest_bytes' = rest_bytes - available
    /\ IF available # 0 /\ rest_bytes > available
         THEN pc' = "mid_block" /\ UNCHANGED eof_p
         ELSE pc' = "advance" /\ eof_p' = TRUE

\* The end of the file; it is one in the middle of a block only if this very
\* fread has returned a part of the block.
ReadEof ==
    /\ pc = "read" /\ available < to_read
    /\ TakeBytes(available)
    /\ feof' = [feof EXCEPT ![file] = TRUE]
    /\ IF available # 0 /\ rest_bytes > available
         THEN /\ rest_bytes' = rest_bytes - available
              /\ pc' = "mid_block" /\ UNCHANGED eof_p
         ELSE /\ rest_bytes' = 0
              /\ pc' = "advance" /\ eof_p' = TRUE

WriteOk_KeepsBuffer ==   \* mutant: bp is not set back to buf
    /\ pc \in {"flush", "drain"}
    /\ out' = merged
    /\ pc' = IF pc = "flush" THEN "advance" ELSE "check"
    /\ UNCHANGED <<inputs, pos, feof, fp, rest_bytes, eof_p, buf>>

WriteOk_NoDrain ==   \* mutant: what is left after the loop is not written
    /\ pc \in {"flush", "drain"}
    /\ out' = (IF pc = "flush" THEN merged ELSE out) /\ buf' = << >>
    /\ pc' = IF pc = "flush" THEN "advance" ELSE "check"
    /\ UNCHANGED <<inputs, pos, feof, fp, rest_bytes, eof_p>>

\* The full buffer, and after the loop what is left, goes to the output.
WriteOk ==
    /\ pc \in {"flush", "drain"}
    /\ out' = merged /\ buf' = << >>
    /\ pc' = IF pc = "flush" THEN "advance" ELSE "check"
    /\ UNCHANGED <<inputs, pos, feof, fp, rest_bytes, eof_p>>

\* fwrite may have taken some of the bytes when it fails.
WriteFail ==
    /\ pc \in {"flush", "drain"}
    /\ \E k \in 0..(Len(buf) - 1) : out' = out \o SubSeq(buf, 1, k)
    /\ pc' = "write_error"
    /\ UNCHANGED <<inputs, pos, feof, fp, rest_bytes, eof_p, buf>>

-----------------------------------------------------------------------------
(* After the loop and the last write: is every input at its end?           *)

NotAtEof_ButLast ==   \* mutant: the last input is not looked at
    {i \in Slots \ {Len(noas)} : ~feof[noas[i]]}

\* The inputs that are warned of as not being at EOF.
NotAtEof == {i \in Slots : ~feof[noas[i]]}

\* The input said to have "ended prematurely": the last one at EOF, if just
\* one is not.
Blamed == {i \in Slots \ NotAtEof :
              /\ Cardinality(NotAtEof) = 1
              /\ \A j \in Slots : j > i => j \in NotAtEof}

CheckInputs ==
    /\ pc = "check"
    /\ pc' = IF NotAtEof = {} THEN "ok" ELSE "premature_eof"
    /\ UNCHANGED <<inputs, pos, feof, fp, rest_bytes, eof_p, buf, out>>

\* The program has ended; nothing happens any more.
Ended == pc \in Exits /\ UNCHANGED vars

Advance == StayInBlock \/ NextFile \/ WrapAround \/ LeaveLoop
Read    == ReadFull \/ ReadError \/ ReadEof
Write   == WriteOk \/ WriteFail
Next    == Advance \/ Read \/ Write \/ CheckInputs \/ Ended

\* One sequential thread over finite inputs: while a step can be taken, one
\* is.
Spec == Init /\ [][Next]_vars /\ WF_vars(Next)

-----------------------------------------------------------------------------
(* Properties.                                                             *)

\* The state is well formed: nothing is read past the end of an input, the
\* buffer never overflows (rawilv.c:375) and no pointer leaves its array.
TypeOK ==
    /\ noas \in Seq(Streams) /\ Len(noas) > 0
    /\ sizes \in Seq(Nat \ {0}) /\ Len(sizes) = Len(noas)
    /\ len \in [Streams -> Nat]
    /\ pos \in [Streams -> Nat] /\ \A s \in Streams : pos[s] <= len[s]
    /\ feof \in [Streams -> BOOLEAN]
    /\ fp \in Slots
    /\ rest_bytes \in 0..sizes[fp]
    /\ eof_p \in BOOLEAN
    /\ buf \in Seq(Byte) /\ Len(buf) <= BUF_SZ
    /\ out \in Seq(Byte)
    /\ pc \in {"advance", "read", "flush", "drain", "check"} \cup Exits

\* The two assertions of the source: every fread asks for at least one byte
\* (rawilv.c:377), and when one input is not at EOF another one is, so that
\* there is one to blame (rawilv.c:429).
AssertionsHold ==
    /\ pc = "read" => to_read > 0
    /\ pc = "check" /\ Cardinality(NotAtEof) = 1 => \E i \in Slots : feof[noas[i]]

\* No byte is lost, repeated or reordered on its way through the buffer: the
\* bytes taken from each stream are in the output or the buffer, once each
\* and in order, across every flush, wrap-around and end of file; only a
\* failed write stops short of it (rawilv.c:378, 393-400, 404-409).
Conserved ==
    pc # "write_error" =>
        /\ ToSet(merged) = UNION {{s} \X (1..pos[s]) : s \in Streams}
        /\ \A i, j \in DOMAIN merged :
               i < j /\ merged[i][1] = merged[j][1] => merged[i][2] < merged[j][2]

\* Every argument is a stream of its own: "-" is given at most once.
Distinct == \A i, j \in Slots : noas[i] = noas[j] => i = j

\* The streams of one round, byte by byte, and the k-th byte of the ideal
\* interleaving of endless inputs.
Round == FlattenSeq([i \in Slots |-> [k \in 1..sizes[i] |-> noas[i]]])

IdealByte(k) ==
    LET n == Len(Round)
        last == ((k - 1) % n) + 1
        Share(m) == Cardinality({j \in 1..m : Round[j] = Round[last]})
    IN  <<Round[last], ((k - 1) \div n) * Share(n) + Share(last)>>

Interleaved ==
    LET kept == IF pc = "write_error" THEN out ELSE merged
    IN  \A k \in DOMAIN kept : kept[k] = IdealByte(k)

WholeBlocks(i) == len[noas[i]] \div sizes[i]
Ragged(i)      == len[noas[i]] % sizes[i] # 0

\* Blocks alternate as asked for, whatever the block sizes are relative to
\* the buffer: until an input ends the output is a prefix of the ideal
\* interleaving, and when inputs of whole blocks have all been read the
\* output is just that (rawilv.c:360-371).
OutputIsInterleaving ==
    ~eof_p \/ (pc = "ok" /\ Distinct /\ \A i \in Slots : ~Ragged(i))
        => Interleaved

\* README: the lengths in blocks must match.  Inputs of different numbers of
\* whole blocks are never taken for a success (rawilv.c:411-436).
BlockCountsMatch ==
    pc = "ok" /\ Distinct =>
        \A i, j \in Slots : WholeBlocks(i) = WholeBlocks(j)

\* No false alarm: the program complains of the middle of a block only if
\* the current input does end in one, and of a premature EOF only if the
\* input it warns of is a block or more longer than one at EOF, which the
\* input it blames is shorter than (rawilv.c:385, 418-435).
AlarmsAreTrue ==
    Distinct =>
        /\ pc = "mid_block" => Ragged(fp)
        /\ pc = "premature_eof" =>
               \A i \in NotAtEof :
                   /\ \E j \in Slots \ NotAtEof : WholeBlocks(j) < WholeBlocks(i)
                   /\ \A j \in Blamed : WholeBlocks(j) < WholeBlocks(i)

\* The loop ends whatever the lengths and the block sizes, an end of file in
\* a half-filled buffer included (rawilv.c:354-402).
Termination == <>(pc \in Exits)

\* README: an end-of-file in the middle of a block is an error.
RaggedInputIsAnError ==
    pc = "ok" /\ Distinct => \A i \in Slots : ~Ragged(i)
=============================================================================
