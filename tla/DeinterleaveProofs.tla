------------------------- MODULE DeinterleaveProofs -------------------------
(***************************************************************************)
(* Theorems about Deinterleave, for every buffer size, set of streams,     *)
(* command and length.                                                     *)
(***************************************************************************)
EXTENDS Deinterleave, DataLemmas

-----------------------------------------------------------------------------
(* Lemmas on the operators the actions are built from.                     *)

\* Every output is a stream and has a positive block size.
LEMMA SlotType ==
    ASSUME TypeOK, NEW i \in Slots
    PROVE  noas[i] \in Streams /\ sizes[i] \in Nat \ {0}
  BY DEF TypeOK, Slots

\* to_read never exceeds the space in the buffer nor the rest of the block.
LEMMA ToReadBounds ==
    ASSUME TypeOK
    PROVE  /\ to_read \in Nat /\ space \in Nat /\ available \in Nat
           /\ to_read <= rest_bytes /\ to_read <= space
  <1>1. Len(bufs[fp]) \in Nat /\ Len(bufs[fp]) <= BUF_SZ
    BY DEF TypeOK
  <1> QED BY <1>1, BufferAssumption DEF TypeOK, to_read, space, available

\* The command line and the input never change.
LEMMA InputsType ==
    ASSUME TypeOK, UNCHANGED inputs
    PROVE  /\ noas' \in Seq(Streams) /\ Len(noas') > 0
           /\ sizes' \in Seq(Nat \ {0}) /\ Len(sizes') = Len(noas')
           /\ len' \in Nat /\ len' = len /\ Slots' = Slots /\ sizes' = sizes
  BY DEF TypeOK, inputs, Slots

\* Taking rv bytes that are there and that fit keeps the state well formed.
LEMMA TakeBytesType ==
    ASSUME TypeOK, NEW rv \in Nat, rv <= available, rv <= space,
           rv <= rest_bytes, TakeBytes(rv)
    PROVE  /\ pos' \in 0..len /\ rest_bytes' \in Nat
           /\ bufs' \in [Slots -> Seq(Nat \ {0})]
           /\ \A i \in Slots : Len(bufs'[i]) <= BUF_SZ
           /\ Len(bufs'[fp]) = Len(bufs[fp]) + rv
           /\ UNCHANGED <<inputs, outs>>
           /\ \A i \in Slots : i # fp => bufs'[i] = bufs[i]
  <1> DEFINE chunk == [j \in 1..rv |-> pos + j]
  <1>1. /\ pos \in Nat /\ len \in Nat /\ fp \in Slots /\ rest_bytes \in Nat
        /\ bufs[fp] \in Seq(Nat \ {0}) /\ Len(bufs[fp]) \in Nat
    BY DEF TypeOK
  <1>2. chunk \in Seq(Nat \ {0}) /\ Len(chunk) = rv
    BY <1>1, IsASeq
  <1>3. bufs' = [bufs EXCEPT ![fp] = bufs[fp] \o chunk]
        /\ pos' = pos + rv /\ rest_bytes' = rest_bytes - rv
        /\ UNCHANGED <<inputs, outs>>
    BY DEF TakeBytes
  <1> HIDE DEF chunk
  <1>4. bufs[fp] \o chunk \in Seq(Nat \ {0})
        /\ Len(bufs[fp] \o chunk) = Len(bufs[fp]) + rv
    BY <1>1, <1>2, ConcatProperties
  <1>5. Len(bufs[fp]) + rv <= BUF_SZ
    BY <1>1, BufferAssumption DEF space
  <1>6. bufs \in [Slots -> Seq(Nat \ {0})] /\ \A i \in Slots : Len(bufs[i]) <= BUF_SZ
    BY DEF TypeOK
  <1>7. pos' \in 0..len /\ rest_bytes' \in Nat
    BY <1>1, <1>3 DEF available
  <1> QED BY <1>1, <1>3, <1>4, <1>5, <1>6, <1>7

-----------------------------------------------------------------------------
(* Type correctness.                                                       *)

LEMMA InitTypeOK == Init => TypeOK
  <1> SUFFICES ASSUME Init PROVE TypeOK
    OBVIOUS
  <1>1. PICK c \in Commands : noas = c.noas /\ sizes = c.sizes
    BY DEF Init
  <1>2. /\ noas \in Seq(Streams) /\ Len(noas) > 0
        /\ sizes \in Seq(Nat \ {0}) /\ Len(sizes) = Len(noas)
    BY <1>1, CommandsAssumption
  <1>3. sizes[1] \in Nat /\ 1 \in Slots
    BY <1>2 DEF Slots
  <1>4. /\ bufs \in [Slots -> Seq(Nat \ {0})]
        /\ \A i \in Slots : Len(bufs[i]) <= BUF_SZ
        /\ outs \in [Streams -> Seq(Nat \ {0})]
    BY BufferAssumption DEF Init
  <1>5. len \in Nat /\ pos \in 0..len /\ pc = "advance"
        /\ fp \in Slots /\ rest_bytes \in Nat
    BY <1>3, StreamsAssumption DEF Init
  <1> QED BY <1>2, <1>4, <1>5 DEF TypeOK

\* What the actions that read have in common.
LEMMA ReadType ==
    ASSUME TypeOK, NEW rv \in Nat, rv <= available, rv <= space,
           rv <= rest_bytes, TakeBytes(rv), fp' \in Slots,
           pc' \in {"advance", "read", "flush", "drain"} \cup Exits
    PROVE  TypeOK'
  <1>1. outs' \in [Streams -> Seq(Nat \ {0})]
    BY TakeBytesType DEF TypeOK
  <1> QED BY <1>1, TakeBytesType, InputsType DEF TypeOK

\* A write that puts k bytes of the current buffer out.
LEMMA WriteType ==
    ASSUME TypeOK, NEW b \in Seq(Nat \ {0}),
           outs' = [outs EXCEPT ![noas[fp]] = @ \o b],
           UNCHANGED <<inputs, pos, rest_bytes>>,
           bufs' \in {bufs, [bufs EXCEPT ![fp] = << >>]},
           fp' \in Slots, pc' \in {"advance", "read", "flush", "drain"} \cup Exits
    PROVE  TypeOK'
  <1>1. noas[fp] \in Streams /\ fp \in Slots
    BY SlotType DEF TypeOK
  <1>2. outs[noas[fp]] \o b \in Seq(Nat \ {0})
    BY <1>1, ConcatProperties DEF TypeOK
  <1>3. outs' \in [Streams -> Seq(Nat \ {0})]
    BY <1>1, <1>2 DEF TypeOK
  <1>4. bufs' \in [Slots -> Seq(Nat \ {0})] /\ \A i \in Slots : Len(bufs'[i]) <= BUF_SZ
    <2>1. << >> \in Seq(Nat \ {0}) /\ Len(<< >>) <= BUF_SZ
      BY BufferAssumption
    <2>2. bufs \in [Slots -> Seq(Nat \ {0})] /\ \A i \in Slots : Len(bufs[i]) <= BUF_SZ
      BY DEF TypeOK
    <2> QED BY <1>1, <2>1, <2>2
  <1>5. pos' \in 0..len' /\ rest_bytes' \in Nat
    BY InputsType DEF TypeOK
  <1> QED BY <1>3, <1>4, <1>5, InputsType DEF TypeOK

LEMMA NextTypeOK == TypeOK /\ [Next]_vars => TypeOK'
  <1> SUFFICES ASSUME TypeOK, [Next]_vars PROVE TypeOK'
    OBVIOUS
  <1>0. /\ fp \in Slots /\ Slots = 1..Len(noas) /\ Len(noas) \in Nat /\ Len(noas) > 0
        /\ 1 \in Slots /\ bufs[fp] \in Seq(Nat \ {0}) /\ Len(bufs[fp]) \in Nat
        /\ pc \in {"advance", "read", "flush", "drain"} \cup Exits
    <2>1. Slots = 1..Len(noas) /\ Len(noas) \in Nat /\ Len(noas) > 0
      BY DEF TypeOK, Slots
    <2>2. fp \in Slots /\ bufs[fp] \in Seq(Nat \ {0}) /\ Len(bufs[fp]) \in Nat
      BY DEF TypeOK
    <2> QED BY <2>1, <2>2 DEF TypeOK
  <1>1. ASSUME UNCHANGED <<inputs, pos, bufs, outs>>, fp' \in Slots, rest_bytes' \in Nat,
               pc' \in {"advance", "read", "flush", "drain"} \cup Exits
        PROVE  TypeOK'
    <2>1. pos' \in 0..len' /\ bufs' \in [Slots -> Seq(Nat \ {0})]
          /\ (\A i \in Slots : Len(bufs'[i]) <= BUF_SZ)
          /\ outs' \in [Streams -> Seq(Nat \ {0})]
      BY <1>1, InputsType DEF TypeOK
    <2> QED BY <1>1, <2>1, InputsType DEF TypeOK
  <1>2. CASE StayInBlock
    BY <1>0, <1>1, <1>2 DEF StayInBlock, TypeOK
  <1>3. ASSUME NEW i \in Slots, StartBlock(i) PROVE TypeOK'
    BY <1>1, <1>3, SlotType DEF StartBlock
  <1>4. CASE NextFile
    <2>1. fp + 1 \in Slots
      BY <1>0, <1>4 DEF NextFile
    <2> QED BY <1>3, <1>4, <2>1 DEF NextFile
  <1>5. CASE WrapAround
    BY <1>0, <1>3, <1>5 DEF WrapAround
  <1>6. CASE ReadFull
    <2>1. PICK rv \in Nat : rv = to_read
      BY ToReadBounds
    <2>2. rv <= available /\ rv <= space /\ rv <= rest_bytes
      BY <1>6, <2>1, ToReadBounds DEF ReadFull
    <2>3. TakeBytes(rv) /\ fp' = fp /\ pc' \in {"advance", "flush"}
      BY <1>6, <2>1 DEF ReadFull, TakeBytes
    <2> QED BY <1>0, <2>2, <2>3, ReadType
  <1>7. CASE ReadError
    <2>1. PICK rv \in 0..(to_read - 1) : rv <= available /\ TakeBytes(rv)
      BY <1>7 DEF ReadError
    <2>2. rv \in Nat /\ rv <= space /\ rv <= rest_bytes
      BY <2>1, ToReadBounds DEF TypeOK
    <2>3. fp' = fp /\ pc' \in Exits
      BY <1>7 DEF ReadError, Exits
    <2> QED BY <1>0, <2>1, <2>2, <2>3, ReadType
  <1>8. CASE ReadEof
    <2>1. PICK rv \in Nat : rv = available
      BY ToReadBounds
    <2>2. rv <= available /\ rv <= space /\ rv <= rest_bytes
      BY <1>8, <2>1, ToReadBounds DEF ReadEof, TypeOK
    <2>3. TakeBytes(rv) /\ fp' \in {1, fp}
          /\ pc' \in {"mid_block", "between_files", "drain"}
      BY <1>8, <2>1 DEF ReadEof, TakeBytes
    <2> QED BY <1>0, <2>2, <2>3, ReadType DEF Exits
  <1>9. CASE FlushOk
    BY <1>0, <1>9, WriteType DEF FlushOk, Write
  <1>10. CASE DrainOk
    <2>1. fp' \in Slots /\ pc' \in {"drain", "ok"}
      BY <1>0, <1>10 DEF DrainOk, Write
    <2> QED BY <1>0, <1>10, <2>1, WriteType DEF DrainOk, Write, Exits
  <1>11. CASE WriteFail
    <2>1. PICK k \in 0..(Len(bufs[fp]) - 1) :
            outs' = [outs EXCEPT ![noas[fp]] = @ \o SubSeq(bufs[fp], 1, k)]
      BY <1>11 DEF WriteFail
    <2>2. SubSeq(bufs[fp], 1, k) \in Seq(Nat \ {0})
      BY <1>0, <2>1, SubSeqProperties
    <2> QED BY <1>0, <1>11, <2>1, <2>2, WriteType DEF WriteFail, Exits
  <1>12. CASE UNCHANGED vars
    BY <1>0, <1>1, <1>12 DEF vars, TypeOK
  <1> QED
    BY <1>2, <1>4, <1>5, <1>6, <1>7, <1>8, <1>9, <1>10, <1>11, <1>12
    DEF Next, Advance, Read, Ended

\* No buffer overflows and fp stays within the outputs, for every buffer size
\* and every command.
THEOREM TypeCorrect == Spec => []TypeOK
  BY InitTypeOK, NextTypeOK, PTL DEF Spec

-----------------------------------------------------------------------------
(* The assertion: the buffers of the outputs whose turn it is not were left *)
(* with room, too, each by the flush that ended its last turn.             *)

RoomInv ==
    /\ \A i \in Slots : pc \in {"advance", "read"} \/ (pc = "flush" /\ i # fp)
                            => Len(bufs[i]) < BUF_SZ
    /\ pc = "read" => rest_bytes > 0

LEMMA NextRoomInv == TypeOK /\ RoomInv /\ [Next]_vars => RoomInv'
  <1> SUFFICES ASSUME TypeOK, RoomInv, [Next]_vars PROVE RoomInv'
    OBVIOUS
  <1>0. /\ fp \in Slots /\ Slots = 1..Len(noas) /\ Len(noas) \in Nat /\ 1 \in Slots
        /\ BUF_SZ \in Nat /\ BUF_SZ > 0
        /\ \A i \in Slots : Len(bufs[i]) \in Nat /\ Len(bufs[i]) <= BUF_SZ
    BY BufferAssumption DEF TypeOK, Slots
  <1>a. ASSUME UNCHANGED inputs PROVE Slots' = Slots
    BY <1>a, InputsType
  <1>1. CASE StayInBlock
    BY <1>1, <1>a DEF StayInBlock, RoomInv
  <1>2. ASSUME NEW i \in Slots, StartBlock(i), pc = "advance" PROVE RoomInv'
    <2>1. rest_bytes' > 0
      BY <1>2, SlotType DEF StartBlock
    <2> QED BY <1>2, <1>a, <2>1 DEF StartBlock, RoomInv
  <1>3. CASE NextFile
    <2>1. fp + 1 \in Slots
      BY <1>0, <1>3 DEF NextFile
    <2> QED BY <1>2, <1>3, <2>1 DEF NextFile
  <1>4. CASE WrapAround
    BY <1>0, <1>2, <1>4 DEF WrapAround
  <1>5. CASE ReadFull
    <2>1. PICK rv \in Nat : rv = to_read
      BY ToReadBounds
    <2>2. rv <= available /\ rv <= space /\ rv <= rest_bytes
      BY <1>5, <2>1, ToReadBounds DEF ReadFull
    <2>3. TakeBytes(rv) /\ fp' = fp
      BY <1>5, <2>1 DEF ReadFull, TakeBytes
    <2>4. /\ Len(bufs'[fp]) = Len(bufs[fp]) + rv /\ UNCHANGED inputs
          /\ \A i \in Slots : i # fp => bufs'[i] = bufs[i]
      BY <2>2, <2>3, TakeBytesType
    <2>5. /\ pc = "read"
          /\ \/ pc' = "advance" /\ Len(bufs'[fp]) < BUF_SZ
             \/ pc' = "flush"
      BY <1>0, <1>5, <2>1, <2>4 DEF ReadFull, space
    <2> QED BY <1>0, <1>a, <2>3, <2>4, <2>5 DEF RoomInv
  <1>6. CASE ReadError \/ ReadEof \/ WriteFail
    BY <1>6 DEF ReadError, ReadEof, WriteFail, RoomInv
  <1>7. CASE FlushOk
    <2>1. /\ bufs' = [bufs EXCEPT ![fp] = << >>] /\ UNCHANGED inputs
          /\ pc = "flush" /\ pc' = "advance"
      BY <1>7 DEF FlushOk, Write
    <2>2. \A i \in Slots : Len(bufs'[i]) < BUF_SZ
      BY <1>0, <2>1 DEF RoomInv, TypeOK
    <2> QED BY <1>a, <2>1, <2>2 DEF RoomInv
  <1>8. CASE DrainOk
    BY <1>8 DEF DrainOk, Write, RoomInv
  <1>9. CASE UNCHANGED vars
    BY <1>9, <1>a DEF vars, RoomInv
  <1> QED BY <1>1, <1>3, <1>4, <1>5, <1>6, <1>7, <1>8, <1>9
          DEF Next, Advance, Read, Ended

\* assert (to_read > 0) never fails, whatever the block sizes are relative to
\* the buffers.
THEOREM AssertionNeverFails == Spec => []AssertionHolds
  <1>1. Init => TypeOK /\ RoomInv
    <2>1. Init => RoomInv
      BY BufferAssumption DEF Init, RoomInv
    <2> QED BY <2>1, InitTypeOK
  <1>2. (TypeOK /\ RoomInv) /\ [Next]_vars => (TypeOK /\ RoomInv)'
    BY NextTypeOK, NextRoomInv
  <1>3. TypeOK /\ RoomInv => AssertionHolds
    <2> SUFFICES ASSUME TypeOK, RoomInv, pc = "read" PROVE to_read > 0
      BY DEF AssertionHolds
    <2>1. Len(bufs[fp]) \in Nat /\ Len(bufs[fp]) < BUF_SZ /\ rest_bytes > 0
      BY DEF TypeOK, RoomInv
    <2> QED BY <2>1, BufferAssumption DEF to_read, space
  <1> QED BY <1>1, <1>2, <1>3, PTL DEF Spec

-----------------------------------------------------------------------------
(* Whose turn it is: where in a round the input stands.                    *)

\* Block i of a round begins after off[i] bytes.
Layout(off) == BlocksLaid(Len(noas), sizes, [i \in Slots |-> i], off)

LEMMA LayoutMeans ==
    ASSUME TypeOK, NEW off, Layout(off)
    PROVE  /\ off \in [Slots -> Nat] /\ off[1] = 0
           /\ \A i \in Slots : i # 1 => off[i] = off[i - 1] + sizes[i - 1]
           /\ Len(Round) \in Nat \ {0}
           /\ Len(Round) = off[Len(noas)] + sizes[Len(noas)]
           /\ \A i \in Slots : \A k \in 1..sizes[i] :
                  off[i] + k \in 1..Len(Round) /\ Round[off[i] + k] = i
  <1> DEFINE val == [i \in Slots |-> i]
  <1>1. PICK n \in Nat \ {0} : n = Len(noas) /\ Slots = 1..n
    BY DEF TypeOK, Slots
  <1>2. \A i \in 1..n : val[i] = i
    BY <1>1
  <1>3. Round = FlattenSeq([i \in 1..n |-> [k \in 1..sizes[i] |-> val[i]]])
    BY <1>1 DEF Round
  <1>4. BlocksLaid(n, sizes, val, off)
    BY <1>1 DEF Layout
  <1> HIDE DEF val
  <1>5. /\ off \in [1..n -> Nat] /\ off[1] = 0
        /\ \A i \in 2..n : off[i] = off[i - 1] + sizes[i - 1]
        /\ Len(Round) \in Nat \ {0} /\ Len(Round) = off[n] + sizes[n]
        /\ \A i \in 1..n : \A k \in 1..sizes[i] :
               off[i] + k \in 1..Len(Round) /\ Round[off[i] + k] = val[i]
    BY <1>3, <1>4 DEF BlocksLaid
  <1> QED BY <1>1, <1>2, <1>5, SMTT(30)

LEMMA LayoutExists == TypeOK => \E off : Layout(off)
  <1> SUFFICES ASSUME TypeOK PROVE \E off : Layout(off)
    OBVIOUS
  <1>1. PICK n \in Nat \ {0} : n = Len(noas)
    BY DEF TypeOK
  <1>2. \A i \in 1..n : sizes[i] \in Nat \ {0}
    BY <1>1, SlotType DEF Slots
  <1> QED BY <1>1, <1>2, BlocksLayout DEF Layout

\* A layout is one for good: the outputs and their sizes never change.
LEMMA LayoutStays ==
    ASSUME UNCHANGED inputs
    PROVE  /\ Round' = Round
           /\ \A off : Layout(off) => Layout(off)'
           /\ \A k : Owner(k)' = Owner(k)
  <1>1. noas' = noas /\ sizes' = sizes /\ Slots' = Slots
    BY DEF inputs, Slots
  <1>2. Round' = Round
    BY <1>1 DEF Round
  <1> QED BY <1>1, <1>2 DEF Layout, Owner

\* While the input is read, r rounds, the blocks before the current one and
\* what has been read of this one have been taken from it.
Looping == pc \in {"advance", "read", "flush", "mid_block", "between_files",
                   "read_error"}
Taken(off, r) == pos = r * Len(Round) + off[fp] + (sizes[fp] - rest_bytes)

TurnInv ==
    Looping => /\ rest_bytes <= sizes[fp]
               /\ \E off : Layout(off) /\ \E r \in Nat : Taken(off, r)

\* The rest of the current block is the current output's.
LEMMA OwnerOfRest ==
    ASSUME TypeOK, rest_bytes <= sizes[fp],
           NEW off, Layout(off), NEW r \in Nat, Taken(off, r),
           NEW k \in (pos + 1)..(pos + rest_bytes)
    PROVE  Owner(k) = fp
  <1>1. PICK z \in Nat \ {0}, o \in Nat, n \in Nat \ {0} :
            z = sizes[fp] /\ o = off[fp] /\ n = Len(Round)
    BY SlotType, LayoutMeans DEF TypeOK
  <1>2. r * n \in Nat /\ rest_bytes \in Nat /\ pos \in Nat /\ fp \in Slots
    BY Times DEF TypeOK
  <1>3. pos = r * n + o + (z - rest_bytes) /\ rest_bytes <= z
    BY <1>1 DEF Taken
  <1>4. PICK d \in 1..z : d = (z - rest_bytes) + (k - pos)
    BY <1>2, <1>3
  <1>5. o + d \in 1..n /\ Round[o + d] = fp
    BY <1>1, <1>2, LayoutMeans
  <1>6. PICK x \in Nat : x = o + d - 1
    BY <1>4
  <1>7. x < n /\ x + 1 = o + d /\ k - 1 = r * n + x
    BY <1>2, <1>3, <1>4, <1>5, <1>6
  <1>8. (r * n + x) % n = x
    BY <1>7, Remainder
  <1> QED BY <1>1, <1>5, <1>7, <1>8 DEF Owner

\* The bytes of the shares after one more fread.
LEMMA TakeBytesShares ==
    ASSUME TypeOK, TurnInv, Looping, NEW rv \in Nat, rv <= available,
           rv <= space, rv <= rest_bytes, TakeBytes(rv)
    PROVE  /\ \A i \in Slots : Share(i)' = IF i = fp
                                           THEN Share(i) \cup (pos + 1)..(pos + rv)
                                           ELSE Share(i)
           /\ \A k \in (pos + 1)..(pos + rv) : Owner(k) = fp
  <1>1. /\ pos \in Nat /\ rest_bytes \in Nat /\ pos' = pos + rv
        /\ UNCHANGED inputs
    BY DEF TypeOK, TakeBytes
  <1>2. ASSUME NEW k \in (pos + 1)..(pos + rv) PROVE Owner(k) = fp
    <2>1. k \in (pos + 1)..(pos + rest_bytes)
      BY <1>1
    <2> QED BY <2>1, OwnerOfRest DEF TurnInv
  <1>3. \A k : Owner(k)' = Owner(k)
    BY <1>1, LayoutStays
  <1>4. \A i : Share(i)' = {k \in 1..(pos + rv) : Owner(k) = i}
    BY <1>1, <1>3 DEF Share
  <1>5. \A k : k \in 1..(pos + rv) <=> k \in 1..pos \/ k \in (pos + 1)..(pos + rv)
    BY <1>1
  <1>6. ASSUME NEW i \in Slots, i = fp
        PROVE  Share(i)' = Share(i) \cup (pos + 1)..(pos + rv)
    <2>1. \A k : k \in Share(i)' <=> k \in 1..(pos + rv) /\ Owner(k) = i
      BY <1>4
    <2>2. \A k : k \in Share(i) <=> k \in 1..pos /\ Owner(k) = i
      BY DEF Share
    <2> QED BY <1>2, <1>5, <1>6, <2>1, <2>2
  <1>7. ASSUME NEW i \in Slots, i # fp PROVE Share(i)' = Share(i)
    <2>1. \A k : k \in Share(i)' <=> k \in 1..(pos + rv) /\ Owner(k) = i
      BY <1>4
    <2>2. \A k : k \in Share(i) <=> k \in 1..pos /\ Owner(k) = i
      BY DEF Share
    <2> QED BY <1>2, <1>5, <1>7, <2>1, <2>2
  <1> QED BY <1>2, <1>6, <1>7

-----------------------------------------------------------------------------
(* The turns.                                                              *)

\* The step of TurnInv by one fread.
LEMMA TakeBytesTurn ==
    ASSUME TypeOK, TurnInv, Looping, NEW rv \in Nat, rv <= available,
           rv <= space, rv <= rest_bytes, TakeBytes(rv), fp' = fp
    PROVE  TurnInv'
  <1>1. PICK off : Layout(off) /\ \E r \in Nat : Taken(off, r)
    BY DEF TurnInv
  <1>2. PICK r \in Nat : Taken(off, r)
    BY <1>1
  <1>3. PICK z \in Nat, o \in Nat, n \in Nat :
            z = sizes[fp] /\ o = off[fp] /\ n = Len(Round)
    <2>1. fp \in Slots /\ sizes[fp] \in Nat
      BY SlotType DEF TypeOK
    <2>2. off \in [Slots -> Nat] /\ Len(Round) \in Nat
      BY <1>1, LayoutMeans
    <2> QED BY <2>1, <2>2
  <1>4. /\ rest_bytes \in Nat /\ pos \in Nat /\ r * n \in Nat
        /\ pos' = pos + rv /\ rest_bytes' = rest_bytes - rv /\ UNCHANGED inputs
    BY Times DEF TypeOK, TakeBytes
  <1>5. pos = r * n + o + (z - rest_bytes) /\ rest_bytes <= z
    BY <1>2, <1>3 DEF Taken, TurnInv
  <1>6. pos' = r * n + o + (z - rest_bytes') /\ rest_bytes' <= z
    BY <1>4, <1>5
  <1>7. sizes' = sizes /\ Round' = Round /\ Layout(off)'
    BY <1>1, <1>4, LayoutStays DEF inputs
  <1>8. Taken(off, r)' /\ rest_bytes' <= sizes'[fp']
    BY <1>3, <1>6, <1>7 DEF Taken
  <1> QED BY <1>7, <1>8 DEF TurnInv

LEMMA NextTurnInv == TypeOK /\ RoomInv /\ TurnInv /\ [Next]_vars => TurnInv'
  <1> SUFFICES ASSUME TypeOK, RoomInv, TurnInv, [Next]_vars, Looping' PROVE TurnInv'
    BY DEF TurnInv
  <1>1. ASSUME Looping, UNCHANGED <<inputs, pos, fp, rest_bytes>> PROVE TurnInv'
    <2>1. PICK off : Layout(off) /\ \E r \in Nat : Taken(off, r)
      BY <1>1 DEF TurnInv
    <2>2. sizes' = sizes /\ Round' = Round /\ Layout(off)'
      BY <1>1, <2>1, LayoutStays DEF inputs
    <2> QED BY <1>1, <2>1, <2>2 DEF TurnInv, Taken
  <1>2. CASE StayInBlock
    BY <1>1, <1>2 DEF StayInBlock, Looping
  <1>3. ASSUME NEW i \in Slots, StartBlock(i), pc = "advance", rest_bytes = 0,
               i = (IF fp = Len(noas) THEN 1 ELSE fp + 1)
        PROVE  TurnInv'
    <2>1. PICK off : Layout(off) /\ \E r \in Nat : Taken(off, r)
      BY <1>3 DEF TurnInv, Looping
    <2>2. PICK r \in Nat : Taken(off, r)
      BY <2>1
    <2>3. /\ fp' = i /\ rest_bytes' = sizes[i] /\ pos' = pos
          /\ sizes' = sizes /\ Round' = Round /\ Layout(off)'
      BY <1>3, <2>1, LayoutStays DEF StartBlock, inputs
    <2>4. PICK z \in Nat, o \in Nat, n \in Nat, y \in Nat, x \in Nat :
              /\ z = sizes[fp] /\ o = off[fp] /\ n = Len(Round)
              /\ y = sizes[i] /\ x = off[i]
      <3>1. fp \in Slots /\ sizes[fp] \in Nat /\ sizes[i] \in Nat
        BY SlotType DEF TypeOK
      <3>2. off \in [Slots -> Nat] /\ Len(Round) \in Nat
        BY <2>1, LayoutMeans
      <3> QED BY <3>1, <3>2
    <2>5. pos = r * n + o + z /\ r * n \in Nat
      <3>1. pos = r * n + o + (z - 0)
        BY <1>3, <2>2, <2>4 DEF Taken
      <3>2. r * n \in Nat
        BY Times
      <3> QED BY <3>1, <3>2
    <2>6. CASE fp = Len(noas)
      <3>1. x = 0 /\ n = o + z
        BY <1>3, <2>1, <2>4, <2>6, LayoutMeans
      <3>2. (r + 1) * n = r * n + n
        BY Times
      <3>3. pos' = (r + 1) * n + x + (y - y)
        BY <2>3, <2>5, <3>1, <3>2
      <3>4. Taken(off, r + 1)'
        BY <2>3, <2>4, <3>3 DEF Taken
      <3> QED BY <2>3, <2>4, <3>4 DEF TurnInv
    <2>7. CASE fp # Len(noas)
      <3>1. i # 1 /\ i - 1 = fp
        BY <1>3, <2>7 DEF TypeOK, Slots
      <3>2. x = o + z
        BY <2>1, <2>4, <3>1, LayoutMeans
      <3>3. pos' = r * n + x + (y - y)
        BY <2>3, <2>5, <3>2
      <3>4. Taken(off, r)'
        BY <2>3, <2>4, <3>3 DEF Taken
      <3> QED BY <2>3, <2>4, <3>4 DEF TurnInv
    <2> QED BY <2>6, <2>7
  <1>4. CASE NextFile
    <2>1. fp + 1 \in Slots
      BY <1>4 DEF NextFile, TypeOK, Slots
    <2> QED BY <1>3, <1>4, <2>1 DEF NextFile
  <1>5. CASE WrapAround
    <2>1. 1 \in Slots
      BY DEF TypeOK, Slots
    <2> QED BY <1>3, <1>5, <2>1 DEF WrapAround
  <1>6. CASE ReadFull
    <2>1. PICK rv \in Nat : rv = to_read
      BY ToReadBounds
    <2>2. rv <= available /\ rv <= space /\ rv <= rest_bytes
      BY <1>6, <2>1, ToReadBounds DEF ReadFull
    <2>3. TakeBytes(rv) /\ fp' = fp /\ Looping
      BY <1>6, <2>1 DEF ReadFull, TakeBytes, Looping
    <2> QED BY <2>2, <2>3, TakeBytesTurn
  <1>7. CASE ReadError
    <2>1. PICK rv \in 0..(to_read - 1) : rv <= available /\ TakeBytes(rv)
      BY <1>7 DEF ReadError
    <2>2. rv \in Nat /\ rv <= space /\ rv <= rest_bytes
      BY <2>1, ToReadBounds DEF TypeOK
    <2> QED BY <1>7, <2>1, <2>2, TakeBytesTurn DEF ReadError, Looping
  <1>8. CASE ReadEof
    <2>1. PICK rv \in Nat : rv = available
      BY ToReadBounds
    <2>2. rv <= available /\ rv <= space /\ rv <= rest_bytes
      BY <1>8, <2>1, ToReadBounds DEF ReadEof, TypeOK
    <2>3. TakeBytes(rv) /\ Looping
      BY <1>8, <2>1 DEF ReadEof, TakeBytes, Looping
    <2>4. fp' = fp
      BY <1>8 DEF ReadEof, Looping
    <2> QED BY <2>2, <2>3, <2>4, TakeBytesTurn
  <1>9. CASE FlushOk
    BY <1>1, <1>9 DEF FlushOk, Write, Looping
  <1>10. CASE DrainOk
    BY <1>10 DEF DrainOk, Write, Looping
  <1>11. CASE WriteFail
    BY <1>11 DEF WriteFail, Looping
  <1>12. CASE UNCHANGED vars
    BY <1>1, <1>12 DEF vars, Looping
  <1> QED
    BY <1>2, <1>4, <1>5, <1>6, <1>7, <1>8, <1>9, <1>10, <1>11, <1>12
    DEF Next, Advance, Read, Ended

LEMMA InitTurnInv == Init => TurnInv
  <1> SUFFICES ASSUME Init PROVE TurnInv
    OBVIOUS
  <1>1. TypeOK /\ fp = 1 /\ rest_bytes = sizes[1] /\ pos = 0
    BY InitTypeOK DEF Init
  <1>2. PICK off : Layout(off)
    BY <1>1, LayoutExists
  <1>3. PICK z \in Nat, n \in Nat : z = sizes[1] /\ n = Len(Round) /\ off[1] = 0
    BY <1>1, <1>2, SlotType, LayoutMeans DEF TypeOK
  <1>4. 0 = 0 * n + 0 + (z - z)
    OBVIOUS
  <1>5. Taken(off, 0)
    BY <1>1, <1>3, <1>4 DEF Taken
  <1> QED BY <1>1, <1>2, <1>3, <1>5 DEF TurnInv

-----------------------------------------------------------------------------
(* An end of the input inside a block.                                     *)

Cut  == len % Len(Round)
Torn == Cut # 0 /\ Round[Cut] = Round[Cut + 1]

\* When the whole input has been read, it ends inside the current block just
\* if a part of this block has been read.
LEMMA TornWhere ==
    ASSUME TypeOK, TurnInv, Looping, pos = len, rest_bytes > 0
    PROVE  /\ rest_bytes < sizes[fp] => Torn /\ Round[Cut] = fp
           /\ rest_bytes = sizes[fp] => ~Torn
  <1>1. PICK off : Layout(off) /\ \E r \in Nat : Taken(off, r)
    BY DEF TurnInv
  <1>2. PICK r \in Nat : Taken(off, r)
    BY <1>1
  <1>3. fp \in Slots /\ sizes[fp] \in Nat \ {0} /\ rest_bytes \in Nat
    BY SlotType DEF TypeOK
  <1>4. /\ off \in [Slots -> Nat] /\ off[1] = 0 /\ Len(Round) \in Nat \ {0}
        /\ (fp # 1 => off[fp] = off[fp - 1] + sizes[fp - 1])
        /\ \A i \in Slots : \A k \in 1..sizes[i] :
               off[i] + k \in 1..Len(Round) /\ Round[off[i] + k] = i
    BY <1>1, <1>3, LayoutMeans
  <1>5. PICK z \in Nat \ {0}, o \in Nat, n \in Nat \ {0} :
            z = sizes[fp] /\ o = off[fp] /\ n = Len(Round)
    BY <1>3, <1>4
  <1>6. PICK x \in Nat : x = o + (z - rest_bytes)
    BY <1>3, <1>5 DEF TurnInv
  <1>7. len = r * n + x /\ r * n \in Nat
    <2>1. len = r * n + o + (z - rest_bytes) /\ rest_bytes <= z
      BY <1>2, <1>5 DEF Taken, TurnInv
    <2>2. r * n \in Nat
      BY Times
    <2> QED BY <1>3, <1>6, <2>1, <2>2
  <1>8. \A k \in 1..z : o + k \in 1..n /\ Round[o + k] = fp
    BY <1>3, <1>4, <1>5
  <1>9. Cut = x
    <2>1. o + z \in 1..n
      BY <1>8
    <2>2. x < n
      BY <1>3, <1>6, <2>1
    <2>3. (r * n + x) % n = x
      BY <2>2, Remainder
    <2> QED BY <1>5, <1>7, <2>3 DEF Cut
  <1>10. ASSUME rest_bytes < z PROVE Torn /\ Round[Cut] = fp
    <2>1. PICK d \in Nat : d = z - rest_bytes
      BY <1>3, <1>10
    <2>2. d \in 1..z /\ d + 1 \in 1..z /\ x = o + d /\ x + 1 = o + (d + 1) /\ x # 0
      BY <1>3, <1>6, <1>10, <2>1
    <2>3. Round[x] = fp /\ Round[x + 1] = fp
      BY <1>8, <2>2
    <2> QED BY <1>9, <2>2, <2>3 DEF Torn
  <1>11. ASSUME rest_bytes = z PROVE ~Torn
    <2>1. x = o
      BY <1>6, <1>11
    <2>2. ASSUME o # 0 PROVE Round[o] # Round[o + 1]
      <3>1. fp # 1
        BY <1>4, <1>5, <2>2
      <3>2. fp - 1 \in Slots /\ fp - 1 # fp
        BY <1>3, <3>1 DEF Slots, TypeOK
      <3>3. o = off[fp - 1] + sizes[fp - 1] /\ sizes[fp - 1] \in 1..sizes[fp - 1]
        BY <1>4, <1>5, <3>1, <3>2, SlotType
      <3>4. Round[o] = fp - 1
        BY <1>4, <3>2, <3>3
      <3>5. Round[o + 1] = fp
        BY <1>8
      <3> QED BY <3>2, <3>4, <3>5
    <2> QED BY <1>9, <2>1, <2>2 DEF Torn
  <1> QED BY <1>5, <1>10, <1>11

\* One fread adds what it has read to one output's count.
LEMMA TakeBytesCounts ==
    ASSUME TypeOK, TurnInv, Looping, NEW rv \in Nat, rv <= available,
           rv <= space, rv <= rest_bytes, TakeBytes(rv), NEW i \in Slots
    PROVE  /\ Cardinality(Share(i)) \in Nat
           /\ i = fp => Cardinality(Share(i)') = Cardinality(Share(i)) + rv
           /\ i # fp => Share(i)' = Share(i)
  <1> DEFINE A == {k \in Nat : Owner(k) = i}
  <1>1. pos \in Nat
    BY DEF TypeOK
  <1>2. Share(i) = {k \in 1..pos : k \in A}
    BY <1>1 DEF Share
  <1>3. Cardinality(Share(i)) \in Nat
    <2> HIDE DEF A
    <2> QED BY <1>1, <1>2, CountUpTo
  <1>4. ASSUME i = fp PROVE Cardinality(Share(i)') = Cardinality(Share(i)) + rv
    <2>1. Share(i)' = Share(i) \cup (pos + 1)..(pos + rv)
      BY <1>4, TakeBytesShares
    <2>2. \A k \in (pos + 1)..(pos + rv) : Owner(k) = i
      BY <1>4, TakeBytesShares
    <2>3. \A k \in (pos + 1)..(pos + rv) : k \in A
      BY <1>1, <2>2
    <2>4. \A k : k \in 1..(pos + rv) <=> k \in 1..pos \/ k \in (pos + 1)..(pos + rv)
      BY <1>1
    <2> HIDE DEF A
    <2>5. Share(i)' = {k \in 1..(pos + rv) : k \in A}
      BY <1>2, <2>1, <2>3, <2>4
    <2>6. Cardinality({k \in 1..(pos + rv) : k \in A})
              = Cardinality({k \in 1..pos : k \in A}) + rv
      BY <1>1, <2>3, CountMore, ZenonT(30)
    <2> QED BY <1>2, <2>5, <2>6
  <1>5. i # fp => Share(i)' = Share(i)
    BY TakeBytesShares
  <1> QED BY <1>3, <1>4, <1>5

\* A buffer is emptied only when it is full, and then it is emptied at once:
\* what an output has been dealt is full buffers and what its buffer holds,
\* and a block that is read in parts finds an empty one.
FillInv ==
    /\ pc \in {"advance", "read"} /\ rest_bytes \notin {0, sizes[fp]} => bufs[fp] = << >>
    /\ pc = "flush" => Len(bufs[fp]) = BUF_SZ
    /\ Looping => \A i \in Slots : \E m \in Nat :
           Cardinality(Share(i)) = m * BUF_SZ + Len(bufs[i])

\* The step of the counts by one fread.
LEMMA TakeBytesFill ==
    ASSUME TypeOK, TurnInv, FillInv, Looping, NEW rv \in Nat, rv <= available,
           rv <= space, rv <= rest_bytes, TakeBytes(rv), NEW i \in Slots
    PROVE  \E m \in Nat : Cardinality(Share(i)') = m * BUF_SZ + Len(bufs'[i])
  <1>1. PICK m \in Nat : Cardinality(Share(i)) = m * BUF_SZ + Len(bufs[i])
    BY DEF FillInv
  <1>2. m * BUF_SZ \in Nat /\ Len(bufs[i]) \in Nat
    BY Times, BufferAssumption DEF TypeOK
  <1>3. CASE i = fp
    <2>1. Len(bufs'[i]) = Len(bufs[i]) + rv
      BY <1>3, TakeBytesType
    <2>2. Cardinality(Share(i)') = Cardinality(Share(i)) + rv
      BY <1>3, TakeBytesCounts
    <2> QED BY <1>1, <1>2, <2>1, <2>2
  <1>4. CASE i # fp
    <2>1. bufs'[i] = bufs[i]
      BY <1>4, TakeBytesType
    <2>2. Share(i)' = Share(i)
      BY <1>4, TakeBytesCounts
    <2> QED BY <1>1, <2>1, <2>2
  <1> QED BY <1>3, <1>4

LEMMA NextFillInv ==
    TypeOK /\ RoomInv /\ TurnInv /\ FillInv /\ [Next]_vars => FillInv'
  <1> SUFFICES ASSUME TypeOK, RoomInv, TurnInv, FillInv, [Next]_vars PROVE FillInv'
    OBVIOUS
  <1> DEFINE Counts == \A i \in Slots : \E m \in Nat :
                           Cardinality(Share(i)) = m * BUF_SZ + Len(bufs[i])
  <1>0. BUF_SZ \in Nat \ {0} /\ fp \in Slots /\ Len(bufs[fp]) \in Nat
        /\ Len(bufs[fp]) <= BUF_SZ /\ rest_bytes \in Nat
    BY BufferAssumption DEF TypeOK
  <1>1. ASSUME UNCHANGED inputs
        PROVE  /\ Slots' = Slots /\ sizes' = sizes
               /\ pos' = pos => \A i : Share(i)' = Share(i)
    BY <1>1, LayoutStays DEF inputs, Slots, Share
  <1>2. ASSUME UNCHANGED <<inputs, pos, bufs>>, Looping' => Looping PROVE Looping' => Counts'
    BY <1>1, <1>2 DEF FillInv
  <1>3. CASE StayInBlock
    BY <1>1, <1>2, <1>3 DEF StayInBlock, FillInv, Looping
  <1>4. CASE NextFile \/ WrapAround
    <2>1. PICK i : StartBlock(i)
      BY <1>4 DEF NextFile, WrapAround
    <2>2. Looping
      BY <1>4 DEF NextFile, WrapAround, Looping
    <2>3. pc' = "read" /\ rest_bytes' = sizes'[fp'] /\ UNCHANGED <<inputs, pos, bufs>>
      BY <2>1 DEF StartBlock, inputs
    <2> QED BY <1>2, <2>2, <2>3 DEF FillInv
  <1>5. CASE ReadFull
    <2>1. PICK rv \in Nat : rv = to_read
      BY ToReadBounds
    <2>2. rv <= available /\ rv <= space /\ rv <= rest_bytes
      BY <1>5, <2>1, ToReadBounds DEF ReadFull
    <2>3. TakeBytes(rv) /\ fp' = fp /\ Looping
      BY <1>5, <2>1 DEF ReadFull, TakeBytes, Looping
    <2>4. Counts'
      BY <1>1, <2>2, <2>3, TakeBytesFill DEF TakeBytes
    <2>5. pc' = "advance" => rest_bytes' = 0
      BY <1>0, <1>5, <2>1, <2>2, <2>3, ToReadBounds DEF ReadFull, TakeBytes, to_read
    <2>6. pc' = "flush" => Len(bufs'[fp]) = BUF_SZ
      <3>1. Len(bufs'[fp]) = Len(bufs[fp]) + rv
        BY <2>2, <2>3, TakeBytesType
      <3>2. pc' = "flush" => rv = space
        BY <1>5, <2>1, <2>2, ToReadBounds DEF ReadFull
      <3> QED BY <1>0, <3>1, <3>2 DEF space
    <2>7. pc' \in {"advance", "flush"}
      BY <1>5 DEF ReadFull
    <2> QED BY <2>3, <2>4, <2>5, <2>6, <2>7 DEF FillInv
  <1>6. CASE ReadError
    <2>1. PICK rv \in 0..(to_read - 1) : rv <= available /\ TakeBytes(rv)
      BY <1>6 DEF ReadError
    <2>2. rv \in Nat /\ rv <= space /\ rv <= rest_bytes
      BY <2>1, ToReadBounds DEF TypeOK
    <2>3. Counts'
      BY <1>1, <1>6, <2>1, <2>2, TakeBytesFill DEF TakeBytes, ReadError, Looping
    <2> QED BY <1>6, <2>3 DEF FillInv, ReadError
  <1>7. CASE ReadEof
    <2>1. PICK rv \in Nat : rv = available
      BY ToReadBounds
    <2>2. rv <= available /\ rv <= space /\ rv <= rest_bytes
      BY <1>7, <2>1, ToReadBounds DEF ReadEof, TypeOK
    <2>3. TakeBytes(rv) /\ Looping
      BY <1>7, <2>1 DEF ReadEof, TakeBytes, Looping
    <2>4. Counts'
      BY <1>1, <2>2, <2>3, TakeBytesFill DEF TakeBytes
    <2> QED BY <1>7, <2>4 DEF FillInv, ReadEof
  <1>8. CASE FlushOk
    <2>1. /\ bufs' = [bufs EXCEPT ![fp] = << >>] /\ UNCHANGED <<inputs, pos, fp>>
          /\ pc = "flush" /\ pc' = "advance" /\ Looping
      BY <1>8 DEF FlushOk, Write, Looping
    <2>2. bufs'[fp] = << >> /\ (\A i \in Slots : i # fp => bufs'[i] = bufs[i])
      BY <1>0, <2>1 DEF TypeOK
    <2>3. ASSUME NEW i \in Slots
          PROVE  \E m \in Nat : Cardinality(Share(i)') = m * BUF_SZ + Len(bufs'[i])
      <3>1. PICK m \in Nat : Cardinality(Share(i)) = m * BUF_SZ + Len(bufs[i])
        BY <2>1 DEF FillInv
      <3>2. Share(i)' = Share(i)
        BY <1>1, <2>1
      <3>3. CASE i = fp
        <4>1. Len(bufs[i]) = BUF_SZ /\ Len(bufs'[i]) = 0
          BY <2>1, <2>2, <3>3 DEF FillInv
        <4>2. (m + 1) * BUF_SZ = m * BUF_SZ + BUF_SZ /\ m * BUF_SZ \in Nat
          BY <1>0, Times
        <4>3. m + 1 \in Nat /\ Cardinality(Share(i)') = (m + 1) * BUF_SZ + Len(bufs'[i])
          BY <1>0, <3>1, <3>2, <4>1, <4>2
        <4> QED BY <4>3
      <3> QED BY <2>2, <3>1, <3>2, <3>3
    <2> QED BY <1>1, <2>1, <2>2, <2>3 DEF FillInv
  <1>9. CASE DrainOk \/ WriteFail
    BY <1>9 DEF DrainOk, WriteFail, Write, FillInv, Looping
  <1>10. CASE UNCHANGED vars
    <2>1. UNCHANGED <<inputs, pos, bufs, fp, rest_bytes, pc>> /\ (Looping' <=> Looping)
      BY <1>10 DEF vars, Looping
    <2> QED BY <1>1, <1>2, <2>1 DEF FillInv
  <1> QED
    BY <1>3, <1>4, <1>5, <1>6, <1>7, <1>8, <1>9, <1>10
    DEF Next, Advance, Read, Ended

LEMMA InitFillInv == Init => FillInv
  <1> SUFFICES ASSUME Init PROVE FillInv
    OBVIOUS
  <1>1. pos = 0 /\ pc = "advance" /\ fp = 1 /\ rest_bytes = sizes[1]
        /\ bufs = [i \in Slots |-> << >>]
    BY DEF Init
  <1>2. ASSUME NEW i \in Slots
        PROVE  \E m \in Nat : Cardinality(Share(i)) = m * BUF_SZ + Len(bufs[i])
    <2>1. Share(i) = {}
      BY <1>1 DEF Share
    <2>2. Cardinality(Share(i)) = 0 /\ Len(bufs[i]) = 0
      BY <1>1, <2>1, FS_EmptySet
    <2>3. 0 = 0 * BUF_SZ + 0
      BY BufferAssumption
    <2> QED BY <2>2, <2>3
  <1> QED BY <1>1, <1>2 DEF FillInv

-----------------------------------------------------------------------------
(* How the program ends.                                                   *)

\* "mid_block" is an end inside the current block, success an end between
\* two blocks or one at which the buffer of the torn block was just emptied;
\* the message for an end between two files is never reached.
EndInv ==
    /\ pc = "mid_block" => pos = len /\ rest_bytes > 0 /\ rest_bytes < sizes[fp]
    /\ pc \in {"drain", "ok"} =>
           pos = len /\ (Torn => Cardinality(Share(Round[Cut])) % BUF_SZ = 0)
    /\ pc = "drain" => \A i \in Slots : i < fp => bufs[i] = << >>
    /\ pc = "ok" => \A i \in Slots : bufs[i] = << >>
    /\ pc # "between_files"

LEMMA NextEndInv ==
    TypeOK /\ RoomInv /\ TurnInv /\ FillInv /\ EndInv /\ [Next]_vars => EndInv'
  <1> SUFFICES ASSUME TypeOK, RoomInv, TurnInv, FillInv, EndInv, [Next]_vars
               PROVE  EndInv'
    OBVIOUS
  <1>0. /\ BUF_SZ \in Nat \ {0} /\ fp \in Slots /\ Slots = 1..Len(noas)
        /\ Len(noas) \in Nat /\ rest_bytes \in Nat /\ pos \in Nat /\ len \in Nat
        /\ pos <= len /\ sizes[fp] \in Nat
    BY BufferAssumption, SlotType DEF TypeOK, Slots
  <1>1. ASSUME UNCHANGED inputs
        PROVE  /\ Slots' = Slots /\ sizes' = sizes /\ noas' = noas /\ len' = len
               /\ Cut' = Cut /\ (Torn' <=> Torn) /\ Round'[Cut'] = Round[Cut]
               /\ pos' = pos => \A i : Share(i)' = Share(i)
    <2>1. Round' = Round /\ len' = len
      BY <1>1, LayoutStays DEF inputs
    <2> QED BY <1>1, <2>1, LayoutStays DEF inputs, Slots, Share, Cut, Torn
  <1>2. CASE Advance \/ ReadFull \/ ReadError \/ FlushOk \/ WriteFail
    <2>1. pc' \notin {"mid_block", "drain", "ok", "between_files"}
      BY <1>2 DEF Advance, StayInBlock, NextFile, WrapAround, StartBlock, ReadFull,
                  ReadError, FlushOk, Write, WriteFail
    <2> QED BY <2>1 DEF EndInv
  <1>3. CASE ReadEof
    <2>1. PICK rv \in Nat : rv = available
      BY ToReadBounds
    <2>2. /\ pc = "read" /\ rv < to_read /\ TakeBytes(rv) /\ Looping
          /\ rv < rest_bytes /\ rest_bytes <= sizes[fp]
      BY <1>0, <1>3, <2>1, ToReadBounds DEF ReadEof, Looping, TurnInv
    <2>3. pos' = len /\ rest_bytes' = rest_bytes - rv /\ UNCHANGED inputs
      BY <1>0, <2>1, <2>2 DEF TakeBytes, available
    <2>4. pc' = IF rv # 0 THEN "mid_block" ELSE "drain"
      BY <1>0, <1>3, <2>1, <2>2 DEF ReadEof
    <2>5. CASE rv # 0
      <3>1. fp' = fp /\ pc' = "mid_block"
        BY <1>3, <2>4, <2>5 DEF ReadEof
      <3>2. rest_bytes' > 0 /\ rest_bytes' < sizes[fp]
        BY <1>0, <2>2, <2>3, <2>5
      <3> QED BY <1>1, <2>3, <3>1, <3>2 DEF EndInv
    <2>6. CASE rv = 0
      <3>1. pc' = "drain" /\ fp' = 1 /\ pos' = pos /\ pos = len
        BY <1>0, <1>3, <2>2, <2>3, <2>4, <2>6 DEF ReadEof, TakeBytes
      <3>2. ASSUME Torn PROVE Cardinality(Share(Round[Cut])) % BUF_SZ = 0
        <4>1. rest_bytes > 0
          BY <2>2 DEF RoomInv
        <4>2. rest_bytes # sizes[fp] /\ Round[Cut] = fp
          BY <1>0, <2>2, <3>1, <3>2, <4>1, TornWhere
        <4>3. bufs[fp] = << >>
          BY <1>0, <2>2, <4>1, <4>2 DEF FillInv
        <4>4. PICK m \in Nat : Cardinality(Share(fp)) = m * BUF_SZ + Len(bufs[fp])
          BY <1>0, <2>2 DEF FillInv
        <4>5. Cardinality(Share(fp)) = m * BUF_SZ + 0
          BY <4>3, <4>4
        <4>6. (m * BUF_SZ + 0) % BUF_SZ = 0
          BY <1>0, Remainder
        <4> QED BY <4>2, <4>5, <4>6
      <3>3. \A i \in Slots : ~ (i < 1)
        BY <1>0
      <3> QED BY <1>1, <2>3, <3>1, <3>2, <3>3 DEF EndInv
    <2> QED BY <2>5, <2>6
  <1>4. CASE DrainOk
    <2>1. /\ pc = "drain" /\ pc' = (IF fp < Len(noas) THEN "drain" ELSE "ok")
          /\ fp' = (IF fp < Len(noas) THEN fp + 1 ELSE fp)
          /\ bufs' = [bufs EXCEPT ![fp] = << >>] /\ UNCHANGED <<inputs, pos>>
      BY <1>4 DEF DrainOk, Write
    <2>2. \A i \in Slots : i < fp => bufs[i] = << >>
      BY <2>1 DEF EndInv
    <2>3. \A i \in Slots : i <= fp => bufs'[i] = << >>
      BY <1>0, <2>1, <2>2 DEF TypeOK
    <2>4. pc' = "drain" => \A i \in Slots : i < fp' => bufs'[i] = << >>
      BY <1>0, <2>1, <2>3
    <2>5. pc' = "ok" => \A i \in Slots : bufs'[i] = << >>
      BY <1>0, <2>1, <2>3
    <2> QED BY <1>1, <2>1, <2>4, <2>5 DEF EndInv
  <1>5. CASE UNCHANGED vars
    <2>1. UNCHANGED <<inputs, pos, bufs, fp, rest_bytes, pc>>
      BY <1>5 DEF vars
    <2> QED BY <1>1, <2>1 DEF EndInv
  <1> QED BY <1>2, <1>3, <1>4, <1>5 DEF Next, Read, Ended

\* What holds of where the input stands, in every reachable state.
PlaceInv == TypeOK /\ RoomInv /\ TurnInv /\ FillInv /\ EndInv

LEMMA PlaceInductive ==
    /\ Init => PlaceInv
    /\ PlaceInv /\ [Next]_vars => PlaceInv'
  <1>1. Init => RoomInv /\ EndInv
    BY BufferAssumption DEF Init, RoomInv, EndInv
  <1>2. Init => PlaceInv
    BY <1>1, InitTypeOK, InitTurnInv, InitFillInv DEF PlaceInv
  <1>3. PlaceInv /\ [Next]_vars => PlaceInv'
    BY NextTypeOK, NextRoomInv, NextTurnInv, NextFillInv, NextEndInv DEF PlaceInv
  <1> QED BY <1>2, <1>3

LEMMA PlaceTorn == PlaceInv => TornOnlyAtFullBuffer
  <1> SUFFICES ASSUME PlaceInv PROVE TornOnlyAtFullBuffer
    OBVIOUS
  <1>1. pc = "mid_block" => Torn
    BY TornWhere DEF PlaceInv, EndInv, Looping, TurnInv
  <1>2. pc = "ok" /\ Torn => Cardinality(Share(Round[Cut])) % BUF_SZ = 0
    BY DEF PlaceInv, EndInv
  <1> QED BY <1>1, <1>2 DEF TornOnlyAtFullBuffer, Torn, Cut

\* An input that ends inside a block is reported as such, and only such an
\* input, except when the torn block's output has just been flushed
\* (rawilv.c:490-503).
THEOREM TornEnds == Spec => []TornOnlyAtFullBuffer
  BY PlaceInductive, PlaceTorn, PTL DEF Spec

\* The message of rawilv.c:499, "input ended between files", is never given:
\* the loop asks for more only while the block is unfinished.
THEOREM NeverBetweenFiles == Spec => [](pc # "between_files")
  <1>1. PlaceInv => pc # "between_files"
    BY DEF PlaceInv, EndInv
  <1> QED BY <1>1, PlaceInductive, PTL DEF Spec

-----------------------------------------------------------------------------
(* What each output is given.                                              *)

\* A run of numbers after all those of s can be appended.
LEMMA ListsMore ==
    ASSUME NEW n \in Nat, NEW rv \in Nat, NEW S \in SUBSET (1..n),
           NEW s \in Seq(Nat), Lists(s, S)
    PROVE  Lists(s \o [j \in 1..rv |-> n + j], S \cup (n + 1)..(n + rv))
  <1> DEFINE chunk == [j \in 1..rv |-> n + j]
  <1>1. PICK t \in Seq(Nat) : t = chunk
    <2>1. chunk \in [1..rv -> Nat]
      OBVIOUS
    <2>2. chunk \in Seq(Nat)
      BY <2>1
    <2> QED BY <2>2
  <1>2. Len(t) = rv /\ \A j \in 1..rv : t[j] = n + j
    BY <1>1
  <1>3. PICK m \in Nat, st \in Seq(Nat) : m = Len(s) /\ st = s \o t
    BY ConcatProperties, LenProperties
  <1>4. /\ Len(st) = m + rv
        /\ \A j \in 1..m : j \in 1..(m + rv) /\ st[j] = s[j]
        /\ \A k \in 1..rv : m + k \in 1..(m + rv) /\ st[m + k] = n + k
        /\ \A j \in 1..(m + rv) : j \in 1..m \/ \E k \in 1..rv : j = m + k
    <2>1. s \in Seq(Nat) /\ t \in Seq(Nat)
      BY <1>1
    <2>2. /\ Len(s \o t) = Len(s) + Len(t)
          /\ \A j \in 1..Len(s) : j \in 1..Len(s \o t) /\ (s \o t)[j] = s[j]
          /\ \A k \in 1..Len(t) : /\ Len(s) + k \in 1..Len(s \o t)
                                   /\ (s \o t)[Len(s) + k] = t[k]
          /\ \A j \in 1..Len(s \o t) :
                 j \in 1..Len(s) \/ \E k \in 1..Len(t) : j = Len(s) + k
      BY <2>1, ConcatLayout
    <2> HIDE DEF chunk
    <2> QED BY <1>2, <1>3, <2>2
  <1>5. /\ DOMAIN s = 1..m /\ DOMAIN st = 1..(m + rv)
        /\ ToSet(s) = {s[j] : j \in 1..m} /\ ToSet(st) = {st[j] : j \in 1..(m + rv)}
    <2>1. DOMAIN s = 1..m /\ DOMAIN st = 1..(m + rv)
      BY <1>3, <1>4, LenProperties
    <2> QED BY <2>1 DEF ToSet
  <1>6. /\ S = {s[j] : j \in 1..m}
        /\ \A i, j \in 1..m : i < j => s[i] < s[j]
    BY <1>5 DEF Lists
  <1>7. \A x : x \in (n + 1)..(n + rv) <=> \E k \in 1..rv : x = n + k
    <2>1. ASSUME NEW x \in (n + 1)..(n + rv) PROVE \E k \in 1..rv : x = n + k
      <3>1. x - n \in 1..rv /\ x = n + (x - n)
        OBVIOUS
      <3> QED BY <3>1
    <2>2. \A k \in 1..rv : n + k \in (n + 1)..(n + rv)
      OBVIOUS
    <2> QED BY <2>1, <2>2
  <1>8. ToSet(st) = S \cup (n + 1)..(n + rv)
    <2>1. ASSUME NEW j \in 1..(m + rv) PROVE st[j] \in S \cup (n + 1)..(n + rv)
      <3>1. CASE j \in 1..m
        BY <1>4, <1>6, <3>1
      <3>2. CASE \E k \in 1..rv : j = m + k
        BY <1>4, <1>7, <3>2
      <3> QED BY <1>4, <3>1, <3>2
    <2>2. \A x \in S : x \in ToSet(st)
      BY <1>4, <1>5, <1>6
    <2>3. ASSUME NEW x \in (n + 1)..(n + rv) PROVE x \in ToSet(st)
      <3>1. PICK k \in 1..rv : x = n + k
        BY <1>7
      <3>2. m + k \in 1..(m + rv) /\ st[m + k] = x
        BY <1>4, <3>1
      <3> QED BY <1>5, <3>2
    <2> QED BY <1>5, <2>1, <2>2, <2>3
  <1>9. ASSUME NEW i \in 1..(m + rv), NEW j \in 1..(m + rv), i < j PROVE st[i] < st[j]
    <2>1. CASE j \in 1..m
      <3>1. i \in 1..m
        BY <1>9, <2>1
      <3> QED BY <1>4, <1>6, <1>9, <2>1, <3>1
    <2>2. CASE \E k \in 1..rv : j = m + k
      <3>1. PICK k \in 1..rv : j = m + k
        BY <2>2
      <3>2. st[j] = n + k
        BY <1>4, <3>1
      <3>3. CASE i \in 1..m
        <4>1. st[i] \in 1..n
          BY <1>4, <1>6, <3>3
        <4> QED BY <3>2, <4>1
      <3>4. CASE \E l \in 1..rv : i = m + l
        <4>1. PICK l \in 1..rv : i = m + l
          BY <3>4
        <4>2. st[i] = n + l /\ l < k
          BY <1>4, <1>9, <3>1, <4>1
        <4> QED BY <3>2, <4>2
      <3> QED BY <1>4, <3>3, <3>4
    <2> QED BY <1>4, <2>1, <2>2
  <1> QED BY <1>1, <1>3, <1>5, <1>8, <1>9 DEF Lists

\* Bytes go through a buffer as they would directly.
LEMMA AppendedTwice ==
    ASSUME NEW s \in Seq(Nat), NEW b \in Seq(Nat), NEW c \in Seq(Nat)
    PROVE  (s \o b) \o c = s \o (b \o c)
  <1>1. \A S : \A x, y, z \in Seq(S) : (x \o y) \o z = x \o (y \o z)
    BY ConcatAssociative
  <1> QED BY <1>1, SMTT(30)

\* Each output has its share, on it and in its buffer; nothing is said after
\* an fwrite that failed half-way.
DealtInv ==
    Distinct /\ pc # "write_error" =>
        \A i \in Slots : Lists(outs[noas[i]] \o bufs[i], Share(i))

\* Distinct slots have distinct streams, so a write to one leaves the others.
LEMMA WriteDeals ==
    ASSUME TypeOK, DealtInv, Distinct, pc # "write_error",
           outs' = [outs EXCEPT ![noas[fp]] = @ \o bufs[fp]],
           bufs' = [bufs EXCEPT ![fp] = << >>],
           NEW i \in Slots
    PROVE  outs'[noas[i]] \o bufs'[i] = outs[noas[i]] \o bufs[i]
  <1> DEFINE B == Nat \ {0}
  <1>1. /\ fp \in Slots /\ noas[fp] \in Streams /\ noas[i] \in Streams
        /\ bufs \in [Slots -> Seq(B)] /\ outs \in [Streams -> Seq(B)]
    BY SlotType DEF TypeOK
  <1>2. CASE i = fp
    <2>1. bufs'[i] = << >> /\ outs'[noas[i]] = outs[noas[i]] \o bufs[i]
      BY <1>1, <1>2
    <2>2. outs[noas[i]] \in Seq(B) /\ bufs[i] \in Seq(B)
      BY <1>1
    <2>3. outs[noas[i]] \o bufs[i] \in Seq(B)
      BY <2>2, ConcatProperties
    <2>4. (outs[noas[i]] \o bufs[i]) \o << >> = outs[noas[i]] \o bufs[i]
      BY <2>3, ConcatEmptySeq
    <2> QED BY <2>1, <2>4
  <1>3. CASE i # fp
    <2>1. noas[i] # noas[fp]
      BY <1>1, <1>3 DEF Distinct
    <2> QED BY <1>1, <1>3, <2>1
  <1> QED BY <1>2, <1>3

LEMMA TakeBytesDeals ==
    ASSUME TypeOK, TurnInv, DealtInv, Looping, Distinct,
           NEW rv \in Nat, rv <= available, rv <= space, rv <= rest_bytes,
           TakeBytes(rv), NEW i \in Slots
    PROVE  Lists(outs'[noas'[i]] \o bufs'[i], Share(i)')
  <1>1. /\ fp \in Slots /\ noas[i] \in Streams /\ pos \in Nat
        /\ bufs \in [Slots -> Seq(Nat)] /\ outs \in [Streams -> Seq(Nat)]
    <2>1. Seq(Nat \ {0}) \subseteq Seq(Nat)
      OBVIOUS
    <2> QED BY <2>1, SlotType DEF TypeOK
  <1>2. /\ outs' = outs /\ noas' = noas
        /\ bufs' = [bufs EXCEPT ![fp] = bufs[fp] \o [j \in 1..rv |-> pos + j]]
    BY DEF TakeBytes, inputs
  <1>3. PICK s \in Seq(Nat), b \in Seq(Nat) : s = outs[noas[i]] /\ b = bufs[i]
    BY <1>1
  <1>4. Lists(s \o b, Share(i))
    BY <1>3 DEF DealtInv, Looping
  <1>5. CASE i = fp
    <2>1. PICK c \in Seq(Nat) : c = [j \in 1..rv |-> pos + j]
      <3>1. [j \in 1..rv |-> pos + j] \in [1..rv -> Nat]
        BY <1>1
      <3>2. [j \in 1..rv |-> pos + j] \in Seq(Nat)
        BY <3>1
      <3> QED BY <3>2
    <2>2. bufs'[i] = b \o c
      BY <1>1, <1>2, <1>3, <1>5, <2>1
    <2>3. s \o (b \o c) = (s \o b) \o c /\ s \o b \in Seq(Nat)
      <3>1. (s \o b) \o c = s \o (b \o c)
        BY AppendedTwice
      <3>2. s \o b \in Seq(Nat)
        BY ConcatProperties
      <3> QED BY <3>1, <3>2
    <2>4. Share(i) \in SUBSET (1..pos)
      BY DEF Share
    <2>5. Lists((s \o b) \o c, Share(i) \cup (pos + 1)..(pos + rv))
      BY <1>1, <1>4, <2>1, <2>3, <2>4, ListsMore
    <2>6. Share(i)' = Share(i) \cup (pos + 1)..(pos + rv)
      BY <1>5, TakeBytesShares
    <2> QED BY <1>2, <1>3, <2>2, <2>3, <2>5, <2>6
  <1>6. CASE i # fp
    <2>1. bufs'[i] = b
      BY <1>1, <1>2, <1>3, <1>6
    <2>2. Share(i)' = Share(i)
      BY <1>6, TakeBytesShares
    <2> QED BY <1>2, <1>3, <1>4, <2>1, <2>2
  <1> QED BY <1>5, <1>6

LEMMA NextDealtInv ==
    TypeOK /\ TurnInv /\ DealtInv /\ [Next]_vars => DealtInv'
  <1> SUFFICES ASSUME TypeOK, TurnInv, DealtInv, [Next]_vars, Distinct', pc' # "write_error",
                      NEW i \in Slots'
               PROVE  Lists(outs'[noas'[i]] \o bufs'[i], Share(i)')
    BY DEF DealtInv
  <1>0. UNCHANGED inputs
    BY DEF Next, Advance, StayInBlock, NextFile, WrapAround, StartBlock, Read,
           ReadFull, ReadError, ReadEof, TakeBytes, FlushOk, DrainOk, Write,
           WriteFail, Ended, vars
  <1>1. i \in Slots /\ Distinct /\ noas' = noas
    BY <1>0 DEF inputs, Slots, Distinct
  <1>2. pos' = pos => Share(i)' = Share(i)
    BY <1>0, LayoutStays DEF Share
  <1>3. ASSUME UNCHANGED <<pos, bufs, outs>>, pc # "write_error"
        PROVE  Lists(outs'[noas'[i]] \o bufs'[i], Share(i)')
    BY <1>1, <1>2, <1>3 DEF DealtInv
  <1>4. CASE StayInBlock
    BY <1>3, <1>4 DEF StayInBlock
  <1>5. CASE NextFile \/ WrapAround
    BY <1>3, <1>5 DEF NextFile, WrapAround, StartBlock
  <1>6. CASE ReadFull
    <2>1. PICK rv \in Nat : rv = to_read
      BY ToReadBounds
    <2>2. rv <= available /\ rv <= space /\ rv <= rest_bytes
      BY <1>6, <2>1, ToReadBounds DEF ReadFull
    <2>3. TakeBytes(rv) /\ Looping
      BY <1>6, <2>1 DEF ReadFull, TakeBytes, Looping
    <2> QED BY <1>1, <2>2, <2>3, TakeBytesDeals
  <1>7. CASE ReadError
    <2>1. PICK rv \in 0..(to_read - 1) : rv <= available /\ TakeBytes(rv)
      BY <1>7 DEF ReadError
    <2>2. rv \in Nat /\ rv <= space /\ rv <= rest_bytes
      BY <2>1, ToReadBounds DEF TypeOK
    <2> QED BY <1>1, <1>7, <2>1, <2>2, TakeBytesDeals DEF ReadError, Looping
  <1>8. CASE ReadEof
    <2>1. PICK rv \in Nat : rv = available
      BY ToReadBounds
    <2>2. rv <= available /\ rv <= space /\ rv <= rest_bytes
      BY <1>8, <2>1, ToReadBounds, SMTT(30) DEF ReadEof, TypeOK
    <2>3. TakeBytes(rv) /\ Looping
      BY <1>8, <2>1 DEF ReadEof, TakeBytes, Looping
    <2> QED BY <1>1, <2>2, <2>3, TakeBytesDeals
  <1>9. CASE FlushOk \/ DrainOk
    <2>1. /\ outs' = [outs EXCEPT ![noas[fp]] = @ \o bufs[fp]]
          /\ bufs' = [bufs EXCEPT ![fp] = << >>]
          /\ pos' = pos /\ pc \in {"flush", "drain"}
      BY <1>9 DEF FlushOk, DrainOk, Write
    <2>2. outs'[noas[i]] \o bufs'[i] = outs[noas[i]] \o bufs[i]
      BY <1>1, <2>1, WriteDeals
    <2> QED BY <1>1, <1>2, <2>1, <2>2 DEF DealtInv
  <1>10. CASE WriteFail
    BY <1>10 DEF WriteFail
  <1>11. CASE UNCHANGED vars
    BY <1>3, <1>11 DEF vars
  <1> QED
    BY <1>4, <1>5, <1>6, <1>7, <1>8, <1>9, <1>10, <1>11
    DEF Next, Advance, Read, Ended

\* Whatever the blocks, the buffers and the input's length, each output is
\* given its own blocks in order, and has all of them when the program
\* reports success.
THEOREM EachIsDealtItsBlocks == Spec => []DealtInTurn
  <1>1. Init => DealtInv
    <2> SUFFICES ASSUME Init, NEW i \in Slots
                 PROVE  Lists(outs[noas[i]] \o bufs[i], Share(i))
      BY DEF DealtInv
    <2>1. outs[noas[i]] = << >> /\ bufs[i] = << >> /\ pos = 0
      BY InitTypeOK, SlotType DEF Init
    <2>2. Share(i) = {} /\ << >> \o << >> = << >>
      BY <2>1 DEF Share
    <2>3. Lists(<< >>, {})
      BY DEF Lists, ToSet
    <2> QED BY <2>1, <2>2, <2>3
  <1>2. PlaceInv /\ DealtInv => DealtInTurn
    <2> SUFFICES ASSUME PlaceInv, DealtInv, Distinct PROVE DealtInTurn
      BY DEF DealtInTurn
    <2>1. ASSUME pc = "ok", NEW i \in Slots PROVE Lists(outs[noas[i]], Share(i))
      <3>1. bufs[i] = << >> /\ outs[noas[i]] \in Seq(Nat \ {0})
        BY <2>1, SlotType DEF PlaceInv, EndInv, TypeOK
      <3>2. outs[noas[i]] \o bufs[i] = outs[noas[i]]
        BY <3>1, ConcatEmptySeq
      <3> QED BY <2>1, <3>2 DEF DealtInv
    <2> QED BY <2>1 DEF DealtInTurn, DealtInv
  <1>3. DealtInv /\ PlaceInv /\ [Next]_vars => DealtInv'
    BY NextDealtInv DEF PlaceInv
  <1> QED BY <1>1, <1>2, <1>3, PlaceInductive, PTL DEF Spec
=============================================================================
