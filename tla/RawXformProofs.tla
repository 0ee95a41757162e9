--------------------------- MODULE RawXformProofs ---------------------------
(***************************************************************************)
(* Proofs about the transformation table, for every client, every table    *)
(* and every double, and about rawxform, for every command line, every     *)
(* table and every input.  What a step of the table preserves is shown     *)
(* once, for any client (XformClient) and for the one program.             *)
(***************************************************************************)
EXTENDS RawXform, XformClient, DataLemmas

USE DEF Double

-----------------------------------------------------------------------------
(* The table.  The shape of the state and the bounds of the bisection need *)
(* each other: TableTypeOK and LookupBrackets with the room that an append *)
(* has made are one inductive invariant.                                   *)

\* xform_table_append has made room for all of its list when it copies.
RoomIsMade == pc = "append" => size + Len(src) <= alloc

\* A value that is looked up is a number.
NumberIsSought == pc \in {"search", "found"} => from \in Int

TableInv == TableTypeOK /\ RoomIsMade /\ NumberIsSought /\ LookupBrackets

-----------------------------------------------------------------------------
(* Lemmas.                                                                 *)

\* An entry of the table has a number for its bound and for its value.
LEMMA EntryType ==
    ASSUME TableTypeOK
    PROVE  /\ size \in Nat
           /\ \A i \in 1..size : ents[i].bound \in Int /\ ents[i].value \in Int
  <1>1. \A i \in 1..size : ents[i] \in Entry
    BY DEF TableTypeOK, size
  <1>2. size \in Nat
    BY DEF TableTypeOK, size
  <1> QED BY <1>1, <1>2 DEF Entry

\* A double is a fraction.
LEMMA FractionType ==
    ASSUME NEW x \in Double PROVE Fraction(x) \in Int \X Int
  BY DEF Fraction

\* There is one coefficient less than entries.
LEMMA CoefsType ==
    ASSUME NEW es \in Seq(Entry), Len(es) >= 2
    PROVE  Coefs(es) \in Seq(Int \X Int) /\ Len(Coefs(es)) = Len(es) - 1
  <1> DEFINE n == Len(es) - 1
  <1>1. n \in Nat
    OBVIOUS
  <1>2. ASSUME NEW i \in 1..n PROVE Coef(es, i) \in Int \X Int
    <2>1. es[i] \in Entry /\ es[i + 1] \in Entry
      OBVIOUS
    <2>2. /\ es[i + 1].value \in Int /\ es[i].value \in Int
          /\ es[i + 1].bound \in Int /\ es[i].bound \in Int
      BY <2>1 DEF Entry
    <2>3. Coef(es, i) = <<0, 1>> \/
          Coef(es, i) = <<es[i + 1].value - es[i].value, es[i + 1].bound - es[i].bound>>
      BY DEF Coef
    <2> QED BY <2>2, <2>3
  <1>3. Coefs(es) \in [1..n -> Int \X Int]
    BY <1>2 DEF Coefs
  <1> QED BY <1>1, <1>3

\* Growing makes room for what is wanted, and takes none away.
LEMMA GrownIsEnough ==
    ASSUME TableTypeOK, NEW n \in Nat
    PROVE  Grown(n) \in Nat /\ Grown(n) >= alloc /\ size + n <= Grown(n)
  BY GrowAssumption DEF TableTypeOK, Grown, size

\* The middle entry is strictly between the two ends.
LEMMA CentreIsBetween ==
    ASSUME l \in Nat, r \in Nat, r - l > 1
    PROVE  centre \in Nat /\ l < centre /\ centre < r
  BY DEF centre

\* The point on the line through a found entry is a fraction.
LEMMA OnLineType ==
    ASSUME TableTypeOK, l \in 1..size, from \in Int, NEW m \in Int \X Int
    PROVE  OnLine(m) \in Int \X Int
  <1>1. ents[l].value \in Int /\ ents[l].bound \in Int
    BY EntryType
  <1>2. PICK p \in Int, q \in Int : m = <<p, q>>
    OBVIOUS
  <1>3. from - ents[l].bound \in Int
    BY <1>1
  <1>4. ents[l].value * q \in Int /\ p * (from - ents[l].bound) \in Int
    BY <1>1, <1>3
  <1> QED BY <1>1, <1>2, <1>4 DEF OnLine

-----------------------------------------------------------------------------
(* The invariant.                                                          *)

LEMMA InitEstablishes == \A n \in Nat : xform_table_alloc(n) => TableInv
  BY GrowAssumption DEF xform_table_alloc, Double, TableInv, TableTypeOK, RoomIsMade,
                        NumberIsSought,
                        LookupBrackets, size

\* Filling the table.
LEMMA FillingPreserves ==
    ASSUME TableInv,
           \/ \E es \in Seq(Given) : AppendBegin(es)
           \/ AppendNaN \/ AppendEntry \/ AppendEnd \/ Clear
           \/ \E v \in Double : NanSet(v) \/ OorSet(v)
    PROVE  TableInv'
  <1> USE DEF TableInv
  <1>1. ASSUME NEW es \in Seq(Given), AppendBegin(es) PROVE TableInv'
    <2>1. es \in Seq(Given) /\ Len(es) \in Nat
      OBVIOUS
    <2>2. CASE Fits(Len(es))
      BY <1>1, <2>1, <2>2 DEF AppendBegin, Fits, TableTypeOK, RoomIsMade, NumberIsSought,
                              LookupBrackets, size, lookup
    <2>3. CASE ~Fits(Len(es))
      <3>1. /\ alloc' \in Nat /\ size + Len(es) <= alloc'
            /\ l_coefs' = << >>
        BY <1>1, <2>1, <2>3, GrownIsEnough DEF AppendBegin
      <3>2. size <= alloc'
        BY <2>1, <3>1, EntryType
      <3> QED BY <1>1, <2>1, <3>1, <3>2
                DEF AppendBegin, TableTypeOK, RoomIsMade, NumberIsSought, LookupBrackets,
                    size,
                    lookup
    <2> QED BY <2>2, <2>3
  <1>2. CASE AppendNaN
    <2>1. Head(src) \in Given
      BY <1>2 DEF AppendNaN, TableTypeOK
    <2>2. Head(src).value \in Int
      BY <2>1 DEF Given
    <2>3. src' \in Seq(Given) /\ Len(src) = Len(src') + 1
      BY <1>2 DEF AppendNaN, TableTypeOK
    <2> QED BY <1>2, <2>2, <2>3 DEF AppendNaN, TableTypeOK, RoomIsMade, NumberIsSought,
                                    LookupBrackets, size, lookup
  <1>3. CASE AppendEntry
    <2>1. Head(src) \in Entry
      <3>1. Head(src) \in Given /\ Head(src).bound # NaN
        BY <1>3 DEF AppendEntry, TableTypeOK
      <3> QED BY <3>1 DEF Given, Entry
    <2>2. ents' \in Seq(Entry) /\ Len(ents') = size + 1
      BY <1>3, <2>1 DEF AppendEntry, TableTypeOK, size
    <2>3. src' \in Seq(Given) /\ Len(src) = Len(src') + 1
      BY <1>3 DEF AppendEntry, TableTypeOK
    <2>4. sorted_p' \in BOOLEAN
      BY <1>3 DEF AppendEntry
    <2> QED BY <1>3, <2>2, <2>3, <2>4
              DEF AppendEntry, TableTypeOK, RoomIsMade, NumberIsSought, LookupBrackets,
                  size, lookup
  <1>4. CASE AppendEnd
    BY <1>4 DEF AppendEnd, TableTypeOK, RoomIsMade, NumberIsSought, LookupBrackets, size,
                lookup, table
  <1>5. CASE Clear
    BY <1>5 DEF Clear, TableTypeOK, RoomIsMade, NumberIsSought, LookupBrackets, size,
                lookup, copying
  <1>6. ASSUME NEW v \in Double, NanSet(v) \/ OorSet(v) PROVE TableInv'
    BY <1>6
      DEF NanSet, OorSet, TableTypeOK, RoomIsMade, NumberIsSought, LookupBrackets, size,
          lookup, copying
  <1> QED BY <1>1, <1>2, <1>3, <1>4, <1>5, <1>6

\* Interpolation on and off.
LEMMA InterpolationPreserves ==
    ASSUME TableInv, LinearInterp \/ NoInterp
    PROVE  TableInv'
  <1> USE DEF TableInv
  <1>1. CASE LinearInterp
    <2>1. PICK f \in Orders : ents' = [i \in 1..size |-> ents[f[i]]]
      BY <1>1 DEF LinearInterp
    <2>2. f \in [1..size -> 1..size]
      BY <2>1 DEF Orders
    <2>3. ents' \in Seq(Entry) /\ Len(ents') = size
      <3>1. \A i \in 1..size : ents[f[i]] \in Entry
        BY <2>2 DEF TableTypeOK, size
      <3> QED BY <2>1, <3>1, EntryType, IsASeq
    <2>4. l_coefs' \in Seq(Int \X Int) /\ Len(l_coefs') = size - 1
      BY <1>1, <2>3, CoefsType DEF LinearInterp
    <2>5. Len(l_coefs') <= alloc /\ Len(ents') <= alloc
      BY <2>3, <2>4, EntryType DEF TableTypeOK
    <2>6. pc = "idle" /\ pc' = "idle" /\ UNCHANGED <<alloc, nan_value, range_value, sorted_p,
                                                   copying, lookup>>
      BY <1>1 DEF LinearInterp
    <2> QED BY <2>3, <2>4, <2>5, <2>6
              DEF TableTypeOK, RoomIsMade, NumberIsSought, LookupBrackets, size,
                  lookup, copying
  <1>2. CASE NoInterp
    BY <1>2 DEF NoInterp, TableTypeOK, RoomIsMade, NumberIsSought, LookupBrackets, size,
                lookup, copying
  <1> QED BY <1>1, <1>2

\* Mapping a double.
LEMMA ApplyPreserves ==
    ASSUME TableInv,
           \/ \E v \in Double : ApplyBegin(v)
           \/ Bisect \/ BisectEnd \/ MapFound \/ Return
    PROVE  TableInv'
  <1> USE DEF TableInv
  <1>1. ASSUME NEW v \in Double, ApplyBegin(v) PROVE TableInv'
    <2>1. v \in Double
      OBVIOUS
    <2>2. from' = v /\ UNCHANGED <<table, copying>>
      BY <1>1 DEF ApplyBegin
    <2>3. ASSUME NEW x \in Double, to' = Fraction(x), pc' = "done",
                 UNCHANGED <<l, r>>
          PROVE  TableInv'
      <3>1. to' \in Int \X Int
        BY <2>3, FractionType
      <3> QED BY <2>1, <2>2, <2>3, <3>1
                DEF TableTypeOK, RoomIsMade, NumberIsSought, LookupBrackets, size, table,
                    copying
    <2>4. CASE v # NaN /\ size > 0 /\ v >= ents[1].bound
      <3>1. v \in Int /\ size \in Nat /\ ents[1] \in Entry /\ ents[size] \in Entry
        BY <2>1, <2>4 DEF TableTypeOK, size
      <3>2. CASE v >= ents[size].bound /\ Found(size)
        BY <2>1, <2>2, <2>4, <3>1, <3>2, SMTT(30)
          DEF Found, TableTypeOK, RoomIsMade, NumberIsSought, LookupBrackets, size, table,
              copying, Entry
      <3>3. CASE /\ ~(v >= ents[size].bound)
                 /\ l' = 1 /\ r' = size /\ pc' = "search" /\ UNCHANGED to
        <4>1. v < ents[size].bound /\ size > 1
          BY <2>4, <3>1, <3>3 DEF Entry
        <4>2. ents' = ents
          BY <2>2 DEF table
        <4>3. TableTypeOK'
          BY <2>1, <2>2, <3>1, <3>3 DEF TableTypeOK, size, table, copying
        <4>4. LookupBrackets'
          BY <2>2, <2>4, <3>1, <3>3, <4>1, <4>2 DEF LookupBrackets, size, Entry
        <4> QED BY <2>2, <3>1, <3>3, <4>3, <4>4 DEF RoomIsMade, NumberIsSought
      <3>4. \/ v >= ents[size].bound /\ Found(size)
            \/ /\ ~(v >= ents[size].bound)
               /\ l' = 1 /\ r' = size /\ pc' = "search" /\ UNCHANGED to
        <4>1. ~(v < ents[1].bound) /\ ~(v = NaN \/ size = 0)
          BY <2>4, <3>1 DEF Entry
        <4> QED BY <1>1, <4>1 DEF ApplyBegin
      <3> QED BY <3>2, <3>3, <3>4
    <2>5. CASE v = NaN \/ size = 0
      <3>1. to' = Fraction(IF v = NaN THEN nan_value ELSE v) /\ pc' = "done" /\ UNCHANGED <<l, r>>
        BY <1>1, <2>5 DEF ApplyBegin
      <3>2. (IF v = NaN THEN nan_value ELSE v) \in Double
        BY <2>1 DEF TableTypeOK
      <3> QED BY <2>3, <3>1, <3>2
    <2>6. CASE v # NaN /\ size > 0 /\ v < ents[1].bound
      <3>1. to' = Fraction(range_value) /\ pc' = "done" /\ UNCHANGED <<l, r>>
        <4>1. ~(v >= ents[1].bound) /\ ~(v = NaN \/ size = 0)
          BY <2>1, <2>6, EntryType
        <4> QED BY <1>1, <4>1 DEF ApplyBegin
      <3>2. range_value \in Double
        BY DEF TableTypeOK
      <3> QED BY <2>3, <3>1, <3>2
    <2> QED BY <1>1, <2>4, <2>5, <2>6 DEF ApplyBegin
  <1>2. CASE Bisect
    <2>1. centre \in Nat /\ l < centre /\ centre < r
      BY <1>2, CentreIsBetween DEF Bisect, TableTypeOK
    <2>2. /\ 1 <= l /\ r <= size /\ from \in Int /\ size \in Nat
          /\ ents[l].bound <= from /\ from <= ents[r].bound
      BY <1>2, EntryType DEF Bisect, LookupBrackets, NumberIsSought
    <2>3. l \in Nat /\ r \in Nat
      BY DEF TableTypeOK
    <2>4. ents[centre].bound \in Int
      BY <2>1, <2>2, <2>3, EntryType
    <2>5. pc' = "search" /\ from' = from /\ ents' = ents
      BY <1>2 DEF Bisect, table
    <2>6. LookupBrackets'
      <3>1. CASE from > ents[centre].bound
        <4>1. l' = centre /\ r' = r
          BY <1>2, <3>1 DEF Bisect
        <4> QED BY <2>1, <2>2, <2>3, <2>4, <2>5, <3>1, <4>1 DEF LookupBrackets, size
      <3>2. CASE ~(from > ents[centre].bound)
        <4>1. l' = l /\ r' = centre
          BY <1>2, <3>2 DEF Bisect
        <4> QED BY <2>1, <2>2, <2>3, <2>4, <2>5, <3>2, <4>1 DEF LookupBrackets, size
      <3> QED BY <3>1, <3>2
    <2>7. TableTypeOK'
      BY <1>2, <2>1, <2>3 DEF Bisect, TableTypeOK, size, table, copying
    <2> QED BY <2>2, <2>5, <2>6, <2>7 DEF RoomIsMade, NumberIsSought
  <1>3. CASE BisectEnd
    <2>1. r = l + 1
      BY <1>3 DEF BisectEnd, LookupBrackets, TableTypeOK, size
    <2> QED BY <1>3, <2>1
              DEF BisectEnd, Found, TableTypeOK, RoomIsMade, NumberIsSought,
                  LookupBrackets, size,
                  table, copying
  <1>4. CASE MapFound
    <2>1. l \in 1..size /\ from \in Int
      BY <1>4 DEF MapFound, LookupBrackets, NumberIsSought
    <2>2. to' \in Int \X Int
      <3>1. ents[l].value \in Int
        BY <2>1, EntryType
      <3>2. \A i \in DOMAIN l_coefs : l_coefs[i] \in Int \X Int
        BY DEF TableTypeOK
      <3> QED BY <1>4, <2>1, <3>1, <3>2, OnLineType, BeyondAssumption DEF MapFound
    <2> QED BY <1>4, <2>2
              DEF MapFound, TableTypeOK, RoomIsMade, NumberIsSought, LookupBrackets, size,
                  table, copying
  <1>5. CASE Return
    BY <1>5 DEF Return, TableTypeOK, RoomIsMade, NumberIsSought, LookupBrackets, size,
                table, copying
  <1> QED BY <1>1, <1>2, <1>3, <1>4, <1>5

LEMMA StepPreserves == TableInv /\ [ClientNext]_table_vars => TableInv'
  <1> SUFFICES ASSUME TableInv, [ClientNext]_table_vars PROVE TableInv'
    OBVIOUS
  <1>1. CASE UNCHANGED table_vars
    BY <1>1 DEF table_vars, table, copying, lookup, TableInv, TableTypeOK, RoomIsMade,
                NumberIsSought, LookupBrackets, size
  <1>2. CASE Call
    BY <1>1, <1>2, FillingPreserves, InterpolationPreserves, ApplyPreserves, ClientAssumption
      DEF Call, AppendFails, LinearInterpFails
  <1>3. CASE Work
    BY <1>3, FillingPreserves, ApplyPreserves DEF Work
  <1> QED BY <1>1, <1>2, <1>3 DEF ClientNext

THEOREM TableInvariant == ClientSpec => []TableInv
  <1>1. ClientInit => TableInv
    BY InitEstablishes, ClientAssumption DEF ClientInit
  <1> QED BY <1>1, StepPreserves, PTL DEF ClientSpec

\* The table's arrays are never overrun, whatever is appended, sorted,
\* cleared and looked up in whatever order (xform.c:204-274).
THEOREM TableTypeCorrect == ClientSpec => []TableTypeOK
  BY TableInvariant, PTL DEF TableInv

\* What is looked up is bracketed by the bounds of neighbours, for a table of
\* any size and in any order (xform.c:277-306).
THEOREM LookupsBracket == ClientSpec => []LookupBrackets
  BY TableInvariant, PTL DEF TableInv

-----------------------------------------------------------------------------
(* What a double is mapped to.                                             *)

\* The last entry is found only for a value that reaches its bound.
LastIsApart ==
    /\ pc = "search" => from < ents[size].bound
    /\ pc = "found" /\ l < size => from < ents[size].bound

\* A point on a line is a fraction of a positive denominator.
SlopedIsPositive(v, w) ==
    v # NaN /\ size > 0 /\ Strict(ents) =>
        \A i \in Interval(v) : Sloped(v, i) => w[2] > 0

OutcomeInv ==
    /\ LastIsApart /\ MapsAsDocumented
    /\ pc = "done" => SlopedIsPositive(from, to)

\* In a table in strict order an earlier entry has the lesser bound.
LEMMA StrictOrder ==
    ASSUME TableTypeOK, Strict(ents), NEW i \in 1..size, NEW j \in 1..size, i < j
    PROVE  ents[i].bound < ents[j].bound
  <1>1. PICK n \in Nat : n = size
    BY EntryType
  <1>2. \A k \in 1..n : ents[k].bound \in Int
    BY <1>1, EntryType
  <1>3. \A k \in 1..(n - 1) : ents[k].bound < ents[k + 1].bound
    BY <1>1 DEF Strict, size
  <1> DEFINE T == {k \in Nat : k \in 1..n => ents[i].bound < ents[k].bound}
  <1>4. i + 1 \in T
    BY <1>1, <1>3
  <1>5. ASSUME NEW k \in Nat, k >= i + 1, k \in T PROVE k + 1 \in T
    <2> SUFFICES ASSUME k + 1 \in 1..n PROVE ents[i].bound < ents[k + 1].bound
      OBVIOUS
    <2>1. k \in 1..(n - 1) /\ k \in 1..n /\ i \in 1..n
      BY <1>1, <1>5
    <2>2. ents[i].bound < ents[k].bound /\ ents[k].bound < ents[k + 1].bound
      BY <1>3, <1>5, <2>1
    <2> QED BY <1>2, <2>1, <2>2
  <1> HIDE DEF T
  <1>6. i + 1 \in Nat
    OBVIOUS
  <1>7. \A k \in Nat : k >= i + 1 => k \in T
    BY <1>4, <1>5, <1>6, SetInduction
  <1>8. j \in T
    BY <1>7
  <1> QED BY <1>1, <1>8 DEF T

\* The interval of a value is the one that was found or, if the value is the
\* bound at its right, the next.
LEMMA FoundInterval ==
    ASSUME TableTypeOK, LookupBrackets, LastIsApart, NumberIsSought, pc = "found", Strict(ents)
    PROVE  \A i \in Interval(from) : i = l \/ (i = l + 1 /\ from = ents[i].bound /\ i < size)
  <1>1. /\ size \in Nat /\ l \in 1..size /\ from \in Int
        /\ \A i \in 1..size : ents[i].bound \in Int
        /\ ents[l].bound <= from /\ (l < size => from <= ents[l + 1].bound)
        /\ l < size => from < ents[size].bound
    BY EntryType DEF LookupBrackets, LastIsApart, NumberIsSought
  <1>2. \A i, j \in 1..size : i < j => ents[i].bound < ents[j].bound
    BY StrictOrder
  <1>3. ASSUME NEW i \in Interval(from)
        PROVE  i = l \/ (i = l + 1 /\ from = ents[i].bound /\ i < size)
    <2>1. /\ i \in 1..size /\ ents[i].bound <= from
          /\ i < size => from < ents[i + 1].bound
      BY <1>3 DEF Interval
    <2>2. ASSUME i < l PROVE FALSE
      <3>1. i + 1 \in 1..size /\ i < size /\ (i + 1 = l \/ i + 1 < l)
        BY <1>1, <2>1, <2>2
      <3>2. ents[i + 1].bound <= ents[l].bound
        BY <1>1, <1>2, <3>1
      <3> QED BY <1>1, <2>1, <3>1, <3>2
    <2>3. ASSUME i > l PROVE i = l + 1 /\ from = ents[i].bound /\ i < size
      <3>1. l + 1 \in 1..size /\ l < size /\ (i = l + 1 \/ l + 1 < i)
        BY <1>1, <2>1, <2>3
      <3>2. i = l + 1
        BY <1>1, <1>2, <2>1, <3>1
      <3> QED BY <1>1, <2>1, <3>1, <3>2
    <2> QED BY <1>1, <2>1, <2>2, <2>3
  <1> QED BY <1>3

\* A point at distance x on the line of rise p over run q from height a.
LEMMA LineArithmetic ==
    ASSUME NEW a \in Int, NEW p \in Int, NEW q \in Int, NEW x \in Int
    PROVE  /\ ((a * q + p * x) - a * q) * q = p * x * q
           /\ p = 0 => (a - a * 1) * q = p * x * 1
           /\ (a * q + p * q) - (a + p) * q = 0
  OBVIOUS

\* The line of the coefficients goes through the entry at either end.
LEMMA OnTheLine ==
    ASSUME TableTypeOK, from \in Int, l \in Nat, NEW i \in {l, l + 1}, l \in 1..size,
           i < size, Strict(ents), Finite(l), Finite(l + 1),
           i = l + 1 => from = ents[i].bound
    PROVE  IsOnLine(from, OnLine(Coef(ents, l)), i) /\ OnLine(Coef(ents, l))[2] > 0
  <1>1. l \in 1..size /\ l + 1 \in 1..size /\ size \in Nat /\ i \in 1..size /\ i + 1 \in 1..size
    BY EntryType
  <1>2. PICK a \in Int, p \in Int, b \in Int, q \in Int :
            /\ a = ents[l].value /\ a + p = ents[l + 1].value
            /\ b = ents[l].bound /\ b + q = ents[l + 1].bound
    <2>1. /\ ents[l].value \in Int /\ ents[l].bound \in Int
          /\ ents[l + 1].value \in Int /\ ents[l + 1].bound \in Int
      BY <1>1, EntryType
    <2>2. PICK a \in Int, c \in Int, b \in Int, d \in Int :
              /\ a = ents[l].value /\ c = ents[l + 1].value
              /\ b = ents[l].bound /\ d = ents[l + 1].bound
      BY <2>1
    <2>3. a + (c - a) = c /\ b + (d - b) = d /\ c - a \in Int /\ d - b \in Int
      OBVIOUS
    <2> QED BY <2>2, <2>3
  <1>3. q > 0
    <2>1. ents[l].bound < ents[l + 1].bound
      BY <1>1, StrictOrder
    <2> QED BY <1>2, <2>1
  <1>4. Coef(ents, l) = <<p, q>>
    <2>1. ents[l + 1].value - ents[l].value = p /\ ents[l + 1].bound - ents[l].bound = q
      BY <1>2
    <2> QED BY <2>1 DEF Coef, Finite
  <1>5. PICK x \in Int : x = from - b
    BY <1>2
  <1>6. PICK w : w = OnLine(Coef(ents, l))
    OBVIOUS
  <1>7. w = IF p = 0 THEN <<a, 1>> ELSE <<a * q + p * x, q>>
    BY <1>2, <1>3, <1>4, <1>5, <1>6 DEF OnLine
  <1>8. w[2] > 0
    BY <1>3, <1>7
  <1>9. CASE i = l
    <2>1. (w[1] - a * w[2]) * q = p * x * w[2] /\ w[2] # 0
      BY <1>3, <1>7, LineArithmetic
    <2>2. ents[i + 1].bound - ents[i].bound = q /\ ents[i + 1].value - ents[i].value = p
      BY <1>2, <1>9
    <2>3. IsOnLine(from, w, i)
      BY <1>2, <1>5, <1>9, <2>1, <2>2 DEF IsOnLine
    <2> QED BY <1>6, <1>8, <2>3
  <1>10. CASE i = l + 1
    <2>1. x = q /\ from - ents[i].bound = 0
      BY <1>2, <1>5, <1>10
    <2>2. w[1] - (a + p) * w[2] = 0 /\ w[2] # 0 /\ w[2] \in Int
      <3>1. CASE p = 0
        BY <1>7, <3>1
      <3>2. CASE p # 0
        BY <1>3, <1>7, <2>1, <3>2, LineArithmetic
      <3> QED BY <3>1, <3>2
    <2>3. PICK e \in Int, d \in Int : /\ e = ents[i + 1].bound - ents[i].bound
                                      /\ d = ents[i + 1].value - ents[i].value
      BY <1>1, EntryType
    <2>4. 0 * e = d * 0 * w[2]
      BY <2>2
    <2>5. IsOnLine(from, w, i)
      BY <1>2, <1>10, <2>1, <2>2, <2>3, <2>4 DEF IsOnLine
    <2> QED BY <1>6, <1>8, <2>5
  <1> QED BY <1>6, <1>9, <1>10, <1>8

\* MapFound maps as documented.
LEMMA FoundIsDocumented ==
    ASSUME TableInv, LastIsApart, MapFound
    PROVE  IsDocumented(from, to') /\ SlopedIsPositive(from, to')
  <1>1. /\ TableTypeOK /\ NumberIsSought /\ LookupBrackets /\ pc = "found"
        /\ from \in Int /\ from # NaN /\ size \in Nat /\ l \in 1..size
        /\ from' = from
    BY EntryType, NaNAssumption DEF TableInv, MapFound, NumberIsSought, LookupBrackets
  <1>2. ASSUME Strict(ents), NEW i \in Interval(from), Flat(from, i)
        PROVE  to' = <<ents[i].value, 1>>
    <2>1. to' = <<ents[l].value, 1>>
      BY <1>2 DEF MapFound, Flat
    <2>2. i = l \/ (i = l + 1 /\ from = ents[i].bound /\ i < size)
      BY <1>1, <1>2, FoundInterval
    <2>3. i # l + 1
      BY <1>1, <1>2, <2>2 DEF Flat
    <2> QED BY <2>1, <2>2, <2>3
  <1>3. ASSUME Strict(ents), NEW i \in Interval(from), Sloped(from, i)
        PROVE  IsOnLine(from, to', i) /\ to'[2] > 0
    <2>1. /\ i \in {l, l + 1} /\ i < size /\ (i = l + 1 => from = ents[i].bound)
      BY <1>1, <1>3, FoundInterval DEF Sloped
    <2>2. /\ l_coefs = [k \in 1..(size - 1) |-> Coef(ents, k)]
          /\ Finite(i) /\ Finite(i + 1)
          /\ (from = ents[i].bound => i = 1 \/ Finite(i - 1))
      BY <1>3 DEF Sloped, Coefs, size
    <2>3. l \in 1..(size - 1) /\ l_coefs # << >> /\ l \in DOMAIN l_coefs
      BY <1>1, <2>1, <2>2
    <2>4. to' = OnLine(Coef(ents, l))
      BY <2>2, <2>3 DEF MapFound
    <2>5. Finite(l) /\ Finite(l + 1)
      <3>1. i = l + 1 => i # 1 /\ i - 1 = l
        BY <1>1
      <3> QED BY <2>1, <2>2, <3>1
    <2> QED BY <1>1, <1>3, <2>1, <2>4, <2>5, OnTheLine
  <1>4. size > 0
    BY <1>1
  <1>5. IsDocumented(from, to')
    BY <1>1, <1>2, <1>3, <1>4 DEF IsDocumented
  <1> QED BY <1>3, <1>5 DEF SlopedIsPositive

\* A value that is mapped without a lookup is, too.
LEMMA ApplyIsDocumented ==
    ASSUME TableInv, NEW v \in Double, ApplyBegin(v), pc' = "done"
    PROVE  IsDocumented(v, to') /\ SlopedIsPositive(v, to')
  <1>1. v \in Double /\ NaN \notin Int /\ size \in Nat /\ TableTypeOK
    BY BeyondAssumption, NaNAssumption, EntryType DEF TableInv
  <1>2. CASE v = NaN \/ size = 0
    <2>1. to' = Fraction(IF v = NaN THEN nan_value ELSE v)
      BY <1>1, <1>2 DEF ApplyBegin
    <2> QED BY <1>1, <1>2, <2>1 DEF IsDocumented, SlopedIsPositive
  <1>3. CASE v # NaN /\ size > 0
    <2>1. v < ents[1].bound /\ to' = Fraction(range_value)
      BY <1>1, <1>3 DEF ApplyBegin, Found
    <2>2. ASSUME Strict(ents), NEW i \in Interval(v) PROVE FALSE
      <3>1. i \in 1..size /\ ents[i].bound <= v /\ 1 \in 1..size /\ v \in Int
        BY <1>1, <1>3, <2>2 DEF Interval
      <3>2. ents[1].bound \in Int /\ ents[i].bound \in Int
        BY <1>1, <3>1, EntryType
      <3>3. i = 1 \/ ents[1].bound < ents[i].bound
        <4>1. i = 1 \/ 1 < i
          BY <3>1
        <4> QED BY <1>1, <2>2, <3>1, <4>1, StrictOrder
      <3> QED BY <2>1, <3>1, <3>2, <3>3
    <2> QED BY <1>3, <2>1, <2>2 DEF IsDocumented, SlopedIsPositive
  <1> QED BY <1>1, <1>2, <1>3

\* What is said of an outcome is said of the table alone.
LEMMA SaidOfTheTable ==
    ASSUME UNCHANGED table, IsDocumented(from', to'), SlopedIsPositive(from', to')
    PROVE  IsDocumented(from, to)' /\ SlopedIsPositive(from, to)'
  <1>1. ents' = ents /\ nan_value' = nan_value /\ range_value' = range_value
        /\ l_coefs' = l_coefs
    BY DEF table
  <1> QED BY <1>1 DEF IsDocumented, SlopedIsPositive, Interval, Flat, Sloped, Strict,
                      IsOnLine, Finite, Fraction, Coefs, Coef, size

\* A call that is not a lookup leaves no outcome.
LEMMA OthersHaveNoOutcome ==
    ASSUME pc' \notin {"search", "found", "done"}
    PROVE  OutcomeInv'
  BY DEF OutcomeInv, LastIsApart, MapsAsDocumented

\* A lookup keeps to its entry.
LEMMA LookupKeepsOutcome ==
    ASSUME TableInv, OutcomeInv,
           (\E v \in Double : ApplyBegin(v)) \/ Bisect \/ BisectEnd \/ MapFound
    PROVE  OutcomeInv'
  <1>1. TableTypeOK /\ size \in Nat
    BY EntryType DEF TableInv
  <1>2. ASSUME NEW v \in Double, ApplyBegin(v) PROVE OutcomeInv'
    <2>1. UNCHANGED table /\ from' = v
      BY <1>2 DEF ApplyBegin
    <2>2. CASE pc' = "done"
      <3>1. IsDocumented(from', to') /\ SlopedIsPositive(from', to')
        BY <1>2, <2>1, <2>2, ApplyIsDocumented
      <3>2. IsDocumented(from, to)' /\ SlopedIsPositive(from, to)'
        BY <2>1, <3>1, SaidOfTheTable
      <3> QED BY <2>2, <3>2 DEF OutcomeInv, LastIsApart, MapsAsDocumented
    <2>3. CASE pc' # "done"
      <3>1. /\ v \in Int /\ size > 0
            /\ IF v >= ents[size].bound
                 THEN Found(size)
                 ELSE l' = 1 /\ r' = size /\ pc' = "search" /\ UNCHANGED to
        BY <1>2, <2>3, BeyondAssumption DEF ApplyBegin
      <3>2. ents' = ents /\ ents[size].bound \in Int
        BY <1>1, <2>1, <3>1, EntryType DEF table
      <3>3. LastIsApart'
        <4>1. CASE v >= ents[size].bound
          BY <3>1, <3>2, <4>1 DEF Found, LastIsApart, size
        <4>2. CASE ~(v >= ents[size].bound)
          BY <2>1, <3>1, <3>2, <4>2 DEF LastIsApart, size
        <4> QED BY <4>1, <4>2
      <3> QED BY <2>3, <3>3 DEF OutcomeInv, MapsAsDocumented
    <2> QED BY <2>2, <2>3
  <1>3. CASE Bisect
    BY <1>3 DEF Bisect, OutcomeInv, LastIsApart, MapsAsDocumented, table, size
  <1>4. CASE BisectEnd
    BY <1>4 DEF BisectEnd, Found, OutcomeInv, LastIsApart, MapsAsDocumented, table, size
  <1>5. CASE MapFound
    <2>1. UNCHANGED table /\ from' = from /\ pc' = "done"
      BY <1>5 DEF MapFound
    <2>2. IsDocumented(from', to') /\ SlopedIsPositive(from', to')
      BY <1>5, <2>1, FoundIsDocumented DEF OutcomeInv
    <2>3. IsDocumented(from, to)' /\ SlopedIsPositive(from, to)'
      BY <2>1, <2>2, SaidOfTheTable
    <2> QED BY <2>1, <2>3 DEF OutcomeInv, LastIsApart, MapsAsDocumented
  <1> QED BY <1>2, <1>3, <1>4, <1>5

LEMMA OutcomePreserved ==
    ASSUME TableInv, OutcomeInv, ClientNext
    PROVE  OutcomeInv'
  <1>1. CASE (\E v \in Double : ApplyBegin(v)) \/ Bisect \/ BisectEnd \/ MapFound
    BY <1>1, LookupKeepsOutcome
  <1>2. ASSUME \/ \E es \in Lists : AppendBegin(es) \/ AppendFails(es)
               \/ Clear \/ (\E v \in Settings : NanSet(v) \/ OorSet(v))
               \/ LinearInterp \/ LinearInterpFails \/ NoInterp
               \/ AppendNaN \/ AppendEntry \/ AppendEnd \/ Return
        PROVE  OutcomeInv'
    <2>1. pc' \in {"idle", "append"}
      BY <1>2 DEF AppendBegin, AppendFails, Clear, NanSet, OorSet, LinearInterp,
                  LinearInterpFails, NoInterp, AppendNaN, AppendEntry, AppendEnd, Return,
                  table_vars
    <2> QED BY <2>1, OthersHaveNoOutcome
  <1> QED BY <1>1, <1>2, ClientAssumption DEF ClientNext, Call, Work

\* Nothing but the table and the lookup is in what is said of an outcome.
LEMMA OutcomeStutters == OutcomeInv /\ UNCHANGED table_vars => OutcomeInv'
  <1> SUFFICES ASSUME OutcomeInv, UNCHANGED table_vars PROVE OutcomeInv'
    OBVIOUS
  <1>1. UNCHANGED table /\ from' = from /\ to' = to /\ pc' = pc /\ l' = l /\ ents' = ents
    BY DEF table_vars, lookup, table
  <1>2. pc = "done" => IsDocumented(from, to)' /\ SlopedIsPositive(from, to)'
    <2>1. pc = "done" => IsDocumented(from', to') /\ SlopedIsPositive(from', to')
      BY <1>1 DEF OutcomeInv, MapsAsDocumented
    <2> QED BY <1>1, <2>1, SaidOfTheTable
  <1> QED BY <1>1, <1>2 DEF OutcomeInv, LastIsApart, MapsAsDocumented, size

\* Every double within the table is mapped to what README says: to the value of
\* its interval, or to the line between the ends of it, whatever calls have
\* filled, sorted and changed the table before (xform.c:308-372).  A double
\* below the table is left out, as in MapsAsDocumented.
THEOREM MapsAsReadmeSays == ClientSpec => []MapsAsDocumented
  <1>1. ClientInit => OutcomeInv
    BY DEF ClientInit, xform_table_alloc, OutcomeInv, LastIsApart, MapsAsDocumented
  <1>2. TableInv /\ OutcomeInv /\ [ClientNext]_table_vars => OutcomeInv'
    BY OutcomePreserved, OutcomeStutters
  <1> QED BY <1>1, <1>2, TableInvariant, PTL DEF ClientSpec, OutcomeInv

-----------------------------------------------------------------------------
(* The table, as the program uses it.                                      *)

\* The steps in which the program calls the table or the table is at work.
TableStep ==
    \/ \E e \in Given : AppendBegin(<<e>>)
    \/ AppendNaN \/ AppendEntry \/ AppendEnd \/ LinearInterp
    \/ \E v \in Double : ApplyBegin(v)
    \/ Bisect \/ BisectEnd \/ MapFound \/ Return

LEMMA TableStepKeeps ==
    ASSUME TableInv, TableStep PROVE TableInv'
  <1>1. ASSUME NEW e \in Given, AppendBegin(<<e>>) PROVE TableInv'
    <2>1. <<e>> \in Seq(Given)
      OBVIOUS
    <2> QED BY <1>1, <2>1, FillingPreserves
  <1>2. CASE AppendNaN \/ AppendEntry \/ AppendEnd
    BY <1>2, FillingPreserves
  <1>3. CASE LinearInterp
    BY <1>3, InterpolationPreserves
  <1>4. ASSUME NEW v \in Double, ApplyBegin(v) PROVE TableInv'
    BY <1>4, ApplyPreserves
  <1>5. CASE Bisect \/ BisectEnd \/ MapFound \/ Return
    BY <1>5, ApplyPreserves
  <1> QED BY <1>1, <1>2, <1>3, <1>4, <1>5 DEF TableStep

LEMMA OutcomeStepKeeps ==
    ASSUME TableInv, OutcomeInv, TableStep PROVE OutcomeInv'
  <1>1. CASE \/ \E e \in Given : AppendBegin(<<e>>)
             \/ AppendNaN \/ AppendEntry \/ AppendEnd \/ LinearInterp
             \/ Return
    <2>1. pc' \in {"idle", "append"}
      BY <1>1 DEF AppendBegin, AppendNaN, AppendEntry, AppendEnd,
                  LinearInterp, Return
    <2> QED BY <2>1, OthersHaveNoOutcome
  <1>2. ASSUME NEW v \in Double, ApplyBegin(v) PROVE OutcomeInv'
    BY <1>2, LookupKeepsOutcome
  <1>3. CASE Bisect \/ BisectEnd \/ MapFound
    BY <1>3, LookupKeepsOutcome
  <1> QED BY <1>1, <1>2, <1>3 DEF TableStep

LEMMA TableStands ==
    ASSUME TableInv, OutcomeInv, UNCHANGED <<table, call>>
    PROVE  TableInv' /\ OutcomeInv'
  <1>1. UNCHANGED table_vars
    BY DEF table, call, copying, lookup, table_vars
  <1> QED BY <1>1, StepPreserves, OutcomeStutters

-----------------------------------------------------------------------------
(* The program around it.                                                  *)

\* The command line is one of those there may be, and is read in order.
ArgsInv ==
    /\ \E c \in Commands : options = c.options /\ files = c.files
    /\ next \in 1..(Len(options) + 1)
    /\ interpolation \in {"none", "linear"}
    /\ input_format \in {"uint8", "float", "double"}
    /\ output_format \in {"uint8", "float", "double"}
    /\ table_files \in Seq(DOMAIN TableLines) /\ lines \in Seq(Records)
    /\ at = "lines" => table_files # << >>

\* A call of the table is for an entry only before the table is used, and for
\* a number only while a block is mapped.
PhaseInv ==
    /\ at \in {"options", "tables", "lines", "output", "files", "read", "map"} \cup Exits
    /\ no_memory \in BOOLEAN
    /\ pc \in {"idle", "append", "search", "found", "done"}
    /\ pc = "append" => at \in {"options", "lines"}
    /\ pc \in {"search", "found", "done"} => at = "map"

Pending == IF pc \in {"search", "found", "done"} THEN 1 ELSE 0

\* A block is what has still to be mapped, what is being mapped and what has
\* been, and there is one only while at = "map".
BlockInv ==
    /\ input_files \in Seq(Streams)
    /\ at \in {"read", "map"} => input_files # << >>
    /\ pos \in [Streams -> Nat] /\ \A s \in Streams : pos[s] <= Len(Data[s])
    /\ rest \in Seq(Double) /\ done \in Seq(Int \X Int)
    /\ Len(rest) + Len(done) + Pending <= BUF_SZ
    /\ at # "map" => rest = << >> /\ done = << >>

ProgramInv == ArgsInv /\ PhaseInv /\ BlockInv

\* What CommandsAssumption says of the command line.
LEMMA CommandLine ==
    ASSUME ArgsInv
    PROVE  /\ files \in Seq(Streams) /\ Len(options) \in Nat
           /\ DOMAIN options = 1..Len(options)
           /\ \A k \in 1..Len(options) :
                  /\ options[k].key = "f" => options[k].arg \in DOMAIN TableLines
                  /\ options[k].key = "e" => options[k].arg \in Records
  BY CommandsAssumption DEF ArgsInv

LEMMA RecordType ==
    ASSUME NEW x \in Records PROVE x.entry \in Given
  BY DEF Records

LEMMA OptionsKeep ==
    ASSUME ProgramInv, Options PROVE ProgramInv'
  <1> USE DEF ProgramInv
  <1>0. /\ Len(options) \in Nat /\ files \in Seq(Streams)
        /\ \A k \in 1..Len(options) :
               options[k].key = "f" => options[k].arg \in DOMAIN TableLines
    BY CommandLine
  <1>1. CASE StoreTableFile
    <2>0. table_files' \in Seq(DOMAIN TableLines)
      <3>1. options[next].arg \in DOMAIN TableLines
        BY <1>0, <1>1 DEF StoreTableFile, IsNext, option, ArgsInv
      <3>2. \/ table_files' = table_files
            \/ table_files' = Append(table_files, options[next].arg)
        BY <1>1 DEF StoreTableFile, option
      <3> QED BY <3>1, <3>2 DEF ArgsInv
    <2>1. ArgsInv'
      BY <1>0, <1>1, <2>0 DEF StoreTableFile, IsNext, NextOption, NoMemory, ArgsInv, args
    <2>2. PhaseInv' /\ BlockInv'
      BY <1>1 DEF StoreTableFile, IsNext, NextOption, NoMemory, PhaseInv, BlockInv, Pending,
                  table, call, copying, lookup, args, stream, Idle
    <2> QED BY <2>1, <2>2
  <1>2. CASE AddEntry
    <2>1. ArgsInv'
      BY <1>0, <1>2 DEF AddEntry, IsNext, NextOption, NoMemory, Usage, ArgsInv, args, loading
    <2>2. pc' \in {"idle", "append"} /\ pc = "idle" /\ at = "options" /\ (pc' = "append" => at' = "options")
      BY <1>2 DEF AddEntry, IsNext, NextOption, NoMemory, Usage, Idle, call, copying,
                  lookup, AppendBegin, AppendFails, table_vars
    <2>3. PhaseInv' /\ BlockInv'
      BY <1>2, <2>2 DEF AddEntry, IsNext, NextOption, NoMemory, Usage, PhaseInv, BlockInv,
                        Pending,
                  args, stream, Exits
    <2> QED BY <2>1, <2>3
  <1>3. CASE SetInterpolation \/ SetInputFormat \/ SetOutputFormat
    <2>1. ArgsInv'
      BY <1>0, <1>3 DEF SetInterpolation, SetInputFormat, SetOutputFormat, IsNext, NextOption,
                        Usage, ArgsInv, loading
    <2>2. PhaseInv' /\ BlockInv'
      BY <1>3 DEF SetInterpolation, SetInputFormat, SetOutputFormat, IsNext, NextOption,
                  Usage, PhaseInv, BlockInv, Pending, call, copying, lookup, stream, Idle, Exits
    <2> QED BY <2>1, <2>2
  <1>4. CASE StoreFiles
    <2>1. ArgsInv'
      BY <1>4 DEF StoreFiles, NoMemory, ArgsInv, args, loading
    <2>2. input_files' \in Seq(Streams)
      <3>1. <<StdIn>> \in Seq(Streams) /\ input_files \in Seq(Streams)
        BY StreamsAssumption DEF BlockInv
      <3> QED BY <1>0, <1>4, <3>1 DEF StoreFiles
    <2>3. PhaseInv' /\ BlockInv'
      BY <1>4, <2>2 DEF StoreFiles, NoMemory, PhaseInv, BlockInv, Pending, call, copying,
                        lookup, Idle
    <2> QED BY <2>1, <2>3
  <1> QED BY <1>1, <1>2, <1>3, <1>4 DEF Options

LEMMA LoadingKeeps ==
    ASSUME ProgramInv, Loading PROVE ProgramInv'
  <1> USE DEF ProgramInv
  <1>1. CASE OpenTable
    <2>1. ArgsInv'
      BY <1>1, CommandsAssumption DEF OpenTable, ArgsInv, args
    <2>2. PhaseInv' /\ BlockInv'
      BY <1>1 DEF OpenTable, PhaseInv, BlockInv, Pending, call, copying, lookup, stream,
                  Idle, Exits
    <2> QED BY <2>1, <2>2
  <1>2. CASE SkipLine \/ GarbageLine \/ LoadEntry
    <2>0. lines # << >> /\ lines' = Tail(lines) /\ UNCHANGED <<args, next, table_files>>
          /\ at = "lines"
      BY <1>2 DEF SkipLine, GarbageLine, LoadEntry, ReadLine
    <2>1. ArgsInv'
      <3>1. lines' \in Seq(Records)
        BY <2>0 DEF ArgsInv
      <3> QED BY <2>0, <3>1 DEF ArgsInv, args
    <2>2. /\ pc' \in {"idle", "append"} /\ pc = "idle" /\ at = "lines"
          /\ pc' = "append" => at' = "lines"
          /\ at' \in {"lines", "table_error"} /\ no_memory' \in {TRUE, no_memory}
          /\ UNCHANGED stream
      BY <1>2 DEF SkipLine, GarbageLine, LoadEntry, ReadLine, Idle, call, copying, lookup,
                  AppendBegin, AppendFails, table_vars
    <2>3. PhaseInv' /\ BlockInv'
      BY <2>2 DEF PhaseInv, BlockInv, Pending, stream, Exits
    <2> QED BY <2>1, <2>3
  <1>3. CASE TableReadError \/ EndOfTable
    <2>1. ArgsInv'
      <3>1. table_files' \in Seq(DOMAIN TableLines)
        <4>1. table_files \in Seq(DOMAIN TableLines) /\ (at = "lines" => table_files # << >>)
          BY DEF ArgsInv
        <4>2. table_files' = table_files \/ (at = "lines" /\ table_files' = Tail(table_files))
          BY <1>3 DEF TableReadError, EndOfTable, loading
        <4> QED BY <4>1, <4>2
      <3> QED BY <1>3, <3>1 DEF TableReadError, EndOfTable, ArgsInv, args, loading
    <2>2. PhaseInv' /\ BlockInv'
      BY <1>3 DEF TableReadError, EndOfTable, PhaseInv, BlockInv, Pending, call, copying,
                  lookup, stream, Idle, Exits
    <2> QED BY <2>1, <2>2
  <1> QED BY <1>1, <1>2, <1>3 DEF Loading

\* What a block takes of an input that has it.
LEMMA BlockRead ==
    ASSUME BlockInv, input_files # << >>, NEW n \in Nat, n <= available
    PROVE  /\ stream_in \in Streams
           /\ pos[stream_in] \in Nat /\ pos[stream_in] + n <= Len(Data[stream_in])
           /\ SubSeq(Data[stream_in], pos[stream_in] + 1, pos[stream_in] + n)
                  \in Seq(Double)
           /\ Len(SubSeq(Data[stream_in], pos[stream_in] + 1, pos[stream_in] + n)) = n
           /\ \A j \in 1..n :
                  SubSeq(Data[stream_in], pos[stream_in] + 1, pos[stream_in] + n)[j]
                      = Data[stream_in][pos[stream_in] + j]
  <1>1. stream_in \in Streams
    BY DEF stream_in, BlockInv
  <1>2. PICK p \in Nat : p = pos[stream_in]
    BY <1>1 DEF BlockInv
  <1>3. PICK d \in Seq(Double) : d = Data[stream_in]
    BY <1>1, StreamsAssumption
  <1>4. p + n <= Len(d) /\ Len(d) \in Nat
    BY <1>1, <1>2, <1>3, SMTT(30) DEF available, BlockInv
  <1>5. /\ SubSeq(d, p + 1, p + n) \in Seq(Double)
        /\ Len(SubSeq(d, p + 1, p + n)) = n
        /\ \A j \in 1..n : SubSeq(d, p + 1, p + n)[j] = d[p + j]
    <2>1. p + 1 \in 1..(Len(d) + 1) /\ p + n \in p..Len(d)
      BY <1>4
    <2>2. /\ SubSeq(d, p + 1, p + n) \in Seq(Double)
          /\ Len(SubSeq(d, p + 1, p + n)) = n
      BY <1>4, <2>1
    <2>3. \A j \in 1..n : SubSeq(d, p + 1, p + n)[j] = d[p + j]
      BY <1>4, <2>1
    <2> QED BY <2>2, <2>3
  <1> QED BY <1>1, <1>2, <1>3, <1>4, <1>5

\* All that is read and mapped.
LEMMA MappingKeeps ==
    ASSUME ProgramInv, TableInv, Mapping PROVE ProgramInv'
  <1> USE DEF ProgramInv
  <1>1. CASE Prepare
    <2>1. ArgsInv'
      BY <1>1 DEF Prepare, ArgsInv, args, loading
    <2>2. pc' = "idle" /\ pc = "idle" /\ no_memory' \in BOOLEAN /\ at = "tables" /\ at' = "output" /\ UNCHANGED stream
      BY <1>1 DEF Prepare, PhaseInv, Idle, call, copying, lookup, LinearInterp,
                  LinearInterpFails, table_vars
    <2>3. PhaseInv' /\ BlockInv'
      BY <2>2 DEF PhaseInv, BlockInv, Pending, stream
    <2> QED BY <2>1, <2>3
  <1>2. CASE OpenOutput \/ OpenInput \/ Finish
    <2>1. ArgsInv'
      BY <1>2 DEF OpenOutput, OpenInput, Finish, ArgsInv, args, loading
    <2>2. PhaseInv' /\ BlockInv'
      BY <1>2 DEF OpenOutput, OpenInput, Finish, PhaseInv, BlockInv, Pending, call,
                  copying, lookup, stream, Idle, Exits
    <2> QED BY <2>1, <2>2
  <1>3. CASE ReadBlock
    <2>1. ArgsInv'
      BY <1>3 DEF ReadBlock, ArgsInv, args, loading
    <2>2. PICK n \in 0..BUF_SZ :
            /\ n <= available
            /\ rest' = SubSeq(Data[stream_in], pos[stream_in] + 1, pos[stream_in] + n)
            /\ pos' = [pos EXCEPT ![stream_in] = @ + n]
            /\ \/ n > 0 /\ at' = "map" /\ UNCHANGED input_files
               \/ /\ n = 0 /\ available = 0
                  /\ input_files' = Tail(input_files) /\ at' = "files"
               \/ n = 0 /\ at' = "read_error" /\ UNCHANGED input_files
      BY <1>3 DEF ReadBlock
    <2>3. n \in Nat /\ n <= BUF_SZ /\ input_files # << >> /\ input_files \in Seq(Streams)
          /\ at = "read" /\ pc = "idle" /\ UNCHANGED <<call, done, no_memory>>
      BY <1>3, <2>2, BufferAssumption DEF ReadBlock, BlockInv, Idle
    <2>4. rest' \in Seq(Double) /\ Len(rest') = n
      BY <2>2, <2>3, BlockRead
    <2>5. /\ stream_in \in Streams
          /\ pos[stream_in] \in Nat /\ pos[stream_in] + n <= Len(Data[stream_in])
      BY <2>2, <2>3, BlockRead
    <2>6. pos' \in [Streams -> Nat] /\ \A s \in Streams : pos'[s] <= Len(Data[s])
      BY <2>2, <2>3, <2>5, SMTT(30) DEF BlockInv
    <2>7. input_files' \in Seq(Streams) /\ (at' = "map" => input_files' # << >>)
          /\ at' \in {"map", "files", "read_error"} /\ (at' # "map" => rest' = << >>)
      <3>1. at' # "map" => rest' = << >>
        BY <2>2, <2>4
      <3> QED BY <2>2, <2>3, <3>1, SMTT(30)
    <2>8. PhaseInv'
      BY <2>3, <2>7 DEF PhaseInv, call, copying, lookup, Exits
    <2>9. done' = << >>
      BY <2>3 DEF BlockInv
    <2>10. BlockInv'
      <3>1. Len(rest') + Len(done') + Pending' <= BUF_SZ
        BY <2>3, <2>4, <2>9, BufferAssumption DEF Pending, call, copying, lookup
      <3> QED BY <2>3, <2>4, <2>6, <2>7, <2>9, <3>1 DEF BlockInv
    <2> QED BY <2>1, <2>8, <2>10
  <1>4. CASE MapNext
    <2>1. ArgsInv'
      BY <1>4 DEF MapNext, ArgsInv, args, loading
    <2>2. /\ pc = "idle" /\ pc' \in {"search", "found", "done"} /\ at = "map" /\ at' = "map"
          /\ rest # << >> /\ rest' = Tail(rest)
          /\ UNCHANGED <<input_files, pos, done, no_memory>>
      BY <1>4 DEF MapNext, ApplyBegin, Found, Idle
    <2>3. rest' \in Seq(Double) /\ Len(rest') = Len(rest) - 1
          /\ Len(rest) \in Nat /\ Len(done) \in Nat
      BY <2>2 DEF BlockInv
    <2>4. BlockInv'
      <3>1. Len(rest') + Len(done') + Pending' <= BUF_SZ
        BY <2>2, <2>3, BufferAssumption DEF Pending, BlockInv
      <3> QED BY <2>2, <2>3, <3>1 DEF BlockInv
    <2>5. PhaseInv'
      BY <2>2 DEF PhaseInv
    <2> QED BY <2>1, <2>4, <2>5
  <1>5. CASE TakeOutcome
    <2>1. ArgsInv'
      BY <1>5 DEF TakeOutcome, ArgsInv, args, loading
    <2>2. /\ pc = "done" /\ pc' = "idle" /\ at = "map" /\ at' = "map"
          /\ done' = Append(done, to)
          /\ UNCHANGED <<input_files, pos, rest, no_memory>>
      BY <1>5 DEF TakeOutcome, Return
    <2>3. to \in Int \X Int
      BY DEF TableInv, TableTypeOK
    <2>4. done' \in Seq(Int \X Int) /\ Len(done') = Len(done) + 1
          /\ Len(rest) \in Nat /\ Len(done) \in Nat
      BY <2>2, <2>3 DEF BlockInv
    <2>5. BlockInv'
      <3>1. Len(rest') + Len(done') + Pending' <= BUF_SZ
        BY <2>2, <2>4, BufferAssumption DEF Pending, BlockInv
      <3> QED BY <2>2, <2>4, <3>1 DEF BlockInv
    <2>6. PhaseInv'
      BY <2>2 DEF PhaseInv
    <2> QED BY <2>1, <2>5, <2>6
  <1>6. CASE WriteBlock
    <2>1. ArgsInv'
      BY <1>6 DEF WriteBlock, ArgsInv, args, loading
    <2>2. /\ pc = "idle" /\ pc' = "idle" /\ at = "map" /\ at' \in {"read", "write_error"}
          /\ rest = << >> /\ done' = << >>
          /\ UNCHANGED <<input_files, pos, rest, no_memory>>
      BY <1>6 DEF WriteBlock, call, copying, lookup, Idle
    <2>3. BlockInv'
      BY <2>2, BufferAssumption DEF BlockInv, Pending
    <2>4. PhaseInv'
      BY <2>2 DEF PhaseInv, Exits
    <2> QED BY <2>1, <2>3, <2>4
  <1> QED BY <1>1, <1>2, <1>3, <1>4, <1>5, <1>6 DEF Mapping

\* The library at work.
LEMMA LibraryKeeps ==
    ASSUME ProgramInv, Library PROVE ProgramInv'
  <1> USE DEF ProgramInv
  <1>1. UNCHANGED <<args, next, loading, stream, no_memory, at>>
    BY DEF Library
  <1>2. \/ pc = "append" /\ pc' \in {"append", "idle"}
        \/ pc \in {"search", "found", "done"} /\ pc' \in {"search", "found", "done"}
    BY DEF Library, AppendNaN, AppendEntry, AppendEnd, Bisect, BisectEnd,
           MapFound, Found
  <1>3. ArgsInv'
    BY <1>1 DEF ArgsInv, args, loading
  <1>4. PhaseInv' /\ BlockInv'
    BY <1>1, <1>2 DEF PhaseInv, BlockInv, Pending, stream
  <1> QED BY <1>3, <1>4

\* Every step of the program is one of the table's or leaves it alone.
LEMMA StepsOfTheTable ==
    ASSUME ProgramInv, Next
    PROVE  TableStep \/ UNCHANGED <<table, call>>
  <1>1. CASE Library
    BY <1>1 DEF Library, TableStep
  <1>2. CASE AddEntry
    <2>1. option.arg.kind = "entry" => option.arg.entry \in Given
      <3>1. option.arg \in Records
        BY <1>2, CommandLine DEF AddEntry, IsNext, option, ArgsInv, ProgramInv
      <3> QED BY <3>1, RecordType
    <2> QED BY <1>2, <2>1 DEF AddEntry, TableStep, AppendFails, table_vars, table,
                              copying, lookup, call
  <1>3. CASE StoreTableFile \/ SetInterpolation \/ SetInputFormat \/ SetOutputFormat \/ StoreFiles
    BY <1>3 DEF StoreTableFile, SetInterpolation, SetInputFormat, SetOutputFormat, StoreFiles
  <1>4. CASE LoadEntry
    <2>1. Head(lines).entry \in Given
      <3>1. Head(lines) \in Records
        BY <1>4 DEF LoadEntry, ReadLine, ArgsInv, ProgramInv
      <3> QED BY <3>1, RecordType
    <2> QED BY <1>4, <2>1 DEF LoadEntry, TableStep, AppendFails, table_vars, table,
                              copying, lookup, call
  <1>5. CASE OpenTable \/ SkipLine \/ GarbageLine \/ TableReadError \/ EndOfTable
    BY <1>5 DEF OpenTable, SkipLine, GarbageLine, TableReadError, EndOfTable
  <1>6. CASE Prepare
    BY <1>6 DEF Prepare, TableStep, LinearInterpFails, table_vars, table, copying, lookup,
                call
  <1>7. CASE MapNext
    <2>1. Head(rest) \in Double
      BY <1>7 DEF MapNext, ProgramInv, BlockInv
    <2> QED BY <1>7, <2>1 DEF MapNext, TableStep
  <1>8. CASE OpenOutput \/ OpenInput \/ ReadBlock \/ TakeOutcome \/ WriteBlock \/ Finish \/ Ended
    BY <1>8 DEF OpenOutput, OpenInput, ReadBlock, TakeOutcome, WriteBlock, Finish, Ended,
                TableStep, vars
  <1> QED BY <1>1, <1>2, <1>3, <1>4, <1>5, <1>6, <1>7, <1>8 DEF Next, Options, Loading,
                                                                Mapping

StateInv == TableInv /\ OutcomeInv /\ ProgramInv

LEMMA InitState == Init => StateInv
  <1> SUFFICES ASSUME Init PROVE StateInv
    OBVIOUS
  <1>1. xform_table_alloc(0)
    BY DEF Init, xform_table_alloc
  <1>2. TableInv
    BY <1>1, InitEstablishes
  <1>3. OutcomeInv
    BY <1>1, OthersHaveNoOutcome
      DEF xform_table_alloc, OutcomeInv, LastIsApart, MapsAsDocumented
  <1>4. Len(options) \in Nat
    BY CommandsAssumption DEF Init
  <1>5. ArgsInv
    BY <1>4 DEF Init, ArgsInv
  <1>6. PhaseInv /\ BlockInv
    <2>1. pos \in [Streams -> Nat] /\ \A s \in Streams : pos[s] <= Len(Data[s])
      BY StreamsAssumption DEF Init
    <2>2. rest = << >> /\ done = << >> /\ pc = "idle" /\ at \in {"options", "alloc_error"}
          /\ no_memory = FALSE /\ input_files = << >>
      BY DEF Init, xform_table_alloc
    <2>3. PhaseInv
      BY <2>2 DEF PhaseInv, Exits
    <2>4. Len(rest) + Len(done) + Pending <= BUF_SZ
      BY <2>2, BufferAssumption DEF Pending
    <2>5. rest \in Seq(Double) /\ done \in Seq(Int \X Int) /\ input_files \in Seq(Streams)
      BY <2>2
    <2> QED BY <2>1, <2>2, <2>3, <2>4, <2>5 DEF BlockInv
  <1> QED BY <1>2, <1>3, <1>5, <1>6 DEF StateInv, ProgramInv

LEMMA StateKept == StateInv /\ [Next]_vars => StateInv'
  <1> SUFFICES ASSUME StateInv, [Next]_vars PROVE StateInv'
    OBVIOUS
  <1> USE DEF StateInv
  <1>1. CASE UNCHANGED vars
    <2>1. ProgramInv'
      BY <1>1 DEF vars, call, copying, lookup, args, loading, stream, ProgramInv, ArgsInv,
                  PhaseInv, BlockInv, Pending
    <2>2. UNCHANGED <<table, call>>
      BY <1>1 DEF vars
    <2> QED BY <2>1, <2>2, TableStands
  <1>2. CASE Next
    <2>1. ProgramInv'
      <3>1. Ended => UNCHANGED vars
        BY DEF Ended
      <3> QED BY <1>1, <1>2, <3>1, LibraryKeeps, OptionsKeep, LoadingKeeps, MappingKeeps
        DEF Next
    <2>2. TableInv' /\ OutcomeInv'
      BY <1>2, StepsOfTheTable, TableStepKeeps, OutcomeStepKeeps, TableStands
    <2> QED BY <2>1, <2>2
  <1> QED BY <1>1, <1>2

\* No input is read past its end, no block exceeds the buffers and the table
\* is never overrun, whatever options, table files and inputs there are and
\* wherever memory or a file fails (rawxform.c:136-183).
THEOREM TypeCorrect == Spec => []TypeOK
  <1>1. StateInv => TypeOK
    <2> SUFFICES ASSUME StateInv PROVE TypeOK
      OBVIOUS
    <2>1. TableTypeOK
      BY DEF StateInv, TableInv
    <2>2. Len(rest) + Len(done) <= BUF_SZ
      <3>1. Len(rest) \in Nat /\ Len(done) \in Nat /\ Len(rest) + Len(done) + Pending <= BUF_SZ
        BY DEF StateInv, ProgramInv, BlockInv
      <3> QED BY <3>1, BufferAssumption DEF Pending
    <2> QED BY <2>1, <2>2 DEF TypeOK, StateInv, ProgramInv, ArgsInv, PhaseInv, BlockInv
  <1> QED BY <1>1, InitState, StateKept, PTL DEF Spec

-----------------------------------------------------------------------------
(* The coefficients.                                                       *)

\* There are none before the table is complete, and the table that is used
\* does not change.
CoefsInv ==
    /\ at \in {"options", "tables", "lines"} => l_coefs = << >>
    /\ CoefsAreCurrent

\* What xform_table_linear_interp leaves.
LEMMA LinearInterpLeaves ==
    ASSUME TableInv, LinearInterp
    PROVE  l_coefs' = Coefs(ents)' /\ Sorted(ents)' /\ l_coefs' # << >>
  <1>1. PICK f \in Orders : ents' = [k \in 1..size |-> ents[f[k]]]
    BY DEF LinearInterp
  <1>2. Sorted(ents')
    BY <1>1 DEF Orders
  <1>3. l_coefs' = Coefs(ents')
    BY DEF LinearInterp
  <1>4. Len(ents') = size /\ size \in Nat /\ size >= 2
    <2>1. size \in Nat /\ size >= 2
      BY DEF LinearInterp, TableInv, TableTypeOK, size
    <2> QED BY <1>1, <2>1
  <1>5. l_coefs' # << >>
    <2>1. 1 \in DOMAIN l_coefs'
      BY <1>3, <1>4 DEF Coefs
    <2> QED BY <2>1
  <1>6. l_coefs' = Coefs(ents)' /\ Sorted(ents)'
    BY <1>2, <1>3 DEF Coefs, Coef, Sorted
  <1> QED BY <1>5, <1>6

\* What is said of the coefficients is said of the table.
LEMMA SameCoefs ==
    ASSUME CoefsAreCurrent, UNCHANGED <<ents, l_coefs, interpolation, no_memory>>, Loaded
    PROVE  CoefsAreCurrent'
  BY DEF CoefsAreCurrent, Coefs, Coef, Sorted

LEMMA CoefsKept ==
    ASSUME StateInv, CoefsInv, [Next]_vars PROVE CoefsInv'
  <1> USE DEF CoefsInv
  <1>1. CASE Library
    <2>1. UNCHANGED <<interpolation, no_memory, at, l_coefs>>
      BY <1>1 DEF Library, args, AppendNaN, AppendEntry, AppendEnd, Bisect,
                  BisectEnd, MapFound, table
    <2>2. CASE Loaded
      <3>1. pc # "append"
        BY <2>2 DEF Loaded, StateInv, ProgramInv, PhaseInv
      <3>2. ents' = ents
        BY <1>1, <3>1 DEF Library, AppendNaN, AppendEntry, AppendEnd, Bisect,
                          BisectEnd, MapFound, table
      <3>3. CoefsAreCurrent'
        BY <2>1, <2>2, <3>2, SameCoefs
      <3> QED BY <2>1, <3>3
    <2>3. CASE ~Loaded
      BY <2>1, <2>3 DEF CoefsAreCurrent, Loaded
    <2> QED BY <2>2, <2>3
  <1>2. CASE Options
    <2>1. at = "options" /\ at' \in {"options", "usage", "tables"}
      BY <1>2 DEF Options, StoreTableFile, AddEntry, SetInterpolation, SetInputFormat,
                  SetOutputFormat, StoreFiles, IsNext, NextOption, NoMemory, Usage
    <2>2. l_coefs' \in {l_coefs, << >>}
      BY <1>2 DEF Options, StoreTableFile, AddEntry, SetInterpolation, SetInputFormat,
                  SetOutputFormat, StoreFiles, table, AppendBegin, AppendFails, table_vars
    <2> QED BY <2>1, <2>2 DEF CoefsAreCurrent, Loaded
  <1>3. CASE Loading
    <2>1. at \in {"tables", "lines"} /\ at' \in {"tables", "lines", "open_error", "table_error"}
      BY <1>3 DEF Loading, OpenTable, SkipLine, LoadEntry, GarbageLine, TableReadError,
                  EndOfTable, ReadLine
    <2>2. l_coefs' \in {l_coefs, << >>}
      BY <1>3 DEF Loading, OpenTable, SkipLine, LoadEntry, GarbageLine, TableReadError,
                  EndOfTable, ReadLine, table, AppendBegin, AppendFails, table_vars
    <2> QED BY <2>1, <2>2 DEF CoefsAreCurrent, Loaded
  <1>4. CASE Prepare
    <2>1. at = "tables" /\ l_coefs = << >> /\ at' = "output" /\ interpolation' = interpolation
      BY <1>4 DEF Prepare, args
    <2>2. CASE interpolation = "linear" /\ LinearInterp
      <3>1. l_coefs' = Coefs(ents)' /\ Sorted(ents)' /\ l_coefs' # << >>
        BY <2>2, LinearInterpLeaves DEF StateInv
      <3> QED BY <2>1, <2>2, <3>1 DEF CoefsAreCurrent
    <2>3. CASE \/ interpolation = "none" /\ UNCHANGED <<table, call, no_memory>>
               \/ /\ interpolation = "linear" /\ LinearInterpFails
                  /\ no_memory' = (no_memory \/ Len(ents) >= 2)
      <3>1. l_coefs' = << >> /\ ents' = ents
        BY <2>1, <2>3 DEF LinearInterpFails, table_vars, table
      <3> QED BY <2>1, <2>3, <3>1 DEF CoefsAreCurrent
    <2> QED BY <1>4, <2>2, <2>3 DEF Prepare
  <1>5. CASE OpenOutput \/ OpenInput \/ ReadBlock \/ MapNext \/ TakeOutcome \/ WriteBlock \/ Finish
    <2>1. Loaded /\ at' \notin {"options", "tables", "lines"}
      BY <1>5 DEF OpenOutput, OpenInput, ReadBlock, MapNext, TakeOutcome, WriteBlock, Finish,
                  Loaded
    <2>2. UNCHANGED <<ents, l_coefs, interpolation, no_memory>>
      BY <1>5 DEF OpenOutput, OpenInput, ReadBlock, MapNext, TakeOutcome, WriteBlock,
                  Finish, args, table, ApplyBegin, Return
    <2> QED BY <2>1, <2>2, SameCoefs
  <1>6. CASE UNCHANGED vars \/ Ended
    <2>1. UNCHANGED <<ents, l_coefs, interpolation, no_memory, at>>
      BY <1>6 DEF Ended, vars, table, args
    <2> QED BY <2>1, SameCoefs DEF CoefsAreCurrent, Loaded
  <1> QED BY <1>1, <1>2, <1>3, <1>4, <1>5, <1>6 DEF Next, Mapping

\* The coefficients that are used belong to the table that is used, and it is
\* in order: the library would not see to it, the order in which rawxform
\* calls it does (rawxform.c:493-527, xform.c:156-198).
THEOREM CoefsBelongToTable == Spec => []CoefsAreCurrent
  <1>1. Init => CoefsInv
    BY DEF Init, xform_table_alloc, CoefsInv, CoefsAreCurrent, Loaded
  <1>2. CoefsInv => CoefsAreCurrent
    BY DEF CoefsInv
  <1> QED BY <1>1, <1>2, InitState, StateKept, CoefsKept, PTL DEF Spec

-----------------------------------------------------------------------------
(* The bytes.                                                              *)

\* A positive factor keeps the order.
LEMMA Grows ==
    ASSUME NEW a \in Int, NEW b \in Int, NEW w \in Int, w > 0
    PROVE  (a <= b) = (a * w <= b * w)
  <1>1. ASSUME a <= b PROVE a * w <= b * w
    <2>1. PICK d \in Nat : b = a + d
      BY <1>1
    <2>2. d * w >= 0 /\ b * w = a * w + d * w /\ a * w \in Int /\ d * w \in Int
      BY <2>1
    <2> QED BY <2>2
  <1>2. ASSUME a > b PROVE a * w > b * w
    <2>1. PICK d \in Nat \ {0} : a = b + d
      <3>1. a - b \in Nat \ {0} /\ a = b + (a - b)
         BY <1>2
      <3> QED BY <3>1
    <2>2. d * w > 0 /\ a * w = b * w + d * w /\ b * w \in Int /\ d * w \in Int
      BY <2>1
    <2> QED BY <2>2
  <1>3. a * w \in Int /\ b * w \in Int
    OBVIOUS
  <1> QED BY <1>1, <1>2, <1>3

\* What div rounds to is between the integers that the fraction is between.
LEMMA Floor ==
    ASSUME NEW p \in Int, NEW w \in Int, w > 0, p >= 0
    PROVE  /\ p \div w \in Nat 
           /\ \A a \in Int : a * w <= p => a <= p \div w
           /\ \A b \in Int : p <= b * w => p \div w <= b
  <1>1. PICK q \in Int : q = p \div w
    OBVIOUS
  <1>2. q * w <= p /\ p < (q + 1) * w /\ q >= 0
    BY <1>1
  <1>3. ASSUME NEW a \in Int, a * w <= p PROVE a <= q
    <2>1. a * w < (q + 1) * w
      BY <1>2, <1>3
    <2>2. ~(q + 1 <= a)
      BY <2>1, Grows
    <2> QED BY <2>2
  <1>4. ASSUME NEW b \in Int, p <= b * w PROVE q <= b
    <2>1. q * w <= b * w
      BY <1>2, <1>4
    <2> QED BY <2>1, Grows
  <1> QED BY <1>1, <1>2, <1>3, <1>4

\* A point on the line from a to c, no further along than c, is between them.
LEMMA OnSegment ==
    ASSUME NEW a \in Int, NEW c \in Int, NEW q \in Int, NEW x \in Int, NEW w1 \in Int, NEW w2 \in Int,
           q > 0, w2 > 0, 0 <= x, x <= q,
           (w1 - a * w2) * q = (c - a) * x * w2
    PROVE  /\ a <= c => a * w2 <= w1 /\ w1 <= c * w2
           /\ c <= a => c * w2 <= w1 /\ w1 <= a * w2
  <1>1. PICK d \in Int : d = c - a
    OBVIOUS
  <1>2. PICK e \in Int : e = w1 - a * w2
    OBVIOUS
  <1>3. e * q = d * x * w2
    BY <1>1, <1>2
  <1>4. c * w2 = a * w2 + d * w2 /\ w1 = a * w2 + e /\ a * w2 \in Int /\ d * w2 \in Int
    BY <1>1, <1>2
  <1>5. PICK y \in Int : y = d * w2
    OBVIOUS
  <1>6. e * q = y * x
    BY <1>3, <1>5
  <1>7. ASSUME d >= 0 PROVE 0 <= e /\ e <= y
    <2>1. y >= 0
      BY <1>5, <1>7
    <2>2. 0 * q <= e * q
      BY <1>6, <2>1
    <2>3. x * y <= q * y
      <3>1. CASE y = 0
        BY <3>1
      <3>2. CASE y > 0
        BY <3>2, Grows
      <3> QED BY <2>1, <3>1, <3>2
    <2>4. e * q <= y * q
      BY <1>6, <2>3
    <2> QED BY <2>2, <2>4, Grows
  <1>8. ASSUME d <= 0 PROVE y <= e /\ e <= 0
    <2>1. y <= 0
      BY <1>5, <1>8
    <2>2. e * q <= 0 * q
      BY <1>6, <2>1
    <2>3. x * (-y) <= q * (-y)
      <3>1. CASE y = 0
        BY <3>1
      <3>2. CASE y < 0
        <4>1. -y > 0 /\ -y \in Int
           BY <3>2
        <4> QED BY <4>1, Grows
      <3> QED BY <2>1, <3>1, <3>2
    <2>4. y * q <= e * q
      <3>1. x * (-y) = -(e * q) /\ q * (-y) = -(y * q) /\ e * q \in Int /\ y * q \in Int
        BY <1>6
      <3> QED BY <2>3, <3>1
    <2> QED BY <2>2, <2>4, Grows
  <1> QED BY <1>1, <1>4, <1>5, <1>7, <1>8

LEMMA ByteRange ==
    ASSUME NEW w \in Int \X Int PROVE UInt8(w) \in 0..255
  <1>1. PICK p \in Int, q \in Int : w = <<p, q>>
    OBVIOUS
  <1>2. CASE q > 0 /\ p >= 0 /\ p < 255 * q
    <2>1. p \div q \in Nat /\ p \div q <= 255
      BY <1>2, Floor
    <2> QED BY <1>1, <1>2, <2>1 DEF UInt8
  <1>3. CASE ~(q > 0 /\ p >= 0 /\ p < 255 * q)
    BY <1>1, <1>3 DEF UInt8
  <1> QED BY <1>2, <1>3

\* A fraction between two integers becomes a byte between theirs.
LEMMA ByteBetween ==
    ASSUME NEW p \in Int, NEW q \in Int, q > 0, NEW a \in Int, NEW c \in Int,
           a * q <= p, p <= c * q
    PROVE  UInt8(<<p, q>>) \in Clamped(a)..Clamped(c)
  <1>1. CASE p < 0
    <2>1. UInt8(<<p, q>>) = 0
      BY <1>1 DEF UInt8
    <2>2. a * q < 0 * q
      BY <1>1
    <2>3. a < 0
      BY <2>2, Grows
    <2> QED BY <2>1, <2>3 DEF Clamped
  <1>2. CASE p >= 255 * q
    <2>1. UInt8(<<p, q>>) = 255
      BY <1>2 DEF UInt8
    <2>2. 255 * q <= c * q
      BY <1>2
    <2>3. 255 <= c
      BY <2>2, Grows
    <2> QED BY <2>1, <2>3 DEF Clamped
  <1>3. CASE p >= 0 /\ p < 255 * q
    <2>1. PICK u \in Nat : u = p \div q /\ a <= u /\ u <= c /\ u <= 255
      <3>1. p \div q \in Nat /\ a <= p \div q /\ p \div q <= c
        BY <1>3, Floor
      <3>2. p \div q <= 255
        BY <1>3, Floor
      <3> QED BY <3>1, <3>2
    <2>2. UInt8(<<p, q>>) = u
      BY <1>3, <2>1 DEF UInt8
    <2> QED BY <2>1, <2>2 DEF Clamped
  <1> QED BY <1>1, <1>2, <1>3

\* What was said of an outcome, and its type.
Doc(v, w) == w \in Int \X Int /\ IsDocumented(v, w) /\ SlopedIsPositive(v, w)

\* The byte for a documented outcome is the byte for the value.
LEMMA ByteIsDocumented ==
    ASSUME TableInv, NEW v \in Double, NEW w, Doc(v, w)
    PROVE  IsByteFor(v, UInt8(w))
  <1>1. w \in Int \X Int
    BY DEF Doc
  <1>2. PICK p \in Int, q \in Int : w = <<p, q>>
    BY <1>1
  <1>3. UInt8(w) \in 0..255
    BY <1>1, ByteRange
  <1>4. ASSUME v # NaN, Strict(ents), NEW i \in Interval(v)
        PROVE  /\ Flat(v, i) => UInt8(w) = Clamped(ents[i].value)
               /\ Sloped(v, i) =>
                      \E m, n \in {Clamped(ents[i].value), Clamped(ents[i + 1].value)} :
                          UInt8(w) \in m..n
    <2>1. /\ size > 0 /\ size \in Nat /\ i \in 1..size /\ v \in Int
          /\ ents[i].bound <= v /\ (i < size => v < ents[i + 1].bound)
          /\ ents[i].bound \in Int /\ ents[i].value \in Int
          /\ i < size => ents[i + 1].bound \in Int /\ ents[i + 1].value \in Int
      <3>1. size \in Nat /\ \A k \in 1..size : ents[k].bound \in Int /\ ents[k].value \in Int
        BY EntryType DEF TableInv
      <3>2. i \in 1..size /\ ents[i].bound <= v /\ (i < size => v < ents[i + 1].bound)
        BY <1>4 DEF Interval, size
      <3>3. i < size => i + 1 \in 1..size
        BY <3>1, <3>2
      <3> QED BY <1>4, <3>1, <3>2, <3>3
    <2>2. /\ Flat(v, i) => w = <<ents[i].value, 1>>
          /\ Sloped(v, i) => IsOnLine(v, w, i) /\ w[2] > 0
      BY <1>4, <2>1 DEF Doc, IsDocumented, SlopedIsPositive
    <2>3. ASSUME Flat(v, i) PROVE UInt8(w) = Clamped(ents[i].value)
      <3>1. PICK a \in Int : a = ents[i].value
        BY <2>1
      <3>2. w = <<a, 1>>
        BY <2>2, <2>3, <3>1
      <3>3. PICK one \in Int : one = 1 /\ one > 0 /\ a * one <= a /\ a <= a * one
        OBVIOUS
      <3>4. UInt8(<<a, one>>) \in Clamped(a)..Clamped(a)
        BY <3>3, ByteBetween
      <3>5. Clamped(a) \in Int
        BY DEF Clamped
      <3> QED BY <3>1, <3>2, <3>3, <3>4, <3>5
    <2>4. ASSUME Sloped(v, i)
          PROVE  \E m, n \in {Clamped(ents[i].value), Clamped(ents[i + 1].value)} :
                     UInt8(w) \in m..n
      <3>1. i < size
        BY <2>4 DEF Sloped, size
      <3>2. PICK a \in Int, c \in Int : a = ents[i].value /\ c = ents[i + 1].value
        BY <2>1, <3>1
      <3>3. PICK b \in Int, d \in Int : b = ents[i + 1].bound - ents[i].bound /\ d = v - ents[i].bound
        BY <2>1, <3>1
      <3>4. 0 <= d /\ d <= b /\ b > 0
        BY <2>1, <3>1, <3>3
      <3>5. q > 0 /\ (p - a * q) * b = (c - a) * d * q
        BY <1>2, <2>2, <2>4, <3>2, <3>3 DEF IsOnLine
      <3>6. CASE a <= c
        <4>1. a * q <= p /\ p <= c * q
          BY <3>4, <3>5, <3>6, OnSegment
        <4>2. UInt8(<<p, q>>) \in Clamped(a)..Clamped(c)
          BY <3>5, <4>1, ByteBetween
        <4> QED BY <1>2, <3>2, <4>2
      <3>7. CASE c <= a
        <4>1. c * q <= p /\ p <= a * q
          BY <3>4, <3>5, <3>7, OnSegment
        <4>2. UInt8(<<p, q>>) \in Clamped(c)..Clamped(a)
          BY <3>5, <4>1, ByteBetween
        <4> QED BY <1>2, <3>2, <4>2
      <3> QED BY <3>6, <3>7
    <2> QED BY <2>3, <2>4
  <1> QED BY <1>3, <1>4 DEF IsByteFor

-----------------------------------------------------------------------------
(* The numbers, one after the other.                                       *)

Names == IF files = << >> THEN <<StdIn>> ELSE files

\* Name i has been there before.
Again(i) == \E j \in 1..(i - 1) : Names[j] = Names[i]

\* What is read under each name.
Pieces == [i \in DOMAIN Names |-> IF Again(i) THEN << >> ELSE Data[Names[i]]]

\* What is said of a number that is written for the number v.
WrittenIs(v, x) ==
    IF x.format = "uint8" THEN IsByteFor(v, x.value[1]) ELSE IsDocumented(v, x.value)

\* What may be written.
Output == [format : {"uint8", "float", "double"}, value : Int \X Int]

\* All that has been written is right.
OutInv ==
    /\ out \in Seq(Output) /\ Len(out) \in Nat /\ DOMAIN out = 1..Len(out)
    /\ Len(out) <= Len(Numbers)
    /\ \A k \in 1..Len(out) : WrittenIs(Numbers[k], out[k])

\* The block is the numbers after those that have been written.
MapInv ==
    at = "map" =>
        /\ Len(out) + Len(done) + Pending + Len(rest) <= Len(Numbers)
        /\ \A j \in 1..Len(done) : Doc(Numbers[Len(out) + j], done[j])
        /\ Pending = 1 => from = Numbers[Len(out) + Len(done) + 1]
        /\ \A j \in 1..Len(rest) : rest[j] = Numbers[Len(out) + Len(done) + Pending + j]

\* Input fp is the one to read; those before it have been read to their ends,
\* those after it not at all.
Place(off, fp) ==
    /\ fp \in 1..Len(Names)
    /\ Len(input_files) = Len(Names) - fp + 1
    /\ \A k \in 1..Len(input_files) : input_files[k] = Names[fp + k - 1]
    /\ \A k \in 1..(fp - 1) : pos[Names[k]] = Len(Data[Names[k]])
    /\ \A s \in Streams : (\A k \in 1..fp : Names[k] # s) => pos[s] = 0
    /\ Len(out) + Len(done) + Pending + Len(rest)
           = off[fp] + (IF Again(fp) THEN 0 ELSE pos[Names[fp]])

PlaceInv ==
    at \notin Exits /\ input_files # << >> =>
        \E off, fp : Laid(Pieces, off) /\ Place(off, fp)

\* Nothing is read or written before the table is complete.
EarlyInv ==
    /\ at = "options" => input_files = << >>
    /\ at \in {"options", "tables", "lines", "output"} =>
           out = << >> /\ pos = [s \in Streams |-> 0]

OutputInv == OutInv /\ MapInv /\ PlaceInv /\ EarlyInv

\* The names are streams, and the pieces what they hold.
LEMMA PieceType ==
    ASSUME ArgsInv
    PROVE  /\ Names \in Seq(Streams) /\ Len(Names) \in Nat \ {0}
           /\ \A i \in 1..Len(Names) : Names[i] \in Streams
           /\ Pieces \in Seq(Seq(Double)) /\ Len(Pieces) = Len(Names)
           /\ Numbers = FlattenSeq(Pieces)
  <1>1. Names \in Seq(Streams) /\ Len(Names) \in Nat \ {0}
    <2>1. files \in Seq(Streams) /\ <<StdIn>> \in Seq(Streams)
      BY CommandLine, StreamsAssumption
    <2>2. Names \in Seq(Streams) /\ Names # << >>
      BY <2>1 DEF Names
    <2> QED BY <2>2
  <1>2. PICK n \in Nat : n = Len(Names)
    BY <1>1
  <1>3. \A i \in 1..n : Names[i] \in Streams
    BY <1>1, <1>2
  <1>4. Pieces \in [1..n -> Seq(Double)]
    <2>1. \A i \in 1..n : Data[Names[i]] \in Seq(Double) /\ << >> \in Seq(Double)
      BY <1>3, StreamsAssumption
    <2>2. DOMAIN Names = 1..n
      BY <1>1, <1>2
    <2> QED BY <2>1, <2>2 DEF Pieces
  <1>5. Pieces \in Seq(Seq(Double)) /\ Len(Pieces) = n
    <2> DEFINE S == Seq(Double)
    <2> HIDE DEF S
    <2>1. Pieces \in [1..n -> S]
      BY <1>4 DEF S
    <2>2. Pieces \in Seq(S) /\ Len(Pieces) = n
      BY <2>1
    <2> QED BY <2>2 DEF S
  <1>6. Numbers = FlattenSeq(Pieces)
    BY DEF Numbers, Pieces, Names, Again
  <1> QED BY <1>1, <1>2, <1>3, <1>5, <1>6

\* The numbers are laid out.
LEMMA NumbersLaid ==
    ASSUME ArgsInv
    PROVE  Numbers \in Seq(Double) /\ \E off : Laid(Pieces, off)
  <1>1. PICK s : s = Pieces
    OBVIOUS
  <1>2. s \in Seq(Seq(Double)) /\ Len(s) > 0
    BY <1>1, PieceType
  <1>3. FlattenSeq(s) \in Seq(Double) /\ \E off : Laid(s, off)
    BY <1>2, FlattenLayout
  <1> QED BY <1>1, <1>3, PieceType

\* What is said is said of the table and of the command line.
LEMMA SayingsStand ==
    ASSUME UNCHANGED <<table, files>>
    PROVE  /\ \A v, x : WrittenIs(v, x)' = WrittenIs(v, x)
           /\ \A v, w : Doc(v, w)' = Doc(v, w)
           /\ Numbers' = Numbers
  <1>1. /\ ents' = ents /\ nan_value' = nan_value /\ range_value' = range_value
        /\ l_coefs' = l_coefs /\ files' = files
    BY DEF table
  <1>2. \A v, x : WrittenIs(v, x)' = WrittenIs(v, x)
    BY <1>1 DEF WrittenIs, IsByteFor, IsDocumented, Interval, Flat, Sloped,
                Strict, IsOnLine, Finite, Fraction, Coefs, Coef, size
  <1>3. \A v, w : Doc(v, w)' = Doc(v, w)
    BY <1>1 DEF Doc, IsDocumented, SlopedIsPositive, Interval, Flat,
                Sloped, Strict, IsOnLine, Finite, Fraction, Coefs,
                Coef, size
  <1>4. Numbers' = Numbers
    BY <1>1 DEF Numbers
  <1> QED BY <1>2, <1>3, <1>4

LEMMA OutStands ==
    ASSUME OutInv, UNCHANGED <<table, files, out>> PROVE OutInv'
  <1>1. Numbers' = Numbers /\ \A v, x : WrittenIs(v, x)' = WrittenIs(v, x)
    BY SayingsStand
  <1> QED BY <1>1 DEF OutInv

LEMMA NothingWritten ==
    ASSUME ArgsInv, UNCHANGED files, out' = << >> PROVE OutInv'
  <1>1. Numbers' = Numbers /\ Len(Numbers) \in Nat
    BY NumbersLaid DEF Numbers
  <1> QED BY <1>1 DEF OutInv

\* A step that reads nothing and keeps the count keeps the place.
LEMMA PlaceStands ==
    ASSUME PlaceInv, UNCHANGED <<files, input_files, pos>>,
           (Len(out) + Len(done) + Pending + Len(rest))'
               = Len(out) + Len(done) + Pending + Len(rest),
           at' \notin Exits => at \notin Exits
    PROVE  PlaceInv'
  <1> SUFFICES ASSUME at' \notin Exits, input_files # << >> PROVE PlaceInv'
    BY DEF PlaceInv
  <1>1. PICK off, fp : Laid(Pieces, off) /\ Place(off, fp)
    BY DEF PlaceInv
  <1>2. Names' = Names /\ Pieces' = Pieces /\ Again(fp)' = Again(fp)
    BY DEF Names, Pieces, Again
  <1>3. Laid(Pieces, off)'
    BY <1>1, <1>2
  <1>4. Place(off, fp)'
    BY <1>1, <1>2 DEF Place
  <1> QED BY <1>3, <1>4 DEF PlaceInv

\* Before the table is used nothing is written.
LEMMA EarlyOutput ==
    ASSUME StateInv, OutputInv,
           Options \/ Loading \/ Prepare \/ OpenOutput
    PROVE  OutputInv'
  <1>1. /\ at \in {"options", "tables", "lines", "output"} /\ at' # "map"
        /\ UNCHANGED <<files, out, pos, done, rest>>
        /\ StoreFiles \/ UNCHANGED input_files
    BY DEF Options, StoreTableFile, AddEntry, SetInterpolation, SetInputFormat,
           SetOutputFormat, StoreFiles, IsNext, NextOption, NoMemory, Usage, Loading,
           OpenTable, SkipLine, LoadEntry, GarbageLine, TableReadError, EndOfTable,
           ReadLine, Prepare, OpenOutput, args, stream
  <1>2. out = << >> /\ pos = [s \in Streams |-> 0]
    BY <1>1 DEF OutputInv, EarlyInv
  <1>3. OutInv'
    BY <1>1, <1>2, NothingWritten DEF StateInv, ProgramInv
  <1>4. MapInv'
    BY <1>1 DEF MapInv
  <1>5. EarlyInv'
    <2>1. at' = "options" => at = "options" /\ input_files' = input_files
      BY DEF Options, StoreTableFile, AddEntry, SetInterpolation, SetInputFormat,
             SetOutputFormat, StoreFiles, IsNext, NextOption, NoMemory, Usage, Loading,
             OpenTable, SkipLine, LoadEntry, GarbageLine, TableReadError, EndOfTable,
             ReadLine, Prepare, OpenOutput, args, stream
    <2> QED BY <1>1, <1>2, <2>1 DEF OutputInv, EarlyInv
  <1>6. Pending = 0 /\ Pending' = 0
    <2>1. ProgramInv'
      BY OptionsKeep, LoadingKeeps, MappingKeeps DEF StateInv, Mapping
    <2> QED BY <1>1, <2>1 DEF Pending, StateInv, ProgramInv, PhaseInv
  <1>7. PlaceInv'
    <2>1. CASE UNCHANGED input_files
      BY <1>1, <1>6, <2>1, PlaceStands DEF OutputInv, Exits
    <2>2. CASE StoreFiles /\ at' = "tables" /\ input_files' = Names
      <3>1. PICK off : Laid(Pieces, off)
        BY NumbersLaid DEF StateInv, ProgramInv
      <3>2. off[1] = 0
        BY <3>1 DEF Laid
      <3>3. Names' = Names /\ Pieces' = Pieces /\ Again(1)' = Again(1)
        BY <1>1 DEF Names, Pieces, Again
      <3>4. rest = << >> /\ done = << >>
        BY <1>1 DEF StateInv, ProgramInv, BlockInv
      <3>5. Place(off, 1)'
        <4>1. Len(Names) \in Nat \ {0} /\ \A k \in 1..Len(Names) : Names[k] \in Streams
          BY PieceType DEF StateInv, ProgramInv
        <4>2. pos'[Names'[1]] = 0
          BY <1>1, <1>2, <3>3, <4>1
        <4>3. (Len(out) + Len(done) + Pending + Len(rest))' = 0
          BY <1>1, <1>2, <1>6, <3>4
        <4> QED BY <1>1, <1>2, <2>2, <3>2, <3>3, <4>1, <4>2, <4>3 DEF Place
      <3>6. Laid(Pieces, off)'
        BY <3>1, <3>3
      <3> QED BY <3>5, <3>6 DEF PlaceInv
    <2> QED BY <1>1, <2>1, <2>2 DEF StoreFiles, NoMemory, Names
  <1> QED BY <1>3, <1>4, <1>5, <1>7 DEF OutputInv

\* The library at work, the next file, and the end.
LEMMA QuietOutput ==
    ASSUME StateInv, OutputInv, Library \/ OpenInput \/ Finish \/ Ended \/ UNCHANGED vars
    PROVE  OutputInv'
  <1>1. UNCHANGED <<files, out, pos, done, rest, input_files>>
    BY DEF Library, OpenInput, Finish, Ended, vars, args, stream
  <1>2. at' = at \/ (at = "files" /\ at' \in {"read", "assertion", "open_error", "ok"})
    BY DEF Library, OpenInput, Finish, Ended, vars
  <1>3. Pending' = Pending
    BY DEF Pending, Library, OpenInput, Finish, Ended, vars, call, copying, lookup, AppendNaN,
           AppendEntry, AppendEnd, Bisect, BisectEnd, MapFound, Found
  <1>4. PlaceInv'
    BY <1>1, <1>2, <1>3, PlaceStands DEF OutputInv, Exits
  <1>5. EarlyInv'
    BY <1>1, <1>2 DEF OutputInv, EarlyInv
  <1>6. CASE at \in {"options", "lines"}
    <2>1. OutInv'
      BY <1>1, <1>6, NothingWritten DEF OutputInv, EarlyInv, StateInv, ProgramInv
    <2>2. MapInv'
      BY <1>2, <1>6 DEF MapInv
    <2> QED BY <1>4, <1>5, <2>1, <2>2 DEF OutputInv
  <1>7. CASE at \notin {"options", "lines"}
    <2>1. UNCHANGED table
      <3>1. pc # "append"
        BY <1>7 DEF StateInv, ProgramInv, PhaseInv
      <3> QED BY <3>1 DEF Library, OpenInput, Finish, Ended, vars, table, AppendNaN,
                          AppendEntry, AppendEnd, Bisect, BisectEnd, MapFound
    <2>2. OutInv'
      BY <1>1, <2>1, OutStands DEF OutputInv
    <2>3. MapInv'
      <3>1. \A v, w : Doc(v, w)' = Doc(v, w)
        BY <1>1, <2>1, SayingsStand
      <3>2. Numbers' = Numbers
        BY <1>1, <2>1, SayingsStand
      <3>3. at' = "map" => at = "map"
        BY <1>2
      <3>4. from' = from
        <4>1. pc # "append"
          BY <1>7 DEF StateInv, ProgramInv, PhaseInv
        <4> QED BY <4>1 DEF Library, OpenInput, Finish, Ended, vars, call, copying,
                            lookup, AppendNaN,
                   AppendEntry, AppendEnd, Bisect, BisectEnd, MapFound
      <3> QED BY <1>1, <1>3, <3>1, <3>2, <3>3, <3>4 DEF OutputInv, MapInv
    <2> QED BY <1>4, <1>5, <2>2, <2>3 DEF OutputInv
  <1> QED BY <1>6, <1>7

\* A block is read: it is what comes next, or its input has ended.
LEMMA ReadOutput ==
    ASSUME StateInv, OutputInv, ReadBlock PROVE OutputInv'
  <1> USE DEF StateInv, ProgramInv
  <1>1. PICK n \in 0..BUF_SZ :
          /\ n <= available
          /\ rest' = SubSeq(Data[stream_in], pos[stream_in] + 1, pos[stream_in] + n)
          /\ pos' = [pos EXCEPT ![stream_in] = @ + n]
          /\ \/ n > 0 /\ at' = "map" /\ UNCHANGED input_files
             \/ /\ n = 0 /\ available = 0
                /\ input_files' = Tail(input_files) /\ at' = "files"
             \/ n = 0 /\ at' = "read_error" /\ UNCHANGED input_files
    BY DEF ReadBlock
  <1>2. /\ n \in Nat /\ at = "read" /\ input_files # << >> /\ input_files \in Seq(Streams)
        /\ pc = "idle" /\ pc' = "idle" /\ done = << >> /\ rest = << >>
        /\ UNCHANGED <<files, table, out, done>> /\ Pending = 0 /\ Pending' = 0
    BY BufferAssumption DEF ReadBlock, BlockInv, Idle, Pending, args, call, copying, lookup
  <1>3. /\ stream_in \in Streams /\ Len(rest') = n
        /\ pos[stream_in] \in Nat /\ pos[stream_in] + n <= Len(Data[stream_in])
        /\ \A j \in 1..n : rest'[j] = Data[stream_in][pos[stream_in] + j]
    BY <1>1, <1>2, BlockRead
  <1>4. PICK off, fp : Laid(Pieces, off) /\ Place(off, fp)
    BY <1>2 DEF OutputInv, PlaceInv, Exits
  <1>5. PICK names \in Nat \ {0} : names = Len(Names)
    BY PieceType
  <1>6. fp \in 1..names /\ fp \in Nat /\ Len(input_files) = names - fp + 1
    BY <1>4, <1>5 DEF Place
  <1>7. stream_in = Names[fp]
    <2>1. 1 \in 1..Len(input_files)
      BY <1>6
    <2>2. input_files[1] = Names[fp + 1 - 1]
      BY <1>4, <2>1 DEF Place
    <2> QED BY <1>2, <1>6, <2>2 DEF stream_in
  <1>8. PICK p \in Nat : p = pos[stream_in]
    BY <1>3
  <1>9. PICK d \in Seq(Double) : d = Data[stream_in]
    BY <1>3, StreamsAssumption
  <1>10. p + n <= Len(d) /\ Len(d) \in Nat /\ available = Len(d) - p
    BY <1>3, <1>8, <1>9 DEF available
  <1>11. Again(fp) => p = Len(d)
    <2> SUFFICES ASSUME NEW j \in 1..(fp - 1), Names[j] = Names[fp] PROVE p = Len(d)
      BY DEF Again
    <2> QED BY <1>4, <1>7, <1>8, <1>9 DEF Place
  <1>12. PICK o \in Nat : o = off[fp]
    BY <1>4, <1>5, <1>6, PieceType DEF Laid
  <1>13. PICK z \in Nat : z = Len(out)
    BY DEF OutputInv, OutInv
  <1>14. z = o + (IF Again(fp) THEN 0 ELSE p)
    <2>1. Len(out) + Len(done) + Pending + Len(rest)
              = off[fp] + (IF Again(fp) THEN 0 ELSE pos[Names[fp]])
      BY <1>4 DEF Place
    <2>2. Len(done) = 0 /\ Len(rest) = 0
      BY <1>2
    <2> QED BY <1>2, <1>7, <1>8, <1>12, <1>13, <2>1, <2>2
  <1>15. /\ Names' = Names /\ Pieces' = Pieces /\ \A i : Again(i)' = Again(i)
         /\ Numbers' = Numbers /\ \A v, w : Doc(v, w)' = Doc(v, w)
    BY <1>2, SayingsStand DEF Names, Pieces, Again
  <1>16. Pieces[fp] = (IF Again(fp) THEN << >> ELSE d)
    <2>1. fp \in DOMAIN Names
      BY <1>5, <1>6, PieceType
    <2> QED BY <1>7, <1>9, <2>1 DEF Pieces
  <1>17. OutInv'
    BY <1>2, OutStands DEF OutputInv
  <1>18. EarlyInv'
    BY <1>1 DEF EarlyInv
  <1>19. CASE n > 0
    <2>1. at' = "map" /\ UNCHANGED input_files /\ ~Again(fp) /\ Pieces[fp] = d /\ z = o + p
      BY <1>1, <1>10, <1>11, <1>14, <1>16, <1>19
    <2>2. \A k \in 1..Len(d) : o + k \in 1..Len(Numbers) /\ Numbers[o + k] = d[k]
      BY <1>4, <1>5, <1>6, <1>12, <2>1, PieceType, ZenonT(30) DEF Laid
    <2>3. PICK m \in Nat : m = Len(Numbers)
      BY NumbersLaid
    <2>4. \A j \in 1..n : rest'[j] = Numbers[z + j]
      <3> SUFFICES ASSUME NEW j \in 1..n PROVE rest'[j] = Numbers[z + j]
        OBVIOUS
      <3>1. p + j \in 1..Len(d) /\ o + (p + j) = z + j
        BY <1>2, <1>10, <2>1
      <3> QED BY <1>3, <1>8, <1>9, <2>2, <3>1
    <2>5. z + n <= m
      <3>1. p + n \in 1..Len(d) /\ o + (p + n) = z + n
        BY <1>2, <1>10, <1>19, <2>1
      <3> QED BY <2>2, <2>3, <3>1
    <2>6. MapInv'
      <3>1. Len(done') = 0 /\ Len(out') = z
        BY <1>2, <1>13
      <3>2. Len(out') + Len(done') + Pending' + Len(rest') <= Len(Numbers')
        BY <1>2, <1>3, <1>15, <2>3, <2>5, <3>1
      <3>3. \A j \in 1..Len(rest') : rest'[j] = Numbers'[Len(out') + Len(done') + Pending' + j]
        BY <1>2, <1>3, <1>15, <2>4, <3>1
      <3> QED BY <1>2, <3>1, <3>2, <3>3 DEF MapInv
    <2>7. Place(off, fp)'
      <3>1. /\ pos'[Names[fp]] = p + n
            /\ \A k \in 1..(fp - 1) : pos'[Names[k]] = pos[Names[k]]
            /\ \A s \in Streams : (\A k \in 1..fp : Names[k] # s) => pos'[s] = pos[s]
        <4>1. \A k \in 1..(fp - 1) : Names[k] # Names[fp]
          BY <2>1 DEF Again
        <4>2. \A k \in 1..(fp - 1) : Names[k] \in Streams
          BY <1>5, <1>6, PieceType
        <4>3. fp \in 1..fp
          BY <1>6
        <4> QED BY <1>1, <1>3, <1>7, <1>8, <4>1, <4>2, <4>3 DEF BlockInv
      <3>2. (Len(out) + Len(done) + Pending + Len(rest))' = o + (p + n)
        BY <1>2, <1>3, <1>13, <2>1
      <3> QED BY <1>4, <1>12, <1>15, <2>1, <3>1, <3>2 DEF Place
    <2>8. Laid(Pieces, off)'
      BY <1>4, <1>15
    <2>9. PlaceInv'
      BY <2>7, <2>8 DEF PlaceInv
    <2> QED BY <1>17, <1>18, <2>6, <2>9 DEF OutputInv
  <1>20. CASE n = 0 /\ available = 0 /\ input_files' = Tail(input_files) /\ at' = "files"
    <2>1. p = Len(d) /\ UNCHANGED pos /\ rest' = << >>
      <3>1. pos' = pos
        BY <1>1, <1>3, <1>8, <1>20 DEF BlockInv
      <3> QED BY <1>3, <1>10, <1>20, <3>1
    <2>2. MapInv'
      BY <1>20 DEF MapInv
    <2>3. PlaceInv'
      <3>1. CASE fp = names
        <4>1. input_files' = << >>
          BY <1>2, <1>6, <1>20, <3>1
        <4> QED BY <4>1 DEF PlaceInv
      <3>2. CASE fp # names
        <4>1. fp + 1 \in 2..names /\ fp + 1 - 1 = fp
          BY <1>6, <3>2
        <4>11. PICK q \in 2..names : q = fp + 1 /\ q - 1 = fp
          <5>1. \E q \in 2..names : q = fp + 1
            BY <4>1
          <5> QED BY <1>6, <5>1
        <4>2. off[fp + 1] = o + Len(Pieces[fp])
          <5>1. off[q] = off[q - 1] + Len(Pieces[q - 1])
            BY <1>4, <1>5, PieceType DEF Laid
          <5> QED BY <1>12, <4>11, <5>1
        <4>3. z = off[fp + 1]
          BY <1>10, <1>11, <1>14, <1>16, <2>1, <4>2
        <4>4. /\ Len(input_files') = names - (fp + 1) + 1
              /\ \A k \in 1..Len(input_files') : input_files'[k] = Names[fp + 1 + k - 1]
          <5>1. /\ Len(Tail(input_files)) = Len(input_files) - 1
                /\ \A k \in 1..(Len(input_files) - 1) : Tail(input_files)[k] = input_files[k + 1]
            BY <1>2
          <5>2. \A k \in 1..(Len(input_files) - 1) : input_files[k + 1] = Names[fp + 1 + k - 1]
            <6> SUFFICES ASSUME NEW k \in 1..(Len(input_files) - 1)
                         PROVE  input_files[k + 1] = Names[fp + 1 + k - 1]
              OBVIOUS
            <6>1. k + 1 \in 1..Len(input_files) /\ fp + (k + 1) - 1 = fp + 1 + k - 1
              BY <1>6
            <6>2. input_files[k + 1] = Names[fp + (k + 1) - 1]
              BY <1>4, <6>1 DEF Place
            <6> QED BY <6>1, <6>2
          <5> QED BY <1>6, <1>20, <5>1, <5>2
        <4>5. \A k \in 1..fp : pos[Names[k]] = Len(Data[Names[k]])
          <5>1. \A k \in 1..fp : k = fp \/ k \in 1..(fp - 1)
            BY <1>6
          <5>2. pos[Names[fp]] = Len(Data[Names[fp]])
            BY <1>7, <1>8, <1>9, <2>1
          <5> QED BY <1>4, <5>1, <5>2 DEF Place
        <4>6. \A s \in Streams : (\A k \in 1..(fp + 1) : Names[k] # s) => pos[s] = 0
          <5>1. \A k \in 1..fp : k \in 1..(fp + 1)
            BY <1>6
          <5> QED BY <1>4, <5>1 DEF Place
        <4>7. ~Again(fp + 1) => pos[Names[fp + 1]] = 0
          <5>1. Names[fp + 1] \in Streams
            BY <1>5, <4>1, PieceType
          <5>2. ~Again(fp + 1) => \A k \in 1..fp : Names[k] # Names[fp + 1]
            BY <4>11 DEF Again
          <5> QED BY <1>4, <5>1, <5>2 DEF Place
        <4>8. (Len(out) + Len(done) + Pending + Len(rest))' = z
          <5>1. Len(rest') = 0 /\ Len(done') = 0
            BY <1>2, <2>1
          <5> QED BY <1>2, <1>13, <5>1
        <4>9. Place(off, fp + 1)'
          <5>1. Len(out') + Len(done') + Pending' + Len(rest')
                    = off[fp + 1] + (IF Again(fp + 1) THEN 0 ELSE pos[Names[fp + 1]])
            BY <4>3, <4>7, <4>8
          <5>2. /\ q \in 1..Len(Names) /\ Len(input_files') = Len(Names) - q + 1
                /\ \A k \in 1..Len(input_files') : input_files'[k] = Names[q + k - 1]
            BY <1>5, <4>4, <4>11
          <5>3. /\ \A k \in 1..(q - 1) : pos'[Names[k]] = Len(Data[Names[k]])
                /\ \A s \in Streams : (\A k \in 1..q : Names[k] # s) => pos'[s] = 0
            BY <2>1, <4>5, <4>6, <4>11
          <5>4. Len(out') + Len(done') + Pending' + Len(rest')
                    = off[q] + (IF Again(q) THEN 0 ELSE pos'[Names[q]])
            BY <2>1, <4>11, <5>1
          <5>5. Place(off, q)'
            BY <1>15, <5>2, <5>3, <5>4 DEF Place
          <5> QED BY <4>11, <5>5
        <4>10. Laid(Pieces, off)'
          BY <1>4, <1>15
        <4> QED BY <4>9, <4>10 DEF PlaceInv
      <3> QED BY <3>1, <3>2
    <2> QED BY <1>17, <1>18, <2>2, <2>3 DEF OutputInv
  <1>21. CASE at' = "read_error"
    BY <1>17, <1>18, <1>21 DEF MapInv, PlaceInv, OutputInv, Exits
  <1> QED BY <1>1, <1>2, <1>19, <1>20, <1>21

\* A number is handed to the table.
LEMMA MapNextOutput ==
    ASSUME StateInv, OutputInv, MapNext PROVE OutputInv'
  <1> USE DEF StateInv, ProgramInv
  <1>1. /\ at = "map" /\ at' = "map" /\ rest # << >> /\ rest' = Tail(rest)
        /\ rest \in Seq(Double) /\ from' = Head(rest)
        /\ pc = "idle" /\ pc' \in {"search", "found", "done"}
        /\ UNCHANGED <<files, table, out, done, input_files, pos>>
    BY DEF MapNext, ApplyBegin, Found, Idle, BlockInv, Double, args, table
  <1>2. Pending = 0 /\ Pending' = 1
    BY <1>1 DEF Pending
  <1>3. PICK z \in Nat : z = Len(out)
    BY DEF OutputInv, OutInv
  <1>4. PICK k \in Nat : k = Len(done)
    BY DEF BlockInv
  <1>5. PICK n \in Nat : n = Len(rest) /\ n > 0
    BY <1>1
  <1>6. /\ Len(rest') = n - 1 /\ from' = rest[1]
        /\ \A j \in 1..(n - 1) : rest'[j] = rest[j + 1]
    BY <1>1, <1>5
  <1>7. Numbers' = Numbers /\ \A v, w : Doc(v, w)' = Doc(v, w)
    BY <1>1, SayingsStand
  <1>8. OutInv' /\ EarlyInv'
    BY <1>1, OutStands DEF OutputInv, EarlyInv
  <1>9. PICK m \in Nat : m = Len(Numbers)
    BY NumbersLaid
  <1>10. /\ z + k + n <= m
         /\ \A j \in 1..k : Doc(Numbers[z + j], done[j])
         /\ \A j \in 1..n : rest[j] = Numbers[z + k + j]
    BY <1>1, <1>2, <1>3, <1>4, <1>5, <1>9 DEF OutputInv, MapInv
  <1>11. from' = Numbers[z + k + 1]
    BY <1>5, <1>6, <1>10
  <1>12. \A j \in 1..(n - 1) : rest'[j] = Numbers[z + k + 1 + j]
    <2> SUFFICES ASSUME NEW j \in 1..(n - 1) PROVE rest'[j] = Numbers[z + k + 1 + j]
      OBVIOUS
    <2>1. j + 1 \in 1..n /\ z + k + (j + 1) = z + k + 1 + j
      BY <1>5
    <2> QED BY <1>6, <1>10, <2>1
  <1>13. MapInv'
    <2>1. Len(out') = z /\ Len(done') = k /\ Len(rest') = n - 1 /\ Len(Numbers') = m
      BY <1>1, <1>3, <1>4, <1>6, <1>7, <1>9
    <2>2. z + k + 1 + (n - 1) <= m
      BY <1>10
    <2> QED BY <1>1, <1>2, <1>7, <1>10, <1>11, <1>12, <2>1, <2>2 DEF MapInv
  <1>14. PlaceInv'
    <2>1. (Len(out) + Len(done) + Pending + Len(rest))'
              = Len(out) + Len(done) + Pending + Len(rest)
      BY <1>1, <1>2, <1>3, <1>4, <1>5, <1>6
    <2> QED BY <1>1, <2>1, PlaceStands DEF OutputInv
  <1> QED BY <1>8, <1>13, <1>14 DEF OutputInv

\* The table has answered.
LEMMA OutcomeOutput ==
    ASSUME StateInv, OutputInv, TakeOutcome PROVE OutputInv'
  <1> USE DEF StateInv, ProgramInv
  <1>1. /\ at = "map" /\ at' = "map" /\ pc = "done" /\ pc' = "idle"
        /\ done \in Seq(Int \X Int) /\ rest \in Seq(Double) /\ done' = Append(done, to)
        /\ UNCHANGED <<files, table, out, rest, input_files, pos>>
    BY DEF TakeOutcome, Return, BlockInv, Double, args, table
  <1>2. Pending = 1 /\ Pending' = 0
    BY <1>1 DEF Pending
  <1>3. PICK z \in Nat : z = Len(out)
    BY DEF OutputInv, OutInv
  <1>4. PICK k \in Nat : k = Len(done)
    BY <1>1
  <1>5. PICK n \in Nat : n = Len(rest)
    BY <1>1
  <1>6. to \in Int \X Int
    BY DEF TableInv, TableTypeOK
  <1>7. /\ Len(done') = k + 1 /\ done'[k + 1] = to
        /\ \A j \in 1..k : done'[j] = done[j]
    BY <1>1, <1>4, <1>6
  <1>8. Numbers' = Numbers /\ \A v, w : Doc(v, w)' = Doc(v, w)
    BY <1>1, SayingsStand
  <1>9. OutInv' /\ EarlyInv'
    BY <1>1, OutStands DEF OutputInv, EarlyInv
  <1>10. PICK m \in Nat : m = Len(Numbers)
    BY NumbersLaid
  <1>11. /\ z + k + 1 + n <= m
         /\ \A j \in 1..k : Doc(Numbers[z + j], done[j])
         /\ from = Numbers[z + k + 1]
         /\ \A j \in 1..n : rest[j] = Numbers[z + k + 1 + j]
    BY <1>1, <1>2, <1>3, <1>4, <1>5, <1>10 DEF OutputInv, MapInv
  <1>12. Doc(from, to)
    BY <1>1, <1>6 DEF Doc, OutcomeInv, MapsAsDocumented
  <1>13. \A j \in 1..(k + 1) : Doc(Numbers[z + j], done'[j])
    <2> SUFFICES ASSUME NEW j \in 1..(k + 1) PROVE Doc(Numbers[z + j], done'[j])
      OBVIOUS
    <2>1. CASE j = k + 1
      <3>1. z + j = z + k + 1
        BY <2>1
      <3> QED BY <1>7, <1>11, <1>12, <2>1, <3>1
    <2>2. CASE j \in 1..k
      BY <1>7, <1>11, <2>2
    <2> QED BY <2>1, <2>2
  <1>14. MapInv'
    <2>1. Len(out') = z /\ Len(done') = k + 1 /\ Len(rest') = n /\ Len(Numbers') = m
      BY <1>1, <1>3, <1>5, <1>7, <1>8, <1>10
    <2>2. z + (k + 1) + 0 + n <= m
      BY <1>11
    <2>3. \A j \in 1..n : rest'[j] = Numbers[z + (k + 1) + 0 + j]
      <3>1. \A j \in 1..n : z + k + 1 + j = z + (k + 1) + 0 + j
        OBVIOUS
      <3> QED BY <1>1, <1>11, <3>1
    <2> QED BY <1>1, <1>2, <1>8, <1>13, <2>1, <2>2, <2>3 DEF MapInv
  <1>15. PlaceInv'
    <2>1. (Len(out) + Len(done) + Pending + Len(rest))'
              = Len(out) + Len(done) + Pending + Len(rest)
      BY <1>1, <1>2, <1>3, <1>4, <1>5, <1>7
    <2> QED BY <1>1, <2>1, PlaceStands DEF OutputInv
  <1> QED BY <1>9, <1>14, <1>15 DEF OutputInv

\* What is written for a documented outcome.
LEMMA WrittenIsRight ==
    ASSUME TableInv, NEW v \in Double, NEW w, Doc(v, w)
    PROVE  WrittenIs(v, Written(w))
  <1>1. CASE output_format = "uint8"
    <2>1. IsByteFor(v, UInt8(w))
      BY ByteIsDocumented
    <2> QED BY <1>1, <2>1 DEF WrittenIs, Written
  <1>2. CASE output_format # "uint8"
    <2>1. IsDocumented(v, w)
      BY DEF Doc
    <2> QED BY <1>2, <2>1 DEF WrittenIs, Written
  <1> QED BY <1>1, <1>2

LEMMA WrittenType ==
    ASSUME ArgsInv, NEW w \in Int \X Int PROVE Written(w) \in Output
  <1>1. UInt8(w) \in Int /\ <<UInt8(w), 1>> \in Int \X Int
    BY ByteRange
  <1> QED BY <1>1 DEF Written, Output, ArgsInv

LEMMA OutputJoined ==
    \A a, b \in Seq(Output) :
        /\ a \o b \in Seq(Output) /\ Len(a \o b) = Len(a) + Len(b)
        /\ \A j \in 1..Len(a) : (a \o b)[j] = a[j]
        /\ \A j \in 1..Len(b) : (a \o b)[Len(a) + j] = b[j]
  <1> SUFFICES ASSUME NEW a \in Seq(Output), NEW b \in Seq(Output)
               PROVE  /\ a \o b \in Seq(Output) /\ Len(a \o b) = Len(a) + Len(b)
                      /\ \A j \in 1..Len(a) : (a \o b)[j] = a[j]
                      /\ \A j \in 1..Len(b) : (a \o b)[Len(a) + j] = b[j]
    OBVIOUS
  <1> QED BY ConcatLayout

\* A block is written, or some of it.
LEMMA WriteOutput ==
    ASSUME StateInv, OutputInv, WriteBlock PROVE OutputInv'
  <1> USE DEF StateInv, ProgramInv
  <1>1. PICK k \in Nat : k = Len(done)
    BY DEF BlockInv
  <1>2. PICK n \in 0..k :
           /\ out' = out \o [i \in 1..n |-> Written(done[i])]
           /\ at' \in {"read", "write_error"} /\ (at' = "read" => n = k)
    <2>1. DOMAIN done = 1..k
      BY <1>1 DEF BlockInv
    <2>2. CASE /\ out' = out \o [i \in DOMAIN done |-> Written(done[i])]
               /\ at' = "read"
      <3>1. k \in 0..k
        OBVIOUS
      <3> QED BY <2>1, <2>2, <3>1
    <2>3. CASE /\ \E n \in 0..(Len(done) - 1) :
                     out' = out \o [i \in 1..n |-> Written(done[i])]
               /\ at' = "write_error"
      <3>1. \A n \in 0..(Len(done) - 1) : n \in 0..k
        BY <1>1
      <3> QED BY <2>3, <3>1
    <2> QED BY <2>2, <2>3 DEF WriteBlock
  <1>3. /\ at = "map" /\ pc = "idle" /\ pc' = "idle" /\ rest = << >> /\ rest' = << >>
        /\ done' = << >> /\ UNCHANGED <<files, table, input_files, pos>>
    BY DEF WriteBlock, Idle, args, call, copying, lookup
  <1>4. Pending = 0 /\ Pending' = 0
    BY <1>3 DEF Pending
  <1>5. PICK z \in Nat : z = Len(out) /\ DOMAIN out = 1..z
    BY DEF OutputInv, OutInv
  <1>6. PICK m \in Nat : m = Len(Numbers)
    BY NumbersLaid
  <1>7. z + k <= m /\ \A j \in 1..k : Doc(Numbers[z + j], done[j])
    BY <1>1, <1>3, <1>4, <1>5, <1>6 DEF OutputInv, MapInv
  <1>8. /\ out' \in Seq(Output) /\ Len(out') = z + n /\ DOMAIN out' = 1..(z + n)
        /\ \A j \in 1..z : out'[j] = out[j]
        /\ \A j \in 1..n : out'[z + j] = Written(done[j])
    <2>1. PICK w : w = [i \in 1..n |-> Written(done[i])]
      OBVIOUS
    <2>2. w \in Seq(Output) /\ Len(w) = n /\ n \in Nat
      <3>1. \A i \in 1..n : Written(done[i]) \in Output
        <4> SUFFICES ASSUME NEW i \in 1..n PROVE Written(done[i]) \in Output
          OBVIOUS
        <4>1. i \in 1..Len(done)
          BY <1>1
        <4> QED BY <4>1, WrittenType DEF BlockInv
      <3>2. w \in [1..n -> Output]
        BY <2>1, <3>1
      <3> QED BY <2>1, <3>2
    <2>3. out' = out \o w /\ out \in Seq(Output)
      BY <1>2, <2>1 DEF OutputInv, OutInv
    <2>4. /\ Len(out') = z + n /\ out' \in Seq(Output)
          /\ \A j \in 1..z : out'[j] = out[j]
          /\ \A j \in 1..n : out'[z + j] = w[j]
      <3>1. /\ out \o w \in Seq(Output) /\ Len(out \o w) = Len(out) + Len(w)
            /\ \A j \in 1..Len(out) : (out \o w)[j] = out[j]
            /\ \A j \in 1..Len(w) : (out \o w)[Len(out) + j] = w[j]
        BY <2>2, <2>3, OutputJoined
      <3> QED BY <1>5, <2>2, <2>3, <3>1
    <2> QED BY <2>1, <2>4
  <1>9. Numbers' = Numbers /\ \A v, x : WrittenIs(v, x)' = WrittenIs(v, x)
    BY <1>3, SayingsStand
  <1>10. \A j \in 1..(z + n) : WrittenIs(Numbers[j], out'[j])
    <2> SUFFICES ASSUME NEW j \in 1..(z + n) PROVE WrittenIs(Numbers[j], out'[j])
      OBVIOUS
    <2>1. CASE j \in 1..z
      BY <1>5, <1>8, <2>1 DEF OutputInv, OutInv
    <2>2. CASE j \notin 1..z
      <3>1. PICK i \in 1..n : j = z + i
        <4>1. j - z \in 1..n /\ j = z + (j - z)
          BY <2>2
        <4> QED BY <4>1
      <3>2. Doc(Numbers[j], done[i])
        BY <1>7, <3>1
      <3>3. Numbers[j] \in Double
        <4>1. Numbers \in Seq(Double) /\ j \in 1..m
          BY <1>7, NumbersLaid
        <4> QED BY <1>6, <4>1, ElementOfSeq
      <3>4. WrittenIs(Numbers[j], Written(done[i]))
        BY <3>2, <3>3, WrittenIsRight
      <3> QED BY <1>8, <3>1, <3>4
    <2> QED BY <2>1, <2>2
  <1>11. OutInv'
    <2>1. z + n \in Nat /\ z + n <= m
      BY <1>7
    <2> QED BY <1>6, <1>8, <1>9, <1>10, <2>1 DEF OutInv
  <1>12. MapInv' /\ EarlyInv'
    BY <1>2 DEF MapInv, EarlyInv
  <1>13. PlaceInv'
    <2>1. CASE at' = "write_error"
      BY <2>1 DEF PlaceInv, Exits
    <2>2. CASE at' = "read"
      <3>1. (Len(out) + Len(done) + Pending + Len(rest))'
                = Len(out) + Len(done) + Pending + Len(rest)
        <4>1. Len(done') = 0 /\ Len(rest) = 0 /\ Len(rest') = 0
          BY <1>3
        <4>2. Len(done) = k /\ Len(out) = z /\ Len(out') = z + k
          BY <1>1, <1>2, <1>5, <1>8, <2>2
        <4> QED BY <1>4, <4>1, <4>2
      <3> QED BY <1>3, <2>2, <3>1, PlaceStands DEF OutputInv, Exits
    <2> QED BY <1>2, <2>1, <2>2
  <1> QED BY <1>11, <1>12, <1>13 DEF OutputInv

\* What is written, at whatever place of the output and out of whatever file,
\* is what README has the number of that place mapped to, whatever the table,
\* the formats and the inputs, and wherever reading or writing fails
\* (rawxform.c:147-183, 534-562); for a number below the table, only that it has
\* its place.
THEOREM EveryNumberIsMapped == Spec => []OutputIsMapped
  <1>1. Init => OutputInv
    <2> SUFFICES ASSUME Init PROVE OutputInv
      OBVIOUS
    <2>1. ArgsInv
      BY InitState DEF StateInv, ProgramInv
    <2>2. Len(Numbers) \in Nat
      BY <2>1, NumbersLaid
    <2>3. /\ out = << >> /\ input_files = << >> /\ pos = [s \in Streams |-> 0]
          /\ at \in {"options", "alloc_error"}
      BY DEF Init
    <2>4. OutInv
      BY <2>2, <2>3 DEF OutInv
    <2> QED BY <2>3, <2>4 DEF OutputInv, MapInv, PlaceInv, EarlyInv
  <1>2. StateInv /\ OutputInv /\ [Next]_vars => OutputInv'
    BY EarlyOutput, QuietOutput, ReadOutput, MapNextOutput, OutcomeOutput, WriteOutput
      DEF Next, Mapping
  <1>3. OutputInv => OutputIsMapped
    BY DEF OutputInv, OutInv, OutputIsMapped, WrittenIs
  <1> QED BY <1>1, <1>2, <1>3, InitState, StateKept, PTL DEF Spec

-----------------------------------------------------------------------------
(* The entries asked for.                                                  *)

\* A sequence that is not empty, by its first element and the others.
Begins(s, n, t) ==
    /\ n \in Nat /\ Len(s) = n + 1 /\ DOMAIN s = 1..(n + 1)
    /\ t = Tail(s) /\ Len(t) = n /\ DOMAIN t = 1..n
    /\ \A i \in 1..n : t[i] = s[i + 1]
    /\ Head(s) = s[1]

LEMMA BeginsWith ==
    ASSUME NEW S, NEW s \in Seq(S), s # << >>
    PROVE  /\ \E n, t : Begins(s, n, t)
           /\ Head(s) \in S /\ Tail(s) \in Seq(S)
  <1>1. PICK n \in Nat : Len(s) = n + 1 /\ DOMAIN s = 1..(n + 1)
    <2>1. Len(s) \in Nat /\ Len(s) # 0 /\ DOMAIN s = 1..Len(s)
      BY EmptySeq, LenProperties
    <2>2. Len(s) - 1 \in Nat /\ (Len(s) - 1) + 1 = Len(s)
      BY <2>1
    <2> QED BY <2>1, <2>2
  <1>2. PICK t : t = Tail(s)
    OBVIOUS
  <1>3. t \in Seq(S) /\ Len(t) = n /\ \A i \in 1..n : t[i] = s[i + 1]
    BY <1>1, <1>2, HeadTailProperties
  <1>4. DOMAIN t = 1..n
    BY <1>3, LenProperties
  <1>5. Head(s) = s[1] /\ Head(s) \in S
    BY HeadTailProperties
  <1> QED BY <1>1, <1>2, <1>3, <1>4, <1>5 DEF Begins

\* The entries of lines are that of the first, if it has one, and those of
\* the others.
EntryOf(x) == IF x.kind = "entry" THEN <<x.entry>> ELSE << >>

LEMMA EntryOfType ==
    ASSUME NEW x \in Records PROVE EntryOf(x) \in Seq(Given)
  BY RecordType DEF EntryOf

LEMMA EntriesHead ==
    ASSUME NEW s \in Seq(Records), s # << >>
    PROVE  EntriesOf(s) = EntryOf(Head(s)) \o EntriesOf(Tail(s))
  <1>1. PICK n, t : Begins(s, n, t)
    BY BeginsWith
  <1>2. n \in Nat
    BY <1>1 DEF Begins
  <1>3. PICK p : p = [i \in 1..(n + 1) |-> EntryOf(s[i])]
    OBVIOUS
  <1>4. p \in [1..(n + 1) -> Seq(Given)]
    <2>1. \A i \in 1..(n + 1) : s[i] \in Records
      BY <1>1, ElementOfSeq DEF Begins
    <2> QED BY <1>3, <2>1, EntryOfType
  <1>5. p[1] = EntryOf(Head(s))
    <2>1. 1 \in 1..(n + 1)
      BY <1>2
    <2> QED BY <1>1, <1>3, <2>1 DEF Begins
  <1>6. [i \in 1..n |-> p[i + 1]] = [i \in 1..n |-> EntryOf(t[i])]
    <2>1. \A i \in 1..n : i + 1 \in 1..(n + 1)
      BY <1>2
    <2> QED BY <1>1, <1>3, <2>1 DEF Begins
  <1>7. EntriesOf(s) = FlattenSeq(p) /\ EntriesOf(t) = FlattenSeq([i \in 1..n |-> EntryOf(t[i])])
    BY <1>1, <1>3 DEF EntriesOf, EntryOf, Begins
  <1>8. FlattenSeq(p) = p[1] \o FlattenSeq([i \in 1..n |-> p[i + 1]])
    BY <1>2, <1>4, PiecesHead
  <1>9. t = Tail(s)
    BY <1>1 DEF Begins
  <1> QED BY <1>5, <1>6, <1>7, <1>8, <1>9

LEMMA EntriesType ==
    ASSUME NEW s \in Seq(Records)
    PROVE  /\ EntriesOf(s) \in Seq(Given)
           /\ s = << >> => EntriesOf(s) = << >>
  <1>1. PICK n \in Nat : Len(s) = n /\ DOMAIN s = 1..n
    BY LenProperties
  <1>2. PICK p : p = [i \in 1..n |-> EntryOf(s[i])]
    OBVIOUS
  <1>3. p \in Seq(Seq(Given)) /\ Len(p) = n
    <2>1. \A i \in 1..n : s[i] \in Records
      BY <1>1, ElementOfSeq
    <2>2. p \in [1..n -> Seq(Given)]
      BY <1>2, <2>1, EntryOfType
    <2> QED BY <2>2
  <1>4. EntriesOf(s) = FlattenSeq(p)
    BY <1>1, <1>2 DEF EntriesOf, EntryOf
  <1>5. s = << >> => p = << >>
    BY <1>1, <1>3
  <1> QED BY <1>3, <1>4, <1>5, FlattenType, FlattenNone

\* The same of files.
LEMMA LinesType ==
    ASSUME NEW f \in DOMAIN TableLines
    PROVE  TableLines[f] \in Seq(Records) /\ EntriesOf(TableLines[f]) \in Seq(Given)
  BY CommandsAssumption, EntriesType

LEMMA FilesHead ==
    ASSUME NEW s \in Seq(DOMAIN TableLines), s # << >>
    PROVE  EntriesIn(s) = EntriesOf(TableLines[Head(s)]) \o EntriesIn(Tail(s))
  <1>1. PICK n, t : Begins(s, n, t)
    BY BeginsWith
  <1>2. n \in Nat
    BY <1>1 DEF Begins
  <1>3. PICK p : p = [i \in 1..(n + 1) |-> EntriesOf(TableLines[s[i]])]
    OBVIOUS
  <1>4. p \in [1..(n + 1) -> Seq(Given)]
    <2>1. \A i \in 1..(n + 1) : s[i] \in DOMAIN TableLines
      BY <1>1, ElementOfSeq DEF Begins
    <2> QED BY <1>3, <2>1, LinesType
  <1>5. p[1] = EntriesOf(TableLines[Head(s)])
    <2>1. 1 \in 1..(n + 1)
      BY <1>2
    <2> QED BY <1>1, <1>3, <2>1 DEF Begins
  <1>6. [i \in 1..n |-> p[i + 1]] = [i \in 1..n |-> EntriesOf(TableLines[t[i]])]
    <2>1. \A i \in 1..n : i + 1 \in 1..(n + 1)
      BY <1>2
    <2> QED BY <1>1, <1>3, <2>1 DEF Begins
  <1>7. /\ EntriesIn(s) = FlattenSeq(p)
        /\ EntriesIn(t) = FlattenSeq([i \in 1..n |-> EntriesOf(TableLines[t[i]])])
    BY <1>1, <1>3 DEF EntriesIn, Begins
  <1>8. FlattenSeq(p) = p[1] \o FlattenSeq([i \in 1..n |-> p[i + 1]])
    BY <1>2, <1>4, PiecesHead
  <1>9. t = Tail(s)
    BY <1>1 DEF Begins
  <1> QED BY <1>5, <1>6, <1>7, <1>8, <1>9

LEMMA FilesType ==
    ASSUME NEW s \in Seq(DOMAIN TableLines)
    PROVE  /\ EntriesIn(s) \in Seq(Given)
           /\ s = << >> => EntriesIn(s) = << >>
  <1>1. PICK n \in Nat : Len(s) = n /\ DOMAIN s = 1..n
    BY LenProperties
  <1>2. PICK p : p = [i \in 1..n |-> EntriesOf(TableLines[s[i]])]
    OBVIOUS
  <1>3. p \in Seq(Seq(Given)) /\ Len(p) = n
    <2>1. \A i \in 1..n : s[i] \in DOMAIN TableLines
      BY <1>1, ElementOfSeq
    <2>2. p \in [1..n -> Seq(Given)]
      BY <1>2, <2>1, LinesType
    <2> QED BY <2>2
  <1>4. EntriesIn(s) = FlattenSeq(p)
    BY <1>1, <1>2 DEF EntriesIn
  <1>5. s = << >> => p = << >>
    BY <1>1, <1>3
  <1> QED BY <1>3, <1>4, <1>5, FlattenType, FlattenNone

\* The options from n on, and what -e and -f among them are given.
From(n) == [i \in 1..(Len(options) + 1 - n) |-> options[(n - 1) + i]]
Args(key) == IF key = "e" THEN Records ELSE DOMAIN TableLines
ArgIn(o, key) == IF o.key = key THEN <<o.arg>> ELSE << >>

LEMMA FromType ==
    ASSUME ArgsInv, NEW n \in 1..(Len(options) + 1)
    PROVE  /\ Len(options) + 1 - n \in Nat
           /\ DOMAIN From(n) = 1..(Len(options) + 1 - n)
           /\ \A i \in 1..(Len(options) + 1 - n) :
                  (n - 1) + i \in 1..Len(options) /\ From(n)[i] = options[(n - 1) + i]
  BY CommandLine DEF From

LEMMA ArgInType ==
    ASSUME ArgsInv, NEW k \in 1..Len(options), NEW key \in {"e", "f"}
    PROVE  ArgIn(options[k], key) \in Seq(Args(key))
  <1>1. options[k].key = key => options[k].arg \in Args(key)
    BY CommandLine DEF Args
  <1>2. CASE options[k].key = key
    <2>1. PICK x \in Args(key) : x = options[k].arg
      BY <1>1, <1>2
    <2>2. <<x>> \in Seq(Args(key))
      OBVIOUS
    <2> QED BY <1>2, <2>1, <2>2 DEF ArgIn
  <1>3. CASE options[k].key # key
    BY <1>3 DEF ArgIn
  <1> QED BY <1>2, <1>3

LEMMA FromFirst ==
    ASSUME ArgsInv, NEW key PROVE ArgsOf(options, key) = ArgsOf(From(1), key)
  <1>1. PICK m \in Nat : m = Len(options) /\ DOMAIN options = 1..m
    BY CommandLine
  <1>2. From(1) = [i \in 1..m |-> options[i]]
    <2>1. m + 1 - 1 = m /\ \A i \in 1..m : (1 - 1) + i = i
      BY <1>1
    <2> QED BY <1>1, <2>1 DEF From
  <1>3. DOMAIN From(1) = 1..m /\ \A i \in 1..m : From(1)[i] = options[i]
    BY <1>2
  <1> QED BY <1>1, <1>3 DEF ArgsOf

LEMMA ArgsType ==
    ASSUME ArgsInv, NEW n \in 1..(Len(options) + 1), NEW key \in {"e", "f"}
    PROVE  /\ ArgsOf(From(n), key) \in Seq(Args(key))
           /\ n = Len(options) + 1 => ArgsOf(From(n), key) = << >>
  <1>1. PICK m \in Nat : m = Len(options) + 1 - n
    BY FromType
  <1>2. PICK p : p = [i \in 1..m |-> ArgIn(From(n)[i], key)]
    OBVIOUS
  <1>3. p \in [1..m -> Seq(Args(key))]
    BY <1>1, <1>2, FromType, ArgInType
  <1>4. p \in Seq(Seq(Args(key))) /\ Len(p) = m
    BY <1>3
  <1>5. ArgsOf(From(n), key) = FlattenSeq(p)
    BY <1>1, <1>2, FromType DEF ArgsOf, ArgIn
  <1>6. n = Len(options) + 1 => p = << >>
    <2>1. Len(options) \in Nat
      BY CommandLine
    <2> QED BY <1>1, <1>4, <2>1
  <1> QED BY <1>4, <1>5, <1>6, FlattenType, FlattenNone

LEMMA ArgsHead ==
    ASSUME ArgsInv, NEW n \in 1..Len(options), NEW key \in {"e", "f"}
    PROVE  ArgsOf(From(n), key) = ArgIn(options[n], key) \o ArgsOf(From(n + 1), key)
  <1>1. PICK len \in Nat : len = Len(options)
    BY CommandLine
  <1>2. PICK m \in Nat : m = len - n
    <2>1. len - n \in Nat
      BY <1>1
    <2> QED BY <2>1
  <1>3. n \in 1..(len + 1) /\ n + 1 \in 1..(len + 1) /\ len + 1 - n = m + 1
        /\ len + 1 - (n + 1) = m
    BY <1>1, <1>2
  <1>4. PICK p : p = [i \in 1..(m + 1) |-> ArgIn(From(n)[i], key)]
    OBVIOUS
  <1>5. p \in [1..(m + 1) -> Seq(Args(key))]
    <2>1. ASSUME NEW i \in 1..(m + 1) PROVE ArgIn(From(n)[i], key) \in Seq(Args(key))
      <3>1. (n - 1) + i \in 1..Len(options) /\ From(n)[i] = options[(n - 1) + i]
        BY <1>1, <1>3, FromType
      <3> QED BY <3>1, ArgInType
    <2> QED BY <1>4, <2>1
  <1>6. ArgsOf(From(n), key) = FlattenSeq(p)
    BY <1>1, <1>3, <1>4, FromType DEF ArgsOf, ArgIn
  <1>7. p[1] = ArgIn(options[n], key)
    <2>1. 1 \in 1..(m + 1) /\ (n - 1) + 1 = n
      OBVIOUS
    <2>2. From(n)[1] = options[n]
      BY <1>1, <1>3, <2>1, FromType
    <2> QED BY <1>4, <2>1, <2>2
  <1>8. ASSUME NEW i \in 1..m PROVE p[i + 1] = ArgIn(From(n + 1)[i], key)
    <2>1. i + 1 \in 1..(m + 1) /\ (n - 1) + (i + 1) = ((n + 1) - 1) + i
      OBVIOUS
    <2>2. From(n)[i + 1] = options[(n - 1) + (i + 1)]
      BY <1>1, <1>3, <2>1, FromType
    <2>3. From(n + 1)[i] = options[((n + 1) - 1) + i]
      BY <1>1, <1>3, FromType
    <2> QED BY <1>4, <2>1, <2>2, <2>3
  <1>9. [i \in 1..m |-> p[i + 1]] = [i \in 1..m |-> ArgIn(From(n + 1)[i], key)]
    BY <1>8
  <1>10. ArgsOf(From(n + 1), key) = FlattenSeq([i \in 1..m |-> ArgIn(From(n + 1)[i], key)])
    BY <1>1, <1>3, FromType DEF ArgsOf, ArgIn
  <1>11. FlattenSeq(p) = p[1] \o FlattenSeq([i \in 1..m |-> p[i + 1]])
    BY <1>5, PiecesHead
  <1> QED BY <1>6, <1>7, <1>9, <1>10, <1>11

\* es holds each entry of t as often as t does, but those for NaN, of which v
\* has the last.
Places(t, e) == {i \in DOMAIN t : t[i] = e}
NaNs(t) == {i \in DOMAIN t : t[i].bound = NaN}
HasTaken(es, v, t) ==
    /\ \A e \in Given : e.bound # NaN => Cardinality(Places(es, e)) = Cardinality(Places(t, e))
    /\ v = IF NaNs(t) = {} THEN NaN ELSE t[Max(NaNs(t))].value

\* One element more.
LEMMA PlacesMore ==
    ASSUME NEW S, NEW t \in Seq(S), NEW x \in S, NEW e
    PROVE  /\ Cardinality(Places(t, e)) \in Nat
           /\ Cardinality(Places(Append(t, x), e))
                  = Cardinality(Places(t, e)) + IF x = e THEN 1 ELSE 0
  <1>1. PICK m \in Nat, u \in Seq(S) : m = Len(t) /\ u = Append(t, x)
    BY AppendProperties, LenProperties
  <1>2. /\ Len(u) = m + 1 /\ DOMAIN u = 1..(m + 1) /\ DOMAIN t = 1..m
        /\ \A i \in 1..m : u[i] = t[i]
        /\ u[m + 1] = x
    BY <1>1, AppendProperties, LenProperties
  <1> DEFINE A == Places(u, e)
  <1>3. Places(t, e) = {k \in 1..m : k \in A}
    BY <1>2 DEF Places
  <1>4. A = {k \in 1..(m + 1) : k \in A}
    BY <1>2 DEF Places
  <1>5. m + 1 \in A <=> x = e
    BY <1>2 DEF Places
  <1>6. /\ m + 1 \in A => \A k \in (m + 1)..(m + 1) : k \in A
        /\ m + 1 \notin A => \A k \in (m + 1)..(m + 1) : k \notin A
    <2>1. \A k \in (m + 1)..(m + 1) : k = m + 1
      OBVIOUS
    <2> HIDE DEF A
    <2> QED BY <2>1
  <1> HIDE DEF A
  <1>7. Cardinality({k \in 1..m : k \in A}) \in Nat
    BY CountUpTo
  <1>8. /\ m + 1 \in A => Cardinality({k \in 1..(m + 1) : k \in A})
                              = Cardinality({k \in 1..m : k \in A}) + 1
        /\ m + 1 \notin A => Cardinality({k \in 1..(m + 1) : k \in A})
                              = Cardinality({k \in 1..m : k \in A})
    <2>1. PICK rv \in Nat : rv = 1
      OBVIOUS
    <2>2. /\ (\A k \in (m + 1)..(m + rv) : k \in A) =>
                  Cardinality({k \in 1..(m + rv) : k \in A})
                      = Cardinality({k \in 1..m : k \in A}) + rv
          /\ (\A k \in (m + 1)..(m + rv) : k \notin A) =>
                  Cardinality({k \in 1..(m + rv) : k \in A})
                      = Cardinality({k \in 1..m : k \in A})
      BY CountMore, ZenonT(30)
    <2> QED BY <1>6, <2>1, <2>2
  <1>9. Cardinality(A) = Cardinality(Places(t, e)) + IF x = e THEN 1 ELSE 0
    <2>1. PICK c \in Nat : c = Cardinality({k \in 1..m : k \in A})
      BY <1>7
    <2>2. Cardinality(Places(t, e)) = c
      BY <1>3, <2>1
    <2>3. CASE x = e
      <3>1. Cardinality(A) = c + 1
        BY <1>4, <1>5, <1>8, <2>1, <2>3
      <3> QED BY <2>2, <2>3, <3>1
    <2>4. CASE x # e
      <3>1. Cardinality(A) = c
        BY <1>4, <1>5, <1>8, <2>1, <2>4
      <3> QED BY <2>2, <2>4, <3>1
    <2> QED BY <2>3, <2>4
  <1> QED BY <1>1, <1>3, <1>7, <1>9 DEF A

LEMMA TakenEntry ==
    ASSUME NEW es \in Seq(Given), NEW t \in Seq(Given), NEW x \in Given, NEW v,
           x.bound # NaN, HasTaken(es, v, t)
    PROVE  HasTaken(Append(es, x), v, Append(t, x))
  <1>1. ASSUME NEW e \in Given, e.bound # NaN
        PROVE  Cardinality(Places(Append(es, x), e)) = Cardinality(Places(Append(t, x), e))
    <2>1. Cardinality(Places(es, e)) = Cardinality(Places(t, e))
      BY <1>1 DEF HasTaken
    <2> QED BY <2>1, PlacesMore
  <1>2. PICK m \in Nat, u \in Seq(Given) : m = Len(t) /\ u = Append(t, x)
    BY AppendProperties, LenProperties
  <1>3. /\ Len(u) = m + 1 /\ DOMAIN u = 1..(m + 1) /\ DOMAIN t = 1..m
        /\ \A i \in 1..m : u[i] = t[i]
        /\ u[m + 1] = x
    BY <1>2, AppendProperties, LenProperties
  <1>4. NaNs(u) = NaNs(t)
    BY <1>3 DEF NaNs
  <1>5. NaNs(t) # {} => Max(NaNs(t)) \in 1..m
    <2>1. NaNs(t) \in SUBSET (1..m)
      BY <1>3 DEF NaNs
    <2> QED BY <2>1, GreatestNumber
  <1>6. v = IF NaNs(u) = {} THEN NaN ELSE u[Max(NaNs(u))].value
    <2>1. NaNs(t) # {} => u[Max(NaNs(t))] = t[Max(NaNs(t))]
      BY <1>3, <1>5
    <2> QED BY <1>4, <2>1 DEF HasTaken
  <1> QED BY <1>1, <1>2, <1>6 DEF HasTaken

LEMMA TakenNaN ==
    ASSUME NEW es \in Seq(Given), NEW t \in Seq(Given), NEW x \in Given, NEW v,
           x.bound = NaN, HasTaken(es, v, t)
    PROVE  HasTaken(es, x.value, Append(t, x))
  <1>1. ASSUME NEW e \in Given, e.bound # NaN
        PROVE  Cardinality(Places(es, e)) = Cardinality(Places(Append(t, x), e))
    <2>1. Cardinality(Places(es, e)) = Cardinality(Places(t, e))
      BY <1>1 DEF HasTaken
    <2>2. x # e
      BY <1>1
    <2> QED BY <2>1, <2>2, PlacesMore
  <1>2. PICK m \in Nat, u \in Seq(Given) : m = Len(t) /\ u = Append(t, x)
    BY AppendProperties, LenProperties
  <1>3. /\ DOMAIN u = 1..(m + 1) /\ u[m + 1] = x
    BY <1>2, AppendProperties, LenProperties
  <1>4. NaNs(u) \in SUBSET (1..(m + 1)) /\ m + 1 \in NaNs(u)
    BY <1>3 DEF NaNs
  <1>5. Max(NaNs(u)) = m + 1
    <2>1. Max(NaNs(u)) \in NaNs(u) /\ \A k \in NaNs(u) : k <= Max(NaNs(u))
      <3>1. m + 1 \in Nat /\ NaNs(u) # {}
        BY <1>4
      <3> QED BY <1>4, <3>1, GreatestNumber
    <2>2. PICK g \in 1..(m + 1) : g = Max(NaNs(u))
      BY <1>4, <2>1
    <2> QED BY <1>4, <2>1, <2>2
  <1>6. x.value = IF NaNs(u) = {} THEN NaN ELSE u[Max(NaNs(u))].value
    BY <1>3, <1>4, <1>5
  <1> QED BY <1>1, <1>2, <1>6 DEF HasTaken

LEMMA TakenNone == HasTaken(<< >>, NaN, << >>)
  BY DEF HasTaken, Places, NaNs

\* The order does not matter.
Reordered(n, f, es, moved) ==
    /\ n \in Nat /\ DOMAIN es = 1..n /\ f \in [1..n -> 1..n]
    /\ \A i, j \in 1..n : f[i] = f[j] => i = j
    /\ moved = [i \in 1..n |-> es[f[i]]]

LEMMA PlacesSorted ==
    ASSUME NEW n, NEW f, NEW es, NEW moved, Reordered(n, f, es, moved), NEW e
    PROVE  Cardinality(Places(moved, e)) = Cardinality(Places(es, e))
  <1>0. /\ n \in Nat /\ DOMAIN es = 1..n /\ f \in [1..n -> 1..n]
        /\ \A i, j \in 1..n : f[i] = f[j] => i = j
        /\ moved = [i \in 1..n |-> es[f[i]]]
    BY DEF Reordered
  <1>1. f \in Injection(1..n, 1..n)
    BY <1>0 DEF Injection, IsInjective
  <1>2. f \in Surjection(1..n, 1..n)
    <2>1. IsFiniteSet(1..n)
      BY <1>0, FS_Interval
    <2> QED BY <1>1, <2>1, FS_Injection
  <1> DEFINE P == Places(moved, e)
             Q == Places(es, e)
             g == [i \in P |-> f[i]]
  <1>3. P = {i \in 1..n : es[f[i]] = e} /\ Q = {j \in 1..n : es[j] = e}
    BY <1>0 DEF Places
  <1>4. g \in [P -> Q] /\ \A i, j \in P : g[i] = g[j] => i = j
    BY <1>0, <1>3
  <1>5. \A j \in Q : \E i \in P : g[i] = j
    <2> SUFFICES ASSUME NEW j \in Q PROVE \E i \in P : g[i] = j
      OBVIOUS
    <2>1. j \in 1..n /\ es[j] = e
      BY <1>3
    <2>2. PICK i \in 1..n : f[i] = j
      BY <1>2, <2>1 DEF Surjection
    <2>3. i \in P
      BY <1>3, <2>1, <2>2
    <2> QED BY <2>2, <2>3
  <1> HIDE DEF P, Q, g
  <1>6. g \in Bijection(P, Q)
    BY <1>4, <1>5 DEF Bijection, Injection, IsInjective, Surjection
  <1>7. IsFiniteSet(P)
    <2>1. IsFiniteSet(1..n)
      BY <1>0, FS_Interval
    <2>2. P \in SUBSET (1..n)
      BY <1>3
    <2> QED BY <2>1, <2>2, FS_Subset
  <1>8. Cardinality(Q) = Cardinality(P)
    BY <1>6, <1>7, FS_Bijection DEF ExistsBijection
  <1> QED BY <1>8 DEF P, Q

\* The first of what is still to come is taken.
FirstMoves(S) ==
    \A a, s, c \in Seq(S) :
        s # << >> => Append(a, Head(s)) \o (Tail(s) \o c) = a \o (s \o c)

LEMMA HeadMoves ==
    ASSUME NEW S PROVE FirstMoves(S)
  <1> SUFFICES ASSUME NEW a \in Seq(S), NEW s \in Seq(S), s # << >>, NEW c \in Seq(S)
               PROVE  Append(a, Head(s)) \o (Tail(s) \o c) = a \o (s \o c)
    BY DEF FirstMoves
  <1>1. PICK h \in S, t \in Seq(S) : h = Head(s) /\ t = Tail(s)
    BY HeadTailProperties
  <1>2. PICK one \in Seq(S) : one = <<h>>
    <2>1. <<h>> \in Seq(S)
      OBVIOUS
    <2> QED BY <2>1, Zenon
  <1>3. s = one \o t
    BY <1>1, <1>2
  <1>4. Append(a, h) = a \o one
    BY <1>2, AppendIsConcat
  <1>5. PICK tc \in Seq(S) : tc = t \o c
    BY ConcatProperties
  <1>a. Associative(S)
    BY Regrouped
  <1>6. (a \o one) \o tc = a \o (one \o tc)
    <2>1. \A x \in Seq(S) : (a \o one) \o x = a \o (one \o x)
      BY <1>a DEF Associative
    <2> QED BY <2>1
  <1>7. (one \o t) \o c = one \o (t \o c)
    BY <1>a , ZenonT(30) DEF Associative
  <1> QED BY <1>1, <1>3, <1>4, <1>5, <1>6, <1>7

\* What has still to be asked of the table: by the options, by the files, and
\* by the lines of the file that is open.
Remaining ==
    IF at = "options" THEN EntriesOf(ArgsOf(From(next), "e"))
                               \o EntriesIn(table_files \o ArgsOf(From(next), "f"))
    ELSE IF at = "tables" THEN EntriesIn(table_files)
    ELSE IF at = "lines" THEN EntriesOf(lines) \o EntriesIn(Tail(table_files))
    ELSE << >>

Taken(t) ==
    /\ t \in Seq(Given) /\ HasTaken(ents, nan_value, t)
    /\ AskedFor = t \o (src \o Remaining)

\* As long as memory lasts, the table holds what was asked for up to where
\* the program is, and the rest is still to come.
GivenInv ==
    /\ pc # "append" => src = << >>
    /\ ~no_memory /\ (at \in {"options", "tables", "lines"} \/ Loaded) => \E t : Taken(t)

LEMMA NoNumbersLost ==
    ASSUME ArgsInv
    PROVE  /\ Remaining \in Seq(Given)
           /\ AskedFor \in Seq(Given)
  <1>0. AskedFor \in Seq(Given)
    <2>1. 1 \in 1..(Len(options) + 1)
      BY CommandLine
    <2>2. ArgsOf(options, "e") \in Seq(Records) /\ ArgsOf(options, "f") \in Seq(DOMAIN TableLines)
      BY <2>1, FromFirst, ArgsType DEF Args
    <2>3. EntriesOf(ArgsOf(options, "e")) \in Seq(Given)
      BY <2>2, EntriesType
    <2>4. EntriesIn(ArgsOf(options, "f")) \in Seq(Given)
      BY <2>2, FilesType
    <2> QED BY <2>3, <2>4, ConcatProperties DEF AskedFor
  <1>1. CASE at = "options"
    <2>1. next \in 1..(Len(options) + 1) /\ table_files \in Seq(DOMAIN TableLines)
      BY DEF ArgsInv
    <2>2. /\ ArgsOf(From(next), "e") \in Seq(Records)
          /\ ArgsOf(From(next), "f") \in Seq(DOMAIN TableLines)
      BY <2>1, ArgsType DEF Args
    <2>3. EntriesOf(ArgsOf(From(next), "e")) \in Seq(Given)
      BY <2>2, EntriesType
    <2>4. EntriesIn(table_files \o ArgsOf(From(next), "f")) \in Seq(Given)
      BY <2>1, <2>2, FilesType, ConcatProperties
    <2> QED BY <1>0, <1>1, <2>3, <2>4, ConcatProperties DEF Remaining
  <1>2. CASE at = "tables"
    <2>1. table_files \in Seq(DOMAIN TableLines)
      BY DEF ArgsInv
    <2> QED BY <1>0, <1>2, <2>1, FilesType DEF Remaining
  <1>3. CASE at = "lines"
    <2>1. table_files \in Seq(DOMAIN TableLines) /\ table_files # << >> /\ lines \in Seq(Records)
      BY <1>3 DEF ArgsInv
    <2>2. EntriesIn(Tail(table_files)) \in Seq(Given)
      BY <2>1, HeadTailProperties, FilesType
    <2>3. EntriesOf(lines) \in Seq(Given)
      BY <2>1, EntriesType
    <2> QED BY <1>0, <1>3, <2>2, <2>3, ConcatProperties DEF Remaining
  <1>4. CASE at \notin {"options", "tables", "lines"}
    BY <1>0, <1>4 DEF Remaining
  <1> QED BY <1>1, <1>2, <1>3, <1>4

\* Nothing new is taken.
LEMMA SameTaken ==
    ASSUME NEW t, Taken(t), UNCHANGED <<ents, nan_value, src, options>>,
           Remaining' = Remaining
    PROVE  Taken(t)'
  BY DEF Taken, AskedFor, ArgsOf

\* A call is made for the next entry.
LEMMA EntryToTake ==
    ASSUME NEW t, Taken(t), NEW e \in Given, ArgsInv, ArgsInv',
           src = << >>, src' = <<e>>, UNCHANGED <<ents, nan_value, options>>,
           Remaining = <<e>> \o Remaining'
    PROVE  Taken(t)'
  <1>1. Remaining \in Seq(Given)
    BY NoNumbersLost
  <1>2. << >> \o Remaining = Remaining
    BY <1>1, ConcatEmptySeq
  <1>3. src' \o Remaining' = src \o Remaining
    BY <1>2
  <1>4. AskedFor' = AskedFor
    BY DEF AskedFor, ArgsOf
  <1> QED BY <1>3, <1>4 DEF Taken

\* What an option leaves of what is to come.
LEMMA OptionsLeft ==
    ASSUME ArgsInv, at = "options", next <= Len(options)
    PROVE  LET rest_e == EntriesOf(ArgsOf(From(next + 1), "e"))
               rest_f == ArgsOf(From(next + 1), "f")
           IN  /\ rest_e \in Seq(Given) /\ rest_f \in Seq(DOMAIN TableLines)
               /\ option.key = "e" /\ option.arg.kind = "entry" =>
                      Remaining = <<option.arg.entry>>
                                      \o (rest_e \o EntriesIn(table_files \o rest_f))
               /\ option.key = "f" =>
                      Remaining = rest_e
                          \o EntriesIn(Append(table_files, option.arg) \o rest_f)
               /\ option.key \notin {"e", "f"} =>
                      Remaining = rest_e \o EntriesIn(table_files \o rest_f)
  <1>0. /\ next \in 1..Len(options) /\ next + 1 \in 1..(Len(options) + 1)
        /\ table_files \in Seq(DOMAIN TableLines)
    <2>1. Len(options) \in Nat /\ next \in 1..(Len(options) + 1)
      BY CommandLine DEF ArgsInv
    <2> QED BY <2>1 DEF ArgsInv
  <1> DEFINE ae == ArgsOf(From(next + 1), "e")
             af == ArgsOf(From(next + 1), "f")
  <1>1. ae \in Seq(Records) /\ af \in Seq(DOMAIN TableLines)
    BY <1>0, ArgsType DEF Args
  <1>2. EntriesOf(ae) \in Seq(Given)
    BY <1>1, EntriesType
  <1>3. /\ ArgsOf(From(next), "e") = ArgIn(option, "e") \o ae
        /\ ArgsOf(From(next), "f") = ArgIn(option, "f") \o af
    BY <1>0, ArgsHead DEF option
  <1>4. Remaining = EntriesOf(ArgsOf(From(next), "e"))
                        \o EntriesIn(table_files \o ArgsOf(From(next), "f"))
    BY DEF Remaining
  <1> HIDE DEF ae, af
  <1>5. << >> \o ae = ae /\ << >> \o af = af
    BY <1>1, ConcatEmptySeq
  <1>6. CASE option.key = "e"
    <2>1. option.arg \in Records
      BY <1>0, <1>6, CommandLine DEF option
    <2>2. ArgsOf(From(next), "f") = af
      BY <1>3, <1>5, <1>6 DEF ArgIn
    <2>3. PICK s \in Seq(Records) : s = <<option.arg>> \o ae
      <3>1. <<option.arg>> \in Seq(Records)
        BY <2>1
      <3> QED BY <1>1, <3>1, ConcatProperties
    <2>4. s # << >> /\ Head(s) = option.arg /\ Tail(s) = ae
      <3>1. PICK x \in Records, y \in Seq(Records) : x = option.arg /\ y = ae
        BY <1>1, <2>1
      <3>2. <<x>> \o y # << >> /\ Head(<<x>> \o y) = x /\ Tail(<<x>> \o y) = y
        OBVIOUS
      <3> QED BY <2>3, <3>1, <3>2
    <2>5. EntriesOf(s) = EntryOf(option.arg) \o EntriesOf(ae)
      BY <2>4, EntriesHead
    <2>6. ASSUME option.arg.kind = "entry"
          PROVE  Remaining = <<option.arg.entry>>
                                 \o (EntriesOf(ae) \o EntriesIn(table_files \o af))
      <3>1. PICK one \in Seq(Given), re \in Seq(Given), fs \in Seq(Given) :
                one = <<option.arg.entry>> /\ re = EntriesOf(ae)
                /\ fs = EntriesIn(table_files \o af)
        <4>1. <<option.arg.entry>> \in Seq(Given)
          BY <2>1, RecordType
        <4>2. table_files \o af \in Seq(DOMAIN TableLines)
          BY <1>0, <1>1, ConcatProperties
        <4>3. EntriesIn(table_files \o af) \in Seq(Given)
          BY <4>2, FilesType
        <4> QED BY <1>2, <4>1, <4>3, Zenon
      <3>2. ArgsOf(From(next), "e") = s
        BY <1>3, <1>6, <2>3 DEF ArgIn
      <3>3. Remaining = (one \o re) \o fs
        BY <1>4, <2>2, <2>5, <2>6, <3>1, <3>2 DEF EntryOf
      <3>4. (one \o re) \o fs = one \o (re \o fs)
        <4>1. Associative(Given)
          BY Regrouped
        <4>2. \A x \in Seq(Given) : (one \o re) \o x = one \o (re \o x)
          BY <4>1 DEF Associative
        <4> QED BY <4>2
      <3> QED BY <3>1, <3>3, <3>4
    <2> QED BY <1>1, <1>2, <1>6, <2>6 DEF ae, af
  <1>7. CASE option.key = "f"
    <2>1. option.arg \in DOMAIN TableLines
      BY <1>0, <1>7, CommandLine DEF option
    <2>2. ArgsOf(From(next), "e") = ae
      BY <1>3, <1>5, <1>7 DEF ArgIn
    <2>3. ArgsOf(From(next), "f") = <<option.arg>> \o af
      BY <1>3, <1>7 DEF ArgIn
    <2>4. table_files \o (<<option.arg>> \o af) = Append(table_files, option.arg) \o af
      <3>1. PICK x \in DOMAIN TableLines, y \in Seq(DOMAIN TableLines), z \in Seq(DOMAIN TableLines) :
                x = option.arg /\ y = af /\ z = table_files
        BY <1>0, <1>1, <2>1
      <3>2. PICK one \in Seq(DOMAIN TableLines) : one = <<x>>
        <4>1. <<x>> \in Seq(DOMAIN TableLines)
          OBVIOUS
        <4> QED BY <4>1, Zenon
      <3>3. Append(z, x) = z \o one
        BY <3>2, AppendIsConcat
      <3>4. Associative(DOMAIN TableLines)
        BY Regrouped
      <3>5. \A w \in Seq(DOMAIN TableLines) : (z \o one) \o w = z \o (one \o w)
        BY <3>4 DEF Associative
      <3> QED BY <3>1, <3>2, <3>3, <3>5
    <2> QED BY <1>1, <1>2, <1>4, <1>7, <2>2, <2>3, <2>4 DEF ae, af
  <1>8. CASE option.key \notin {"e", "f"}
    <2>1. ArgsOf(From(next), "e") = ae /\ ArgsOf(From(next), "f") = af
      BY <1>3, <1>5, <1>8 DEF ArgIn
    <2> QED BY <1>1, <1>2, <1>4, <1>8, <2>1 DEF ae, af
  <1> QED BY <1>6, <1>7, <1>8

LEMMA RemainingNext == ArgsInv' => Remaining' \in Seq(Given)
  <1>1. ArgsInv => Remaining \in Seq(Given)
    BY NoNumbersLost
  <1>2. (ArgsInv => Remaining \in Seq(Given))'
    BY <1>1, PTL
  <1> QED BY <1>2

LEMMA OptionsGive ==
    ASSUME StateInv, StateInv', GivenInv, Options PROVE GivenInv'
  <1>0. ArgsInv /\ ArgsInv' /\ PhaseInv
    BY DEF StateInv, ProgramInv
  <1>1. at = "options" /\ pc = "idle" /\ src = << >>
    BY DEF GivenInv, Options, StoreTableFile, AddEntry, SetInterpolation, SetInputFormat,
           SetOutputFormat, StoreFiles, IsNext, Idle
  <1>2. CASE StoreTableFile
    <2>1. UNCHANGED <<ents, nan_value, src, options, pc>>
      BY <1>2 DEF StoreTableFile, table, call, copying, lookup, args
    <2>2. CASE no_memory'
      BY <1>1, <2>1, <2>2 DEF GivenInv
    <2>3. CASE ~no_memory'
      <3>1. /\ at' = "options" /\ next' = next + 1 /\ ~no_memory /\ next <= Len(options)
            /\ option.key = "f" /\ table_files' = Append(table_files, option.arg)
        BY <1>2, <2>3 DEF StoreTableFile, NextOption, NoMemory, IsNext
      <3>2. Remaining' = Remaining
        <4>1. Remaining' = EntriesOf(ArgsOf(From(next + 1), "e"))
                  \o EntriesIn(Append(table_files, option.arg) \o ArgsOf(From(next + 1), "f"))
          BY <2>1, <3>1 DEF Remaining, From
        <4> QED BY <1>0, <1>1, <3>1, <4>1, OptionsLeft
      <3>3. PICK t : Taken(t)
        BY <1>1, <3>1 DEF GivenInv
      <3>4. Taken(t)'
        BY <2>1, <3>2, <3>3, SameTaken
      <3> QED BY <1>1, <2>1, <3>4 DEF GivenInv
    <2> QED BY <2>2, <2>3
  <1>3. CASE AddEntry
    <2>1. CASE option.arg.kind = "entry" /\ AppendBegin(<<option.arg.entry>>)
               /\ NextOption /\ UNCHANGED no_memory
      <3>1. /\ UNCHANGED <<ents, nan_value, options, table_files, no_memory>>
            /\ src' = <<option.arg.entry>> /\ pc' = "append"
            /\ at' = "options" /\ next' = next + 1 /\ next <= Len(options) /\ option.key = "e"
        BY <1>1, <1>3, <2>1 DEF AddEntry, AppendBegin, NextOption, IsNext, args, loading
      <3>2. Remaining = <<option.arg.entry>> \o Remaining'
        <4>1. Remaining' = EntriesOf(ArgsOf(From(next + 1), "e"))
                  \o EntriesIn(table_files \o ArgsOf(From(next + 1), "f"))
          BY <3>1 DEF Remaining, From
        <4> QED BY <1>0, <1>1, <2>1, <3>1, <4>1, OptionsLeft
      <3>3. option.arg.entry \in Given
        <4>1. next \in 1..Len(options)
          <5>1. Len(options) \in Nat
            BY <1>0, CommandLine
          <5> QED BY <1>0, <3>1, <5>1 DEF ArgsInv
        <4>2. option.arg \in Records
          BY <1>0, <3>1, <4>1, CommandLine DEF option
        <4> QED BY <4>2, RecordType
      <3>4. ASSUME ~no_memory PROVE \E t : Taken(t)'
        <4>1. PICK t : Taken(t)
          BY <1>1, <3>4 DEF GivenInv
        <4>2. Taken(t)'
          BY <1>0, <1>1, <3>1, <3>2, <3>3, <4>1, EntryToTake
        <4> QED BY <4>2
      <3> QED BY <3>1, <3>4 DEF GivenInv
    <2>2. CASE \/ option.arg.kind # "entry" /\ Usage /\ UNCHANGED <<table, call, no_memory>>
               \/ option.arg.kind = "entry" /\ AppendFails(<<option.arg.entry>>) /\ NoMemory
      <3>1. UNCHANGED <<src, pc>>
        BY <1>3, <2>2 DEF AddEntry, AppendFails, table_vars, copying, call, lookup
      <3>2. no_memory' \/ at' = "usage"
        BY <1>3, <2>2 DEF AddEntry, NoMemory, Usage
      <3> QED BY <1>1, <3>1, <3>2 DEF GivenInv, Loaded
    <2> QED BY <1>3, <2>1, <2>2 DEF AddEntry
  <1>4. CASE SetInterpolation \/ SetInputFormat \/ SetOutputFormat
    <2>1. /\ UNCHANGED <<ents, nan_value, src, options, pc, table_files, no_memory>>
          /\ next <= Len(options) /\ option.key \notin {"e", "f"}
      BY <1>4 DEF SetInterpolation, SetInputFormat, SetOutputFormat, IsNext, table, call,
                  copying, lookup, loading
    <2>2. CASE at' = "usage"
      BY <1>1, <2>1, <2>2 DEF GivenInv, Loaded
    <2>3. CASE at' = "options" /\ next' = next + 1
      <3>1. Remaining' = Remaining
        <4>1. Remaining' = EntriesOf(ArgsOf(From(next + 1), "e"))
                  \o EntriesIn(table_files \o ArgsOf(From(next + 1), "f"))
          BY <2>1, <2>3 DEF Remaining, From
        <4> QED BY <1>0, <1>1, <2>1, <4>1, OptionsLeft
      <3>2. ASSUME ~no_memory PROVE \E t : Taken(t)'
        <4>1. PICK t : Taken(t)
          BY <1>1, <3>2 DEF GivenInv
        <4>2. Taken(t)'
          BY <2>1, <3>1, <4>1, SameTaken
        <4> QED BY <4>2
      <3> QED BY <1>1, <2>1, <3>2 DEF GivenInv
    <2> QED BY <1>1, <1>4, <2>2, <2>3 DEF SetInterpolation, SetInputFormat, SetOutputFormat,
               Usage, NextOption
  <1>5. CASE StoreFiles
    <2>1. UNCHANGED <<ents, nan_value, src, options, pc, table_files>>
      BY <1>5 DEF StoreFiles, table, call, copying, lookup, args, loading
    <2>2. CASE no_memory'
      BY <1>1, <2>1, <2>2 DEF GivenInv
    <2>3. CASE ~no_memory'
      <3>1. at' = "tables" /\ ~no_memory
        BY <1>5, <2>3 DEF StoreFiles, NoMemory
      <3>2. next = Len(options) + 1
        <4>1. Len(options) \in Nat /\ next \in 1..(Len(options) + 1) /\ next > Len(options)
          BY <1>0, <1>5, CommandLine DEF ArgsInv, StoreFiles
        <4> QED BY <4>1
      <3>3. Remaining' = Remaining
        <4>1. ArgsOf(From(next), "e") = << >> /\ ArgsOf(From(next), "f") = << >>
          BY <1>0, <3>2, ArgsType DEF ArgsInv
        <4>2. table_files \in Seq(DOMAIN TableLines)
          BY <1>0 DEF ArgsInv
        <4>3. table_files \o << >> = table_files
          BY <4>2, ConcatEmptySeq
        <4>4. EntriesOf(<< >>) = << >>
          <5>1. << >> \in Seq(Records)
            OBVIOUS
          <5> QED BY <5>1, EntriesType
        <4>5. << >> \o EntriesIn(table_files) = EntriesIn(table_files)
          BY <4>2, FilesType, ConcatEmptySeq
        <4>6. Remaining = EntriesIn(table_files)
          BY <1>1, <4>1, <4>3, <4>4, <4>5 DEF Remaining
        <4> QED BY <2>1, <3>1, <4>6 DEF Remaining
      <3>4. PICK t : Taken(t)
        BY <1>1, <3>1 DEF GivenInv
      <3>5. Taken(t)'
        BY <2>1, <3>3, <3>4, SameTaken
      <3> QED BY <1>1, <2>1, <3>5 DEF GivenInv
    <2> QED BY <2>2, <2>3
  <1> QED BY <1>2, <1>3, <1>4, <1>5 DEF Options

LEMMA LoadingGives ==
    ASSUME StateInv, StateInv', GivenInv, Loading PROVE GivenInv'
  <1>0. ArgsInv /\ ArgsInv' /\ PhaseInv
    BY DEF StateInv, ProgramInv
  <1>1. at \in {"tables", "lines"} /\ pc = "idle" /\ src = << >>
    BY DEF GivenInv, Loading, OpenTable, SkipLine, LoadEntry, GarbageLine, TableReadError,
           EndOfTable, ReadLine, Idle
  <1>a. table_files \in Seq(DOMAIN TableLines) /\ lines \in Seq(Records)
    BY <1>0 DEF ArgsInv
  <1>2. ASSUME UNCHANGED <<ents, nan_value, src, options, pc, no_memory>>,
               Remaining' = Remaining
        PROVE  GivenInv'
    <2>1. ASSUME ~no_memory PROVE \E t : Taken(t)'
      <3>1. PICK t : Taken(t)
        BY <1>1, <2>1 DEF GivenInv
      <3>2. Taken(t)'
        BY <1>2, <3>1, SameTaken
      <3> QED BY <3>2
    <2> QED BY <1>1, <1>2, <2>1 DEF GivenInv
  <1>3. CASE OpenTable
    <2>1. UNCHANGED <<ents, nan_value, src, options, pc, no_memory>>
      BY <1>3 DEF OpenTable, table, call, copying, lookup, args
    <2>2. CASE at' = "open_error"
      BY <1>1, <2>1, <2>2 DEF GivenInv, Loaded
    <2>3. CASE at' = "lines" /\ lines' = TableLines[Head(table_files)]
      <3>1. at = "tables" /\ table_files # << >> /\ table_files' = table_files
        BY <1>3 DEF OpenTable
      <3>2. Remaining' = Remaining
        BY <1>a, <2>3, <3>1, FilesHead DEF Remaining
      <3> QED BY <1>2, <2>1, <3>2
    <2> QED BY <1>3, <2>2, <2>3 DEF OpenTable
  <1>4. ASSUME ReadLine("comment") \/ ReadLine("entry") \/ ReadLine("garbage"), at' = "lines"
        PROVE  Remaining = EntryOf(Head(lines)) \o Remaining'
    <2>1. /\ at = "lines" /\ lines # << >> /\ lines' = Tail(lines)
          /\ UNCHANGED table_files
      BY <1>4 DEF ReadLine
    <2>2. EntriesOf(lines) = EntryOf(Head(lines)) \o EntriesOf(Tail(lines))
      BY <1>a, <2>1, EntriesHead
    <2>3. PICK one \in Seq(Given), re \in Seq(Given), fs \in Seq(Given) :
              one = EntryOf(Head(lines)) /\ re = EntriesOf(Tail(lines))
              /\ fs = EntriesIn(Tail(table_files))
      <3>1. Head(lines) \in Records /\ Tail(lines) \in Seq(Records)
        BY <1>a, <2>1, HeadTailProperties
      <3>2. Tail(table_files) \in Seq(DOMAIN TableLines)
        BY <1>0, <1>a, <2>1, HeadTailProperties DEF ArgsInv
      <3>3. /\ EntryOf(Head(lines)) \in Seq(Given) /\ EntriesOf(Tail(lines)) \in Seq(Given)
            /\ EntriesIn(Tail(table_files)) \in Seq(Given)
        BY <3>1, <3>2, EntryOfType, EntriesType, FilesType
      <3> QED BY <3>3
    <2>4. (one \o re) \o fs = one \o (re \o fs)
      <3>1. Associative(Given)
        BY Regrouped
      <3>2. \A x \in Seq(Given) : (one \o re) \o x = one \o (re \o x)
        BY <3>1 DEF Associative
      <3> QED BY <3>2
    <2>5. Remaining = (one \o re) \o fs
      BY <2>1, <2>2, <2>3 DEF Remaining
    <2>6. Remaining' = re \o fs
      BY <1>4, <2>1, <2>3 DEF Remaining
    <2> QED BY <2>3, <2>4, <2>5, <2>6
  <1>5. CASE SkipLine
    <2>1. /\ UNCHANGED <<ents, nan_value, src, options, pc, no_memory>> /\ at' = "lines"
          /\ Head(lines).kind = "comment"
      BY <1>5 DEF SkipLine, ReadLine, table, call, copying, lookup, args
    <2>2. Remaining = << >> \o Remaining'
      BY <1>4, <1>5, <2>1 DEF SkipLine, EntryOf
    <2>3. Remaining' \in Seq(Given)
      BY <1>0, RemainingNext
    <2> QED BY <1>2, <2>1, <2>2, <2>3, ConcatEmptySeq
  <1>6. CASE LoadEntry
    <2>1. UNCHANGED <<ents, nan_value, options>> /\ at' = "lines" /\ at = "lines"
          /\ Head(lines).kind = "entry"
      BY <1>6 DEF LoadEntry, ReadLine, args, AppendBegin, AppendFails, table_vars, table
    <2>2. CASE AppendBegin(<<Head(lines).entry>>) /\ UNCHANGED no_memory
      <3>1. src' = <<Head(lines).entry>> /\ pc' = "append"
        BY <2>2 DEF AppendBegin
      <3>2. Remaining = <<Head(lines).entry>> \o Remaining'
        BY <1>4, <1>6, <2>1 DEF LoadEntry, EntryOf
      <3>3. Head(lines).entry \in Given
        <4>1. Head(lines) \in Records
          BY <1>6, <1>a, HeadTailProperties DEF LoadEntry, ReadLine
        <4> QED BY <4>1, RecordType
      <3>4. ASSUME ~no_memory PROVE \E t : Taken(t)'
        <4>1. PICK t : Taken(t)
          BY <1>1, <3>4 DEF GivenInv
        <4>2. Taken(t)'
          BY <1>0, <1>1, <2>1, <3>1, <3>2, <3>3, <4>1, EntryToTake
        <4> QED BY <4>2
      <3> QED BY <2>2, <3>1, <3>4 DEF GivenInv
    <2>3. CASE AppendFails(<<Head(lines).entry>>) /\ no_memory' = TRUE
      <3>1. UNCHANGED <<src, pc>>
        BY <2>3 DEF AppendFails, table_vars, copying
      <3> QED BY <1>1, <2>3, <3>1 DEF GivenInv
    <2> QED BY <1>6, <2>2, <2>3 DEF LoadEntry
  <1>7. CASE GarbageLine \/ TableReadError
    <2>1. at' = "table_error" /\ UNCHANGED <<src, pc>>
      BY <1>7 DEF GarbageLine, TableReadError, call, copying, lookup
    <2> QED BY <1>1, <2>1 DEF GivenInv, Loaded
  <1>8. CASE EndOfTable
    <2>1. /\ UNCHANGED <<ents, nan_value, src, options, pc, no_memory>>
          /\ at = "lines" /\ at' = "tables" /\ lines = << >> /\ table_files' = Tail(table_files)
      BY <1>8 DEF EndOfTable, table, call, copying, lookup, args
    <2>2. Tail(table_files) \in Seq(DOMAIN TableLines)
      BY <1>0, <1>a, <2>1, HeadTailProperties DEF ArgsInv
    <2>3. EntriesOf(lines) = << >>
      BY <1>a, <2>1, EntriesType
    <2>4. << >> \o EntriesIn(Tail(table_files)) = EntriesIn(Tail(table_files))
      BY <2>2, FilesType, ConcatEmptySeq
    <2>5. Remaining' = Remaining
      BY <2>1, <2>3, <2>4 DEF Remaining
    <2> QED BY <1>2, <2>1, <2>5
  <1> QED BY <1>3, <1>5, <1>6, <1>7, <1>8 DEF Loading

\* Nothing is taken, and nothing more is asked for.
LEMMA NothingTaken ==
    ASSUME GivenInv, pc # "append", UNCHANGED <<ents, nan_value, src, options>>,
           Remaining' = Remaining, no_memory => no_memory',
           at \in {"options", "tables", "lines"} \/ Loaded
    PROVE  GivenInv'
  <1>1. ASSUME ~no_memory' PROVE \E t : Taken(t)'
    <2>1. PICK t : Taken(t)
      BY <1>1 DEF GivenInv
    <2>2. Taken(t)'
      BY <2>1, SameTaken
    <2> QED BY <2>2
  <1>2. src' = << >>
    BY DEF GivenInv
  <1> QED BY <1>1, <1>2 DEF GivenInv

LEMMA TableTypes ==
    ASSUME StateInv
    PROVE  /\ ents \in Seq(Given) /\ src \in Seq(Given)
           /\ \A i \in DOMAIN ents : ents[i].bound # NaN
           /\ size = Len(ents) /\ Len(ents) \in Nat /\ DOMAIN ents = 1..Len(ents)
  <1>1. ents \in Seq(Entry) /\ src \in Seq(Given)
    BY DEF StateInv, TableInv, TableTypeOK
  <1>3. PICK n \in Nat : n = Len(ents) /\ DOMAIN ents = 1..n
    BY <1>1, LenProperties
  <1>4. \A i \in 1..n : ents[i] \in Given /\ ents[i].bound # NaN
    <2> SUFFICES ASSUME NEW i \in 1..n PROVE ents[i] \in Given /\ ents[i].bound # NaN
      OBVIOUS
    <2>1. ents[i] \in Entry
      BY <1>1, <1>3, ElementOfSeq
    <2> QED BY <2>1, NaNAssumption DEF Entry, Given
  <1>5. ents \in Seq(Given)
    <2>1. PICK g : g = [i \in 1..n |-> ents[i]]
      OBVIOUS
    <2>2. ents = g
      BY <1>1, <1>3, <2>1
    <2>3. g \in [1..n -> Given]
      BY <1>4, <2>1
    <2>4. g \in Seq(Given)
      BY <2>3
    <2> QED BY <2>2, <2>4
  <1> QED BY <1>1, <1>3, <1>4, <1>5 DEF size

LEMMA LibraryGives ==
    ASSUME StateInv, GivenInv, Library PROVE GivenInv'
  <1>0. ArgsInv /\ PhaseInv
    BY DEF StateInv, ProgramInv
  <1>1. UNCHANGED <<options, next, table_files, lines, at, no_memory>>
    BY DEF Library, args, loading
  <1>2. Remaining' = Remaining /\ AskedFor' = AskedFor
    BY <1>1 DEF Remaining, From, AskedFor, ArgsOf
  <1>3. CASE ~(AppendNaN \/ AppendEntry \/ AppendEnd)
    <2>1. UNCHANGED <<ents, nan_value, src>> /\ pc # "append"
      BY <1>3 DEF Library, Bisect, BisectEnd, MapFound, table, copying
    <2>2. Loaded
      BY <1>0, <1>3 DEF Library, Bisect, BisectEnd, MapFound, PhaseInv, Loaded
    <2> QED BY <1>1, <1>2, <2>1, <2>2, NothingTaken
  <1>4. CASE AppendEnd
    <2>1. UNCHANGED <<ents, nan_value, src>> /\ src = << >>
      BY <1>4 DEF AppendEnd, table
    <2>2. ASSUME ~no_memory, at \in {"options", "tables", "lines"} \/ Loaded
          PROVE  \E t : Taken(t)'
      <3>1. PICK t : Taken(t)
        BY <2>2 DEF GivenInv
      <3>2. Taken(t)'
        BY <1>1, <1>2, <2>1, <3>1, SameTaken
      <3> QED BY <3>2
    <2> QED BY <1>1, <2>1, <2>2 DEF GivenInv, Loaded
  <1>5. CASE AppendNaN \/ AppendEntry
    <2>1. pc' = "append" /\ src # << >> /\ src' = Tail(src)
      BY <1>5 DEF AppendNaN, AppendEntry
    <2>2. ASSUME ~no_memory, at \in {"options", "tables", "lines"} \/ Loaded
          PROVE  \E t : Taken(t)'
      <3>1. PICK t : Taken(t)
        BY <2>2 DEF GivenInv
      <3>2. t \in Seq(Given) /\ HasTaken(ents, nan_value, t) /\ AskedFor = t \o (src \o Remaining)
        BY <3>1 DEF Taken
      <3>3. PICK x \in Given : x = Head(src)
        BY <2>1, TableTypes, HeadTailProperties
      <3>4. Append(t, x) \in Seq(Given)
        BY <3>2, AppendProperties
      <3>5. AskedFor' = Append(t, x) \o (src' \o Remaining')
        <4>1. Append(t, Head(src)) \o (Tail(src) \o Remaining) = t \o (src \o Remaining)
          <5>1. PICK s \in Seq(Given), c \in Seq(Given) : s = src /\ c = Remaining
            BY <1>0, TableTypes, NoNumbersLost
          <5>2. s # << >>
            BY <2>1, <5>1
          <5>3. Append(t, Head(s)) \o (Tail(s) \o c) = t \o (s \o c)
            <6>1. FirstMoves(Given)
              BY HeadMoves
            <6>2. t \in Seq(Given)
              BY <3>2
            <6> QED BY <5>2, <6>1, <6>2 DEF FirstMoves
          <5> QED BY <5>1, <5>3
        <4> QED BY <1>2, <2>1, <3>2, <3>3, <4>1
      <3>6. HasTaken(ents', nan_value', Append(t, x))
        <4>1. CASE AppendNaN
          <5>1. x.bound = NaN /\ ents' = ents /\ nan_value' = x.value
            BY <3>3, <4>1 DEF AppendNaN
          <5> QED BY <3>2, <5>1, TableTypes, TakenNaN
        <4>2. CASE AppendEntry
          <5>1. x.bound # NaN /\ ents' = Append(ents, x) /\ nan_value' = nan_value
            BY <3>3, <4>2 DEF AppendEntry
          <5> QED BY <3>2, <5>1, TableTypes, TakenEntry
        <4> QED BY <1>5, <4>1, <4>2
      <3> QED BY <3>4, <3>5, <3>6 DEF Taken, HasTaken
    <2> QED BY <1>1, <2>1, <2>2 DEF GivenInv, Loaded
  <1> QED BY <1>3, <1>4, <1>5

\* Sorting moves the entries only.
LEMMA SortedEntries ==
    ASSUME StateInv, LinearInterp
    PROVE  \E n, f : Reordered(n, f, ents, ents')
  <1>1. PICK n \in Nat : n = Len(ents) /\ DOMAIN ents = 1..n /\ size = n
    BY TableTypes
  <1>2. PICK f \in Orders : ents' = [i \in 1..size |-> ents[f[i]]]
    BY DEF LinearInterp
  <1>3. f \in [1..n -> 1..n] /\ \A i, j \in 1..n : f[i] = f[j] => i = j
    BY <1>1, <1>2 DEF Orders
  <1>4. ents' = [i \in 1..n |-> ents[f[i]]]
    BY <1>1, <1>2
  <1> QED BY <1>1, <1>3, <1>4 DEF Reordered

LEMMA MappingGives ==
    ASSUME StateInv, GivenInv, Mapping PROVE GivenInv'
  <1>0. ArgsInv /\ PhaseInv
    BY DEF StateInv, ProgramInv
  <1>1. CASE Prepare
    <2>1. /\ at = "tables" /\ at' = "output" /\ table_files = << >> /\ pc = "idle" /\ pc' = pc
          /\ UNCHANGED <<options, src, nan_value>> /\ no_memory' \in {no_memory, TRUE}
      <3>1. no_memory \in BOOLEAN
        BY <1>0 DEF PhaseInv
      <3> QED BY <1>1, <3>1 DEF Prepare, Idle, args, table, call, copying, lookup,
                                LinearInterp, LinearInterpFails, table_vars
    <2>2. Remaining' = Remaining
      <3>1. << >> \in Seq(DOMAIN TableLines)
        OBVIOUS
      <3>2. EntriesIn(<< >>) = << >>
        BY <3>1, FilesType
      <3> QED BY <2>1, <3>2 DEF Remaining
    <2>3. CASE ents' = ents
      <3>1. /\ pc # "append" /\ UNCHANGED <<ents, nan_value, src, options>>
            /\ at \in {"options", "tables", "lines"}
        BY <2>1, <2>3
      <3>2. no_memory => no_memory'
        BY <2>1, Zenon
      <3> QED BY <2>2, <3>1, <3>2, NothingTaken
    <2>4. CASE LinearInterp
      <3>1. ASSUME ~no_memory' PROVE \E t : Taken(t)'
        <4>1. PICK t : Taken(t)
          BY <2>1, <3>1 DEF GivenInv
        <4>3. PICK n, f : Reordered(n, f, ents, ents')
          BY <2>4, SortedEntries
        <4>4. \A e : Cardinality(Places(ents', e)) = Cardinality(Places(ents, e))
          <5> SUFFICES ASSUME NEW e PROVE Cardinality(Places(ents', e)) = Cardinality(Places(ents, e))
            OBVIOUS
          <5> QED BY <4>3, PlacesSorted
        <4>5. HasTaken(ents', nan_value', t)
          BY <2>1, <4>1, <4>4 DEF Taken, HasTaken
        <4>6. AskedFor' = t \o (src' \o Remaining')
          BY <2>1, <2>2, <4>1 DEF Taken, AskedFor, ArgsOf
        <4> QED BY <4>1, <4>5, <4>6 DEF Taken, HasTaken
      <3> QED BY <2>1, <3>1 DEF GivenInv
    <2> QED BY <1>1, <2>3, <2>4 DEF Prepare, table, LinearInterpFails, table_vars
  <1>2. CASE ~Prepare
    <2>1. /\ UNCHANGED <<ents, nan_value, src, options, no_memory>>
          /\ at \in {"output", "files", "read", "map"}
          /\ at' \in {"output", "files", "read", "map"} \cup Exits
          /\ pc # "append"
      BY <1>2 DEF Mapping, OpenOutput, OpenInput, ReadBlock, MapNext, TakeOutcome,
                  WriteBlock, Finish, Idle, table, call, copying, lookup, args, Exits,
                  ApplyBegin, Return
    <2>2. Remaining' = Remaining
      BY <2>1 DEF Remaining, Exits
    <2> QED BY <2>1, <2>2, NothingTaken DEF Loaded
  <1> QED BY <1>1, <1>2

LEMMA InitGives == Init => GivenInv
  <1> SUFFICES ASSUME Init PROVE GivenInv
    OBVIOUS
  <1>0. ArgsInv
    BY InitState DEF StateInv, ProgramInv
  <1>1. /\ pc = "idle" /\ src = << >> /\ ents = << >> /\ nan_value = NaN
        /\ at \in {"options", "alloc_error"} /\ next = 1 /\ table_files = << >>
    BY DEF Init, xform_table_alloc
  <1>2. CASE at = "options"
    <2>1. Taken(<< >>)
      <3>1. << >> \in Seq(Given)
        OBVIOUS
      <3>2. Remaining = AskedFor
        <4>1. ArgsOf(From(1), "f") \in Seq(DOMAIN TableLines)
          <5>1. 1 \in 1..(Len(options) + 1)
            BY <1>0, CommandLine
          <5> QED BY <1>0, <5>1, ArgsType DEF Args
        <4>2. << >> \o ArgsOf(From(1), "f") = ArgsOf(From(1), "f")
          BY <4>1, ConcatEmptySeq
        <4> QED BY <1>0, <1>1, <1>2, <4>2, FromFirst DEF Remaining, AskedFor
      <3>3. << >> \o (<< >> \o Remaining) = Remaining
        BY <1>0, NoNumbersLost, ConcatEmptySeq
      <3> QED BY <1>1, <3>1, <3>2, <3>3, TakenNone DEF Taken
    <2> QED BY <1>1, <2>1 DEF GivenInv
  <1>3. CASE at = "alloc_error"
    BY <1>1, <1>3 DEF GivenInv, Loaded
  <1> QED BY <1>1, <1>2, <1>3

LEMMA EntriesTaken ==
    StateInv /\ GivenInv /\ [Next]_vars => GivenInv'
  <1> SUFFICES ASSUME StateInv, GivenInv, [Next]_vars PROVE GivenInv'
    OBVIOUS
  <1>1. StateInv'
    BY StateKept
  <1>2. CASE UNCHANGED vars
    <2>1. UNCHANGED <<ents, nan_value, src, options, pc, at, no_memory, next, table_files, lines>>
      BY <1>2 DEF vars, table, call, copying, lookup, args, loading
    <2>2. Remaining' = Remaining
      BY <2>1 DEF Remaining, From
    <2>3. \A t : Taken(t) => Taken(t)'
      BY <2>1, <2>2, SameTaken
    <2> QED BY <2>1, <2>3 DEF GivenInv, Loaded
  <1>3. CASE Ended
    BY <1>2, <1>3 DEF Ended
  <1> QED BY <1>1, <1>2, <1>3, LibraryGives, OptionsGive, LoadingGives, MappingGives DEF Next

\* An entry that is asked for, and a file that is.
Asked(e) == \E j \in DOMAIN AskedFor : AskedFor[j] = e
AskedFile(f) == \E k \in DOMAIN options : options[k].key = "f" /\ options[k].arg = f

\* What options give, what lines have and what files have is found in what is
\* made of them.
LEMMA ArgFound ==
    ASSUME ArgsInv, NEW key \in {"e", "f"}, NEW k \in 1..Len(options), options[k].key = key
    PROVE  \E j \in 1..Len(ArgsOf(options, key)) : ArgsOf(options, key)[j] = options[k].arg
  <1>1. PICK m \in Nat : m = Len(options) /\ DOMAIN options = 1..m
    BY CommandLine
  <1>2. PICK p : p = [i \in 1..m |-> ArgIn(options[i], key)]
    OBVIOUS
  <1>3. p \in Seq(Seq(Args(key))) /\ Len(p) = m
    <2>1. p \in [1..m -> Seq(Args(key))]
      BY <1>1, <1>2, ArgInType
    <2> QED BY <2>1
  <1>4. ArgsOf(options, key) = FlattenSeq(p)
    BY <1>1, <1>2 DEF ArgsOf, ArgIn
  <1>5. p[k] = <<options[k].arg>>
    BY <1>1, <1>2 DEF ArgIn
  <1>6. PICK i \in Nat : k \in 1..Len(p) /\ i \in 1..Len(p[k]) /\ p[k][i] = options[k].arg
    <2>1. k \in 1..Len(p) /\ 1 \in 1..Len(p[k]) /\ p[k][1] = options[k].arg
      BY <1>1, <1>3, <1>5
    <2> QED BY <2>1
  <1>7. \E j \in 1..Len(FlattenSeq(p)) : FlattenSeq(p)[j] = p[k][i]
    BY <1>3, <1>6, FlattenHolds
  <1> QED BY <1>4, <1>6, <1>7

LEMMA EntryFound ==
    ASSUME NEW s \in Seq(Records), NEW k \in 1..Len(s), s[k].kind = "entry"
    PROVE  \E j \in 1..Len(EntriesOf(s)) : EntriesOf(s)[j] = s[k].entry
  <1>1. PICK m \in Nat : m = Len(s) /\ DOMAIN s = 1..m
    BY LenProperties
  <1>2. PICK p : p = [i \in 1..m |-> EntryOf(s[i])]
    OBVIOUS
  <1>3. p \in Seq(Seq(Given)) /\ Len(p) = m
    <2>1. \A i \in 1..m : s[i] \in Records
      BY <1>1, ElementOfSeq
    <2>2. p \in [1..m -> Seq(Given)]
      BY <1>2, <2>1, EntryOfType
    <2> QED BY <2>2
  <1>4. EntriesOf(s) = FlattenSeq(p)
    BY <1>1, <1>2 DEF EntriesOf, EntryOf
  <1>5. p[k] = <<s[k].entry>>
    BY <1>1, <1>2 DEF EntryOf
  <1>6. PICK i \in Nat : k \in 1..Len(p) /\ i \in 1..Len(p[k]) /\ p[k][i] = s[k].entry
    <2>1. k \in 1..Len(p) /\ 1 \in 1..Len(p[k]) /\ p[k][1] = s[k].entry
      BY <1>1, <1>3, <1>5
    <2> QED BY <2>1
  <1>7. \E j \in 1..Len(FlattenSeq(p)) : FlattenSeq(p)[j] = p[k][i]
    BY <1>3, <1>6, FlattenHolds, ZenonT(30)
  <1> QED BY <1>4, <1>6, <1>7

LEMMA FileFound ==
    ASSUME NEW s \in Seq(DOMAIN TableLines), NEW k \in 1..Len(s),
           NEW i \in 1..Len(EntriesOf(TableLines[s[k]]))
    PROVE  \E j \in 1..Len(EntriesIn(s)) : EntriesIn(s)[j] = EntriesOf(TableLines[s[k]])[i]
  <1>1. PICK m \in Nat : m = Len(s) /\ DOMAIN s = 1..m
    BY LenProperties
  <1>2. PICK p : p = [h \in 1..m |-> EntriesOf(TableLines[s[h]])]
    OBVIOUS
  <1>3. p \in Seq(Seq(Given)) /\ Len(p) = m
    <2>1. \A h \in 1..m : s[h] \in DOMAIN TableLines
      BY <1>1, ElementOfSeq
    <2>2. p \in [1..m -> Seq(Given)]
      BY <1>2, <2>1, LinesType
    <2> QED BY <2>2
  <1>4. EntriesIn(s) = FlattenSeq(p)
    BY <1>1, <1>2 DEF EntriesIn
  <1>5. p[k] = EntriesOf(TableLines[s[k]])
    BY <1>1, <1>2
  <1>6. k \in 1..Len(p) /\ i \in 1..Len(p[k])
    BY <1>1, <1>3, <1>5
  <1>7. \E j \in 1..Len(FlattenSeq(p)) : FlattenSeq(p)[j] = p[k][i]
    BY <1>3, <1>6, FlattenHolds
  <1> QED BY <1>4, <1>5, <1>7

\* The two parts of what is asked for.
LEMMA AskedParts ==
    ASSUME ArgsInv
    PROVE  LET es == EntriesOf(ArgsOf(options, "e"))
               fs == EntriesIn(ArgsOf(options, "f"))
           IN  /\ ArgsOf(options, "e") \in Seq(Records)
               /\ ArgsOf(options, "f") \in Seq(DOMAIN TableLines)
               /\ \A j \in 1..Len(es) : Asked(es[j])
               /\ \A j \in 1..Len(fs) : Asked(fs[j])
  <1>1. ArgsOf(options, "e") \in Seq(Records) /\ ArgsOf(options, "f") \in Seq(DOMAIN TableLines)
    <2>1. 1 \in 1..(Len(options) + 1)
      BY CommandLine
    <2> QED BY <2>1, FromFirst, ArgsType DEF Args
  <1>2. PICK es \in Seq(Given), fs \in Seq(Given) :
            es = EntriesOf(ArgsOf(options, "e")) /\ fs = EntriesIn(ArgsOf(options, "f"))
    BY <1>1, EntriesType, FilesType
  <1>3. AskedFor = es \o fs
    BY <1>2 DEF AskedFor
  <1>4. DOMAIN AskedFor = 1..Len(es \o fs)
    BY <1>3, ConcatLayout, LenProperties
  <1>5. ASSUME NEW j \in 1..Len(es) PROVE Asked(es[j])
    <2>1. j \in 1..Len(es \o fs) /\ (es \o fs)[j] = es[j]
      BY ConcatLayout
    <2> QED BY <1>3, <1>4, <2>1 DEF Asked
  <1>6. ASSUME NEW j \in 1..Len(fs) PROVE Asked(fs[j])
    <2>1. Len(es) + j \in 1..Len(es \o fs) /\ (es \o fs)[Len(es) + j] = fs[j]
      BY ConcatLayout
    <2> QED BY <1>3, <1>4, <2>1 DEF Asked
  <1> QED BY <1>1, <1>2, <1>5, <1>6

LEMMA AskedOption ==
    ASSUME ArgsInv, NEW k \in 1..Len(options), options[k].key = "e",
           options[k].arg.kind = "entry"
    PROVE  Asked(options[k].arg.entry)
  <1>1. PICK s \in Seq(Records) : s = ArgsOf(options, "e")
    BY AskedParts
  <1>2. PICK j \in 1..Len(s) : s[j] = options[k].arg
    BY <1>1, ArgFound
  <1>3. PICK i \in 1..Len(EntriesOf(s)) : EntriesOf(s)[i] = s[j].entry
    BY <1>2, EntryFound
  <1> QED BY <1>1, <1>2, <1>3, AskedParts

LEMMA AskedLine ==
    ASSUME ArgsInv, NEW f \in DOMAIN TableLines, AskedFile(f), NEW k \in 1..Len(TableLines[f]),
           TableLines[f][k].kind = "entry"
    PROVE  Asked(TableLines[f][k].entry)
  <1>1. PICK s \in Seq(DOMAIN TableLines) : s = ArgsOf(options, "f")
    BY AskedParts
  <1>2. PICK o \in 1..Len(options) : options[o].key = "f" /\ options[o].arg = f
    BY CommandLine DEF AskedFile
  <1>3. PICK j \in 1..Len(s) : s[j] = f
    BY <1>1, <1>2, ArgFound
  <1>4. PICK i \in 1..Len(EntriesOf(TableLines[f])) :
            EntriesOf(TableLines[f])[i] = TableLines[f][k].entry
    BY LinesType, EntryFound
  <1>5. PICK h \in 1..Len(EntriesIn(s)) : EntriesIn(s)[h] = EntriesOf(TableLines[f])[i]
    BY <1>3, FileFound
  <1> QED BY <1>1, <1>4, <1>5, AskedParts

\* Whatever is in the table, on its way there or in a file that is to be read,
\* was asked for.
Wanted == {AskedFor[j] : j \in DOMAIN AskedFor}
Files == {f \in DOMAIN TableLines : AskedFile(f)}
AskedInv ==
    /\ \A i \in DOMAIN ents : ents[i] \in Wanted
    /\ \A k \in DOMAIN src : src[k] \in Wanted
    /\ \A k \in DOMAIN table_files : table_files[k] \in Files
    /\ at = "lines" => \A k \in DOMAIN lines :
           \E m \in 1..Len(TableLines[Head(table_files)]) :
               lines[k] = TableLines[Head(table_files)][m]

LEMMA SameWanted == UNCHANGED options => Wanted' = Wanted /\ Files' = Files
  BY DEF Wanted, Files, AskedFile, AskedFor, ArgsOf

LEMMA AppendWithin ==
    ASSUME NEW S, NEW s \in Seq(S), NEW x \in S, NEW W, x \in W, \A i \in DOMAIN s : s[i] \in W
    PROVE  \A i \in DOMAIN Append(s, x) : Append(s, x)[i] \in W
  <1>1. PICK m \in Nat : m = Len(s)
    BY LenProperties
  <1>a. PICK u : u = Append(s, x)
    OBVIOUS
  <1>2. /\ DOMAIN s = 1..m /\ DOMAIN u = 1..(m + 1) /\ u[m + 1] = x
        /\ \A i \in 1..m : u[i] = s[i]
    BY <1>1, <1>a, AppendProperties, LenProperties
  <1> SUFFICES ASSUME NEW i \in 1..(m + 1) PROVE u[i] \in W
    BY <1>a, <1>2
  <1>3. i = m + 1 \/ i \in 1..m
    OBVIOUS
  <1> QED BY <1>2, <1>3

\* Nothing new comes in.
LEMMA NothingAsked ==
    ASSUME AskedInv, UNCHANGED <<ents, src, options, table_files>>,
           at' = "lines" => at = "lines" /\ lines' = lines
    PROVE  AskedInv'
  BY SameWanted DEF AskedInv

LEMMA LibraryAsks ==
    ASSUME StateInv, AskedInv, Library PROVE AskedInv'
  <1>1. UNCHANGED <<options, table_files, lines, at>>
    BY DEF Library, args, loading
  <1>2. CASE ~(AppendNaN \/ AppendEntry)
    <2>1. UNCHANGED <<ents, src>>
      BY <1>2 DEF Library, AppendEnd, Bisect, BisectEnd, MapFound, table, copying
    <2> QED BY <1>1, <2>1, NothingAsked
  <1>3. CASE AppendNaN \/ AppendEntry
    <2>1. src # << >> /\ src' = Tail(src) /\ ents' \in {ents, Append(ents, Head(src))}
      BY <1>3 DEF AppendNaN, AppendEntry
    <2>2. PICK n, t : Begins(src, n, t)
      BY <2>1, TableTypes, BeginsWith
    <2>3. Head(src) \in Wanted /\ \A k \in DOMAIN src' : src'[k] \in Wanted
      <3>1. n \in Nat /\ 1 \in 1..(n + 1) /\ \A i \in 1..n : i + 1 \in 1..(n + 1)
        BY <2>2 DEF Begins
      <3> QED BY <2>1, <2>2, <3>1 DEF Begins, AskedInv
    <2>4. \A i \in DOMAIN ents' : ents'[i] \in Wanted
      <3>1. PICK es \in Seq(Given), x \in Given : es = ents /\ x = Head(src)
        BY <2>1, TableTypes, HeadTailProperties
      <3>2. \A i \in DOMAIN es : es[i] \in Wanted
        BY <3>1 DEF AskedInv
      <3>3. \A i \in DOMAIN Append(es, x) : Append(es, x)[i] \in Wanted
        BY <2>3, <3>1, <3>2, AppendWithin
      <3> QED BY <2>1, <3>1, <3>2, <3>3
    <2> QED BY <1>1, <2>3, <2>4, SameWanted DEF AskedInv
  <1> QED BY <1>2, <1>3

\* An entry is handed to the table.
LEMMA EntryAsked ==
    ASSUME StateInv, AskedInv, NEW e, e \in Wanted, src' = <<e>>,
           UNCHANGED <<ents, options, table_files>>,
           at' = "lines" => \A k \in DOMAIN lines' :
               \E m \in 1..Len(TableLines[Head(table_files)]) :
                   lines'[k] = TableLines[Head(table_files)][m]
    PROVE  AskedInv'
  <1>1. \A k \in DOMAIN src' : src'[k] \in Wanted
    OBVIOUS
  <1> QED BY <1>1, SameWanted DEF AskedInv

LEMMA OptionsAsk ==
    ASSUME StateInv, AskedInv, Options PROVE AskedInv'
  <1>0. ArgsInv
    BY DEF StateInv, ProgramInv
  <1>1. at = "options" /\ at' \in {"options", "tables", "usage"}
    BY DEF Options, StoreTableFile, AddEntry, SetInterpolation, SetInputFormat,
           SetOutputFormat, StoreFiles, IsNext, NextOption, Usage, NoMemory
  <1>2. ASSUME next <= Len(options) PROVE next \in 1..Len(options)
    <2>1. Len(options) \in Nat /\ next \in 1..(Len(options) + 1)
      BY <1>0, CommandLine DEF ArgsInv
    <2> QED BY <1>2, <2>1
  <1>3. CASE StoreTableFile
    <2>1. /\ UNCHANGED <<ents, src, options>> /\ option.key = "f" /\ next <= Len(options)
          /\ table_files' \in {table_files, Append(table_files, option.arg)}
      BY <1>3 DEF StoreTableFile, IsNext, table, call, copying, lookup, args
    <2>2. option.arg \in Files
      BY <1>0, <1>2, <2>1, CommandLine DEF option, Files, AskedFile
    <2>3. \A k \in DOMAIN table_files' : table_files'[k] \in Files
      <3>1. PICK fs \in Seq(DOMAIN TableLines), x \in DOMAIN TableLines :
                fs = table_files /\ x = option.arg
        BY <1>0, <2>2 DEF ArgsInv, Files
      <3>2. \A i \in DOMAIN fs : fs[i] \in Files
        BY <3>1 DEF AskedInv
      <3>3. \A i \in DOMAIN Append(fs, x) : Append(fs, x)[i] \in Files
        BY <2>2, <3>1, <3>2, AppendWithin
      <3> QED BY <2>1, <3>1, <3>2, <3>3
    <2> QED BY <1>1, <2>1, <2>3, SameWanted DEF AskedInv
  <1>4. CASE AddEntry
    <2>1. CASE option.arg.kind = "entry" /\ AppendBegin(<<option.arg.entry>>)
      <3>1. /\ UNCHANGED <<ents, options, table_files>> /\ src' = <<option.arg.entry>>
            /\ option.key = "e" /\ next <= Len(options)
        BY <1>4, <2>1 DEF AddEntry, IsNext, args, loading, AppendBegin
      <3>2. option.arg.entry \in Wanted
        BY <1>0, <1>2, <2>1, <3>1, AskedOption DEF option, Asked, Wanted
      <3> QED BY <1>1, <3>1, <3>2, EntryAsked
    <2>2. CASE ~(option.arg.kind = "entry" /\ AppendBegin(<<option.arg.entry>>))
      <3>1. UNCHANGED <<ents, src, options, table_files>>
        BY <1>4, <2>2 DEF AddEntry, table, call, copying, lookup, args, loading,
                          AppendFails, table_vars
      <3> QED BY <1>1, <3>1, NothingAsked
    <2> QED BY <2>1, <2>2
  <1>5. CASE SetInterpolation \/ SetInputFormat \/ SetOutputFormat \/ StoreFiles
    <2>1. UNCHANGED <<ents, src, options, table_files>>
      BY <1>5 DEF SetInterpolation, SetInputFormat, SetOutputFormat, StoreFiles, table,
                  call, copying, lookup,
                  args, loading
    <2> QED BY <1>1, <2>1, NothingAsked
  <1> QED BY <1>3, <1>4, <1>5 DEF Options

LEMMA LoadingAsks ==
    ASSUME StateInv, AskedInv, Loading PROVE AskedInv'
  <1>0. ArgsInv
    BY DEF StateInv, ProgramInv
  <1>1. CASE OpenTable
    <2>1. /\ UNCHANGED <<ents, src, options, table_files>> /\ table_files # << >>
          /\ at' = "lines" => lines' = TableLines[Head(table_files)]
      BY <1>1 DEF OpenTable, table, call, copying, lookup, args
    <2>2. TableLines[Head(table_files)] \in Seq(Records)
      BY <1>0, <2>1, HeadTailProperties, LinesType DEF ArgsInv
    <2>3. at' = "lines" => \A k \in DOMAIN lines' :
              \E m \in 1..Len(TableLines[Head(table_files)]) :
                  lines'[k] = TableLines[Head(table_files)][m]
      BY <2>1, <2>2, LenProperties
    <2> QED BY <2>1, <2>3, SameWanted DEF AskedInv
  <1>2. ASSUME NEW kind, ReadLine(kind)
        PROVE  /\ UNCHANGED <<options, table_files>> /\ at = "lines" /\ Head(lines).kind = kind
               /\ \A k \in DOMAIN lines' :
                      \E m \in 1..Len(TableLines[Head(table_files)]) :
                          lines'[k] = TableLines[Head(table_files)][m]
               /\ kind = "entry" => Head(lines).entry \in Wanted
    <2>1. /\ UNCHANGED <<options, table_files>> /\ at = "lines" /\ Head(lines).kind = kind
          /\ lines # << >> /\ lines' = Tail(lines)
      BY <1>2 DEF ReadLine, args
    <2>2. PICK n, t : Begins(lines, n, t)
      BY <1>0, <2>1, BeginsWith DEF ArgsInv
    <2>3. n \in Nat /\ 1 \in 1..(n + 1) /\ \A i \in 1..n : i + 1 \in 1..(n + 1)
      BY <2>2 DEF Begins
    <2>4. PICK f \in DOMAIN TableLines : f = Head(table_files) /\ AskedFile(f)
      <3>1. table_files \in Seq(DOMAIN TableLines) /\ table_files # << >>
        BY <1>0, <2>1 DEF ArgsInv
      <3>2. PICK g, h : Begins(table_files, g, h)
        BY <3>1, BeginsWith
      <3>3. Head(table_files) \in Files
        <4>1. 1 \in DOMAIN table_files /\ Head(table_files) = table_files[1]
          BY <3>2 DEF Begins
        <4> QED BY <4>1 DEF AskedInv
      <3> QED BY <3>3 DEF Files
    <2>5. \A k \in DOMAIN lines : \E m \in 1..Len(TableLines[f]) : lines[k] = TableLines[f][m]
      BY <2>1, <2>4 DEF AskedInv
    <2>6. \A k \in DOMAIN lines' : \E m \in 1..Len(TableLines[f]) : lines'[k] = TableLines[f][m]
      BY <2>1, <2>2, <2>3, <2>5 DEF Begins
    <2>7. ASSUME kind = "entry" PROVE Head(lines).entry \in Wanted
      <3>1. PICK m \in 1..Len(TableLines[f]) : Head(lines) = TableLines[f][m]
        BY <2>2, <2>3, <2>5 DEF Begins
      <3>2. TableLines[f][m].kind = "entry"
        BY <2>1, <2>7, <3>1
      <3>3. Asked(TableLines[f][m].entry)
        BY <1>0, <2>4, <3>2, AskedLine
      <3> QED BY <3>1, <3>3 DEF Asked, Wanted
    <2> QED BY <2>1, <2>4, <2>6, <2>7
  <1>3. CASE LoadEntry
    <2>1. ReadLine("entry") /\ UNCHANGED at
      BY <1>3 DEF LoadEntry
    <2>2. CASE AppendBegin(<<Head(lines).entry>>)
      <3>1. UNCHANGED ents /\ src' = <<Head(lines).entry>>
        BY <2>2 DEF AppendBegin
      <3> QED BY <1>2, <2>1, <3>1, EntryAsked
    <2>3. CASE ~AppendBegin(<<Head(lines).entry>>)
      <3>1. UNCHANGED <<ents, src>>
        BY <1>3, <2>3 DEF LoadEntry, AppendFails, table_vars, table, copying
      <3> QED BY <1>2, <2>1, <3>1, SameWanted DEF AskedInv
    <2> QED BY <2>2, <2>3
  <1>4. CASE SkipLine \/ GarbageLine
    <2>1. UNCHANGED <<ents, src>> /\ (ReadLine("comment") \/ ReadLine("garbage"))
      BY <1>4 DEF SkipLine, GarbageLine, table, call, copying, lookup
    <2> QED BY <1>2, <2>1, SameWanted DEF AskedInv
  <1>5. CASE TableReadError
    <2>1. UNCHANGED <<ents, src, options, table_files>> /\ at' # "lines"
      BY <1>5 DEF TableReadError, table, call, copying, lookup, args, loading
    <2> QED BY <2>1, NothingAsked
  <1>6. CASE EndOfTable
    <2>1. /\ UNCHANGED <<ents, src, options>> /\ at' = "tables" /\ at = "lines"
          /\ table_files' = Tail(table_files)
      BY <1>6 DEF EndOfTable, table, call, copying, lookup, args
    <2>2. \A k \in DOMAIN table_files' : table_files'[k] \in Files
      <3>1. table_files \in Seq(DOMAIN TableLines) /\ table_files # << >>
        BY <1>0, <2>1 DEF ArgsInv
      <3>2. PICK n, t : Begins(table_files, n, t)
        BY <3>1, BeginsWith
      <3>3. n \in Nat /\ \A i \in 1..n : i + 1 \in 1..(n + 1)
        BY <3>2 DEF Begins
      <3> QED BY <2>1, <3>2, <3>3 DEF Begins, AskedInv
    <2> QED BY <2>1, <2>2, SameWanted DEF AskedInv
  <1> QED BY <1>1, <1>3, <1>4, <1>5, <1>6 DEF Loading

LEMMA MappingAsks ==
    ASSUME StateInv, AskedInv, Mapping PROVE AskedInv'
  <1>0. UNCHANGED <<src, options, table_files>> /\ at' # "lines"
    <2>1. CASE Prepare
      BY <2>1 DEF Prepare, args, loading, call, copying, lookup, LinearInterp,
                  LinearInterpFails, table_vars
    <2>2. CASE OpenInput \/ ReadBlock
      BY <2>2 DEF OpenInput, ReadBlock, args, loading, call, copying, lookup
    <2>3. CASE MapNext \/ TakeOutcome
      BY <2>3 DEF MapNext, TakeOutcome, args, loading, ApplyBegin, Return, copying
    <2>4. CASE OpenOutput \/ WriteBlock \/ Finish
      BY <2>4 DEF OpenOutput, WriteBlock, Finish, args, loading, call, copying, lookup
    <2> QED BY <2>1, <2>2, <2>3, <2>4 DEF Mapping
  <1>1. CASE LinearInterp
    <2>1. PICK n, f : Reordered(n, f, ents, ents')
      BY <1>1, SortedEntries
    <2>2. \A i \in DOMAIN ents' : ents'[i] \in Wanted
      BY <2>1 DEF Reordered, AskedInv
    <2> QED BY <1>0, <2>2, SameWanted DEF AskedInv
  <1>2. CASE ~LinearInterp
    <2>1. ents' = ents
      BY <1>2 DEF Mapping, Prepare, OpenOutput, OpenInput, ReadBlock, MapNext,
                  TakeOutcome, WriteBlock, Finish, table, LinearInterpFails, table_vars,
                  ApplyBegin, Return
    <2> QED BY <1>0, <2>1, NothingAsked
  <1> QED BY <1>1, <1>2

LEMMA InitAsks == Init => AskedInv
  BY DEF Init, xform_table_alloc, AskedInv

LEMMA OnlyAskedFor == StateInv /\ AskedInv /\ [Next]_vars => AskedInv'
  <1> SUFFICES ASSUME StateInv, AskedInv, [Next]_vars PROVE AskedInv'
    OBVIOUS
  <1>1. CASE UNCHANGED vars
    <2>1. UNCHANGED <<ents, src, options, table_files, lines, at>>
      BY <1>1 DEF vars, table, call, copying, lookup, args, loading
    <2> QED BY <2>1, NothingAsked
  <1>2. CASE Ended
    BY <1>1, <1>2 DEF Ended
  <1> QED BY <1>1, <1>2, LibraryAsks, OptionsAsk, LoadingAsks, MappingAsks DEF Next

\* Once the table is complete, all that was asked for has been taken.
LEMMA AllIsTaken ==
    ASSUME StateInv, GivenInv, Loaded, ~no_memory
    PROVE  Holds(ents, nan_value, AskedFor)
  <1>1. PICK t : Taken(t)
    BY DEF GivenInv
  <1>2. src = << >> /\ Remaining = << >>
    <2>1. pc # "append"
      BY DEF StateInv, ProgramInv, PhaseInv, Loaded
    <2> QED BY <2>1 DEF GivenInv, Remaining, Loaded
  <1>3. AskedFor = t
    <2>1. t \in Seq(Given) /\ << >> \in Seq(Given)
      BY <1>1 DEF Taken
    <2>2. << >> \o << >> = << >> /\ t \o << >> = t
      BY <2>1, ConcatEmptySeq
    <2> QED BY <1>1, <1>2, <2>2 DEF Taken
  <1>4. /\ \A e \in Given : e.bound # NaN =>
               Cardinality({i \in DOMAIN ents : ents[i] = e})
                   = Cardinality({i \in DOMAIN AskedFor : AskedFor[i] = e})
        /\ nan_value = IF {i \in DOMAIN AskedFor : AskedFor[i].bound = NaN} = {} THEN NaN
                       ELSE AskedFor[Max({i \in DOMAIN AskedFor : AskedFor[i].bound = NaN})].value
    BY <1>1, <1>3 DEF Taken, HasTaken, Places, NaNs
  <1>5. ToSet(ents) \subseteq Given /\ ToSet(AskedFor) \subseteq Given
    <2>1. ents \in Seq(Given) /\ AskedFor \in Seq(Given)
      BY TableTypes, NoNumbersLost DEF StateInv, ProgramInv
    <2>2. \A s \in Seq(Given) : ToSet(s) \subseteq Given
      BY ElementOfSeq, LenProperties DEF ToSet
    <2> QED BY <2>1, <2>2
  <1> QED BY <1>4, <1>5 DEF Holds

\* Whatever the options and the table files are, the table that is used is
\* the one that was asked for, unless memory ran out: nothing is lost, taken
\* twice or left unsorted between the options, the files, the growing of the
\* array and the sort, and nothing else ever gets in (rawxform.c:94-112,
\* 347-363, 493-519).
THEOREM TableFollowsCommandLine == Spec => []TableIsAsGiven
  <1>1. StateInv /\ GivenInv /\ AskedInv => TableIsAsGiven
    <2> SUFFICES ASSUME StateInv, GivenInv, AskedInv PROVE TableIsAsGiven
      OBVIOUS
    <2>1. \A i \in DOMAIN ents : ents[i].bound # NaN
      BY TableTypes
    <2>2. \A i \in DOMAIN ents : ents[i] \in ToSet(AskedFor)
      BY DEF AskedInv, Wanted, ToSet
    <2>3. Loaded /\ ~no_memory => Holds(ents, nan_value, AskedFor)
      BY AllIsTaken
    <2> QED BY <2>1, <2>2, <2>3 DEF TableIsAsGiven
  <1> QED BY <1>1, InitState, StateKept, InitGives, EntriesTaken, InitAsks, OnlyAskedFor,
             PTL DEF Spec
=============================================================================
