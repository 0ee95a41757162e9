----------------------------- MODULE DataLemmas -----------------------------
(***************************************************************************)
(* Lemmas on sequences and counting that the proof modules share.          *)
(*                                                                         *)
(* What a recursive definition computes is proved by induction over a set  *)
(* of numbers: the least number outside the set would be the successor of  *)
(* one in it.                                                              *)
(***************************************************************************)
EXTENDS Naturals, FiniteSets, Sequences, SequencesExt, SequenceTheorems,
        FiniteSetTheorems, WellFoundedInduction, TLAPS

-----------------------------------------------------------------------------
(* Induction.                                                              *)

\* Every nonempty set of numbers has a least one.
LEMMA LeastNumber ==
    ASSUME NEW S \in SUBSET Nat, S # {}
    PROVE  \E n \in S : \A k \in S : n <= k
  <1> DEFINE Less == {ss \in Nat \X Nat : ss[1] < ss[2]}
  <1>1. IsWellFoundedOn(Less, Nat)
    BY NatLessThanWellFounded, Zenon DEF OpToRel
  <1>2. \A i, j \in Nat : i < j => <<i, j>> \in Less
    OBVIOUS
  <1> HIDE DEF Less
  <1>3. PICK n \in S : \A k \in S : <<k, n>> \notin Less
    BY <1>1, WFMin
  <1>4. ASSUME NEW k \in S PROVE n <= k
    <2>1. k \in Nat /\ n \in Nat
      OBVIOUS
    <2>2. ~ (k < n)
      BY <1>2, <1>3, <2>1
    <2> QED BY <2>1, <2>2
  <1> QED BY <1>4

\* A set that holds a number b and with every number from b on the next one
\* holds every number from b on.
LEMMA SetInduction ==
    ASSUME NEW T, NEW b \in Nat, b \in T,
           \A n \in Nat : n >= b /\ n \in T => n + 1 \in T
    PROVE  \A n \in Nat : n >= b => n \in T
  <1> SUFFICES ASSUME NEW m \in Nat, m >= b, m \notin T PROVE FALSE
    OBVIOUS
  <1> DEFINE missing == {n \in Nat : n >= b /\ n \notin T}
  <1>1. PICK n \in missing : \A k \in missing : n <= k
    BY LeastNumber
  <1>2. n \in Nat /\ n > b
    OBVIOUS
  <1>3. n - 1 \in Nat /\ n - 1 >= b /\ (n - 1) + 1 = n
    BY <1>2
  <1>4. n - 1 \in T
    BY <1>1, <1>3
  <1>5. n \in T
    BY <1>3, <1>4
  <1> QED BY <1>5

-----------------------------------------------------------------------------
(* Concatenation.                                                          *)

\* Where the elements of s \o t come from.
LEMMA ConcatLayout ==
    ASSUME NEW S, NEW s \in Seq(S), NEW t \in Seq(S)
    PROVE  /\ s \o t \in Seq(S) /\ Len(s) \in Nat /\ Len(t) \in Nat
           /\ Len(s \o t) = Len(s) + Len(t)
           /\ \A j \in 1..Len(s) : j \in 1..Len(s \o t) /\ (s \o t)[j] = s[j]
           /\ \A k \in 1..Len(t) : /\ Len(s) + k \in 1..Len(s \o t)
                                    /\ (s \o t)[Len(s) + k] = t[k]
           /\ \A j \in 1..Len(s \o t) :
                  j \in 1..Len(s) \/ \E k \in 1..Len(t) : j = Len(s) + k
  <1>1. PICK m \in Nat : m = Len(s)
    BY LenProperties
  <1>2. PICK n \in Nat : n = Len(t)
    BY LenProperties
  <1>3. PICK st \in Seq(S) : st = s \o t
    BY ConcatProperties
  <1>4. /\ Len(st) = m + n
        /\ \A j \in 1..(m + n) : st[j] = IF j <= m THEN s[j] ELSE t[j - m]
    BY <1>1, <1>2, <1>3, ConcatProperties
  <1>5. \A j \in 1..m : j \in 1..(m + n) /\ st[j] = s[j]
    BY <1>4
  <1>6. ASSUME NEW k \in 1..n PROVE m + k \in 1..(m + n) /\ st[m + k] = t[k]
    <2>1. m + k \in 1..(m + n) /\ ~ (m + k <= m) /\ (m + k) - m = k
      OBVIOUS
    <2> QED BY <1>4, <2>1
  <1>7. ASSUME NEW j \in 1..(m + n), j \notin 1..m PROVE \E k \in 1..n : j = m + k
    <2>1. j - m \in 1..n /\ j = m + (j - m)
      BY <1>7
    <2> QED BY <2>1
  <1> QED BY <1>1, <1>2, <1>3, <1>4, <1>5, <1>6, <1>7

-----------------------------------------------------------------------------
(* FlattenSeq.                                                             *)

\* The recursive function in FlattenSeq exists, and so satisfies its equation.
LEMMA FlattenSteps ==
    ASSUME NEW S, NEW seqs \in Seq(Seq(S)), Len(seqs) > 0
    PROVE  \E f \in [1..Len(seqs) -> Seq(S)] :
               /\ f[1] = seqs[1]
               /\ \A i \in 2..Len(seqs) : f[i] = f[i - 1] \o seqs[i]
               /\ FlattenSeq(seqs) = f[Len(seqs)]
  <1>0. PICK n \in Nat \ {0} : n = Len(seqs)
    BY LenProperties
  <1> DEFINE Rec(g, m) ==
                 g = [i \in 1..m |-> IF i = 1 THEN seqs[i] ELSE g[i - 1] \o seqs[i]]
  <1>1. \A i \in 1..n : seqs[i] \in Seq(S)
    BY <1>0, ElementOfSeq
  <1>2. \E g : Rec(g, n)
    <2> DEFINE T == {m \in Nat : \E g : Rec(g, m)}
    <2>1. 1 \in T
      <3>1. Rec([i \in 1..1 |-> seqs[i]], 1)
        OBVIOUS
      <3> QED BY <3>1
    <2>2. ASSUME NEW m \in Nat, m >= 1, m \in T PROVE m + 1 \in T
      <3>1. PICK g : Rec(g, m)
        BY <2>2
      <3> DEFINE h == [i \in 1..(m + 1) |-> IF i = 1 THEN seqs[i]
                                            ELSE g[i - 1] \o seqs[i]]
      <3>2. \A i \in 1..m : h[i] = g[i]
        <4> TAKE i \in 1..m
        <4>1. g[i] = IF i = 1 THEN seqs[i] ELSE g[i - 1] \o seqs[i]
          BY <3>1, Zenon
        <4> QED BY <4>1
      <3>3. Rec(h, m + 1)
        <4>1. \A i \in 1..(m + 1) : i # 1 => i - 1 \in 1..m
          BY <2>2
        <4>2. \A i \in 1..(m + 1) : i # 1 => h[i - 1] = g[i - 1]
          BY <3>2, <4>1
        <4> QED BY <4>2
      <3>4. \E k : Rec(k, m + 1)
        <4> HIDE DEF h, Rec
        <4> QED BY <3>3
      <3> HIDE DEF Rec
      <3> QED BY <3>4
    <2> HIDE DEF T
    <2>3. \A m \in Nat : m >= 1 => m \in T
      BY <2>1, <2>2, SetInduction
    <2>4. n \in T
      <3> QED BY <1>1, <2>3
    <2> HIDE DEF Rec
    <2> QED BY <2>4 DEF T
  <1> DEFINE f == CHOOSE g : Rec(g, n)
  <1>3. Rec(f, n)
    BY <1>2
  <1>4. FlattenSeq(seqs) = f[n]
    BY <1>0 DEF FlattenSeq
  <1> HIDE DEF f
  <1>5. f[1] = seqs[1] /\ \A i \in 2..n : f[i] = f[i - 1] \o seqs[i]
    <2>1. \A i \in 1..n : f[i] = IF i = 1 THEN seqs[i] ELSE f[i - 1] \o seqs[i]
      <3> QED BY <1>3, Zenon
    <2>2. 1 \in 1..n /\ \A i \in 2..n : i \in 1..n /\ i # 1
      BY <1>1
    <2> QED BY <2>1, <2>2, Zenon
  <1>6. \A i \in 1..n : f[i] \in Seq(S)
    <2> DEFINE T == {m \in Nat : m \in 1..n => f[m] \in Seq(S)}
    <2>1. 1 \in T
      BY <1>1, <1>5
    <2>2. ASSUME NEW m \in Nat, m >= 1, m \in T PROVE m + 1 \in T
      <3> SUFFICES ASSUME m + 1 \in 1..n PROVE f[m + 1] \in Seq(S)
        OBVIOUS
      <3>1. m + 1 \in 2..n /\ f[m] \in Seq(S) /\ seqs[m + 1] \in Seq(S)
        BY <1>1, <2>2
      <3>2. f[m + 1] = f[m] \o seqs[m + 1]
        <4>1. (m + 1) - 1 = m
          OBVIOUS
        <4>2. f[m + 1] = f[(m + 1) - 1] \o seqs[m + 1]
          <5> QED BY <1>5, <3>1, Zenon
        <4> QED BY <4>1, <4>2
      <3> QED BY <3>1, <3>2, ConcatProperties
    <2> HIDE DEF T
    <2>3. \A m \in Nat : m >= 1 => m \in T
      BY <2>1, <2>2, SetInduction
    <2> QED BY <2>3 DEF T
  <1>7. f \in [1..n -> Seq(S)]
    BY <1>3, <1>6
  <1> QED BY <1>0, <1>4, <1>5, <1>7

\* g[i] is the concatenation of the first i pieces.
Flattened(seqs, S, g) ==
    /\ g \in [0..Len(seqs) -> Seq(S)] /\ g[0] = << >>
    /\ \A i \in 1..Len(seqs) : g[i] = g[i - 1] \o seqs[i]
    /\ FlattenSeq(seqs) = g[Len(seqs)]

\* FlattenSeq is the last of such concatenations.
LEMMA FlattenPrefixes ==
    ASSUME NEW S, NEW seqs \in Seq(Seq(S))
    PROVE  \E g : Flattened(seqs, S, g)
  <1>0. PICK n \in Nat : n = Len(seqs)
    BY LenProperties
  <1>1. CASE n = 0
    <2>1. FlattenSeq(seqs) = << >>
      <3>1. seqs = << >>
        BY <1>0, <1>1, EmptySeq
      <3> QED BY <1>0, <1>1, <3>1 DEF FlattenSeq
    <2> DEFINE g == [i \in 0..0 |-> << >>]
    <2>2. g \in [0..0 -> Seq(S)] /\ g[0] = << >>
      OBVIOUS
    <2> HIDE DEF g
    <2>3. Flattened(seqs, S, g)
      BY <1>0, <1>1, <2>1, <2>2 DEF Flattened
    <2> QED BY <2>3
  <1>2. CASE n > 0
    <2>1. PICK f \in [1..n -> Seq(S)] :
              /\ f[1] = seqs[1]
              /\ \A i \in 2..n : f[i] = f[i - 1] \o seqs[i]
              /\ FlattenSeq(seqs) = f[n]
      BY <1>0, <1>2, FlattenSteps
    <2> DEFINE g == [i \in 0..n |-> IF i = 0 THEN << >> ELSE f[i]]
    <2>2. g \in [0..n -> Seq(S)] /\ g[0] = << >> /\ \A i \in 1..n : g[i] = f[i]
      OBVIOUS
    <2> HIDE DEF g
    <2>3. ASSUME NEW i \in 1..n PROVE g[i] = g[i - 1] \o seqs[i]
      <3>1. CASE i = 1
        <4>1. seqs[1] \in Seq(S)
          BY <1>0, <1>2, ElementOfSeq
        <4>2. << >> \o seqs[1] = seqs[1]
          BY <4>1, ConcatEmptySeq
        <4>3. g[1] = seqs[1] /\ i - 1 = 0
          BY <1>2, <2>1, <2>2, <3>1
        <4> QED BY <2>2, <3>1, <4>2, <4>3
      <3>2. CASE i # 1
        <4>1. i \in 2..n /\ i - 1 \in 1..n
          BY <3>2
        <4> QED BY <2>1, <2>2, <4>1
      <3> QED BY <3>1, <3>2
    <2>4. FlattenSeq(seqs) = g[n]
      BY <1>2, <2>1, <2>2
    <2>5. Flattened(seqs, S, g)
      BY <1>0, <2>2, <2>3, <2>4 DEF Flattened
    <2> QED BY <2>5
  <1> QED BY <1>1, <1>2

\* The pieces of seqs lie in FlattenSeq(seqs) one after the other and fill it:
\* piece i begins after off[i] elements.
Laid(seqs, off) ==
    LET n    == Len(seqs)
        flat == FlattenSeq(seqs)
    IN  /\ off \in [1..n -> Nat] /\ off[1] = 0
        /\ \A i \in 2..n : off[i] = off[i - 1] + Len(seqs[i - 1])
        /\ Len(flat) = off[n] + Len(seqs[n])
        /\ \A i \in 1..n : \A k \in 1..Len(seqs[i]) :
               off[i] + k \in 1..Len(flat) /\ flat[off[i] + k] = seqs[i][k]
        /\ \A j \in 1..Len(flat) :
               \E i \in 1..n : \E k \in 1..Len(seqs[i]) : j = off[i] + k

\* Every concatenation has such a layout.
LEMMA FlattenLayout ==
    ASSUME NEW S, NEW seqs \in Seq(Seq(S)), Len(seqs) > 0
    PROVE  FlattenSeq(seqs) \in Seq(S) /\ \E off : Laid(seqs, off)
  <1>0. PICK n \in Nat \ {0} : n = Len(seqs)
    BY LenProperties
  <1>1. \A i \in 1..n : seqs[i] \in Seq(S) /\ Len(seqs[i]) \in Nat
    BY <1>0, ElementOfSeq, LenProperties
  <1>2. PICK f \in [1..n -> Seq(S)] :
               /\ f[1] = seqs[1]
               /\ \A i \in 2..n : f[i] = f[i - 1] \o seqs[i]
               /\ FlattenSeq(seqs) = f[n]
    BY <1>0, FlattenSteps
  <1> DEFINE off == [i \in 1..n |-> Len(f[i]) - Len(seqs[i])]
  <1>3. \A i \in 1..n : f[i] \in Seq(S) /\ Len(f[i]) \in Nat
    BY LenProperties
  <1>4. ASSUME NEW i \in 2..n
        PROVE  /\ i - 1 \in 1..n /\ i \in 1..n /\ i # 1
               /\ f[i] = f[i - 1] \o seqs[i]
               /\ Len(f[i]) = Len(f[i - 1]) + Len(seqs[i])
    <2>1. i - 1 \in 1..n /\ i \in 1..n /\ i # 1
      BY <1>1
    <2>2. f[i] = f[i - 1] \o seqs[i]
      BY <1>2
    <2>3. f[i - 1] \in Seq(S) /\ seqs[i] \in Seq(S)
      BY <1>1, <2>1
    <2> QED BY <2>1, <2>2, <2>3, ConcatLayout
  <1>5. /\ off \in [1..n -> Nat] /\ off[1] = 0
        /\ \A i \in 1..n : Len(f[i]) = off[i] + Len(seqs[i])
        /\ \A i \in 2..n : off[i] = off[i - 1] + Len(seqs[i - 1])
    <2>1. \A i \in 1..n : off[i] = Len(f[i]) - Len(seqs[i])
      OBVIOUS
    <2>2. 1 \in 1..n
      BY <1>1
    <2>3. ASSUME NEW i \in 2..n PROVE off[i] = Len(f[i - 1])
      <3>1. /\ Len(f[i]) = Len(f[i - 1]) + Len(seqs[i])
            /\ off[i] = Len(f[i]) - Len(seqs[i])
        BY <1>4, <2>1
      <3>2. Len(f[i - 1]) \in Nat /\ Len(seqs[i]) \in Nat
        BY <1>1, <1>3, <1>4
      <3> HIDE DEF off
      <3> QED BY <3>1, <3>2
    <2>4. off[1] = 0
      BY <1>1, <1>2, <2>2
    <2>5. ASSUME NEW i \in 1..n PROVE off[i] \in Nat
      <3>1. i = 1 \/ i \in 2..n
        BY <1>1
      <3>2. ASSUME i \in 2..n PROVE off[i] \in Nat
        <4>1. Len(f[i - 1]) \in Nat
          BY <1>3, <1>4, <3>2
        <4> HIDE DEF off
        <4> QED BY <2>3, <3>2, <4>1
      <3> HIDE DEF off
      <3> QED BY <2>4, <3>1, <3>2
    <2>6. \A i \in 1..n : Len(f[i]) = off[i] + Len(seqs[i])
      <3> HIDE DEF off
      <3> QED BY <1>1, <1>3, <2>1
    <2>7. \A i \in 2..n : off[i] = off[i - 1] + Len(seqs[i - 1])
      <3> HIDE DEF off
      <3> QED BY <1>4, <2>3, <2>6
    <2> QED BY <2>4, <2>5, <2>6, <2>7
  <1> HIDE DEF off
  <1> DEFINE LaidTo(m) ==
        /\ \A i \in 1..m : \A k \in 1..Len(seqs[i]) :
               off[i] + k \in 1..Len(f[m]) /\ f[m][off[i] + k] = seqs[i][k]
        /\ \A j \in 1..Len(f[m]) :
               \E i \in 1..m : \E k \in 1..Len(seqs[i]) : j = off[i] + k
      T == {m \in Nat : m \in 1..n => LaidTo(m)}
  <1>6. 1 \in T
    BY <1>1, <1>2, <1>3, <1>5
  <1> HIDE DEF LaidTo
  <1>7. ASSUME NEW p \in Nat, p >= 1, p \in T PROVE p + 1 \in T
    <2> SUFFICES ASSUME p + 1 \in 1..n PROVE LaidTo(p + 1)
      OBVIOUS
    <2> DEFINE m == p + 1
    <2>1. m \in 2..n /\ m - 1 = p /\ p \in 1..n /\ m \in Nat
      BY <1>1, <1>7
    <2>2. LaidTo(p)
      BY <1>7, <2>1
    <2> HIDE DEF m
    <2>3. f[p] \in Seq(S) /\ seqs[m] \in Seq(S) /\ f[m] = f[p] \o seqs[m]
      <3>1. m \in 1..n
        BY <2>1
      <3> QED BY <1>1, <1>3, <1>4, <2>1, <3>1, Zenon
    <2>4. Len(f[p]) = off[m]
      <3>1. off[m] = off[p] + Len(seqs[p]) /\ Len(f[p]) = off[p] + Len(seqs[p])
        BY <1>5, <2>1, Zenon
      <3> QED BY <3>1
    <2>5. /\ \A j \in 1..Len(f[p]) : j \in 1..Len(f[m]) /\ f[m][j] = f[p][j]
          /\ \A k \in 1..Len(seqs[m]) : /\ off[m] + k \in 1..Len(f[m])
                                         /\ f[m][off[m] + k] = seqs[m][k]
          /\ \A j \in 1..Len(f[m]) :
                 j \in 1..Len(f[p]) \/ \E k \in 1..Len(seqs[m]) : j = off[m] + k
      <3>1. PICK s \in Seq(S), t \in Seq(S) : s = f[p] /\ t = seqs[m] /\ f[m] = s \o t
        BY <2>3
      <3>2. /\ \A j \in 1..Len(s) : j \in 1..Len(s \o t) /\ (s \o t)[j] = s[j]
            /\ \A k \in 1..Len(t) : /\ Len(s) + k \in 1..Len(s \o t)
                                     /\ (s \o t)[Len(s) + k] = t[k]
            /\ \A j \in 1..Len(s \o t) :
                   j \in 1..Len(s) \/ \E k \in 1..Len(t) : j = Len(s) + k
        BY ConcatLayout
      <3>3. off[m] = Len(s)
        BY <2>4, <3>1
      <3>4. \A j \in 1..Len(f[p]) : j \in 1..Len(f[m]) /\ f[m][j] = f[p][j]
        BY <3>1, <3>2, Zenon
      <3>5. \A k \in 1..Len(seqs[m]) :
                off[m] + k \in 1..Len(f[m]) /\ f[m][off[m] + k] = seqs[m][k]
        BY <3>1, <3>2, <3>3, Zenon
      <3>6. ASSUME NEW j \in 1..Len(f[m])
            PROVE  j \in 1..Len(f[p]) \/ \E k \in 1..Len(seqs[m]) : j = off[m] + k
        <4>1. j \in 1..Len(s \o t)
          BY <3>1
        <4>2. j \in 1..Len(s) \/ \E k \in 1..Len(t) : j = Len(s) + k
          BY <3>2, <4>1, Zenon
        <4> QED BY <3>1, <3>3, <4>2, Zenon
      <3> QED BY <3>4, <3>5, <3>6
    <2>7. \A i \in 1..m : i = m \/ i \in 1..p
      BY <2>1
    <2>8. m \in 1..m /\ \A i \in 1..p : i \in 1..m
      BY <2>1
    <2>9. ASSUME NEW i \in 1..m, NEW k \in 1..Len(seqs[i])
          PROVE  off[i] + k \in 1..Len(f[m]) /\ f[m][off[i] + k] = seqs[i][k]
      <3>1. CASE i = m
        BY <2>5, <3>1
      <3>2. CASE i \in 1..p
        <4>1. off[i] + k \in 1..Len(f[p]) /\ f[p][off[i] + k] = seqs[i][k]
          BY <2>2, <3>2 DEF LaidTo
        <4> QED BY <2>5, <4>1
      <3> QED BY <2>7, <3>1, <3>2
    <2>10. ASSUME NEW j \in 1..Len(f[m])
           PROVE  \E i \in 1..m : \E k \in 1..Len(seqs[i]) : j = off[i] + k
      <3>1. CASE j \in 1..Len(f[p])
        <4>1. PICK i \in 1..p : \E k \in 1..Len(seqs[i]) : j = off[i] + k
          BY <2>2, <3>1 DEF LaidTo
        <4> QED BY <2>8, <4>1
      <3> QED BY <2>5, <2>8, <3>1
    <2>11. LaidTo(m)
      BY <2>9, <2>10 DEF LaidTo
    <2> QED BY <2>11 DEF m
  <1> HIDE DEF T
  <1>8. \A m \in Nat : m >= 1 => m \in T
    BY <1>6, <1>7, SetInduction
  <1>9. LaidTo(n)
    <2>1. n \in T /\ n \in 1..n
      BY <1>1, <1>8
    <2> HIDE DEF LaidTo
    <2> QED BY <2>1 DEF T
  <1>10. FlattenSeq(seqs) \in Seq(S) /\ n \in 1..n
    BY <1>2, <1>3
  <1>11. /\ \A i \in 1..n : \A k \in 1..Len(seqs[i]) :
                /\ off[i] + k \in 1..Len(FlattenSeq(seqs))
                /\ FlattenSeq(seqs)[off[i] + k] = seqs[i][k]
         /\ \A j \in 1..Len(FlattenSeq(seqs)) :
                \E i \in 1..n : \E k \in 1..Len(seqs[i]) : j = off[i] + k
         /\ Len(FlattenSeq(seqs)) = off[n] + Len(seqs[n])
    BY <1>2, <1>5, <1>9, <1>10 DEF LaidTo
  <1>12. Laid(seqs, off)
    BY <1>0, <1>5, <1>11 DEF Laid
  <1> QED BY <1>10, <1>12

\* Three sequences one after the other.
Associative(S) == \A a, b, c \in Seq(S) : (a \o b) \o c = a \o (b \o c)

LEMMA Regrouped == \A S : Associative(S)
  BY ConcatAssociative DEF Associative

\* FlattenSeq begins with the first piece, and goes on with the others.
LEMMA FlattenHead ==
    ASSUME NEW S, NEW seqs \in Seq(Seq(S)), seqs # << >>
    PROVE  /\ FlattenSeq(seqs) \in Seq(S) /\ FlattenSeq(Tail(seqs)) \in Seq(S)
           /\ Head(seqs) \in Seq(S)
           /\ FlattenSeq(seqs) = Head(seqs) \o FlattenSeq(Tail(seqs))
  <1>1. PICK first \in Seq(S), others \in Seq(Seq(S)) : first = Head(seqs) /\ others = Tail(seqs)
    BY HeadTailProperties
  <1>2. PICK n \in Nat : n + 1 = Len(seqs)
    <2>1. Len(seqs) \in Nat /\ Len(seqs) # 0
      BY EmptySeq, LenProperties
    <2>2. Len(seqs) - 1 \in Nat /\ (Len(seqs) - 1) + 1 = Len(seqs)
      BY <2>1
    <2> QED BY <2>2
  <1>3. /\ Len(others) = n /\ first = seqs[1]
        /\ \A i \in 1..n : others[i] = seqs[i + 1]
    BY <1>1, <1>2, HeadTailProperties
  <1>4. PICK g : Flattened(seqs, S, g)
    BY FlattenPrefixes
  <1>5. PICK h : Flattened(others, S, h)
    BY FlattenPrefixes
  <1>6. /\ g \in [0..(n + 1) -> Seq(S)] /\ g[0] = << >>
        /\ \A i \in 1..(n + 1) : g[i] = g[i - 1] \o seqs[i]
        /\ FlattenSeq(seqs) = g[n + 1]
    BY <1>2, <1>4 DEF Flattened
  <1>7. /\ h \in [0..n -> Seq(S)] /\ h[0] = << >>
        /\ \A i \in 1..n : h[i] = h[i - 1] \o others[i]
        /\ FlattenSeq(others) = h[n]
    BY <1>3, <1>5 DEF Flattened
  <1> DEFINE T == {i \in Nat : i <= n => g[i + 1] = first \o h[i]}
  <1>8. 0 \in T
    <2>1. g[1] = g[0] \o seqs[1]
      <3>1. 1 \in 1..(n + 1) /\ 1 - 1 = 0
        OBVIOUS
      <3> QED BY <1>6, <3>1
    <2>2. g[1] = first /\ first = first \o h[0]
      BY <1>3, <1>6, <1>7, <2>1, ConcatEmptySeq
    <2> QED BY <2>2
  <1>9. ASSUME NEW i \in Nat, i \in T PROVE i + 1 \in T
    <2> SUFFICES ASSUME i + 1 <= n PROVE g[(i + 1) + 1] = first \o h[i + 1]
      OBVIOUS
    <2>1. i \in 0..n /\ i + 1 \in 1..n /\ (i + 1) + 1 \in 1..(n + 1)
          /\ (i + 1) - 1 = i /\ ((i + 1) + 1) - 1 = i + 1
      OBVIOUS
    <2>2. g[i + 1] = first \o h[i]
      BY <1>9
    <2>3. g[(i + 1) + 1] = g[i + 1] \o seqs[(i + 1) + 1]
      BY <1>6, <2>1
    <2>4. PICK piece \in Seq(S) : piece = others[i + 1] /\ piece = seqs[(i + 1) + 1]
      BY <1>3, <2>1, ElementOfSeq
    <2>5. h[i + 1] = h[i] \o piece /\ h[i] \in Seq(S)
      BY <1>7, <2>1, <2>4
    <2>6. (first \o h[i]) \o piece = first \o (h[i] \o piece)
      <3>1. PICK hi \in Seq(S) : hi = h[i]
        BY <2>5
      <3>3. Associative(S)
        BY Regrouped
      <3>2. (first \o hi) \o piece = first \o (hi \o piece)
        BY <3>3 DEF Associative
      <3> QED BY <3>1, <3>2
    <2> QED BY <2>2, <2>3, <2>4, <2>5, <2>6
  <1>10. n \in T
    <2> HIDE DEF T
    <2>1. \A i \in Nat : i >= 0 => i \in T
      BY <1>8, <1>9, SetInduction
    <2> QED BY <2>1
  <1>11. g[n + 1] = first \o h[n] /\ h[n] \in Seq(S) /\ g[n + 1] \in Seq(S)
    <2>1. n \in 0..n /\ n + 1 \in 0..(n + 1)
      OBVIOUS
    <2>2. h[n] \in Seq(S) /\ g[n + 1] \in Seq(S)
      BY <1>6, <1>7, <2>1, Zenon
    <2> QED BY <1>10, <2>2
  <1> QED BY <1>1, <1>6, <1>7, <1>11

\* The same of pieces that are numbered.
LEMMA PiecesHead ==
    ASSUME NEW S, NEW n \in Nat, NEW p \in [1..(n + 1) -> Seq(S)]
    PROVE  FlattenSeq(p) = p[1] \o FlattenSeq([i \in 1..n |-> p[i + 1]])
  <1>1. p \in Seq(Seq(S)) /\ Len(p) = n + 1 /\ p # << >>
    OBVIOUS
  <1>2. PICK t : t = Tail(p)
    OBVIOUS
  <1>3. t \in Seq(Seq(S)) /\ Len(t) = n /\ \A i \in 1..n : t[i] = p[i + 1]
    BY <1>1, <1>2, HeadTailProperties
  <1>4. PICK q : q = [i \in 1..n |-> p[i + 1]]
    OBVIOUS
  <1>5. q \in Seq(Seq(S)) /\ Len(q) = n /\ \A i \in 1..n : q[i] = t[i]
    <2>1. \A i \in 1..n : i + 1 \in 1..(n + 1)
      OBVIOUS
    <2>2. q \in [1..n -> Seq(S)]
      BY <1>4, <2>1
    <2> QED BY <1>3, <1>4, <2>2
  <1>6. q = t
    BY <1>3, <1>5, SeqEqual
  <1>7. Head(p) = p[1]
    BY <1>1
  <1> QED BY <1>1, <1>2, <1>4, <1>6, <1>7, FlattenHead

\* Nothing is the concatenation of nothing.
LEMMA FlattenNone == FlattenSeq(<< >>) = << >>
  BY DEF FlattenSeq

LEMMA FlattenType ==
    ASSUME NEW S, NEW seqs \in Seq(Seq(S)) PROVE FlattenSeq(seqs) \in Seq(S)
  <1>1. CASE seqs = << >>
    <2>1. << >> \in Seq(S)
      OBVIOUS
    <2> QED BY <1>1, <2>1, FlattenNone
  <1>2. CASE seqs # << >>
    BY <1>2, FlattenHead
  <1> QED BY <1>1, <1>2

\* Each element of each piece is in the concatenation.
LEMMA FlattenHolds ==
    ASSUME NEW S, NEW seqs \in Seq(Seq(S)), NEW i \in 1..Len(seqs), NEW k \in 1..Len(seqs[i])
    PROVE  \E j \in 1..Len(FlattenSeq(seqs)) : FlattenSeq(seqs)[j] = seqs[i][k]
  <1>1. Len(seqs) > 0
    <2>1. Len(seqs) \in Nat
      BY LenProperties
    <2> QED BY <2>1
  <1>2. PICK off : Laid(seqs, off)
    BY <1>1, FlattenLayout
  <1>3. off[i] + k \in 1..Len(FlattenSeq(seqs)) /\ FlattenSeq(seqs)[off[i] + k] = seqs[i][k]
    BY <1>2 DEF Laid
  <1> QED BY <1>3

\* The same for n blocks, block i of size[i] elements that are all val[i].
BlocksLaid(n, size, val, off) ==
    LET flat == FlattenSeq([i \in 1..n |-> [k \in 1..size[i] |-> val[i]]])
    IN  /\ off \in [1..n -> Nat] /\ off[1] = 0
        /\ \A i \in 2..n : off[i] = off[i - 1] + size[i - 1]
        /\ Len(flat) \in Nat \ {0} /\ Len(flat) = off[n] + size[n]
        /\ \A i \in 1..n : \A k \in 1..size[i] :
               off[i] + k \in 1..Len(flat) /\ flat[off[i] + k] = val[i]
        /\ \A j \in 1..Len(flat) :
               \E i \in 1..n : \E k \in 1..size[i] : j = off[i] + k

\* Blocks of at least one element each have such a layout.
LEMMA BlocksLayout ==
    ASSUME NEW n \in Nat \ {0}, NEW size, NEW val,
           \A i \in 1..n : size[i] \in Nat \ {0}
    PROVE  \E off : BlocksLaid(n, size, val, off)
  <1>0. PICK S : \A i \in 1..n : val[i] \in S
    <2>1. \A i \in 1..n : val[i] \in {val[j] : j \in 1..n}
      OBVIOUS
    <2> QED BY <2>1
  <1>1. ASSUME NEW i \in 1..n
        PROVE  /\ [k \in 1..size[i] |-> val[i]] \in Seq(S)
               /\ Len([k \in 1..size[i] |-> val[i]]) = size[i]
    <2>1. PICK m \in Nat, v \in S : m = size[i] /\ v = val[i]
      BY <1>0
    <2>2. [k \in 1..m |-> v] \in Seq(S) /\ Len([k \in 1..m |-> v]) = m
      OBVIOUS
    <2> QED BY <2>1, <2>2
  <1>2. PICK blocks : blocks = [i \in 1..n |-> [k \in 1..size[i] |-> val[i]]]
    OBVIOUS
  <1>3. /\ blocks \in Seq(Seq(S)) /\ n = Len(blocks)
        /\ \A i \in 1..n : size[i] = Len(blocks[i])
        /\ \A i \in 1..n : \A k \in 1..size[i] : blocks[i][k] = val[i]
    <2>1. \A i \in 1..n : blocks[i] = [k \in 1..size[i] |-> val[i]]
      BY <1>2
    <2>2. \A i \in 1..n : blocks[i] \in Seq(S) /\ size[i] = Len(blocks[i])
      BY <1>1, <2>1
    <2>3. blocks \in [1..n -> Seq(S)]
      BY <1>2, <2>2
    <2>4. blocks \in Seq(Seq(S)) /\ n = Len(blocks)
      BY <2>3
    <2>5. \A i \in 1..n : \A k \in 1..size[i] : blocks[i][k] = val[i]
      BY <2>1
    <2> QED BY <2>2, <2>4, <2>5
  <1>4. PICK off : Laid(blocks, off)
    BY <1>3, FlattenLayout
  <1>5. PICK flat : flat = FlattenSeq(blocks)
    OBVIOUS
  <1>6. /\ off \in [1..n -> Nat] /\ off[1] = 0
        /\ \A i \in 2..n : off[i] = off[i - 1] + Len(blocks[i - 1])
        /\ Len(flat) = off[n] + Len(blocks[n])
        /\ \A i \in 1..n : \A k \in 1..Len(blocks[i]) :
               off[i] + k \in 1..Len(flat) /\ flat[off[i] + k] = blocks[i][k]
        /\ \A j \in 1..Len(flat) :
               \E i \in 1..n : \E k \in 1..Len(blocks[i]) : j = off[i] + k
    BY <1>3, <1>4, <1>5 DEF Laid
  <1>7. ASSUME NEW i \in 2..n PROVE off[i] = off[i - 1] + size[i - 1]
    <2>1. i - 1 \in 1..n
      OBVIOUS
    <2>2. size[i - 1] = Len(blocks[i - 1])
      BY <1>3, <2>1, Zenon
    <2>3. off[i] = off[i - 1] + Len(blocks[i - 1])
      BY <1>6, Zenon
    <2> QED BY <2>2, <2>3
  <1>8. Len(flat) = off[n] + size[n] /\ Len(flat) \in Nat \ {0}
    <2>1. n \in 1..n
      OBVIOUS
    <2>2. off[n] \in Nat /\ size[n] \in Nat \ {0} /\ Len(flat) = off[n] + size[n]
      BY <1>3, <1>6, <2>1
    <2> QED BY <2>2
  <1>9. ASSUME NEW i \in 1..n, NEW k \in 1..size[i]
        PROVE  off[i] + k \in 1..Len(flat) /\ flat[off[i] + k] = val[i]
    <2>1. k \in 1..Len(blocks[i]) /\ blocks[i][k] = val[i]
      BY <1>3
    <2> QED BY <1>6, <2>1
  <1>10. ASSUME NEW j \in 1..Len(flat)
         PROVE  \E i \in 1..n : \E k \in 1..size[i] : j = off[i] + k
    <2>1. PICK i \in 1..n : \E k \in 1..Len(blocks[i]) : j = off[i] + k
      BY <1>6
    <2> QED BY <1>3, <2>1
  <1>11. flat = FlattenSeq([i \in 1..n |-> [k \in 1..size[i] |-> val[i]]])
    BY <1>2, <1>5
  <1>12. BlocksLaid(n, size, val, off)
    BY <1>6, <1>7, <1>8, <1>9, <1>10, <1>11 DEF BlocksLaid
  <1> QED BY <1>12

-----------------------------------------------------------------------------
(* Counting and dividing.                                                  *)

\* Finitely many of the numbers up to m are in A.
LEMMA CountUpTo ==
    ASSUME NEW A, NEW m \in Nat
    PROVE  /\ IsFiniteSet({k \in 1..m : k \in A})
           /\ Cardinality({k \in 1..m : k \in A}) \in Nat
  <1>1. IsFiniteSet(1..m)
    BY FS_Interval
  <1>2. {k \in 1..m : k \in A} \in SUBSET (1..m)
    OBVIOUS
  <1> QED BY <1>1, <1>2, FS_Subset, FS_CardinalityType

\* How many are in A of rv numbers more, when all of these, or none, are.
LEMMA CountMore ==
    ASSUME NEW A, NEW m \in Nat, NEW rv \in Nat
    PROVE  /\ (\A k \in (m + 1)..(m + rv) : k \in A) =>
                  Cardinality({k \in 1..(m + rv) : k \in A})
                      = Cardinality({k \in 1..m : k \in A}) + rv
           /\ (\A k \in (m + 1)..(m + rv) : k \notin A) =>
                  Cardinality({k \in 1..(m + rv) : k \in A})
                      = Cardinality({k \in 1..m : k \in A})
  <1> DEFINE old == {k \in 1..m : k \in A}
             more == (m + 1)..(m + rv)
             all == {k \in 1..(m + rv) : k \in A}
  <1>1. IsFiniteSet(old) /\ Cardinality(old) \in Nat
    BY CountUpTo
  <1>2. IsFiniteSet(more) /\ Cardinality(more) = rv
    BY FS_Interval
  <1>3. ASSUME \A k \in more : k \in A PROVE Cardinality(all) = Cardinality(old) + rv
    <2>1. all = old \cup more
      BY <1>3
    <2>2. old \cap more = {}
      OBVIOUS
    <2>3. Cardinality({}) = 0
      BY FS_EmptySet
    <2> HIDE DEF all, old, more
    <2>4. Cardinality(old \cup more) = Cardinality(old) + Cardinality(more) - Cardinality(old \cap more)
      BY <1>1, <1>2, FS_Union
    <2>5. Cardinality(all) = Cardinality(old) + rv - 0
      BY <1>2, <2>1, <2>2, <2>3, <2>4
    <2> QED BY <1>1, <2>5
  <1>4. ASSUME \A k \in more : k \notin A PROVE Cardinality(all) = Cardinality(old)
    <2>1. all = old
      BY <1>4
    <2> QED BY <2>1
  <1> QED BY <1>3, <1>4

\* A product of numbers, and one factor more.
LEMMA Times ==
    ASSUME NEW r \in Nat, NEW z \in Nat
    PROVE  r * z \in Nat /\ (r + 1) * z = r * z + z
  OBVIOUS

LEMMA TimesMore ==
    ASSUME NEW z \in Nat, NEW r \in Nat, NEW n \in Nat, r <= n
    PROVE  z * r <= z * n
  <1>1. PICK d \in Nat : n = r + d
    <2>1. n - r \in Nat /\ n = r + (n - r)
      OBVIOUS
    <2> QED BY <2>1
  <1>2. z * n = z * r + z * d
    BY <1>1
  <1>3. PICK a \in Nat, b \in Nat : a = z * r /\ b = z * d
    BY Times
  <1> QED BY <1>2, <1>3

\* Between r and r + 1 blocks of z bytes are r whole blocks.
LEMMA Quotient ==
    ASSUME NEW r \in Nat, NEW z \in Nat \ {0}, NEW n \in Nat, r * z <= n
    PROVE  /\ n < r * z + z => n \div z = r /\ (n # r * z => n % z # 0)
           /\ n >= r * z + z => n \div z > r
  OBVIOUS

\* What is left of r times z and x more is x.
LEMMA Remainder ==
    ASSUME NEW r \in Nat, NEW z \in Nat \ {0}, NEW x \in Nat, x < z
    PROVE  (r * z + x) % z = x /\ (r * z + x) \div z = r
  OBVIOUS

\* A quotient and a remainder are a number's only ones.
LEMMA Division ==
    ASSUME NEW n \in Nat, NEW z \in Nat \ {0}
    PROVE  /\ n \div z \in Nat /\ n % z \in 0..(z - 1)
           /\ n = (n \div z) * z + (n % z)
  OBVIOUS

-----------------------------------------------------------------------------
(* Folds.                                                                  *)

\* A set of numbers up to n has a greatest one.
LEMMA GreatestNumber ==
    ASSUME NEW n \in Nat, NEW S \in SUBSET (1..n), S # {}
    PROVE  Max(S) \in S /\ \A k \in S : k <= Max(S)
  <1> DEFINE mirror == {n - k : k \in S}
  <1>1. mirror \in SUBSET Nat /\ mirror # {}
    <2>1. \A k \in S : n - k \in Nat
      OBVIOUS
    <2> QED BY <2>1
  <1>2. PICK m \in mirror : \A k \in mirror : m <= k
    BY <1>1, LeastNumber
  <1>3. PICK g \in S : m = n - g
    OBVIOUS
  <1>4. \A k \in S : g >= k
    <2> SUFFICES ASSUME NEW k \in S PROVE g >= k
      OBVIOUS
    <2>1. n - k \in mirror /\ k \in Nat /\ g \in Nat
      OBVIOUS
    <2>2. n - g <= n - k
      BY <1>2, <1>3, <2>1
    <2> QED BY <2>1, <2>2
  <1>5. Max(S) \in S /\ \A k \in S : Max(S) >= k
    BY <1>4, Zenon DEF Max
  <1>6. \A k \in S : k \in Nat /\ Max(S) \in Nat
    BY <1>5
  <1> QED BY <1>5, <1>6

\* f is the recursive function in a fold from the left with the operation h.
Folds(A, n, base, h, f) ==
    /\ f \in [SUBSET (1..n) -> A]
    /\ \A t \in SUBSET (1..n) :
           f[t] = IF t = {} THEN base ELSE h[<<f[t \ {Max(t)}], Max(t)>>]

\* There is one, for every operation on the type A.
LEMMA FoldExists ==
    ASSUME NEW A, NEW n \in Nat, NEW base \in A, NEW h \in [A \X (1..n) -> A]
    PROVE  \E f : Folds(A, n, base, h, f)
  <1> DEFINE Rec(f, m) ==
          /\ f \in [SUBSET (1..m) -> A]
          /\ \A t \in SUBSET (1..m) :
                 f[t] = IF t = {} THEN base ELSE h[<<f[t \ {Max(t)}], Max(t)>>]
  <1> DEFINE T == {m \in Nat : m <= n => \E f : Rec(f, m)}
  <1>1. 0 \in T
    <2> DEFINE f == [t \in SUBSET (1..0) |-> base]
    <2>1. \A t \in SUBSET (1..0) : t = {}
      OBVIOUS
    <2>2. f \in [SUBSET (1..0) -> A] /\ \A t \in SUBSET (1..0) : f[t] = base
      OBVIOUS
    <2> HIDE DEF f
    <2>3. Rec(f, 0)
      BY <2>1, <2>2
    <2> HIDE DEF Rec
    <2> QED BY <2>3
  <1>2. ASSUME NEW m \in Nat, m >= 0, m \in T PROVE m + 1 \in T
    <2> SUFFICES ASSUME m + 1 <= n PROVE \E f : Rec(f, m + 1)
      <3> HIDE DEF Rec
      <3> QED BY <1>2
    <2>1. PICK g : Rec(g, m)
      <3>1. m <= n
        BY <1>2
      <3> HIDE DEF Rec
      <3> QED BY <1>2, <3>1
    <2> DEFINE f == [t \in SUBSET (1..(m + 1)) |->
                        IF m + 1 \in t THEN h[<<g[t \ {m + 1}], m + 1>>] ELSE g[t]]
    <2>2. \A t \in SUBSET (1..(m + 1)) : t \ {m + 1} \in SUBSET (1..m)
      BY <1>2
    <2>3. \A t \in SUBSET (1..(m + 1)) : m + 1 \notin t => t \in SUBSET (1..m)
      BY <2>2
    <2>4. \A t \in SUBSET (1..(m + 1)) : m + 1 \in t => Max(t) = m + 1
      <3> SUFFICES ASSUME NEW t \in SUBSET (1..(m + 1)), m + 1 \in t PROVE Max(t) = m + 1
        OBVIOUS
      <3>1. Max(t) \in t /\ \A k \in t : k <= Max(t)
        <4>1. PICK l \in Nat : l = m + 1
          OBVIOUS
        <4>2. t \in SUBSET (1..l) /\ t # {}
          BY <4>1
        <4> QED BY <4>2, GreatestNumber
      <3>2. m + 1 <= Max(t) /\ Max(t) \in 1..(m + 1)
        BY <3>1
      <3> QED BY <3>2
    <2>5. \A t \in SUBSET (1..m) : f[t] = g[t]
      <3>1. \A t \in SUBSET (1..m) : t \in SUBSET (1..(m + 1)) /\ m + 1 \notin t
        OBVIOUS
      <3> QED BY <3>1
    <2>6. f \in [SUBSET (1..(m + 1)) -> A]
      <3> SUFFICES ASSUME NEW t \in SUBSET (1..(m + 1))
                   PROVE  (IF m + 1 \in t THEN h[<<g[t \ {m + 1}], m + 1>>] ELSE g[t]) \in A
        OBVIOUS
      <3>1. CASE m + 1 \in t
        <4>1. g[t \ {m + 1}] \in A
          BY <2>1, <2>2
        <4>2. m + 1 \in 1..n
          OBVIOUS
        <4> QED BY <3>1, <4>1, <4>2
      <3>2. CASE m + 1 \notin t
        BY <2>1, <2>3, <3>2
      <3> QED BY <3>1, <3>2
    <2>7. ASSUME NEW t \in SUBSET (1..(m + 1))
          PROVE  f[t] = IF t = {} THEN base ELSE h[<<f[t \ {Max(t)}], Max(t)>>]
      <3>1. CASE m + 1 \in t
        <4>1. f[t] = h[<<g[t \ {m + 1}], m + 1>>]
          BY <3>1
        <4>2. f[t \ {m + 1}] = g[t \ {m + 1}]
          BY <2>2, <2>5
        <4> HIDE DEF f
        <4> QED BY <2>4, <3>1, <4>1, <4>2
      <3>2. CASE m + 1 \notin t
        <4>1. t \in SUBSET (1..m) /\ t \ {Max(t)} \in SUBSET (1..m)
          BY <2>3, <3>2
        <4>2. f[t] = g[t] /\ f[t \ {Max(t)}] = g[t \ {Max(t)}]
          BY <2>5, <4>1
        <4>3. g[t] = IF t = {} THEN base ELSE h[<<g[t \ {Max(t)}], Max(t)>>]
          BY <2>1, <4>1
        <4> HIDE DEF f
        <4> QED BY <4>2, <4>3
      <3> QED BY <3>1, <3>2
    <2> HIDE DEF f
    <2>8. Rec(f, m + 1)
      BY <2>6, <2>7
    <2> HIDE DEF Rec
    <2> QED BY <2>8
  <1> HIDE DEF T
  <1>3. n \in T
    BY <1>1, <1>2, SetInduction
  <1>4. PICK f : Rec(f, n)
    <2> HIDE DEF Rec
    <2> QED BY <1>3 DEF T
  <1>5. Folds(A, n, base, h, f)
    BY <1>4 DEF Folds
  <1> QED BY <1>5

\* It takes the elements one after the other.
LEMMA MaxOfFirst ==
    ASSUME NEW n \in Nat, NEW k \in 1..n
    PROVE  /\ 1..k \in SUBSET (1..n) /\ 1..k # {}
           /\ Max(1..k) = k /\ (1..k) \ {k} = 1..(k - 1)
  <1>1. 1..k \in SUBSET (1..n) /\ 1..k \in SUBSET (1..k) /\ 1..k # {}
    OBVIOUS
  <1>2. Max(1..k) = k
    <2>1. PICK m : m = Max(1..k)
      OBVIOUS
    <2>2. m \in 1..k /\ \A j \in 1..k : j <= m
      BY <1>1, <2>1, GreatestNumber
    <2> QED BY <2>1, <2>2
  <1>3. (1..k) \ {k} = 1..(k - 1)
    OBVIOUS
  <1> QED BY <1>1, <1>2, <1>3
=============================================================================
