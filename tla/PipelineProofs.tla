--------------------------- MODULE PipelineProofs ---------------------------
(***************************************************************************)
(* Proofs about "rawmatrix ... | rawrange ...", for every command line and *)
(* every input of either program, and every interleaving of the two.       *)
(***************************************************************************)
EXTENDS Pipeline, DataLemmas

-----------------------------------------------------------------------------
(* Sums.                                                                   *)

\* f[k] is the sum of the first k numbers of s.
Partial(s, f) ==
    /\ f \in [0..Len(s) -> Int] /\ f[0] = 0
    /\ \A k \in 1..Len(s) : f[k] = f[k - 1] + s[k]
    /\ Sum(s) = f[Len(s)]

LEMMA PartialSums ==
    ASSUME NEW s \in Seq(Int) PROVE \E f : Partial(s, f)
  <1>1. PICK n \in Nat : n = Len(s) /\ DOMAIN s = 1..n
    BY LenProperties
  <1>2. \A k \in 1..n : s[k] \in Int
    BY <1>1
  <1> DEFINE Rec(g) ==
          g = [t \in SUBSET (1..n) |-> IF t = {} THEN 0 ELSE g[t \ {Max(t)}] + s[Max(t)]]
  <1>3. \E g : Rec(g)
    <2> DEFINE h == [p \in Int \X (1..n) |-> p[1] + s[p[2]]]
    <2>1. h \in [Int \X (1..n) -> Int] /\ 0 \in Int
      BY <1>2
    <2>2. \A x \in Int, k \in 1..n : h[<<x, k>>] = x + s[k]
      OBVIOUS
    <2> HIDE DEF h
    <2>7. PICK g : Folds(Int, n, 0, h, g)
      BY <2>1, FoldExists
    <2>3. /\ g \in [SUBSET (1..n) -> Int]
          /\ \A t \in SUBSET (1..n) :
                 g[t] = IF t = {} THEN 0 ELSE h[<<g[t \ {Max(t)}], Max(t)>>]
      BY <2>7 DEF Folds
    <2>4. ASSUME NEW t \in SUBSET (1..n), t # {}
          PROVE  g[t] = g[t \ {Max(t)}] + s[Max(t)]
      <3>1. Max(t) \in 1..n
        BY <2>4, GreatestNumber
      <3>2. g[t \ {Max(t)}] \in Int
        BY <2>3
      <3> QED BY <2>2, <2>3, <2>4, <3>1, <3>2
    <2>5. \A t \in SUBSET (1..n) :
              g[t] = IF t = {} THEN 0 ELSE g[t \ {Max(t)}] + s[Max(t)]
      BY <2>3, <2>4
    <2>6. g = [t \in SUBSET (1..n) |-> g[t]]
      BY <2>3
    <2>8. Rec(g)
      BY <2>5, <2>6, Zenon
    <2> HIDE DEF Rec
    <2> QED BY <2>8
  <1> DEFINE g == CHOOSE g : Rec(g)
  <1>4. Rec(g)
    BY <1>3
  <1>5. Sum(s) = g[1..n]
    BY <1>1, Zenon DEF Sum, FoldLeft, MapThenFoldSet
  <1> HIDE DEF g
  <1>6. \A t \in SUBSET (1..n) : g[t] = IF t = {} THEN 0 ELSE g[t \ {Max(t)}] + s[Max(t)]
    BY <1>4, Zenon
  <1> HIDE DEF Rec
  <1>7. g[{}] = 0
    <2>1. {} \in SUBSET (1..n)
      OBVIOUS
    <2> QED BY <1>6, <2>1
  <1>8. ASSUME NEW k \in 1..n PROVE g[1..k] = g[1..(k - 1)] + s[k]
    <2>1. /\ 1..k \in SUBSET (1..n) /\ 1..k # {}
          /\ Max(1..k) = k /\ (1..k) \ {k} = 1..(k - 1)
      BY MaxOfFirst
    <2> QED BY <1>6, <2>1
  <1> DEFINE f == [k \in 0..n |-> g[1..k]]
  <1>9. f[0] = 0 /\ f[n] = g[1..n] /\ DOMAIN f = 0..n /\ \A k \in 0..n : f[k] = g[1..k]
    <2>1. 1..0 = {} /\ 0 \in 0..n /\ n \in 0..n
      OBVIOUS
    <2> QED BY <1>7, <2>1
  <1>10. \A k \in 1..n : f[k] = f[k - 1] + s[k]
    <2>1. \A k \in 1..n : k \in 0..n /\ k - 1 \in 0..n
      OBVIOUS
    <2> QED BY <1>8, <2>1
  <1>11. f = [k \in 0..n |-> f[k]]
    OBVIOUS
  <1> HIDE DEF f
  <1> DEFINE T == {k \in Nat : k <= n => f[k] \in Int}
  <1>12. \A k \in Nat : k >= 0 => k \in T
    <2>1. 0 \in T
      BY <1>9
    <2>2. ASSUME NEW k \in Nat, k >= 0, k \in T PROVE k + 1 \in T
      <3> SUFFICES ASSUME k + 1 <= n PROVE f[k + 1] \in Int
        OBVIOUS
      <3>1. k + 1 \in 1..n /\ (k + 1) - 1 = k /\ f[k] \in Int
        BY <2>2
      <3> QED BY <1>2, <1>10, <3>1
    <2> HIDE DEF T
    <2> QED BY <2>1, <2>2, SetInduction
  <1>13. f \in [0..n -> Int]
    BY <1>11, <1>12
  <1> QED BY <1>1, <1>5, <1>9, <1>10, <1>13 DEF Partial

LEMMA SumType ==
    ASSUME NEW s \in Seq(Int) PROVE Sum(s) \in Int
  <1>1. PICK f : Partial(s, f)
    BY PartialSums
  <1>2. Len(s) \in 0..Len(s)
    BY LenProperties
  <1> QED BY <1>1, <1>2 DEF Partial

\* One number more.
LEMMA SumMore ==
    ASSUME NEW s \in Seq(Int), NEW t \in Seq(Int), Len(t) = Len(s) + 1,
           \A k \in 1..Len(s) : t[k] = s[k]
    PROVE  Sum(t) = Sum(s) + t[Len(t)]
  <1>1. PICK n \in Nat : n = Len(s) /\ Len(t) = n + 1
    BY LenProperties
  <1>2. PICK f : Partial(s, f)
    BY PartialSums
  <1>3. PICK g : Partial(t, g)
    BY PartialSums
  <1>4. /\ f[0] = 0 /\ g[0] = 0 /\ Sum(s) = f[n] /\ Sum(t) = g[n + 1]
        /\ \A k \in 1..n : f[k] = f[k - 1] + s[k]
        /\ \A k \in 1..(n + 1) : g[k] = g[k - 1] + t[k]
    BY <1>1, <1>2, <1>3 DEF Partial
  <1> DEFINE T == {k \in Nat : k <= n => f[k] = g[k]}
  <1>5. \A k \in Nat : k >= 0 => k \in T
    <2>1. 0 \in T
      BY <1>4
    <2>2. ASSUME NEW k \in Nat, k >= 0, k \in T PROVE k + 1 \in T
      <3> SUFFICES ASSUME k + 1 <= n PROVE f[k + 1] = g[k + 1]
        OBVIOUS
      <3>0. k <= n
        OBVIOUS
      <3>1. k + 1 \in 1..n /\ k + 1 \in 1..(n + 1) /\ (k + 1) - 1 = k /\ f[k] = g[k]
        BY <2>2, <3>0
      <3>2. t[k + 1] = s[k + 1]
        BY <1>1, <3>1
      <3> QED BY <1>4, <3>1, <3>2
    <2> HIDE DEF T
    <2> QED BY <2>1, <2>2, SetInduction
  <1>6. f[n] = g[n]
    BY <1>5
  <1>7. n + 1 \in 1..(n + 1) /\ (n + 1) - 1 = n
    OBVIOUS
  <1> QED BY <1>1, <1>4, <1>6, <1>7

-----------------------------------------------------------------------------
(* The shape of the matrix.                                                *)

LEMMA RootType ==
    ASSUME NEW n \in Nat PROVE Root(n) \in Nat
  <1> DEFINE above == {k \in Nat : n < (k + 1) * (k + 1)}
  <1>1. n \in above
    <2>1. (n + 1) * (n + 1) >= n + 1
      OBVIOUS
    <2> QED BY <2>1
  <1>2. PICK k \in above : \A j \in above : k <= j
    <2>1. above \in SUBSET Nat /\ above # {}
      BY <1>1
    <2> HIDE DEF above
    <2> QED BY <2>1, LeastNumber
  <1>3. k \in Nat /\ k <= n /\ n < (k + 1) * (k + 1)
    BY <1>1, <1>2
  <1>4. k * k <= n
    <2>1. CASE k = 0
      BY <2>1
    <2>2. CASE k > 0
      <3>1. PICK j \in Nat : k = j + 1
        <4>1. k - 1 \in Nat /\ k = (k - 1) + 1
          BY <1>3, <2>2
        <4> QED BY <4>1
      <3>2. j \notin above
        BY <1>2, <3>1
      <3>3. ~(n < (j + 1) * (j + 1)) /\ (j + 1) * (j + 1) \in Nat
        BY <3>2
      <3> QED BY <3>1, <3>3
    <2> QED BY <1>3, <2>1, <2>2
  <1>5. \E j \in 0..n : j * j <= n /\ n < (j + 1) * (j + 1)
    BY <1>3, <1>4
  <1>6. Root(n) \in 0..n
    BY <1>5, Zenon DEF Root
  <1> QED BY <1>6

Extra == IF trailing_1_p THEN 1 ELSE 0

\* A list that fits is a square matrix, or has a column more; its size is the
\* one asked for.
LEMMA Shapes ==
    ASSUME vector_size \in Nat, NEW n \in Nat, n > 0, Fits(n)
    PROVE  /\ Columns(n) \in Nat /\ Columns(n) >= 1
           /\ n \div Columns(n) \in Nat /\ n \div Columns(n) >= 1
           /\ (n \div Columns(n)) * Columns(n) = n
           /\ Columns(n) = (n \div Columns(n)) + Extra
           /\ vector_size > 0 => n \div Columns(n) = vector_size
  <1>1. PICK e \in {0, 1} : e = Extra /\ (e = 1 <=> trailing_1_p)
    BY DEF Extra
  <1>2. PICK c \in Nat : c = Columns(n)
    BY <1>1, RootType DEF Columns, Extra
  <1>3. n = (c - e) * c
    BY <1>1, <1>2 DEF Fits
  <1>4. c > 0
    BY <1>3
  <1>5. PICK r \in Nat : r = c - e /\ r >= 1
    <2>1. CASE e = c
      BY <1>3, <2>1
    <2>2. CASE e # c
      <3>1. c - e \in Nat /\ c - e >= 1
        BY <1>4, <2>2
      <3> QED BY <3>1
    <2> QED BY <2>1, <2>2
  <1>6. n = r * c
    BY <1>3, <1>5
  <1>7. n \div c = r
    <2>1. r * c <= n /\ n < r * c + c
      BY <1>4, <1>6
    <2> QED BY <1>4, <2>1, Quotient
  <1>8. vector_size > 0 => r = vector_size
    BY <1>1, <1>2, <1>5 DEF Columns, Extra
  <1>9. c = r + e
    BY <1>5
  <1>10. n \div Columns(n) = r /\ r * c = n
    BY <1>2, <1>6, <1>7
  <1>11. (n \div Columns(n)) * Columns(n) = n
    BY <1>2, <1>10, Zenon
  <1>12. Columns(n) >= 1 /\ Columns(n) \in Nat
    BY <1>2, <1>4
  <1>13. Columns(n) = r + Extra
    BY <1>1, <1>2, <1>9
  <1> HIDE DEF Columns
  <1> QED BY <1>5, <1>8, <1>10, <1>11, <1>12, <1>13

\* The list that is read is the argument's, or without memory its beginning.
LEMMA ListRead ==
    ASSUME NEW arg \in Arguments, NEW list \in parse_elts_delim(arg)
    PROVE  /\ list.elts \in Seq(Int) /\ Len(list.elts) <= Len(arg.elts)
           /\ \A k \in 1..Len(list.elts) : list.elts[k] = arg.elts[k]
           /\ list.tail # "unset" => list.elts = arg.elts
  <1>1. PICK e \in Seq(Int) : e = arg.elts /\ arg.end \in {"nul", "junk"}
    BY DEF Arguments
  <1>2. CASE list = [elts |-> e, tail |-> IF e = << >> THEN "start" ELSE arg.end]
    BY <1>1, <1>2
  <1>3. ASSUME NEW n \in 0..(Len(e) - 1),
               list = [elts |-> SubSeq(e, 1, n), tail |-> "unset"]
        PROVE  /\ list.elts \in Seq(Int) /\ Len(list.elts) <= Len(e)
               /\ \A k \in 1..Len(list.elts) : list.elts[k] = e[k]
               /\ list.tail = "unset"
    <2>1. /\ SubSeq(e, 1, n) \in Seq(Int) /\ Len(SubSeq(e, 1, n)) = n
          /\ \A k \in 1..n : SubSeq(e, 1, n)[k] = e[k]
      <3>1. n \in Nat /\ n <= Len(e) /\ Len(e) \in Nat
        BY <1>1
      <3> QED BY <3>1
    <2> QED BY <1>3, <2>1
  <1> QED BY <1>1, <1>2, <1>3 DEF parse_elts_delim

\* What a step that reads a matrix may do.
Reads(arg) ==
    \/ at' \in {"usage", "crash", "assertion"} /\ UNCHANGED <<next, matrix>>
    \/ /\ UNCHANGED at /\ next' = next + 1 /\ matrix_read_p' = TRUE
       /\ values' \in Seq(Int) /\ rows' \in Nat \ {0} /\ columns' \in Nat \ {0}
       /\ rows' * columns' = Len(values')
       /\ columns' = rows' + Extra
       /\ vector_size > 0 => rows' = vector_size
       /\ IsPrefix(values', arg.elts)
       /\ ~no_memory' => values' = arg.elts

LEMMA MatrixRead ==
    ASSUME vector_size \in Nat, no_memory \in BOOLEAN, NEW arg \in Arguments, LoadMatrix(arg)
    PROVE  Reads(arg) /\ no_memory' \in BOOLEAN /\ (no_memory => no_memory')
  <1>1. PICK list \in parse_elts_delim(arg) :
          /\ no_memory' = (no_memory \/ list.tail = "unset")
          /\ \/ list.tail # "nul" /\ at' = "usage" /\ UNCHANGED <<next, matrix>>
             \/ list.tail = "unset" /\ at' = "crash" /\ UNCHANGED <<next, matrix>>
             \/ list.tail \in {"nul", "unset"} /\ Shape(list.elts)
    BY DEF LoadMatrix
  <1>2. no_memory' \in BOOLEAN /\ (no_memory => no_memory')
    BY <1>1
  <1>3. CASE Shape(list.elts)
    <2>1. PICK e \in Seq(Int) : e = list.elts
      BY ListRead
    <2>2. PICK n \in Nat : n = Len(e)
      BY <2>1
    <2>3. CASE at' \in {"usage", "assertion"} /\ UNCHANGED <<next, matrix>>
      BY <1>2, <2>3 DEF Reads
    <2>4. CASE /\ n > 0 /\ Fits(n)
               /\ values' = e /\ columns' = Columns(n) /\ rows' = n \div Columns(n)
               /\ matrix_read_p' = TRUE
               /\ NextOption
      <3>1. /\ rows' \in Nat \ {0} /\ columns' \in Nat \ {0} /\ rows' * columns' = n
            /\ columns' = rows' + Extra /\ (vector_size > 0 => rows' = vector_size)
        BY <2>4, Shapes
      <3>2. IsPrefix(e, arg.elts)
        <4>1. /\ Len(e) <= Len(arg.elts) /\ arg.elts \in Seq(Int)
              /\ \A k \in 1..Len(e) : e[k] = arg.elts[k]
          BY <2>1, ListRead DEF Arguments
        <4> QED BY <2>1, <4>1 DEF IsPrefix
      <3>3. ~no_memory' => e = arg.elts
        BY <1>1, <2>1, ListRead
      <3> QED BY <1>2, <2>1, <2>2, <2>4, <3>1, <3>2, <3>3 DEF Reads, NextOption
    <2> QED BY <1>3, <2>1, <2>2, <2>3, <2>4 DEF Shape
  <1>4. CASE at' \in {"usage", "crash"} /\ UNCHANGED <<next, matrix>>
    BY <1>2, <1>4 DEF Reads
  <1> QED BY <1>1, <1>2, <1>3, <1>4

-----------------------------------------------------------------------------
(* The options, in order.                                                  *)

\* Option key is among those before the n-th, and k is the last of them.
Given(key, n) == \E k \in 1..Len(options) : k < n /\ options[k].key = key
IsLastOf(key, k, n) ==
    /\ k \in 1..Len(options) /\ k < n /\ options[k].key = key
    /\ \A j \in 1..Len(options) : j < n /\ options[j].key = key => j <= k

CommandInv ==
    /\ \E c \in Commands : options = c.options /\ args = c.args
    /\ next \in 1..(Len(options) + 2)
    /\ trailing_1_p \in BOOLEAN /\ vector_size \in Nat
    /\ matrix_read_p \in BOOLEAN /\ output_file \in BOOLEAN /\ no_memory \in BOOLEAN
    /\ values \in Seq(Int) /\ rows \in Nat /\ columns \in Nat /\ rows * columns = Len(values)
    /\ matrix_read_p => rows >= 1 /\ columns >= 1
    /\ next = Len(options) + 2 => matrix_read_p /\ args # << >>
    /\ at \in {"options", "main", "files", "read", "write"} \cup Exits
    /\ at \notin {"options", "usage", "assertion", "crash"} =>
           next > Len(options) /\ matrix_read_p

\* The flags are what the options before make of them.
FlagsInv ==
    /\ trailing_1_p <=> Given("trailing-1", next)
    /\ \/ vector_size = 0 /\ ~Given("s", next)
       \/ vector_size > 0 /\ \E k : IsLastOf("s", k, next) /\ vector_size = options[k].arg

\* The matrix is the list elts, read when n was the next option.
Shaped(n, elts) ==
    /\ columns = rows + (IF Given("trailing-1", n) THEN 1 ELSE 0)
    /\ \A k : IsLastOf("s", k, n) => rows = options[k].arg
    /\ IsPrefix(values, elts)
    /\ ~no_memory => values = elts

MatrixInv ==
    IF matrix_read_p
      THEN \/ /\ next # Len(options) + 2
              /\ \E k : IsLastOf("m", k, next) /\ Shaped(k, options[k].arg.elts)
           \/ /\ ~Given("m", next) /\ args # << >> /\ next = Len(options) + 2
              /\ Shaped(Len(options) + 1, args[1].elts)
      ELSE ~Given("m", next)

LEMMA CommandLine ==
    ASSUME CommandInv
    PROVE  /\ args \in Seq(Arguments) /\ Len(options) \in Nat
           /\ DOMAIN options = 1..Len(options)
           /\ \A k \in 1..Len(options) :
                  /\ options[k].key = "s" => options[k].arg \in Int
                  /\ options[k].key = "m" => options[k].arg \in Arguments
  BY CommandsAssumption DEF CommandInv

\* One option more.
LEMMA OneOptionMore ==
    ASSUME Len(options) \in Nat, NEW n \in 1..Len(options), NEW key
    PROVE  /\ Given(key, n + 1) <=> Given(key, n) \/ options[n].key = key
           /\ options[n].key = key => IsLastOf(key, n, n + 1)
           /\ options[n].key # key =>
                  \A k : IsLastOf(key, k, n) <=> IsLastOf(key, k, n + 1)
  <1>1. \A k \in 1..Len(options) : k < n + 1 <=> k < n \/ k = n
    OBVIOUS
  <1>2. n \in 1..Len(options) /\ n < n + 1
    OBVIOUS
  <1>3. Given(key, n + 1) <=> Given(key, n) \/ options[n].key = key
    BY <1>1, <1>2 DEF Given
  <1>4. options[n].key = key => IsLastOf(key, n, n + 1)
    BY <1>1, <1>2 DEF IsLastOf
  <1>5. ASSUME options[n].key # key, NEW k
        PROVE  IsLastOf(key, k, n) <=> IsLastOf(key, k, n + 1)
    BY <1>1, <1>5 DEF IsLastOf
  <1> QED BY <1>3, <1>4, <1>5

\* After the last option there is none.
LEMMA NoOptionMore ==
    ASSUME Len(options) \in Nat, NEW n \in Nat, n > Len(options), NEW key
    PROVE  /\ Given(key, n + 1) <=> Given(key, n)
           /\ \A k : IsLastOf(key, k, n) <=> IsLastOf(key, k, n + 1)
  <1>1. \A k \in 1..Len(options) : k < n + 1 /\ k < n
    OBVIOUS
  <1> QED BY <1>1 DEF Given, IsLastOf

LEMMA OptionsStay ==
    ASSUME UNCHANGED commandLine
    PROVE  /\ options' = options /\ args' = args
           /\ \A key, n : Given(key, n)' = Given(key, n)
           /\ \A key, k, n : IsLastOf(key, k, n)' = IsLastOf(key, k, n)
  BY DEF commandLine, Given, IsLastOf

\* A matrix stays what it is.
LEMMA MatrixStays ==
    ASSUME CommandInv, MatrixInv, UNCHANGED <<commandLine, next, matrix>>, no_memory => no_memory'
    PROVE  MatrixInv'
  <1>1. \A n, e : Shaped(n, e) => Shaped(n, e)'
    BY OptionsStay DEF Shaped, matrix
  <1>2. CASE matrix_read_p
    <2>1. CASE \E k : IsLastOf("m", k, next) /\ Shaped(k, options[k].arg.elts)
      BY <1>1, <1>2, <2>1, OptionsStay DEF MatrixInv, matrix
    <2>2. CASE /\ ~Given("m", next) /\ args # << >> /\ next = Len(options) + 2
               /\ Shaped(Len(options) + 1, args[1].elts)
      BY <1>1, <1>2, <2>2, OptionsStay DEF MatrixInv, matrix
    <2> QED BY <1>2, <2>1, <2>2 DEF MatrixInv
  <1>3. CASE ~matrix_read_p
    BY <1>3, OptionsStay DEF MatrixInv, matrix
  <1> QED BY <1>2, <1>3

CommandLineInv == CommandInv /\ FlagsInv /\ MatrixInv

\* A step after the options.
LEMMA LaterSteps ==
    ASSUME CommandLineInv, UNCHANGED <<commandLine, next, flags, matrix>>,
           output_file' \in BOOLEAN, no_memory' \in BOOLEAN, no_memory => no_memory',
           at' \in {"options", "main", "files", "read", "write"} \cup Exits,
           at' \notin {"options", "usage", "assertion", "crash"} =>
               next > Len(options) /\ matrix_read_p
    PROVE  CommandLineInv'
  <1> USE DEF CommandLineInv
  <1>1. MatrixInv'
    BY MatrixStays
  <1>2. CommandInv'
    BY DEF CommandInv, commandLine, flags, matrix
  <1>3. FlagsInv'
    BY OptionsStay DEF FlagsInv, flags
  <1> QED BY <1>1, <1>2, <1>3

\* An option that is not a matrix.
LEMMA FlagsFollow ==
    ASSUME CommandLineInv, SetTrailing1 \/ SetVectorSize \/ SetOutput
    PROVE  CommandLineInv'
  <1> USE DEF CommandLineInv
  <1>1. /\ UNCHANGED <<commandLine, matrix, no_memory>> /\ at = "options"
        /\ next \in 1..Len(options) /\ option.key # "m" /\ option = options[next]
    BY CommandLine DEF SetTrailing1, SetVectorSize, SetOutput, IsNext, CommandInv, option
  <1>2. Len(options) \in Nat
    BY CommandLine
  <1>3. CASE at' = "usage" /\ UNCHANGED <<next, flags, output_file>>
    BY <1>1, <1>3, LaterSteps DEF CommandInv, Exits
  <1>4. CASE NextOption
    <2>1. next' = next + 1 /\ at' = "options"
      BY <1>1, <1>4 DEF NextOption
    <2>2. \A n, e : Shaped(n, e) => Shaped(n, e)'
      BY <1>1, OptionsStay DEF Shaped, matrix
    <2>3. MatrixInv'
      <3>1. /\ Given("m", next + 1) <=> Given("m", next)
            /\ \A k : IsLastOf("m", k, next) <=> IsLastOf("m", k, next + 1)
        BY <1>1, <1>2, OneOptionMore
      <3>2. next # Len(options) + 2
        BY <1>1, <1>2
      <3> QED BY <1>1, <2>1, <2>2, <3>1, <3>2, OptionsStay DEF MatrixInv, matrix
    <2>4. FlagsInv'
      <3>1. CASE SetTrailing1
        <4>1. /\ Given("trailing-1", next + 1)
              /\ Given("s", next + 1) <=> Given("s", next)
              /\ \A k : IsLastOf("s", k, next) <=> IsLastOf("s", k, next + 1)
          BY <1>1, <1>2, <3>1, OneOptionMore DEF SetTrailing1, IsNext
        <4> QED BY <1>1, <2>1, <3>1, <4>1, OptionsStay DEF SetTrailing1, FlagsInv
      <3>2. CASE SetOutput
        <4>1. /\ Given("trailing-1", next + 1) <=> Given("trailing-1", next)
              /\ Given("s", next + 1) <=> Given("s", next)
              /\ \A k : IsLastOf("s", k, next) <=> IsLastOf("s", k, next + 1)
          BY <1>1, <1>2, <3>2, OneOptionMore DEF SetOutput, IsNext
        <4> QED BY <1>1, <2>1, <3>2, <4>1, OptionsStay DEF SetOutput, FlagsInv, flags
      <3>3. CASE SetVectorSize
        <4>1. /\ Given("trailing-1", next + 1) <=> Given("trailing-1", next)
              /\ IsLastOf("s", next, next + 1)
          BY <1>1, <1>2, <3>3, OneOptionMore DEF SetVectorSize, IsNext
        <4>2. /\ vector_size' = option.arg /\ option.arg \in Int /\ option.arg > 0
              /\ UNCHANGED trailing_1_p
          BY <1>1, <2>1, <3>3, CommandLine DEF SetVectorSize, IsNext
        <4> QED BY <1>1, <2>1, <4>1, <4>2, OptionsStay DEF FlagsInv
      <3> QED BY <1>4, <3>1, <3>2, <3>3
    <2>5. CommandInv'
      <3>1. trailing_1_p' \in BOOLEAN /\ vector_size' \in Nat /\ output_file' \in BOOLEAN
        <4>1. CASE SetTrailing1 \/ SetOutput
          BY <4>1 DEF SetTrailing1, SetOutput, CommandInv, flags
        <4>2. CASE SetVectorSize
          <5>1. vector_size' = option.arg /\ option.arg \in Int /\ option.arg > 0
            BY <1>1, <2>1, <4>2, CommandLine DEF SetVectorSize, IsNext
          <5> QED BY <4>2, <5>1 DEF SetVectorSize, CommandInv
        <4> QED BY <4>1, <4>2
      <3> QED BY <1>1, <1>2, <2>1, <3>1 DEF CommandInv, commandLine, matrix
    <2> QED BY <2>3, <2>4, <2>5
  <1> QED BY <1>3, <1>4 DEF SetTrailing1, SetVectorSize, SetOutput, flags

\* A matrix is read.
LEMMA MatrixFollows ==
    ASSUME CommandLineInv, NEW arg \in Arguments, Reads(arg),
           UNCHANGED <<commandLine, flags, output_file>>,
           no_memory' \in BOOLEAN, no_memory => no_memory',
           at = "options",
           \/ next \in 1..Len(options) /\ options[next].key = "m" /\ arg = options[next].arg
           \/ /\ next = Len(options) + 1 /\ ~matrix_read_p
              /\ args # << >> /\ arg = args[1]
    PROVE  CommandLineInv'
  <1> USE DEF CommandLineInv
  <1>1. Len(options) \in Nat
    BY CommandLine
  <1>2. CASE at' \in {"usage", "crash", "assertion"} /\ UNCHANGED <<next, matrix>>
    BY <1>2, LaterSteps DEF CommandInv, Exits
  <1>3. CASE /\ UNCHANGED at /\ next' = next + 1 /\ matrix_read_p' = TRUE
             /\ values' \in Seq(Int) /\ rows' \in Nat \ {0} /\ columns' \in Nat \ {0}
             /\ rows' * columns' = Len(values')
             /\ columns' = rows' + Extra
             /\ vector_size > 0 => rows' = vector_size
             /\ IsPrefix(values', arg.elts)
             /\ ~no_memory' => values' = arg.elts
    <2>1. next \in Nat /\ next' = next + 1 /\ next \in 1..(Len(options) + 1)
      BY <1>1, <1>3
    <2>2. PICK n, e : n \in Nat /\ n = next /\ e = arg.elts
      BY <2>1
    <2>3. Shaped(n, e)'
      <3>1. columns' = rows' + (IF Given("trailing-1", n) THEN 1 ELSE 0)
        BY <1>3, <2>2 DEF FlagsInv, Extra
      <3>2. ASSUME NEW k, IsLastOf("s", k, n) PROVE rows' = options[k].arg
        <4>1. vector_size > 0 /\ \E j : IsLastOf("s", j, n) /\ vector_size = options[j].arg
          BY <2>2, <3>2 DEF FlagsInv, IsLastOf, Given
        <4>2. PICK j : IsLastOf("s", j, n) /\ vector_size = options[j].arg
          BY <4>1
        <4>3. j = k
          BY <1>1, <3>2, <4>2 DEF IsLastOf
        <4> QED BY <1>3, <4>1, <4>2, <4>3
      <3> QED BY <1>3, <2>2, <3>1, <3>2, OptionsStay DEF Shaped
    <2>4. MatrixInv'
      <3>1. CASE n \in 1..Len(options) /\ options[n].key = "m" /\ arg = options[n].arg
        <4>1. IsLastOf("m", n, n + 1)
          BY <1>1, <3>1, OneOptionMore
        <4>2. Shaped(n, options[n].arg.elts)'
          BY <2>2, <2>3, <3>1, OptionsStay
        <4>3. next' # Len(options) + 2
          BY <1>1, <2>1, <2>2, <3>1
        <4> QED BY <1>3, <2>1, <2>2, <4>1, <4>2, <4>3, OptionsStay DEF MatrixInv
      <3>2. CASE /\ n = Len(options) + 1 /\ ~matrix_read_p
                 /\ args # << >> /\ arg = args[1]
        <4>1. ~Given("m", n + 1)
          BY <1>1, <2>2, <3>2, NoOptionMore DEF MatrixInv
        <4>2. next' = Len(options) + 2 /\ Shaped(Len(options) + 1, args[1].elts)'
          BY <1>1, <2>1, <2>2, <2>3, <3>2, OptionsStay
        <4> QED BY <1>3, <2>1, <2>2, <3>2, <4>1, <4>2, OptionsStay DEF MatrixInv
      <3> QED BY <2>2, <3>1, <3>2
    <2>5. FlagsInv'
      <3>1. /\ Given("trailing-1", n + 1) <=> Given("trailing-1", n)
            /\ Given("s", n + 1) <=> Given("s", n)
            /\ \A k : IsLastOf("s", k, n) <=> IsLastOf("s", k, n + 1)
        <4>1. CASE n \in 1..Len(options) /\ options[n].key = "m"
          BY <1>1, <4>1, OneOptionMore
        <4>2. CASE n = Len(options) + 1
          BY <1>1, <4>2, NoOptionMore
        <4> QED BY <2>2, <4>1, <4>2
      <3> QED BY <2>1, <2>2, <3>1, OptionsStay DEF FlagsInv, flags
    <2>6. CommandInv'
      <3>1. next' \in 1..(Len(options) + 2)
        BY <1>1, <2>1
      <3>2. next' = Len(options) + 2 => args # << >>
        BY <1>1, <2>1
      <3> QED BY <1>1, <1>3, <3>1, <3>2, OptionsStay DEF CommandInv, flags, commandLine
    <2> QED BY <2>4, <2>5, <2>6
  <1> QED BY <1>2, <1>3 DEF Reads

\* The first argument, if there is no matrix yet.
LEMMA ArgumentsLeft ==
    ASSUME CommandInv, next > Len(options)
    PROVE  /\ argument \in Seq(Arguments)
           /\ next = Len(options) + 1 => argument = args
           /\ next = Len(options) + 2 => args # << >> /\ argument = Tail(args)
           /\ next \in {Len(options) + 1, Len(options) + 2}
  <1>1. PICK n \in Nat : n = Len(options)
    BY CommandLine
  <1>2. PICK a \in Seq(Arguments) : a = args
    BY CommandLine
  <1>6. next \in 1..(n + 2) /\ next > n
    BY <1>1 DEF CommandInv
  <1>7. next = n + 2 => a # << >>
    BY <1>1, <1>2 DEF CommandInv
  <1>3. next \in {n + 1, n + 2} /\ (next = n + 2 => a # << >>)
    BY <1>6, <1>7
  <1>4. CASE next = n + 1
    <2>1. argument = SubSeq(a, 1, Len(a))
      BY <1>1, <1>2, <1>4 DEF argument
    <2>2. SubSeq(a, 1, Len(a)) = a
      BY <1>2
    <2>3. argument \in Seq(Arguments) /\ argument = args
      BY <1>2, <2>1, <2>2
    <2>4. next = Len(options) + 1 /\ next # Len(options) + 2
      BY <1>1, <1>4
    <2> QED BY <2>3, <2>4
  <1>5. CASE next = n + 2
    <2>1. argument = SubSeq(a, 2, Len(a))
      BY <1>1, <1>2, <1>5 DEF argument
    <2>2. SubSeq(a, 2, Len(a)) = Tail(a) /\ Tail(a) \in Seq(Arguments)
      BY <1>3, <1>5
    <2> QED BY <1>1, <1>2, <1>3, <1>5, <2>1, <2>2
  <1> QED BY <1>1, <1>3, <1>4, <1>5

LEMMA OptionsKeep ==
    ASSUME CommandLineInv, Options PROVE CommandLineInv'
  <1>1. CASE SetTrailing1 \/ SetVectorSize \/ SetOutput
    BY <1>1, FlagsFollow
  <1>2. CASE ReadMatrix
    <2>1. /\ at = "options" /\ next \in 1..Len(options) /\ options[next].key = "m"
          /\ UNCHANGED <<commandLine, flags, output_file>>
      BY <1>2, CommandLine DEF ReadMatrix, IsNext, option, CommandLineInv, CommandInv
    <2>2. PICK arg \in Arguments : arg = options[next].arg /\ LoadMatrix(arg)
      BY <1>2, <2>1, CommandLine DEF ReadMatrix, option, CommandLineInv
    <2>3. Reads(arg) /\ no_memory' \in BOOLEAN /\ (no_memory => no_memory')
      BY <2>2, MatrixRead DEF CommandLineInv, CommandInv
    <2> QED BY <2>1, <2>2, <2>3, MatrixFollows
  <1>3. CASE ReadMatrixArgument
    <2>1. /\ at = "options" /\ next > Len(options) /\ ~matrix_read_p /\ argument # << >>
          /\ UNCHANGED <<commandLine, flags, output_file>>
      BY <1>3 DEF ReadMatrixArgument, OptionsRead
    <2>2. next = Len(options) + 1 /\ argument = args /\ args \in Seq(Arguments)
      BY <2>1, ArgumentsLeft, CommandLine DEF CommandLineInv, CommandInv
    <2>3. PICK arg \in Arguments : arg = args[1] /\ LoadMatrix(arg)
      BY <1>3, <2>1, <2>2 DEF ReadMatrixArgument
    <2>4. Reads(arg) /\ no_memory' \in BOOLEAN /\ (no_memory => no_memory')
      BY <2>3, MatrixRead DEF CommandLineInv, CommandInv
    <2> QED BY <2>1, <2>2, <2>3, <2>4, MatrixFollows
  <1>4. CASE NoMatrix
    <2>1. /\ UNCHANGED <<commandLine, next, flags, matrix, output_file, no_memory>>
          /\ at' = "usage"
      BY <1>4 DEF NoMatrix
    <2> QED BY <2>1, LaterSteps DEF CommandLineInv, CommandInv, Exits
  <1>5. CASE StoreFiles
    <2>1. /\ UNCHANGED <<commandLine, next, flags, matrix>>
          /\ next > Len(options) /\ matrix_read_p /\ at' \in {"main", "assertion"}
          /\ no_memory' \in BOOLEAN /\ (no_memory => no_memory') /\ output_file' \in BOOLEAN
      <3>1. no_memory' \in BOOLEAN /\ (no_memory => no_memory') /\ output_file' \in BOOLEAN
        <4>1. no_memory' = no_memory \/ no_memory' = TRUE
          BY <1>5 DEF StoreFiles
        <4>2. output_file' = output_file \/ output_file' = TRUE
          BY <1>5 DEF StoreFiles
        <4>3. no_memory \in BOOLEAN /\ output_file \in BOOLEAN
          BY DEF CommandLineInv, CommandInv
        <4>4. no_memory' \in BOOLEAN /\ (no_memory => no_memory')
          BY <4>1, <4>3
        <4>5. output_file' \in BOOLEAN
          BY <4>2, <4>3
        <4> QED BY <4>4, <4>5
      <3> QED BY <1>5, <3>1 DEF StoreFiles, OptionsRead
    <2> QED BY <2>1, LaterSteps DEF Exits
  <1> QED BY <1>1, <1>2, <1>3, <1>4, <1>5 DEF Options

\* The writer's step: one of its own, or none, or its death.
Killed ==
    /\ at \in {"files", "read", "write"} /\ at' = "killed"
    /\ UNCHANGED <<commandLine, next, flags, matrix, output_file, input_files, pos, i_buf,
                   output, no_memory>>

WriterStep == Next \/ Killed \/ UNCHANGED vars

LEMMA WriterSteps ==
    ASSUME [PipelineNext]_<<vars, r_vars>> PROVE WriterStep
  BY DEF PipelineNext, Write, Read, BrokenPipe, WriterStep, Killed

\* What main and apply_matrix leave alone.
LEMMA ApplyingLeaves ==
    ASSUME Applying \/ Killed \/ Ended \/ AtBound \/ UNCHANGED vars
    PROVE  /\ UNCHANGED <<commandLine, next, flags, matrix, output_file, no_memory>>
           /\ \/ UNCHANGED at
              \/ /\ at \in {"main", "files", "read", "write"}
                 /\ at' \in {"files", "read", "write", "ok", "open_error", "read_error",
                            "write_error", "killed"}
  BY DEF Applying, OpenOutput, OpenInput, ReadVector, ReadEnd, ReadError, WriteVector,
         WriteError, Finish, Killed, Ended, AtBound, Take, vars

LEMMA CommandLineKept ==
    ASSUME CommandLineInv, WriterStep PROVE CommandLineInv'
  <1>1. CASE Options
    BY <1>1, OptionsKeep
  <1>2. CASE Applying \/ Killed \/ Ended \/ AtBound \/ UNCHANGED vars
    <2>1. /\ at' \in {"options", "main", "files", "read", "write"} \cup Exits
          /\ at' \notin {"options", "usage", "assertion", "crash"} =>
                 next > Len(options) /\ matrix_read_p
      BY <1>2, ApplyingLeaves DEF CommandLineInv, CommandInv, Exits
    <2> QED BY <1>2, <2>1, ApplyingLeaves, LaterSteps DEF CommandLineInv, CommandInv
  <1> QED BY <1>1, <1>2 DEF WriterStep, Next

LEMMA CommandLineInit == Init => CommandLineInv
  <1> SUFFICES ASSUME Init PROVE CommandLineInv
    OBVIOUS
  <1>1. Len(options) \in Nat
    BY CommandsAssumption DEF Init
  <1>2. CommandInv
    <2>1. << >> \in Seq(Int) /\ 0 * 0 = Len(<< >>) /\ 1 # Len(options) + 2
      BY <1>1
    <2>2. /\ \E c \in Commands : options = c.options /\ args = c.args
          /\ next = 1 /\ trailing_1_p = FALSE /\ vector_size = 0
          /\ rows = 0 /\ columns = 0 /\ values = << >> /\ matrix_read_p = FALSE
          /\ output_file = FALSE /\ no_memory = FALSE /\ at = "options"
      BY DEF Init
    <2>3. next \in 1..(Len(options) + 2) /\ rows * columns = Len(values)
      BY <1>1, <2>1, <2>2
    <2> QED BY <2>1, <2>2, <2>3 DEF CommandInv
  <1>3. \A key : ~Given(key, 1)
    BY <1>1 DEF Given
  <1> QED BY <1>2, <1>3 DEF Init, CommandLineInv, FlagsInv, MatrixInv

\* The matrix that is applied is the last one of the command line, whole, and
\* with the columns that the options before it ask for, or else square,
\* whatever the options and their order (rawmatrix.c:202-212, 408-449).
THEOREM MatrixFollowsOptions == PipelineSpec => []MatrixIsAsGiven
  <1>1. ASSUME CommandLineInv PROVE MatrixIsAsGiven
    <2> SUFFICES ASSUME Applied PROVE MatrixIsAsGiven
      BY DEF MatrixIsAsGiven
    <2>1. PICK len \in Nat : len = Len(options) /\ DOMAIN options = 1..len
      BY <1>1, CommandLine DEF CommandLineInv
    <2>2. matrix_read_p /\ next > len /\ next \in Nat
      BY <1>1, <2>1 DEF Applied, CommandLineInv, CommandInv
    <2>3. \A k \in 1..len : k < next
      BY <2>1, <2>2
    <2>4. PICK n \in Nat : /\ Shaped(n, GivenMatrix)
                           /\ \A key : Before(key) = {k \in 1..len : options[k].key = key /\ k < n}
      <3>1. CASE \E k : IsLastOf("m", k, next) /\ Shaped(k, options[k].arg.elts)
        <4>1. PICK k : IsLastOf("m", k, next) /\ Shaped(k, options[k].arg.elts)
          BY <3>1
        <4>2. k \in 1..len /\ options[k].key = "m" /\ \A j \in 1..len : options[j].key = "m" => j <= k
          BY <2>1, <2>3, <4>1 DEF IsLastOf
        <4>3. k \in Matrices /\ \A j \in Matrices : j <= k
          BY <2>1, <4>2 DEF Matrices
        <4>4. LastMatrix = k
          <5>1. LastMatrix \in Matrices /\ \A j \in Matrices : j <= LastMatrix
            BY <4>3, Zenon DEF LastMatrix
          <5>2. LastMatrix <= k /\ k <= LastMatrix /\ LastMatrix \in 1..len
            BY <2>1, <4>3, <5>1 DEF Matrices
          <5> QED BY <4>2, <5>2
        <4>5. GivenMatrix = options[k].arg.elts
          BY <4>3, <4>4 DEF GivenMatrix
        <4>6. \A key : Before(key) = {j \in 1..len : options[j].key = key /\ j < k}
          BY <2>1, <4>3, <4>4 DEF Before
        <4> QED BY <4>1, <4>2, <4>5, <4>6
      <3>2. CASE /\ ~Given("m", next) /\ args # << >> /\ next = Len(options) + 2
                 /\ Shaped(Len(options) + 1, args[1].elts)
        <4>1. Matrices = {}
          BY <2>1, <2>3, <3>2 DEF Matrices, Given
        <4>2. GivenMatrix = args[1].elts
          BY <3>2, <4>1 DEF GivenMatrix
        <4>3. \A key : Before(key) = {j \in 1..len : options[j].key = key /\ j < len + 1}
          BY <2>1, <4>1 DEF Before
        <4>4. len + 1 \in Nat /\ Shaped(len + 1, args[1].elts)
          BY <2>1, <3>2
        <4> QED BY <4>2, <4>3, <4>4
      <3> QED BY <1>1, <2>2, <3>1, <3>2 DEF CommandLineInv, MatrixInv
    <2>5. columns = rows + (IF Before("trailing-1") = {} THEN 0 ELSE 1)
      <3>1. Given("trailing-1", n) <=> Before("trailing-1") # {}
        BY <2>1, <2>4 DEF Given
      <3> QED BY <2>4, <3>1 DEF Shaped
    <2>6. IF no_memory THEN IsPrefix(values, GivenMatrix) ELSE values = GivenMatrix
      BY <2>4 DEF Shaped
    <2>7. ASSUME Before("s") # {}
          PROVE  rows = options[CHOOSE k \in Before("s") : \A j \in Before("s") : j <= k].arg
      <3>1. Before("s") \in SUBSET (1..len)
        BY <2>4
      <3>2. \E k \in Before("s") : \A j \in Before("s") : j <= k
        BY <2>7, <3>1, GreatestNumber
      <3>3. PICK k : k = CHOOSE i \in Before("s") : \A j \in Before("s") : j <= i
        OBVIOUS
      <3>4. k \in Before("s") /\ \A j \in Before("s") : j <= k
        BY <3>2, <3>3, Zenon
      <3>5. IsLastOf("s", k, n)
        BY <2>1, <2>4, <3>4 DEF IsLastOf
      <3> QED BY <2>4, <3>3, <3>5 DEF Shaped
    <2>8. rows * columns = Len(values) /\ rows \in Nat
      BY <1>1 DEF CommandLineInv, CommandInv
    <2> QED BY <2>5, <2>6, <2>7, <2>8 DEF MatrixIsAsGiven
  <1> QED BY <1>1, CommandLineInit, CommandLineKept, WriterSteps, PTL
        DEF PipelineSpec, PipelineInit

-----------------------------------------------------------------------------
(* Vectors.                                                                *)

\* What is read and written has its type; while a vector is read and written
\* there is an input.
StreamInv ==
    /\ input_files \in Seq(Streams \cup {NoFile})
    /\ at \in {"read", "write"} => input_files # << >> /\ in \in Streams
    /\ pos \in [Streams -> Nat] /\ \A s \in Streams : pos[s] <= Len(Data[s])
    /\ i_buf \in Seq(Int) /\ (at = "write" => Len(i_buf) = columns)
    /\ out \in Seq(Int) /\ sent \in 0..Len(out) /\ lost \in BOOLEAN

\* The i-th row of the matrix.
LEMMA RowType ==
    ASSUME CommandInv, NEW i \in 1..rows
    PROVE  /\ RowOf(i) \in Seq(Int) /\ Len(RowOf(i)) = columns
           /\ \A j \in 1..columns : RowOf(i)[j] = values[(i - 1) * columns + j]
  <1>1. PICK r \in Nat, c \in Nat, v \in Seq(Int) :
            r = rows /\ c = columns /\ v = values /\ r * c = Len(v)
    BY DEF CommandInv
  <1>2. i \in 1..r /\ i - 1 \in Nat
    BY <1>1
  <1>3. PICK a \in Nat : a = (i - 1) * c
    BY <1>1, <1>2
  <1>4. i * c = a + c /\ a + c <= r * c
    <2>1. i * c <= r * c
      BY <1>1, <1>2
    <2>2. i * c = (i - 1) * c + c
      BY <1>1, <1>2
    <2> QED BY <1>3, <2>1, <2>2
  <1>5. /\ SubSeq(v, a + 1, a + c) \in Seq(Int) /\ Len(SubSeq(v, a + 1, a + c)) = c
        /\ \A j \in 1..c : SubSeq(v, a + 1, a + c)[j] = v[a + j]
    <2>1. a + c <= Len(v) /\ Len(v) \in Nat
      BY <1>1, <1>4
    <2>2. /\ SubSeq(v, a + 1, a + c) \in Seq(Int)
          /\ Len(SubSeq(v, a + 1, a + c)) = c
      BY <2>1
    <2>3. \A j \in 1..c : SubSeq(v, a + 1, a + c)[j] = v[a + j]
      BY <2>1
    <2> QED BY <2>2, <2>3
  <1>6. RowOf(i) = SubSeq(v, a + 1, a + c)
    BY <1>1, <1>3, <1>4 DEF RowOf
  <1> QED BY <1>1, <1>3, <1>5, <1>6

\* The products of two sequences of numbers, one by one.
LEMMA ProductsType ==
    ASSUME NEW a \in Seq(Int), NEW b \in Seq(Int), Len(a) = Len(b)
    PROVE  /\ [k \in DOMAIN a |-> a[k] * b[k]] \in Seq(Int)
           /\ Len([k \in DOMAIN a |-> a[k] * b[k]]) = Len(a)
           /\ \A j \in 1..Len(a) : [k \in DOMAIN a |-> a[k] * b[k]][j] = a[j] * b[j]
  <1>1. PICK n \in Nat : n = Len(a) /\ DOMAIN a = 1..n /\ n = Len(b)
    OBVIOUS
  <1>2. \A k \in 1..n : a[k] * b[k] \in Int
    BY <1>1
  <1> QED BY <1>1, <1>2

LEMMA ProductType ==
    ASSUME CommandInv, i_buf \in Seq(Int), Len(i_buf) = columns
    PROVE  /\ matrix_by_vector \in Seq(Int) /\ Len(matrix_by_vector) = rows
           /\ \A i \in 1..rows : matrix_by_vector[i] = scalar_product(RowOf(i), i_buf)
  <1>1. PICK r \in Nat : r = rows
    BY DEF CommandInv
  <1>2. \A i \in 1..r : scalar_product(RowOf(i), i_buf) \in Int
    <2> SUFFICES ASSUME NEW i \in 1..r PROVE scalar_product(RowOf(i), i_buf) \in Int
      OBVIOUS
    <2>1. PICK a \in Seq(Int) : a = RowOf(i) /\ Len(a) = columns
      BY <1>1, RowType
    <2>2. PICK t : t = [k \in DOMAIN a |-> a[k] * i_buf[k]]
      OBVIOUS
    <2>4. PICK b \in Seq(Int) : b = i_buf /\ Len(a) = Len(b)
      BY <2>1
    <2>3. t \in Seq(Int)
      BY <2>2, <2>4, ProductsType
    <2> QED BY <2>1, <2>2, <2>3, SumType DEF scalar_product
  <1>3. matrix_by_vector \in [1..r -> Int]
    BY <1>1, <1>2 DEF matrix_by_vector
  <1>4. matrix_by_vector \in Seq(Int) /\ Len(matrix_by_vector) = r
    BY <1>3
  <1>5. \A i \in 1..r : matrix_by_vector[i] = scalar_product(RowOf(i), i_buf)
    BY <1>1 DEF matrix_by_vector
  <1> QED BY <1>1, <1>4, <1>5

\* A vector without its 1, which fread reads n numbers of.
LEMMA VectorRead ==
    ASSUME NEW s \in Streams, NEW p \in Nat, NEW n \in Nat, p + n <= Len(Data[s])
    PROVE  /\ SubSeq(Data[s], p + 1, p + n) \in Seq(Int)
           /\ Len(SubSeq(Data[s], p + 1, p + n)) = n
  <1>1. PICK d \in Seq(Int) : d = Data[s]
    BY DataAssumption
  <1>2. p + n <= Len(d) /\ Len(d) \in Nat
    BY <1>1
  <1>3. SubSeq(d, p + 1, p + n) \in Seq(Int) /\ Len(SubSeq(d, p + 1, p + n)) = n
    BY <1>2
  <1> QED BY <1>1, <1>3

One == IF trailing_1_p THEN <<1>> ELSE << >>

LEMMA InSize ==
    ASSUME CommandInv, matrix_read_p
    PROVE  in_sz \in Nat /\ columns = in_sz + Extra /\ One \in Seq(Int) /\ Len(One) = Extra
  BY DEF CommandInv, in_sz, Extra, One

\* What a flush passes on is there.
LEMMA Flushed ==
    ASSUME sent \in 0..Len(out), Len(out) \in Nat, Len(out') \in Nat, Len(out) <= Len(out'),
           lost \in BOOLEAN, Flush
    PROVE  sent' \in 0..Len(out') /\ sent <= sent' /\ lost' \in BOOLEAN
  <1>1. PICK k \in Nat, m \in Nat, n \in Nat :
            k = sent /\ m = Len(out) /\ n = Len(out') /\ k <= m /\ m <= n
    BY SMTT(30)
  <1>2. CASE sent' = n /\ UNCHANGED lost
    BY <1>1, <1>2
  <1>3. CASE sent' \in k..(n - 1) /\ lost' = TRUE
    BY <1>1, <1>3
  <1> QED BY <1>1, <1>2, <1>3 DEF Flush

LEMMA StreamKept ==
    ASSUME CommandLineInv, StreamInv, WriterStep PROVE StreamInv'
  <1> USE DEF CommandLineInv
  <1>1. CASE Options \/ Killed \/ Ended \/ AtBound \/ UNCHANGED vars \/ OpenOutput
    <2>1. /\ UNCHANGED <<pos, i_buf, output>>
          /\ \/ at' \notin {"read", "write"}
             \/ UNCHANGED <<at, matrix>>
      BY <1>1 DEF Options, SetTrailing1, SetVectorSize, SetOutput, IsNext, ReadMatrix,
                  ReadMatrixArgument, NoMatrix, StoreFiles, OptionsRead, NextOption,
                  LoadMatrix, Shape, Killed, Ended, AtBound, vars, OpenOutput
    <2>2. UNCHANGED input_files \/ (StoreFiles /\ at' \notin {"read", "write"})
      BY <1>1 DEF Options, SetTrailing1, SetVectorSize, SetOutput, ReadMatrix, StoreFiles,
                  ReadMatrixArgument, NoMatrix, Killed, Ended, AtBound, vars, OpenOutput
    <2>3. input_files' \in Seq(Streams \cup {NoFile})
      <3>1. CASE UNCHANGED input_files
        BY <3>1 DEF StreamInv
      <3>2. CASE StoreFiles
        <4>1. PICK a \in Seq(Arguments) : a = argument
          BY <3>2, ArgumentsLeft DEF StoreFiles, OptionsRead
        <4>2. [i \in DOMAIN a |-> a[i].file] \in Seq(Streams \cup {NoFile})
          <5>1. PICK n \in Nat : n = Len(a) /\ DOMAIN a = 1..n
            BY <4>1
          <5>2. \A i \in 1..n : a[i].file \in Streams \cup {NoFile}
            <6>1. \A i \in 1..n : a[i] \in Arguments
              BY <4>1, <5>1
            <6> QED BY <6>1 DEF Arguments
          <5>3. [i \in 1..n |-> a[i].file] \in [1..n -> Streams \cup {NoFile}]
            BY <5>2
          <5> QED BY <5>1, <5>3
        <4>3. <<StdIn>> \in Seq(Streams \cup {NoFile})
          BY DataAssumption
        <4> QED BY <3>2, <4>1, <4>2, <4>3 DEF StoreFiles, StreamInv
      <3> QED BY <2>2, <3>1, <3>2
    <2> QED BY <2>1, <2>2, <2>3 DEF StreamInv, output, matrix, in
  <1>2. CASE OpenInput \/ Finish
    <2>1. out' = out /\ at' # "write" /\ UNCHANGED <<input_files, pos, i_buf>>
      BY <1>2 DEF OpenInput, Finish, output
    <2>2. sent' \in 0..Len(out') /\ lost' \in BOOLEAN
      <3>1. Len(out) \in Nat /\ Len(out') = Len(out)
        BY <2>1 DEF StreamInv
      <3> QED BY <1>2, <3>1, Flushed DEF OpenInput, Finish, output, StreamInv
    <2>3. at' = "read" => input_files # << >> /\ in \in Streams
      <3> SUFFICES ASSUME at' = "read" PROVE input_files # << >> /\ in \in Streams
        OBVIOUS
      <3>1. input_files # << >> /\ Head(input_files) # NoFile
        BY <1>2 DEF OpenInput, Finish
      <3>2. Head(input_files) \in Streams \cup {NoFile}
        BY <3>1 DEF StreamInv
      <3> QED BY <3>1, <3>2 DEF in
    <2> QED BY <2>1, <2>2, <2>3 DEF StreamInv, in
  <1>3. CASE ReadVector \/ ReadEnd \/ ReadError
    <2>1. /\ at = "read" /\ in \in Streams /\ input_files # << >> /\ matrix_read_p
          /\ pos[in] \in Nat /\ pos[in] <= Len(Data[in]) /\ Len(Data[in]) \in Nat
      <3>1. at = "read" /\ in \in Streams /\ input_files # << >> /\ matrix_read_p
        BY <1>3 DEF ReadVector, ReadEnd, ReadError, StreamInv, CommandInv
      <3> QED BY <3>1, DataAssumption DEF StreamInv
    <2>2. in_sz \in Nat /\ columns = in_sz + Extra /\ One \in Seq(Int) /\ Len(One) = Extra
      BY <2>1, InSize
    <2>3. available \in Nat /\ available = Len(Data[in]) - pos[in]
      BY <2>1 DEF available
    <2>4. PICK n \in Nat : n <= available /\ pos' = [pos EXCEPT ![in] = @ + n]
      BY <1>3, <2>2, <2>3 DEF ReadVector, ReadEnd, ReadError, Take
    <2>5. pos' \in [Streams -> Nat] /\ \A s \in Streams : pos'[s] <= Len(Data[s])
      BY <2>1, <2>3, <2>4, SMTT(30) DEF StreamInv
    <2>6. /\ out' = out /\ sent' \in 0..Len(out') /\ lost' \in BOOLEAN
      <3>1. Len(out) \in Nat /\ out' = out
        BY <1>3 DEF ReadVector, ReadEnd, ReadError, output, StreamInv
      <3> QED BY <1>3, <3>1, Flushed DEF ReadVector, ReadEnd, ReadError, output, StreamInv
    <2>7. CASE ReadVector
      <3>1. PICK p \in Nat : p = pos[in]
        BY <2>1
      <3>2. /\ SubSeq(Data[in], p + 1, p + in_sz) \in Seq(Int)
            /\ Len(SubSeq(Data[in], p + 1, p + in_sz)) = in_sz
        <4>1. p + in_sz <= Len(Data[in])
          BY <2>1, <2>2, <2>3, <2>7, <3>1, SMTT(30) DEF ReadVector
        <4> QED BY <2>1, <2>2, <4>1, VectorRead
      <3>3. PICK v \in Seq(Int), o \in Seq(Int) :
                v = SubSeq(Data[in], p + 1, p + in_sz) /\ o = One /\ i_buf' = v \o o
        BY <2>2, <2>7, <3>1, <3>2 DEF ReadVector, One
      <3>4. i_buf' \in Seq(Int) /\ Len(i_buf') = columns
        BY <2>2, <3>2, <3>3
      <3>5. UNCHANGED <<input_files, columns>>
        BY <2>7 DEF ReadVector, Take, matrix
      <3> QED BY <2>1, <2>5, <2>6, <3>4, <3>5 DEF StreamInv, in
    <2>8. CASE ReadEnd
      <3>1. input_files' \in Seq(Streams \cup {NoFile})
        BY <2>1, <2>8 DEF ReadEnd, StreamInv
      <3> QED BY <2>5, <2>6, <2>8, <3>1 DEF StreamInv, ReadEnd
    <2>9. CASE ReadError
      BY <2>5, <2>6, <2>9 DEF StreamInv, ReadError
    <2> QED BY <1>3, <2>7, <2>8, <2>9
  <1>4. CASE WriteVector \/ WriteError
    <2>1. matrix_by_vector \in Seq(Int) /\ Len(matrix_by_vector) = rows /\ rows \in Nat
      BY <1>4, ProductType DEF WriteVector, WriteError, StreamInv, CommandInv
    <2>2. PICK w \in Seq(Int) : out' = out \o w
      <3>1. CASE WriteVector
        BY <2>1, <3>1 DEF WriteVector
      <3>2. CASE WriteError
        <4>1. PICK n \in 0..(rows - 1) : out' = out \o SubSeq(matrix_by_vector, 1, n)
          BY <3>2 DEF WriteError
        <4>2. PICK m \in Seq(Int) : m = matrix_by_vector
          BY <2>1
        <4>3. n \in Nat /\ n <= Len(m)
          BY <2>1, <4>2
        <4>4. SubSeq(m, 1, n) \in Seq(Int)
          BY <4>3
        <4> QED BY <4>1, <4>2, <4>4
      <3> QED BY <1>4, <3>1, <3>2
    <2>3. out' \in Seq(Int) /\ Len(out') \in Nat /\ Len(out) \in Nat /\ Len(out) <= Len(out')
      BY <2>2 DEF StreamInv
    <2>4. sent' \in 0..Len(out') /\ lost' \in BOOLEAN
      BY <1>4, <2>3, Flushed DEF WriteVector, WriteError, StreamInv
    <2>5. /\ UNCHANGED <<input_files, pos, i_buf>> /\ at = "write"
          /\ at' \in {"read", "write_error"}
      BY <1>4 DEF WriteVector, WriteError
    <2> QED BY <2>3, <2>4, <2>5 DEF StreamInv, in
  <1> QED BY <1>1, <1>2, <1>3, <1>4 DEF WriterStep, Next, Applying

-----------------------------------------------------------------------------
(* The product.                                                            *)

LEMMA NumbersJoined ==
    \A a, b \in Seq(Int) :
        /\ a \o b \in Seq(Int) /\ Len(a \o b) = Len(a) + Len(b)
        /\ \A j \in 1..Len(a) : (a \o b)[j] = a[j]
        /\ \A j \in 1..Len(b) : (a \o b)[Len(a) + j] = b[j]
        /\ \A j \in 1..Len(a \o b) : j \in 1..Len(a) \/ \E k \in 1..Len(b) : j = Len(a) + k
  <1> SUFFICES ASSUME NEW a \in Seq(Int), NEW b \in Seq(Int)
               PROVE  /\ a \o b \in Seq(Int) /\ Len(a \o b) = Len(a) + Len(b)
                      /\ \A j \in 1..Len(a) : (a \o b)[j] = a[j]
                      /\ \A j \in 1..Len(b) : (a \o b)[Len(a) + j] = b[j]
                      /\ \A j \in 1..Len(a \o b) :
                             j \in 1..Len(a) \/ \E k \in 1..Len(b) : j = Len(a) + k
    OBVIOUS
  <1>1. a \o b \in Seq(Int) /\ Len(a \o b) = Len(a) + Len(b)
    BY ConcatLayout
  <1>2. \A j \in 1..Len(a) : (a \o b)[j] = a[j]
    BY ConcatLayout
  <1>3. \A j \in 1..Len(b) : (a \o b)[Len(a) + j] = b[j]
    BY ConcatLayout
  <1>4. \A j \in 1..Len(a \o b) : j \in 1..Len(a) \/ \E k \in 1..Len(b) : j = Len(a) + k
    BY ConcatLayout
  <1> QED BY <1>1, <1>2, <1>3, <1>4

\* What the matrix makes of the vector in the buffer is the image of what was
\* read.
LEMMA ProductIsImage ==
    ASSUME CommandInv, matrix_read_p, NEW v \in Seq(Int), Len(v) = in_sz, i_buf = v \o One,
           NEW i \in 1..rows
    PROVE  matrix_by_vector[i] = Image(i, v)
  <1>1. PICK n \in Nat : n = in_sz /\ columns = n + Extra /\ Len(v) = n
    BY InSize
  <1>2. PICK o \in Seq(Int) : o = One /\ Len(o) = Extra
    BY InSize
  <1>3. PICK b \in Seq(Int) : b = i_buf /\ b = v \o o
    BY <1>2, NumbersJoined
  <1>4. Len(b) = columns /\ \A j \in 1..n : b[j] = v[j]
    <2>1. Len(v \o o) = Len(v) + Len(o) /\ \A j \in 1..Len(v) : (v \o o)[j] = v[j]
      BY NumbersJoined
    <2> QED BY <1>1, <1>2, <1>3, <2>1
  <1>5. PICK a \in Seq(Int) : a = RowOf(i) /\ Len(a) = columns
    BY RowType
  <1>6. \A j \in 1..columns : a[j] = values[(i - 1) * columns + j]
    BY <1>5, RowType
  <1>7. matrix_by_vector[i] = Sum([k \in DOMAIN a |-> a[k] * b[k]])
    <2>1. matrix_by_vector[i] = scalar_product(a, b)
      BY <1>3, <1>4, <1>5, ProductType
    <2> QED BY <2>1 DEF scalar_product
  <1>8. PICK coef : coef = [j \in 1..columns |-> values[(i - 1) * columns + j]]
    OBVIOUS
  <1>9. Image(i, v) = Sum([j \in 1..Len(v) |-> coef[j] * v[j]])
                          + (IF trailing_1_p THEN coef[columns] ELSE 0)
    BY <1>8 DEF Image
  <1>10. \A j \in 1..columns : coef[j] = a[j]
    BY <1>6, <1>8
  <1>11. PICK s : s = [j \in 1..n |-> coef[j] * v[j]]
    OBVIOUS
  <1>12. PICK t : t = [k \in DOMAIN a |-> a[k] * b[k]]
    OBVIOUS
  <1>13. /\ t \in Seq(Int) /\ Len(t) = columns
         /\ \A j \in 1..columns : t[j] = a[j] * b[j]
    <2>1. Len(a) = Len(b) /\ Len(a) = columns
      BY <1>4, <1>5
    <2>2. /\ t \in Seq(Int) /\ Len(t) = Len(a)
          /\ \A j \in 1..Len(a) : t[j] = a[j] * b[j]
      BY <1>12, <2>1, ProductsType
    <2> QED BY <2>1, <2>2
  <1>14. s \in Seq(Int) /\ Len(s) = n /\ \A j \in 1..n : s[j] = t[j]
    <2>1. \A j \in 1..n : j \in 1..columns
      BY <1>1 DEF Extra
    <2>2. \A j \in 1..n : coef[j] * v[j] = t[j]
      BY <1>4, <1>10, <1>13, <2>1
    <2>3. \A j \in 1..n : t[j] \in Int
      BY <1>13, <2>1
    <2>4. s \in [1..n -> Int] /\ \A j \in 1..n : s[j] = t[j]
      BY <1>11, <2>2, <2>3
    <2> QED BY <2>4
  <1>15. CASE ~trailing_1_p
    <2>1. n = columns
      BY <1>1, <1>15 DEF Extra
    <2>2. s = t
      BY <1>13, <1>14, <2>1
    <2>3. Image(i, v) = Sum(s) + 0 /\ Sum(s) \in Int
      BY <1>1, <1>9, <1>11, <1>14, <1>15, SumType
    <2> QED BY <1>7, <1>12, <2>2, <2>3
  <1>16. CASE trailing_1_p
    <2>1. columns = n + 1 /\ n + 1 \in 1..columns
      BY <1>1, <1>16 DEF Extra
    <2>2. Sum(t) = Sum(s) + t[n + 1]
      BY <1>13, <1>14, <2>1, SumMore
    <2>3. b[n + 1] = 1
      <3>1. o = <<1>>
        BY <1>2, <1>16 DEF One
      <3>2. (v \o <<1>>)[n + 1] = 1
        <4>0. PICK one \in Int : one = 1
          OBVIOUS
        <4>1. PICK w \in Seq(Int) : w = <<one>>
          <5>1. <<one>> \in Seq(Int)
            OBVIOUS
          <5> QED BY <5>1, Zenon
        <4>2. Len(w) = 1 /\ w[1] = 1 /\ 1 \in 1..Len(w)
          BY <4>0, <4>1
        <4>3. (v \o w)[Len(v) + 1] = w[1]
          BY <4>2, NumbersJoined, SMTT(30)
        <4> QED BY <1>1, <4>0, <4>1, <4>2, <4>3
      <3> QED BY <1>3, <3>1, <3>2
    <2>4. t[n + 1] = coef[columns]
      <3>1. a[n + 1] \in Int
        BY <1>5, <2>1
      <3>2. t[n + 1] = a[n + 1] * 1
        BY <1>13, <2>1, <2>3
      <3>3. a[n + 1] * 1 = a[n + 1]
        BY <3>1
      <3> QED BY <1>10, <2>1, <3>2, <3>3
    <2>5. Image(i, v) = Sum(s) + coef[columns]
      BY <1>1, <1>9, <1>11, <1>16
    <2> QED BY <1>7, <1>12, <2>2, <2>4, <2>5
  <1> QED BY <1>15, <1>16

\* The whole vectors of a stream, those of each name, and the names.
VectorsOf(s) ==
    [k \in 1..(Len(Data[s]) \div in_sz) |-> SubSeq(Data[s], (k - 1) * in_sz + 1, k * in_sz)]
Skipped(i) ==
    GivenFiles[i] = NoFile \/ \E j \in 1..(i - 1) : GivenFiles[j] = GivenFiles[i]
Pieces == [i \in DOMAIN GivenFiles |-> IF Skipped(i) THEN << >> ELSE VectorsOf(GivenFiles[i])]

\* Vector k is where in_sz times k - 1 numbers have been read.
LEMMA VectorsType ==
    ASSUME NEW s \in Streams, in_sz \in Nat \ {0}
    PROVE  /\ VectorsOf(s) \in Seq(Seq(Int))
           /\ Len(VectorsOf(s)) = Len(Data[s]) \div in_sz
           /\ \A k \in 1..Len(VectorsOf(s)) :
                  /\ VectorsOf(s)[k] = SubSeq(Data[s], (k - 1) * in_sz + 1, k * in_sz)
                  /\ Len(VectorsOf(s)[k]) = in_sz
  <1>1. PICK d \in Seq(Int) : d = Data[s]
    BY DataAssumption
  <1>2. PICK z \in Nat \ {0} : z = in_sz
    OBVIOUS
  <1>3. PICK n \in Nat : n = Len(d)
    BY <1>1
  <1>4. PICK q \in Nat : q = n \div z /\ q * z <= n
    <2>1. n \div z \in Nat /\ n % z \in 0..(z - 1) /\ n = (n \div z) * z + (n % z)
      BY Division
    <2>2. PICK q \in Nat : q = n \div z
      BY <2>1
    <2>3. PICK m \in Nat : m = n % z
      BY <2>1
    <2>4. PICK qz \in Nat : qz = q * z
      BY Times
    <2>5. n = qz + m
      BY <2>1, <2>2, <2>3, <2>4
    <2>6. qz <= n
      BY <2>5
    <2> QED BY <2>2, <2>4, <2>6
  <1>5. ASSUME NEW k \in 1..q
        PROVE  /\ SubSeq(d, (k - 1) * z + 1, k * z) \in Seq(Int)
               /\ Len(SubSeq(d, (k - 1) * z + 1, k * z)) = z
    <2>1. PICK p \in Nat : p = (k - 1) * z /\ k * z = p + z
      <3>1. k - 1 \in Nat
        OBVIOUS
      <3>2. (k - 1) * z \in Nat /\ k * z = (k - 1) * z + z
        BY <1>2, <3>1
      <3> QED BY <3>2
    <2>2. k * z <= q * z
      BY <1>2, <1>4
    <2>3. p + z <= Len(Data[s])
      <3>1. q * z \in Nat
        BY Times
      <3>2. p + z <= q * z /\ q * z <= n
        BY <1>4, <2>1, <2>2
      <3>3. p + z <= n
        BY <3>1, <3>2
      <3> QED BY <1>1, <1>3, <3>3
    <2> QED BY <1>1, <1>2, <2>1, <2>3, VectorRead, SMTT(30)
  <1>6. VectorsOf(s) = [k \in 1..q |-> SubSeq(d, (k - 1) * z + 1, k * z)]
    BY <1>1, <1>2, <1>3, <1>4 DEF VectorsOf
  <1> DEFINE S == Seq(Int)
  <1>7. VectorsOf(s) \in [1..q -> S]
    BY <1>5, <1>6
  <1> HIDE DEF S
  <1>8. VectorsOf(s) \in Seq(S) /\ Len(VectorsOf(s)) = q
    BY <1>7
  <1>9. \A k \in 1..q : VectorsOf(s)[k] = SubSeq(d, (k - 1) * z + 1, k * z)
    BY <1>6
  <1> USE DEF S
  <1> QED BY <1>1, <1>2, <1>3, <1>4, <1>5, <1>8, <1>9

\* Once there is a matrix the files are those that are left of the arguments.
LEMMA FilesType ==
    ASSUME CommandLineInv, matrix_read_p, next > Len(options)
    PROVE  /\ GivenFiles \in Seq(Streams \cup {NoFile}) /\ Len(GivenFiles) \in Nat \ {0}
           /\ GivenFiles = IF argument = << >> THEN <<StdIn>>
                            ELSE [i \in DOMAIN argument |-> argument[i].file]
  <1> USE DEF CommandLineInv
  <1>1. PICK a \in Seq(Arguments) : a = argument
    BY ArgumentsLeft
  <1>2. a = IF Matrices = {} THEN Tail(args) ELSE args
    <2>1. DOMAIN options = 1..Len(options) /\ Len(options) \in Nat /\ next \in Nat
      BY CommandLine DEF CommandInv
    <2>2. Given("m", next) <=> Matrices # {}
      BY <2>1 DEF Given, Matrices
    <2>3. CASE next # Len(options) + 2 /\ \E k : IsLastOf("m", k, next)
      <3>1. Given("m", next)
        BY <2>3 DEF Given, IsLastOf
      <3> QED BY <1>1, <2>2, <2>3, <3>1, ArgumentsLeft
    <2>4. CASE next = Len(options) + 2 /\ ~Given("m", next)
      BY <1>1, <2>2, <2>4, ArgumentsLeft
    <2> QED BY <2>3, <2>4 DEF MatrixInv
  <1>3. GivenFiles = IF a = << >> THEN <<StdIn>> ELSE [i \in DOMAIN a |-> a[i].file]
    BY <1>2 DEF GivenFiles
  <1>4. CASE a = << >>
    <2>1. <<StdIn>> \in Seq(Streams \cup {NoFile}) /\ Len(<<StdIn>>) \in Nat \ {0}
      BY DataAssumption
    <2> QED BY <1>1, <1>3, <1>4, <2>1
  <1>5. CASE a # << >>
    <2>1. PICK n \in Nat \ {0} : n = Len(a) /\ DOMAIN a = 1..n
      BY <1>1, <1>5
    <2>2. \A i \in 1..n : a[i] \in Arguments
      BY <1>1, <2>1
    <2>3. \A i \in 1..n : a[i].file \in Streams \cup {NoFile}
      BY <2>2 DEF Arguments
    <2>4. [i \in 1..n |-> a[i].file] \in [1..n -> Streams \cup {NoFile}]
      BY <2>3
    <2>5. /\ [i \in 1..n |-> a[i].file] \in Seq(Streams \cup {NoFile})
          /\ Len([i \in 1..n |-> a[i].file]) = n
      BY <2>4
    <2> QED BY <1>1, <1>3, <1>5, <2>1, <2>5
  <1> QED BY <1>4, <1>5

LEMMA PiecesType ==
    ASSUME CommandLineInv, matrix_read_p, next > Len(options), in_sz > 0
    PROVE  /\ in_sz \in Nat \ {0}
           /\ Pieces \in Seq(Seq(Seq(Int))) /\ Len(Pieces) = Len(GivenFiles)
           /\ \A i \in 1..Len(GivenFiles) :
                  /\ Pieces[i] = IF Skipped(i) THEN << >> ELSE VectorsOf(GivenFiles[i])
                  /\ ~Skipped(i) => GivenFiles[i] \in Streams
           /\ Vectors = FlattenSeq(Pieces)
  <1>1. in_sz \in Nat \ {0}
    BY InSize DEF CommandLineInv
  <1>2. PICK n \in Nat : n = Len(GivenFiles) /\ DOMAIN GivenFiles = 1..n
    BY FilesType
  <1>3. \A i \in 1..n : ~Skipped(i) => GivenFiles[i] \in Streams
    <2>1. \A i \in 1..n : GivenFiles[i] \in Streams \cup {NoFile}
      BY <1>2, FilesType
    <2> QED BY <2>1 DEF Skipped
  <1> DEFINE S == Seq(Seq(Int))
  <1>4. \A i \in 1..n : (IF Skipped(i) THEN << >> ELSE VectorsOf(GivenFiles[i])) \in S
    <2> SUFFICES ASSUME NEW i \in 1..n
                 PROVE  (IF Skipped(i) THEN << >> ELSE VectorsOf(GivenFiles[i])) \in S
      OBVIOUS
    <2>1. CASE Skipped(i)
      BY <2>1
    <2>2. CASE ~Skipped(i)
      BY <1>1, <1>3, <2>2, VectorsType
    <2> QED BY <2>1, <2>2
  <1> HIDE DEF S
  <1>5. Pieces \in [1..n -> S]
    BY <1>2, <1>4 DEF Pieces
  <1>6. Pieces \in Seq(S) /\ Len(Pieces) = n
    BY <1>5
  <1>7. \A i \in 1..n : Pieces[i] = IF Skipped(i) THEN << >> ELSE VectorsOf(GivenFiles[i])
    BY <1>2 DEF Pieces
  <1>8. Vectors = FlattenSeq(Pieces)
    BY Zenon DEF Vectors, Pieces, Skipped, VectorsOf
  <1> USE DEF S
  <1> QED BY <1>1, <1>2, <1>3, <1>6, <1>7, <1>8

LEMMA VectorsLaid ==
    ASSUME CommandLineInv, matrix_read_p, next > Len(options), in_sz > 0
    PROVE  Vectors \in Seq(Seq(Int)) /\ \E off : Laid(Pieces, off)
  <1>1. PICK s : s = Pieces
    OBVIOUS
  <1>2. s \in Seq(Seq(Seq(Int))) /\ Len(s) > 0
    BY <1>1, PiecesType, FilesType
  <1>3. FlattenSeq(s) \in Seq(Seq(Int)) /\ \E off : Laid(s, off)
    <2> DEFINE S == Seq(Int)
    <2> HIDE DEF S
    <2>1. s \in Seq(Seq(S))
      BY <1>2 DEF S
    <2>2. FlattenSeq(s) \in Seq(S) /\ \E off : Laid(s, off)
      BY <1>2, <2>1, FlattenLayout
    <2> QED BY <2>2 DEF S
  <1> QED BY <1>1, <1>3, PiecesType

\* Each number of o is the coordinate that belongs there.
Product(o) ==
    /\ Len(o) <= rows * Len(Vectors)
    /\ \A k \in 1..Len(o) :
           o[k] = Image(((k - 1) % rows) + 1, Vectors[((k - 1) \div rows) + 1])

\* At the fp-th file; m of its vectors have been read.
Place(off, fp, m) ==
    /\ fp \in 1..Len(GivenFiles) /\ m \in Nat
    /\ Len(input_files) = Len(GivenFiles) - fp + 1
    /\ \A i \in 1..Len(input_files) : input_files[i] = GivenFiles[fp + i - 1]
    /\ \A s \in Streams : (\A i \in 1..fp : GivenFiles[i] # s) => pos[s] = 0
    /\ \A i \in 1..(fp - 1) :
           GivenFiles[i] \in Streams => pos[GivenFiles[i]] = Len(Data[GivenFiles[i]])
    /\ IF Skipped(fp) THEN m = 0 ELSE pos[GivenFiles[fp]] = m * in_sz
    /\ IF at = "write"
         THEN /\ m >= 1 /\ ~Skipped(fp)
              /\ i_buf = Vectors[off[fp] + m] \o One
              /\ Len(out) = rows * (off[fp] + m - 1)
         ELSE Len(out) = rows * (off[fp] + m)
    /\ at \in {"main", "files"} => m = 0

AllWritten == Len(out) = rows * Len(Vectors) \/ (no_memory /\ out = << >>)

\* Where the product stands, once there is a matrix.
ProgressInv ==
    /\ Product(out)
    /\ at \in {"main", "files", "read", "write"} /\ input_files # << >> =>
           \E off, fp, m : Laid(Pieces, off) /\ Place(off, fp, m)
    /\ at \in {"main", "files"} /\ input_files = << >> => AllWritten
    /\ at = "ok" => (sent = Len(out) \/ lost) /\ AllWritten

Started == at \notin {"options", "usage", "assertion", "crash"}

ProductInv ==
    /\ at \in {"options", "main"} => out = << >> /\ pos = [s \in Streams |-> 0]
    /\ at = "options" => input_files = << >>
    /\ Started /\ in_sz > 0 => ProgressInv

\* All of it is said of the command line and of the matrix.
LEMMA SayingsStand ==
    ASSUME UNCHANGED <<commandLine, flags, matrix>>
    PROVE  /\ Vectors' = Vectors /\ Pieces' = Pieces /\ GivenFiles' = GivenFiles
           /\ in_sz' = in_sz /\ One' = One /\ rows' = rows
           /\ \A i : Skipped(i)' = Skipped(i)
           /\ \A o : Product(o)' = Product(o)
  <1>1. /\ options' = options /\ args' = args /\ trailing_1_p' = trailing_1_p
        /\ rows' = rows /\ columns' = columns /\ values' = values
    BY DEF commandLine, flags, matrix
  <1>2. GivenFiles' = GivenFiles /\ in_sz' = in_sz /\ One' = One
    BY <1>1 DEF GivenFiles, Matrices, in_sz, One
  <1>3. \A i : Skipped(i)' = Skipped(i)
    BY <1>2 DEF Skipped
  <1>4. \A s : VectorsOf(s)' = VectorsOf(s)
    BY <1>2 DEF VectorsOf
  <1>5. Pieces' = Pieces
    BY <1>2, <1>3, <1>4 DEF Pieces
  <1>6. Vectors' = Vectors
    <2>1. Vectors = FlattenSeq(Pieces)
      BY Zenon DEF Vectors, Pieces, Skipped, VectorsOf
    <2>2. Vectors' = FlattenSeq(Pieces')
      BY Zenon DEF Vectors, Pieces, Skipped, VectorsOf
    <2> QED BY <1>5, <2>1, <2>2
  <1>7. \A i, v : Image(i, v)' = Image(i, v)
    BY <1>1 DEF Image
  <1>8. \A o : Product(o)' = Product(o)
    BY <1>1, <1>6, <1>7 DEF Product
  <1> QED BY <1>1, <1>2, <1>3, <1>5, <1>6, <1>8

LEMMA ProductStands ==
    ASSUME Product(out), UNCHANGED <<commandLine, flags, matrix, out>> PROVE Product(out)'
  <1>1. PICK o : o = out
    OBVIOUS
  <1>2. Product(o)'
    BY <1>1, SayingsStand
  <1> QED BY <1>1, <1>2 DEF Product

\* A step that reads and writes nothing keeps the place.
LEMMA PlaceStands ==
    ASSUME NEW off, NEW fp, NEW m, Laid(Pieces, off), Place(off, fp, m),
           UNCHANGED <<commandLine, flags, matrix, input_files, pos, i_buf, out>>,
           \/ at' = at
           \/ at # "write" /\ at' \notin {"write", "main", "files"}
           \/ at = "main" /\ at' = "files"
    PROVE  Laid(Pieces, off)' /\ Place(off, fp, m)'
  <1>1. Laid(Pieces, off)'
    BY SayingsStand
  <1>2. Place(off, fp, m)'
    BY SayingsStand DEF Place
  <1> QED BY <1>1, <1>2

\* n numbers of the product of the next vector are written.
LEMMA ProductGrows ==
    ASSUME CommandLineInv, StreamInv, at = "write", Product(out), in_sz > 0,
           NEW c \in Nat, c + 1 <= Len(Vectors), Len(out) = rows * c,
           i_buf = Vectors[c + 1] \o One, Len(Vectors[c + 1]) = in_sz,
           Vectors \in Seq(Seq(Int)),
           NEW n \in 0..rows, NEW w, w = SubSeq(matrix_by_vector, 1, n)
    PROVE  Product(out \o w) /\ Len(out \o w) = rows * c + n
  <1> USE DEF CommandLineInv
  <1>1. PICK r \in Nat : r = rows /\ matrix_read_p
    BY DEF CommandInv
  <1>2. PICK p \in Seq(Int) : p = matrix_by_vector /\ Len(p) = r
    BY <1>1, ProductType DEF StreamInv
  <1>3. w \in Seq(Int) /\ Len(w) = n /\ \A j \in 1..n : w[j] = p[j]
    <2>1. n \in Nat /\ n <= Len(p) /\ Len(p) \in Nat
      BY <1>1, <1>2
    <2>2. SubSeq(p, 1, n) \in Seq(Int) /\ Len(SubSeq(p, 1, n)) = n
      BY <2>1
    <2>3. \A j \in 1..n : SubSeq(p, 1, n)[j] = p[j]
      BY <2>1
    <2> QED BY <1>2, <2>2, <2>3
  <1>4. PICK v \in Seq(Int) : v = Vectors[c + 1]
    <2>1. c + 1 \in 1..Len(Vectors)
      OBVIOUS
    <2> QED BY <2>1
  <1>5. ASSUME NEW j \in 1..n PROVE w[j] = Image(j, v)
    <2>1. j \in 1..rows
      BY <1>1
    <2>2. p[j] = Image(j, v)
      BY <1>1, <1>2, <1>4, <2>1, ProductIsImage
    <2> QED BY <1>3, <2>2
  <1>6. PICK m \in Nat, l \in Nat :
            m = r * c /\ m = Len(out) /\ l = Len(Vectors) /\ c + 1 <= l
    <2>1. Len(Vectors) \in Nat
      BY LenProperties
    <2>2. r * c \in Nat
      BY Times
    <2> QED BY <1>1, <2>1, <2>2
  <1>7. PICK o \in Seq(Int) : o = out
    BY DEF StreamInv
  <1>8. /\ Len(o \o w) = m + n
        /\ \A j \in 1..m : (o \o w)[j] = o[j]
        /\ \A j \in 1..n : (o \o w)[m + j] = w[j]
        /\ \A j \in 1..(m + n) : j \in 1..m \/ \E k \in 1..n : j = m + k
    <2>1. Len(o) = m
      BY <1>6, <1>7
    <2>2. Len(o \o w) = Len(o) + Len(w)
      BY <1>3, NumbersJoined
    <2>3. \A j \in 1..Len(o) : (o \o w)[j] = o[j]
      BY <1>3, NumbersJoined
    <2>4. \A j \in 1..Len(w) : (o \o w)[Len(o) + j] = w[j]
      BY <1>3, NumbersJoined
    <2>5. \A j \in 1..Len(o \o w) : j \in 1..Len(o) \/ \E k \in 1..Len(w) : j = Len(o) + k
      BY <1>3, NumbersJoined
    <2> QED BY <1>3, <2>1, <2>2, <2>3, <2>4, <2>5, ZenonT(30)
  <1>9. m + n <= rows * Len(Vectors)
    <2>1. r * (c + 1) = m + r
      BY <1>6
    <2>2. r * (c + 1) <= r * l
      <3>1. PICK e \in Nat : e = c + 1
        OBVIOUS
      <3>2. r * e <= r * l
        BY <1>6, <3>1, TimesMore
      <3> QED BY <3>1, <3>2
    <2>3. r * l \in Nat
      BY Times
    <2> QED BY <1>1, <1>6, <2>1, <2>2, <2>3
  <1>10. \A k \in 1..m : o[k] = Image(((k - 1) % rows) + 1, Vectors[((k - 1) \div rows) + 1])
    BY <1>6, <1>7 DEF Product
  <1>11. ASSUME NEW j \in 1..n
         PROVE  w[j] = Image((((m + j) - 1) % rows) + 1, Vectors[(((m + j) - 1) \div rows) + 1])
    <2>1. PICK x \in Nat : x = j - 1 /\ x < r /\ (m + j) - 1 = m + x /\ r \in Nat \ {0}
      BY <1>1
    <2>2. c * r = m
      BY <1>6
    <2>3. (m + x) % r = x /\ (m + x) \div r = c
      <3>1. c \in Nat /\ x \in Nat /\ r \in Nat \ {0} /\ x < r
        BY <1>6, <2>1
      <3>2. (c * r + x) % r = x /\ (c * r + x) \div r = c
        BY <3>1, Remainder, ZenonT(30)
      <3> QED BY <2>2, <3>2
    <2>4. x + 1 = j
      BY <2>1
    <2> QED BY <1>1, <1>4, <1>5, <2>1, <2>3, <2>4
  <1>12. \A k \in 1..(m + n) :
            (o \o w)[k] = Image(((k - 1) % rows) + 1, Vectors[((k - 1) \div rows) + 1])
    <2> SUFFICES ASSUME NEW k \in 1..(m + n)
                 PROVE  (o \o w)[k] = Image(((k - 1) % rows) + 1, Vectors[((k - 1) \div rows) + 1])
      OBVIOUS
    <2>1. CASE k \in 1..m
      BY <1>8, <1>10, <2>1
    <2>2. CASE \E j \in 1..n : k = m + j
      BY <1>8, <1>11, <2>2, ZenonT(30)
    <2> QED BY <1>8, <2>1, <2>2
  <1> QED BY <1>1, <1>6, <1>7, <1>8, <1>9, <1>12 DEF Product


\* The first file.
LEMMA FirstPlace ==
    ASSUME CommandLineInv, ProductInv, StoreFiles, in_sz' > 0, at' = "main"
    PROVE  ProgressInv'
  <1> USE DEF CommandLineInv
  <1>1. /\ matrix_read_p /\ next > Len(options) /\ at = "options"
        /\ UNCHANGED <<commandLine, flags, matrix, pos, out>>
        /\ out = << >> /\ pos = [s \in Streams |-> 0] /\ input_files = << >>
    BY DEF StoreFiles, OptionsRead, ProductInv, output
  <1>2. in_sz > 0 /\ GivenFiles' = GivenFiles /\ Pieces' = Pieces /\ rows' = rows
        /\ \A i : Skipped(i)' = Skipped(i)
    BY <1>1, SayingsStand
  <1>3. PICK off : Laid(Pieces, off)
    BY <1>1, <1>2, VectorsLaid
  <1>4. Product(out)'
    <2>1. Len(Vectors) \in Nat /\ rows \in Nat /\ Len(out) = 0
      <3>1. Vectors \in Seq(Seq(Int))
        BY <1>1, <1>2, VectorsLaid
      <3> QED BY <1>1, <3>1, LenProperties DEF CommandInv
    <2>2. rows * Len(Vectors) \in Nat
      BY <2>1, Times
    <2>3. Product(out)
      BY <2>1, <2>2 DEF Product
    <2> QED BY <1>1, <2>3, ProductStands
  <1>5. CASE input_files' = GivenFiles
    <2>1. PICK n \in Nat \ {0} : n = Len(GivenFiles) /\ \A i \in 1..n : GivenFiles[i] \in Streams \cup {NoFile}
      BY <1>1, FilesType
    <2>2. off[1] = 0 /\ Laid(Pieces, off)'
      BY <1>2, <1>3 DEF Laid
    <2>3. Place(off, 1, 0)'
      <3>1. /\ 1 \in 1..n /\ 1 \in Nat /\ n = n - 1 + 1 /\ \A i \in 1..n : 1 + i - 1 = i
            /\ ~ (\E i : i \in 1..(1 - 1)) /\ 0 \in Nat
        BY <2>1
      <3>2. /\ \A s \in Streams : pos'[s] = 0
            /\ ~Skipped(1) => GivenFiles[1] \in Streams
        BY <1>1, <2>1, <3>1 DEF Skipped
      <3>3. 0 * in_sz = 0 /\ rows * (0 + 0) = 0 /\ Len(out') = 0
        <4>1. in_sz \in Nat /\ rows \in Nat
          BY <1>1, InSize DEF CommandInv
        <4> QED BY <1>1, <4>1
      <3>4. in_sz' = in_sz
        BY <1>1, SayingsStand
      <3>5. (off[1] + 0) = 0 + 0
        BY <2>2
      <3> QED BY <1>2, <1>5, <2>1, <2>2, <3>1, <3>2, <3>3, <3>4, <3>5 DEF Place
    <2>4. input_files' # << >>
      BY <1>5, <2>1
    <2> QED BY <1>4, <2>2, <2>3, <2>4 DEF ProgressInv
  <1>6. CASE input_files' = << >> /\ no_memory' = TRUE
    BY <1>1, <1>4, <1>6 DEF ProgressInv, AllWritten
  <1>7. input_files' = GivenFiles \/ (input_files' = << >> /\ no_memory' = TRUE)
    <2>1. CASE UNCHANGED input_files /\ no_memory' = TRUE
      BY <1>1, <2>1
    <2>2. CASE input_files' = (IF argument = << >> THEN <<StdIn>>
                               ELSE [i \in DOMAIN argument |-> argument[i].file])
      BY <1>1, <2>2, FilesType
    <2> QED BY <2>1, <2>2 DEF StoreFiles
  <1> QED BY <1>5, <1>6, <1>7

\* Steps that read and write nothing.
LEMMA QuietProgress ==
    ASSUME StreamInv, ProgressInv,
           OpenOutput \/ OpenInput \/ Finish \/ Killed \/ Ended \/ AtBound \/ UNCHANGED vars
    PROVE  ProgressInv'
  <1>1. UNCHANGED <<commandLine, flags, matrix, input_files, pos, i_buf, out, no_memory>>
    BY DEF OpenOutput, OpenInput, Finish, Killed, Ended, AtBound, vars, output
  <1>2. \/ at' = at /\ UNCHANGED <<sent, lost>>
        \/ at = "main" /\ at' = "files"
        \/ at = "files" /\ input_files # << >> /\ at' = "read"
        \/ at = "files" /\ input_files = << >> /\ at' = "ok" /\ Flush
        \/ at' \in {"killed", "open_error"}
    BY DEF OpenOutput, OpenInput, Finish, Killed, Ended, AtBound, vars, output
  <1>3. Product(out)'
    BY <1>1, ProductStands DEF ProgressInv
  <1>4. AllWritten' = AllWritten
    <2>1. Vectors' = Vectors /\ rows' = rows
      BY <1>1, SayingsStand
    <2> QED BY <1>1, <2>1 DEF AllWritten
  <1>5. ASSUME at' \in {"main", "files", "read", "write"}, input_files' # << >>
        PROVE  \E off, fp, m : Laid(Pieces, off)' /\ Place(off, fp, m)'
    <2>1. at \in {"main", "files", "read", "write"} /\ input_files # << >>
      BY <1>1, <1>2, <1>5
    <2>2. PICK off, fp, m : Laid(Pieces, off) /\ Place(off, fp, m)
      BY <2>1 DEF ProgressInv
    <2>3. \/ at' = at
          \/ at # "write" /\ at' \notin {"write", "main", "files"}
          \/ at = "main" /\ at' = "files"
      BY <1>2, <1>5
    <2> QED BY <1>1, <2>2, <2>3, PlaceStands
  <1>6. ASSUME at' \in {"main", "files"}, input_files' = << >> PROVE AllWritten'
    <2>1. at \in {"main", "files"} /\ input_files = << >>
      BY <1>1, <1>2, <1>6
    <2> QED BY <1>4, <2>1 DEF ProgressInv
  <1>7. ASSUME at' = "ok" PROVE (sent' = Len(out') \/ lost') /\ AllWritten'
    <2>1. CASE at' = at /\ UNCHANGED <<sent, lost>>
      BY <1>1, <1>4, <1>7, <2>1 DEF ProgressInv
    <2>2. CASE at = "files" /\ input_files = << >> /\ Flush
      BY <1>4, <2>2 DEF ProgressInv, Flush
    <2> QED BY <1>2, <1>7, <2>1, <2>2
  <1> QED BY <1>3, <1>5, <1>6, <1>7 DEF ProgressInv


\* As many vectors as were read of a stream are there.
LEMMA VectorsCounted ==
    ASSUME NEW s \in Streams, in_sz \in Nat \ {0}, NEW m \in Nat, m * in_sz <= Len(Data[s])
    PROVE  /\ m <= Len(VectorsOf(s))
           /\ Len(Data[s]) < m * in_sz + in_sz => m = Len(VectorsOf(s))
  <1>1. PICK d \in Seq(Int) : d = Data[s]
    BY DataAssumption
  <1>2. PICK n \in Nat, z \in Nat \ {0} : n = Len(d) /\ z = in_sz
    BY <1>1
  <1>3. /\ n < m * z + z => n \div z = m
        /\ n >= m * z + z => n \div z > m
    BY <1>1, <1>2, Quotient
  <1>4. m * z \in Nat /\ n \div z \in Nat
    BY Times, Division
  <1>5. m <= n \div z
    BY <1>3, <1>4
  <1> QED BY <1>1, <1>2, <1>3, <1>5, VectorsType

\* Where the k-th vector of a file is.
LEMMA VectorPlace ==
    ASSUME CommandLineInv, matrix_read_p, next > Len(options), in_sz > 0,
           NEW off, Laid(Pieces, off), NEW fp \in 1..Len(GivenFiles), ~Skipped(fp),
           NEW k \in 1..Len(VectorsOf(GivenFiles[fp]))
    PROVE  /\ off[fp] \in Nat /\ off[fp] + k \in 1..Len(Vectors)
           /\ Vectors[off[fp] + k] = VectorsOf(GivenFiles[fp])[k]
           /\ Len(Vectors[off[fp] + k]) = in_sz
  <1>1. /\ in_sz \in Nat \ {0} /\ GivenFiles[fp] \in Streams
        /\ Len(Pieces) = Len(GivenFiles) /\ Pieces[fp] = VectorsOf(GivenFiles[fp])
        /\ Vectors = FlattenSeq(Pieces)
    BY PiecesType
  <1>2. off[fp] \in Nat
    BY <1>1, FilesType DEF Laid
  <1>3. off[fp] + k \in 1..Len(Vectors) /\ Vectors[off[fp] + k] = Pieces[fp][k]
    BY <1>1 DEF Laid
  <1>4. Len(VectorsOf(GivenFiles[fp])[k]) = in_sz
    BY <1>1, VectorsType
  <1> QED BY <1>1, <1>2, <1>3, <1>4

\* What Place says of the file that is open.
LEMMA FileOpen ==
    ASSUME CommandLineInv, StreamInv, at \in {"read", "write"}, in_sz > 0,
           NEW off, NEW fp, NEW m, Laid(Pieces, off), Place(off, fp, m)
    PROVE  /\ in = GivenFiles[fp] /\ in \in Streams /\ input_files # << >>
           /\ fp \in 1..Len(GivenFiles) /\ m \in Nat /\ off[fp] \in Nat
           /\ in_sz \in Nat \ {0} /\ rows \in Nat /\ matrix_read_p /\ next > Len(options)
           /\ Len(Data[in]) \in Nat /\ pos[in] \in Nat /\ pos[in] <= Len(Data[in])
           /\ Skipped(fp) => pos[in] = Len(Data[in])
           /\ ~Skipped(fp) => pos[in] = m * in_sz /\ m <= Len(VectorsOf(in))
  <1>1. input_files # << >> /\ in \in Streams /\ matrix_read_p /\ next > Len(options)
        /\ rows \in Nat
    BY DEF StreamInv, CommandLineInv, CommandInv
  <1>2. in_sz \in Nat \ {0}
    BY <1>1, PiecesType
  <1>3. PICK n \in Nat : n = Len(GivenFiles)
    BY <1>1, FilesType
  <1>4. fp \in 1..n /\ fp \in Nat /\ m \in Nat
    BY <1>3 DEF Place
  <1>5. in = GivenFiles[fp]
    <2>1. PICK f \in Seq(Streams \cup {NoFile}) : f = input_files
      BY DEF StreamInv
    <2>2. 1 \in 1..Len(f) /\ Head(f) = f[1]
      BY <1>1, <2>1
    <2>3. f[1] = GivenFiles[fp + 1 - 1]
      BY <2>1, <2>2 DEF Place
    <2> QED BY <1>4, <2>1, <2>2, <2>3 DEF in
  <1>6. off[fp] \in Nat
    <2>1. Len(Pieces) = n
      BY <1>1, <1>3, PiecesType
    <2> QED BY <1>4, <2>1 DEF Laid
  <1>7. Len(Data[in]) \in Nat /\ pos[in] \in Nat /\ pos[in] <= Len(Data[in])
    BY <1>1, DataAssumption, LenProperties DEF StreamInv
  <1>8. ASSUME Skipped(fp) PROVE pos[in] = Len(Data[in])
    <2>1. PICK j \in 1..(fp - 1) : GivenFiles[j] = in
      BY <1>1, <1>5, <1>8, DataAssumption DEF Skipped
    <2> QED BY <1>1, <2>1 DEF Place
  <1>9. ASSUME ~Skipped(fp) PROVE pos[in] = m * in_sz /\ m <= Len(VectorsOf(in))
    <2>1. pos[in] = m * in_sz
      BY <1>5, <1>9 DEF Place
    <2> QED BY <1>1, <1>2, <1>4, <1>7, <2>1, VectorsCounted
  <1> QED BY <1>1, <1>2, <1>3, <1>4, <1>5, <1>6, <1>7, <1>8, <1>9

\* The next vector of the file.
LEMMA ReadVectorProgress ==
    ASSUME CommandLineInv, StreamInv, ProgressInv, in_sz > 0, ReadVector
    PROVE  ProgressInv'
  <1>1. /\ at = "read" /\ at' = "write" /\ available >= in_sz
        /\ UNCHANGED <<commandLine, flags, matrix, input_files, out>>
        /\ i_buf' = SubSeq(Data[in], pos[in] + 1, pos[in] + in_sz) \o One
        /\ pos' = [pos EXCEPT ![in] = @ + in_sz]
    BY DEF ReadVector, Take, One, output
  <1>2. Product(out)'
    BY <1>1, ProductStands DEF ProgressInv
  <1>3. PICK off, fp, m : Laid(Pieces, off) /\ Place(off, fp, m)
    BY <1>1 DEF ProgressInv, StreamInv
  <1>4. /\ in = GivenFiles[fp] /\ in \in Streams /\ input_files # << >>
        /\ fp \in 1..Len(GivenFiles) /\ m \in Nat /\ off[fp] \in Nat
        /\ in_sz \in Nat \ {0} /\ rows \in Nat /\ matrix_read_p /\ next > Len(options)
        /\ Len(Data[in]) \in Nat /\ pos[in] \in Nat /\ pos[in] <= Len(Data[in])
        /\ Skipped(fp) => pos[in] = Len(Data[in])
        /\ ~Skipped(fp) => pos[in] = m * in_sz /\ m <= Len(VectorsOf(in))
    BY <1>1, <1>3, FileOpen
  <1>5. PICK p \in Nat, z \in Nat \ {0}, l \in Nat :
            p = pos[in] /\ z = in_sz /\ l = Len(Data[in]) /\ p + z <= l
    <2>1. PICK p \in Nat, z \in Nat \ {0}, l \in Nat :
              p = pos[in] /\ z = in_sz /\ l = Len(Data[in])
      BY <1>4
    <2>2. l - p >= z
      BY <1>1, <2>1 DEF available
    <2>3. p + z <= l
      BY <2>2
    <2> QED BY <2>1, <2>3
  <1>6. ~Skipped(fp) /\ p = m * z
    BY <1>4, <1>5
  <1>7. PICK q \in Nat : q = m + 1 /\ q - 1 = m /\ q >= 1
    BY <1>4
  <1>8. q * z = p + z /\ q \in 1..Len(VectorsOf(in))
    <2>1. q * z = p + z
      BY <1>4, <1>6, <1>7, Times
    <2>2. q <= Len(VectorsOf(in))
      BY <1>4, <1>5, <2>1, VectorsCounted
    <2>3. Len(VectorsOf(in)) \in Nat
      BY <1>4, VectorsType, LenProperties
    <2> QED BY <1>7, <2>1, <2>2, <2>3
  <1>9. Vectors[off[fp] + q] = SubSeq(Data[in], p + 1, p + z)
    <2>1. Vectors[off[fp] + q] = VectorsOf(in)[q]
      BY <1>3, <1>4, <1>6, <1>8, VectorPlace
    <2>2. VectorsOf(in)[q] = SubSeq(Data[in], (q - 1) * in_sz + 1, q * in_sz)
      BY <1>4, <1>8, VectorsType
    <2> QED BY <1>5, <1>6, <1>7, <1>8, <2>1, <2>2
  <1>10. Laid(Pieces, off)'
    BY <1>1, <1>3, SayingsStand
  <1>11. Place(off, fp, q)'
    <2>1. \A s \in Streams : pos'[s] = IF s = in THEN p + z ELSE pos[s]
      BY <1>1, <1>4, <1>5 DEF StreamInv
    <2>2. \A i \in 1..(fp - 1) : GivenFiles[i] # in
      BY <1>4, <1>6 DEF Skipped
    <2>3. /\ GivenFiles' = GivenFiles /\ in_sz' = in_sz /\ One' = One /\ rows' = rows
          /\ Vectors' = Vectors /\ Skipped(fp)' = Skipped(fp)
      BY <1>1, SayingsStand
    <2>4. /\ Len(input_files') = Len(GivenFiles) - fp + 1
          /\ \A i \in 1..Len(input_files') : input_files'[i] = GivenFiles[fp + i - 1]
      BY <1>1, <1>3 DEF Place
    <2>5. \A s \in Streams : (\A i \in 1..fp : GivenFiles[i] # s) => pos'[s] = 0
      <3>1. fp \in 1..fp
        BY <1>4
      <3> QED BY <1>3, <1>4, <2>1, <3>1 DEF Place
    <2>6. \A i \in 1..(fp - 1) :
              GivenFiles[i] \in Streams => pos'[GivenFiles[i]] = Len(Data[GivenFiles[i]])
      BY <1>3, <2>1, <2>2 DEF Place
    <2>7. pos'[GivenFiles[fp]] = q * in_sz
      BY <1>4, <1>5, <1>8, <2>1
    <2>8. Len(out') = rows * (off[fp] + q - 1)
      <3>1. Len(out) = rows * (off[fp] + m)
        BY <1>1, <1>3 DEF Place
      <3>2. off[fp] + q - 1 = off[fp] + m
        BY <1>4, <1>7
      <3> QED BY <1>1, <3>1, <3>2
    <2>9. i_buf' = Vectors[off[fp] + q] \o One
      BY <1>1, <1>5, <1>9
    <2> QED BY <1>1, <1>4, <1>6, <1>7, <2>3, <2>4, <2>5, <2>6, <2>7, <2>8, <2>9 DEF Place
  <1> QED BY <1>1, <1>2, <1>10, <1>11 DEF ProgressInv


\* The end of the file: all of its vectors have been read.
LEMMA ReadEndProgress ==
    ASSUME CommandLineInv, StreamInv, ProgressInv, in_sz > 0, ReadEnd
    PROVE  ProgressInv'
  <1>1. /\ at = "read" /\ at' = "files" /\ available < in_sz
        /\ UNCHANGED <<commandLine, flags, matrix, out, no_memory>>
        /\ input_files' = Tail(input_files)
        /\ pos' = [pos EXCEPT ![in] = @ + available]
    BY DEF ReadEnd, Take, output
  <1>2. Product(out)'
    BY <1>1, ProductStands DEF ProgressInv
  <1>3. PICK off, fp, m : Laid(Pieces, off) /\ Place(off, fp, m)
    BY <1>1 DEF ProgressInv, StreamInv
  <1>4. /\ in = GivenFiles[fp] /\ in \in Streams /\ input_files # << >>
        /\ fp \in 1..Len(GivenFiles) /\ m \in Nat /\ off[fp] \in Nat
        /\ in_sz \in Nat \ {0} /\ rows \in Nat /\ matrix_read_p /\ next > Len(options)
        /\ Len(Data[in]) \in Nat /\ pos[in] \in Nat /\ pos[in] <= Len(Data[in])
        /\ Skipped(fp) => pos[in] = Len(Data[in])
        /\ ~Skipped(fp) => pos[in] = m * in_sz /\ m <= Len(VectorsOf(in))
    BY <1>1, <1>3, FileOpen
  <1>5. PICK p \in Nat, z \in Nat \ {0}, l \in Nat :
            p = pos[in] /\ z = in_sz /\ l = Len(Data[in]) /\ l < p + z /\ p + available = l
    <2>1. PICK p \in Nat, z \in Nat \ {0}, l \in Nat :
              p = pos[in] /\ z = in_sz /\ l = Len(Data[in])
      BY <1>4
    <2>2. l - p < z /\ available = l - p
      BY <1>1, <2>1 DEF available
    <2>3. l < p + z /\ p + (l - p) = l
      BY <2>2
    <2> QED BY <2>1, <2>2, <2>3
  <1>6. PICK n \in Nat : n = Len(GivenFiles) /\ n = Len(Pieces)
    BY <1>4, FilesType, PiecesType
  <1>7. m = Len(Pieces[fp])
    <2>1. CASE Skipped(fp)
      <3>1. Pieces[fp] = << >> /\ m = 0 /\ Len(<< >>) = 0
        BY <1>3, <1>4, <2>1, PiecesType DEF Place
      <3> QED BY <3>1
    <2>2. CASE ~Skipped(fp)
      <3>1. Pieces[fp] = VectorsOf(in)
        BY <1>4, <2>2, PiecesType
      <3>2. m * in_sz <= Len(Data[in]) /\ Len(Data[in]) < m * in_sz + in_sz
        BY <1>4, <1>5, <2>2
      <3>3. m = Len(VectorsOf(in))
        BY <1>4, <3>2, VectorsCounted
      <3> QED BY <3>1, <3>3
    <2> QED BY <2>1, <2>2
  <1>8. /\ GivenFiles' = GivenFiles /\ in_sz' = in_sz /\ One' = One /\ rows' = rows
        /\ Vectors' = Vectors /\ \A i : Skipped(i)' = Skipped(i)
    BY <1>1, SayingsStand
  <1>9. Laid(Pieces, off)'
    BY <1>1, <1>3, SayingsStand
  <1>10. Len(out') = rows * (off[fp] + m)
    BY <1>1, <1>3 DEF Place
  <1>11. /\ Len(input_files) = n - fp + 1
         /\ \A i \in 1..(n - fp + 1) : input_files[i] = GivenFiles[fp + i - 1]
    BY <1>3, <1>6 DEF Place
  <1>12. /\ Len(input_files') = n - fp
         /\ \A i \in 1..(n - fp) : input_files'[i] = GivenFiles[fp + i]
    <2>1. PICK f \in Seq(Streams \cup {NoFile}) : f = input_files /\ f # << >>
      BY <1>4 DEF StreamInv
    <2>2. Len(Tail(f)) = Len(f) - 1 /\ \A i \in 1..(Len(f) - 1) : Tail(f)[i] = f[i + 1]
      BY <2>1
    <2>3. Len(f) - 1 = n - fp
      BY <1>4, <1>6, <1>11, <2>1
    <2>4. \A i \in 1..(n - fp) : f[i + 1] = GivenFiles[fp + i]
      <3>1. \A i \in 1..(n - fp) : i + 1 \in 1..(n - fp + 1) /\ fp + (i + 1) - 1 = fp + i
        BY <1>4, <1>6
      <3> QED BY <1>11, <2>1, <3>1
    <2> QED BY <1>1, <2>1, <2>2, <2>3, <2>4
  <1>13. CASE fp = n
    <2>1. Len(out') = rows * Len(Vectors)
      <3>1. n \in Nat \ {0} /\ Vectors = FlattenSeq(Pieces)
        BY <1>4, <1>6, PiecesType
      <3>2. Len(Vectors) = off[n] + Len(Pieces[n])
        BY <1>3, <1>6, <3>1 DEF Laid
      <3> QED BY <1>7, <1>10, <1>13, <3>2
    <2>2. input_files' = << >>
      <3>1. input_files' \in Seq(Streams \cup {NoFile})
        BY <1>1, <1>4 DEF StreamInv
      <3>2. Len(input_files') = 0
        BY <1>6, <1>12, <1>13
      <3> QED BY <3>1, <3>2
    <2> QED BY <1>1, <1>2, <1>8, <2>1, <2>2 DEF ProgressInv, AllWritten
  <1>14. CASE fp # n
    <2>1. PICK q \in Nat : q = fp + 1 /\ q - 1 = fp /\ q \in 2..n /\ q \in 1..n
      BY <1>4, <1>6, <1>14
    <2>2. off[q] = off[fp] + m
      BY <1>3, <1>6, <1>7, <2>1 DEF Laid
    <2>3. \A s \in Streams : pos'[s] = IF s = in THEN l ELSE pos[s]
      BY <1>1, <1>4, <1>5 DEF StreamInv
    <2>4. /\ Len(input_files') = n - q + 1
          /\ \A i \in 1..(n - q + 1) : input_files'[i] = GivenFiles[q + i - 1]
      <3>1. n - q + 1 = n - fp /\ \A i \in 1..(n - fp) : q + i - 1 = fp + i
        BY <1>4, <1>6, <2>1
      <3> QED BY <1>12, <3>1
    <2>5. \A s \in Streams : (\A i \in 1..q : GivenFiles[i] # s) => pos'[s] = 0
      <3> SUFFICES ASSUME NEW s \in Streams, \A i \in 1..q : GivenFiles[i] # s PROVE pos'[s] = 0
        OBVIOUS
      <3>1. fp \in 1..q /\ \A i \in 1..fp : i \in 1..q
        BY <1>4, <2>1
      <3> QED BY <1>3, <1>4, <2>3, <3>1 DEF Place
    <2>6. \A i \in 1..(q - 1) :
              GivenFiles[i] \in Streams => pos'[GivenFiles[i]] = Len(Data[GivenFiles[i]])
      <3>1. \A i \in 1..(q - 1) : i = fp \/ i \in 1..(fp - 1)
        BY <1>4, <2>1
      <3> QED BY <1>3, <1>4, <1>5, <2>3, <3>1 DEF Place
    <2>7. ~Skipped(q) => pos'[GivenFiles[q]] = 0 * in_sz
      <3> SUFFICES ASSUME ~Skipped(q) PROVE pos'[GivenFiles[q]] = 0 * in_sz
        OBVIOUS
      <3>1. GivenFiles[q] \in Streams /\ \A j \in 1..(q - 1) : GivenFiles[j] # GivenFiles[q]
        BY <1>4, <1>6, <2>1, PiecesType DEF Skipped
      <3>2. \A i \in 1..fp : GivenFiles[i] # GivenFiles[q]
        BY <2>1, <3>1
      <3>3. fp \in 1..fp
        BY <1>4
      <3>4. pos'[GivenFiles[q]] = 0
        BY <1>3, <1>4, <2>3, <3>1, <3>2, <3>3 DEF Place
      <3> QED BY <1>4, <3>4
    <2>8. Len(out') = rows * (off[q] + 0)
      <3>1. off[q] + 0 = off[fp] + m
        BY <1>4, <2>2
      <3> QED BY <1>10, <3>1
    <2>9. Place(off, q, 0)'
      BY <1>1, <1>6, <1>8, <2>1, <2>4, <2>5, <2>6, <2>7, <2>8 DEF Place
    <2>10. input_files' # << >>
      <3>1. Len(input_files') > 0 /\ Len(<< >>) = 0
        BY <1>6, <2>1, <2>4
      <3> QED BY <3>1
    <2> QED BY <1>1, <1>2, <1>9, <2>9, <2>10 DEF ProgressInv
  <1> QED BY <1>13, <1>14

\* A vector is written, or the beginning of one.
LEMMA WriteProgress ==
    ASSUME CommandLineInv, StreamInv, ProgressInv, in_sz > 0, WriteVector \/ WriteError
    PROVE  ProgressInv'
  <1>1. /\ at = "write"
        /\ UNCHANGED <<commandLine, flags, matrix, input_files, pos, i_buf>>
    BY DEF WriteVector, WriteError
  <1>2. PICK off, fp, m : Laid(Pieces, off) /\ Place(off, fp, m)
    BY <1>1 DEF ProgressInv, StreamInv
  <1>3. /\ in = GivenFiles[fp] /\ in \in Streams /\ input_files # << >>
        /\ fp \in 1..Len(GivenFiles) /\ m \in Nat /\ off[fp] \in Nat
        /\ in_sz \in Nat \ {0} /\ rows \in Nat /\ matrix_read_p /\ next > Len(options)
        /\ ~Skipped(fp) => pos[in] = m * in_sz /\ m <= Len(VectorsOf(in))
    BY <1>1, <1>2, FileOpen
  <1>4. /\ m >= 1 /\ ~Skipped(fp) /\ i_buf = Vectors[off[fp] + m] \o One
        /\ Len(out) = rows * (off[fp] + m - 1)
    BY <1>1, <1>2 DEF Place
  <1>5. Vectors \in Seq(Seq(Int))
    BY <1>3, VectorsLaid
  <1>6. off[fp] + m \in 1..Len(Vectors) /\ Len(Vectors[off[fp] + m]) = in_sz
    <2>1. Len(VectorsOf(in)) \in Nat
      BY <1>3, VectorsType, LenProperties
    <2>2. m \in 1..Len(VectorsOf(GivenFiles[fp]))
      BY <1>3, <1>4, <2>1
    <2>3. /\ Laid(Pieces, off) /\ fp \in 1..Len(GivenFiles) /\ ~Skipped(fp)
          /\ matrix_read_p /\ next > Len(options)
      BY <1>2, <1>3, <1>4
    <2> QED BY <2>2, <2>3, VectorPlace, ZenonT(30)
  <1>7. PICK c \in Nat : c + 1 = off[fp] + m /\ c = off[fp] + m - 1
    <2>1. PICK o \in Nat, k \in Nat : o = off[fp] /\ k = m /\ k >= 1
      BY <1>3, <1>4
    <2>2. o + k - 1 \in Nat /\ (o + k - 1) + 1 = o + k
      BY <2>1
    <2> QED BY <2>1, <2>2
  <1>8. ASSUME NEW n \in 0..rows, NEW w, w = SubSeq(matrix_by_vector, 1, n), out' = out \o w
        PROVE  Product(out)' /\ Len(out') = rows * c + n
    <2>1. Product(out \o w) /\ Len(out \o w) = rows * c + n
      <3>1. Product(out) /\ c + 1 <= Len(Vectors)
        BY <1>5, <1>6, <1>7, LenProperties DEF ProgressInv
      <3> QED BY <1>1, <1>4, <1>5, <1>6, <1>7, <1>8, <3>1, ProductGrows
    <2>2. PICK o : o = out'
      OBVIOUS
    <2>3. Product(o)'
      BY <1>1, <1>8, <2>1, <2>2, SayingsStand
    <2> QED BY <1>8, <2>1, <2>2, <2>3 DEF Product
  <1>9. CASE WriteVector
    <2>1. PICK w : w = SubSeq(matrix_by_vector, 1, rows) /\ out' = out \o w
      <3>1. matrix_by_vector \in Seq(Int) /\ Len(matrix_by_vector) = rows
        BY <1>1, ProductType DEF StreamInv, CommandLineInv
      <3>2. SubSeq(matrix_by_vector, 1, rows) = matrix_by_vector
        BY <3>1
      <3> QED BY <1>9, <3>2 DEF WriteVector
    <2>2. rows \in 0..rows
      BY <1>3
    <2>3. Product(out)' /\ Len(out') = rows * c + rows
      BY <1>8, <2>1, <2>2
    <2>4. Len(out') = rows * (off[fp] + m)
      <3>1. rows * (c + 1) = rows * c + rows
        BY <1>3
      <3> QED BY <1>7, <2>3, <3>1
    <2>5. Laid(Pieces, off)' /\ Place(off, fp, m)'
      <3>1. Laid(Pieces, off)'
        BY <1>1, <1>2, SayingsStand
      <3>2. at' = "read"
        BY <1>9 DEF WriteVector
      <3>3. /\ GivenFiles' = GivenFiles /\ in_sz' = in_sz /\ rows' = rows
            /\ \A i : Skipped(i)' = Skipped(i)
        BY <1>1, SayingsStand
      <3>4. Place(off, fp, m)'
        BY <1>1, <1>2, <2>4, <3>2, <3>3 DEF Place
      <3> QED BY <3>1, <3>4
    <2> QED BY <1>9, <2>3, <2>5 DEF ProgressInv, WriteVector
  <1>10. CASE WriteError
    <2>1. PICK n \in 0..(rows - 1) : out' = out \o SubSeq(matrix_by_vector, 1, n)
      BY <1>10 DEF WriteError
    <2>2. n \in 0..rows
      BY <1>3
    <2>3. Product(out)'
      BY <1>8, <2>1, <2>2
    <2> QED BY <1>10, <2>3 DEF ProgressInv, WriteError
  <1> QED BY <1>9, <1>10

LEMMA ProductKept ==
    ASSUME CommandLineInv, StreamInv, ProductInv, WriterStep PROVE ProductInv'
  <1>1. CASE Options /\ ~StoreFiles
    <2>1. /\ at = "options" /\ at' \in {"options", "usage", "assertion", "crash"}
          /\ UNCHANGED <<input_files, pos, out>>
      BY <1>1 DEF Options, SetTrailing1, SetVectorSize, SetOutput, IsNext, ReadMatrix,
                  ReadMatrixArgument, NoMatrix, OptionsRead, NextOption, LoadMatrix, Shape,
                  output
    <2> QED BY <2>1 DEF ProductInv, Started
  <1>2. CASE StoreFiles
    <2>1. /\ at = "options" /\ at' \in {"main", "assertion"} /\ UNCHANGED <<pos, out>>
      BY <1>2 DEF StoreFiles, OptionsRead, output
    <2>2. in_sz' > 0 /\ at' = "main" => ProgressInv'
      BY <1>2, FirstPlace
    <2> QED BY <2>1, <2>2 DEF ProductInv, Started
  <1>3. CASE Applying \/ Killed \/ Ended \/ AtBound \/ UNCHANGED vars
    <2>1. UNCHANGED <<commandLine, flags, matrix>> /\ in_sz' = in_sz
      BY <1>3, ApplyingLeaves, SayingsStand
    <2>2. \/ UNCHANGED at
          \/ /\ at \in {"main", "files", "read", "write"}
             /\ at' \in {"files", "read", "write", "ok", "open_error", "read_error",
                            "write_error", "killed"}
      BY <1>3, ApplyingLeaves
    <2>3. ASSUME Started, in_sz > 0 PROVE ProgressInv'
      <3>1. ProgressInv
        BY <2>3 DEF ProductInv
      <3>2. CASE ReadError
        <4>1. UNCHANGED <<commandLine, flags, matrix, out>> /\ at' = "read_error"
          BY <3>2 DEF ReadError, Take
        <4>2. Product(out)'
          BY <3>1, <4>1, ProductStands DEF ProgressInv
        <4> QED BY <4>1, <4>2 DEF ProgressInv
      <3> QED BY <1>3, <2>3, <3>1, <3>2, QuietProgress, ReadVectorProgress, ReadEndProgress,
                 WriteProgress DEF Applying
    <2>4. at' \in {"options", "main"} => at' = at /\ UNCHANGED <<input_files, pos, out>>
      BY <1>3, <2>2 DEF Applying, OpenOutput, OpenInput, ReadVector, ReadEnd, ReadError,
                  WriteVector, WriteError, Finish, Killed, Ended, AtBound, vars, output
    <2> QED BY <2>1, <2>2, <2>3, <2>4 DEF ProductInv, Started
  <1> QED BY <1>1, <1>2, <1>3 DEF WriterStep, Next, Options

LEMMA StreamInit == Init => StreamInv /\ ProductInv
  <1> SUFFICES ASSUME Init PROVE StreamInv /\ ProductInv
    OBVIOUS
  <1>1. /\ input_files = << >> /\ pos = [s \in Streams |-> 0] /\ i_buf = << >>
        /\ out = << >> /\ sent = 0 /\ lost = FALSE /\ at = "options"
    BY DEF Init
  <1>2. \A s \in Streams : Len(Data[s]) \in Nat
    BY DataAssumption, LenProperties
  <1>3. << >> \in Seq(Int) /\ << >> \in Seq(Streams \cup {NoFile}) /\ Len(<< >>) = 0
    OBVIOUS
  <1>4. StreamInv
    <2>1. pos \in [Streams -> Nat] /\ \A s \in Streams : pos[s] = 0
      BY <1>1
    <2>2. \A s \in Streams : pos[s] <= Len(Data[s])
      BY <1>2, <2>1
    <2>3. sent \in 0..Len(out)
      BY <1>1, <1>3
    <2>4. lost \in BOOLEAN /\ at \notin {"read", "write"}
      BY <1>1
    <2> QED BY <1>1, <1>3, <2>1, <2>2, <2>3, <2>4 DEF StreamInv
  <1>5. ProductInv
    BY <1>1 DEF ProductInv, Started
  <1> QED BY <1>4, <1>5

\* Every number written is the coordinate that belongs there of the image of
\* one of the vectors of the files, in their order, and a program that ends
\* well has written them all, however its output was passed on
\* (rawmatrix.c:225-271, 487-497, 540-570).
THEOREM EveryVectorIsMapped == PipelineSpec => []OutputIsProduct
  <1>1. ASSUME CommandLineInv, StreamInv, ProductInv PROVE OutputIsProduct
    <2> SUFFICES ASSUME Applied, in_sz > 0 PROVE OutputIsProduct
      BY DEF OutputIsProduct
    <2>1. ProgressInv
      BY <1>1 DEF Applied, ProductInv, Started
    <2>2. DOMAIN out = 1..Len(out)
      BY <1>1 DEF StreamInv
    <2> QED BY <2>1, <2>2 DEF ProgressInv, Product, AllWritten, OutputIsProduct
  <1> QED BY <1>1, CommandLineInit, CommandLineKept, StreamInit, StreamKept, ProductKept,
             WriterSteps, PTL DEF PipelineSpec, PipelineInit


-----------------------------------------------------------------------------
(* Ranges.                                                                 *)

Number == Int \cup {NaN}

\* The range r, and one number more.
Widen(r, x) == <<IF RR!Less(x, r[1]) THEN x ELSE r[1], IF RR!Less(r[2], x) THEN x ELSE r[2]>>

\* f[k] is the range of lo, hi and the first k numbers of vec.
Ranges(lo, hi, vec, f) ==
    /\ f \in [0..Len(vec) -> Number \X Number] /\ f[0] = <<lo, hi>>
    /\ \A k \in 1..Len(vec) : f[k] = Widen(f[k - 1], vec[k])
    /\ RR!Extended(lo, hi, vec) = f[Len(vec)]

LEMMA WidenType ==
    ASSUME NEW r \in Number \X Number, NEW x \in Number
    PROVE  /\ Widen(r, x) \in Number \X Number
           /\ Widen(r, x)[1] = IF RR!Less(x, r[1]) THEN x ELSE r[1]
           /\ Widen(r, x)[2] = IF RR!Less(r[2], x) THEN x ELSE r[2]
  <1>1. PICK a \in Number, b \in Number : r = <<a, b>>
    OBVIOUS
  <1>2. (IF RR!Less(x, a) THEN x ELSE a) \in Number /\ (IF RR!Less(b, x) THEN x ELSE b) \in Number
    OBVIOUS
  <1> QED BY <1>1, <1>2 DEF Widen

LEMMA RangesExist ==
    ASSUME NEW lo \in Number, NEW hi \in Number, NEW vec \in Seq(Number)
    PROVE  \E f : Ranges(lo, hi, vec, f)
  <1>1. PICK n \in Nat : n = Len(vec) /\ DOMAIN vec = 1..n
    BY LenProperties
  <1>2. \A k \in 1..n : vec[k] \in Number
    BY <1>1
  <1> DEFINE A == Number \X Number
             base == <<lo, hi>>
             Rec(g) == g = [t \in SUBSET (1..n) |->
                               IF t = {} THEN base ELSE Widen(g[t \ {Max(t)}], vec[Max(t)])]
  <1>3. base \in A /\ \A r \in A, x \in Number : Widen(r, x) \in A
    BY WidenType
  <1> HIDE DEF A, base
  <1>4. \E g : Rec(g) /\ g \in [SUBSET (1..n) -> A]
    <2> DEFINE h == [p \in A \X (1..n) |-> Widen(p[1], vec[p[2]])]
    <2>1. h \in [A \X (1..n) -> A]
      BY <1>2, <1>3
    <2>2. \A r \in A, k \in 1..n : h[<<r, k>>] = Widen(r, vec[k])
      OBVIOUS
    <2> HIDE DEF h
    <2>3. PICK g : Folds(A, n, base, h, g)
      BY <1>3, <2>1, FoldExists
    <2>4. /\ g \in [SUBSET (1..n) -> A]
          /\ \A t \in SUBSET (1..n) :
                 g[t] = IF t = {} THEN base ELSE h[<<g[t \ {Max(t)}], Max(t)>>]
      BY <2>3 DEF Folds
    <2>5. ASSUME NEW t \in SUBSET (1..n), t # {}
          PROVE  g[t] = Widen(g[t \ {Max(t)}], vec[Max(t)])
      <3>1. Max(t) \in 1..n
        BY <2>5, GreatestNumber
      <3>2. g[t \ {Max(t)}] \in A
        BY <2>4
      <3> QED BY <2>2, <2>4, <2>5, <3>1, <3>2
    <2>6. \A t \in SUBSET (1..n) :
              g[t] = IF t = {} THEN base ELSE Widen(g[t \ {Max(t)}], vec[Max(t)])
      BY <2>4, <2>5
    <2>7. g = [t \in SUBSET (1..n) |-> g[t]]
      BY <2>4
    <2>8. Rec(g)
      BY <2>6, <2>7, Zenon
    <2> HIDE DEF Rec
    <2> QED BY <2>4, <2>8
  <1> DEFINE g == CHOOSE g : Rec(g)
  <1>5. Rec(g)
    BY <1>4
  <1>6. RR!Extended(lo, hi, vec) = g[1..n]
    BY <1>1, Zenon DEF base, RR!Extended, RR!FoldLeft, RR!MapThenFoldSet, RR!Max, Max, Widen
  <1> HIDE DEF g
  <1>7. \A t \in SUBSET (1..n) :
            g[t] = IF t = {} THEN base ELSE Widen(g[t \ {Max(t)}], vec[Max(t)])
    BY <1>5, Zenon
  <1> HIDE DEF Rec
  <1>8. g[{}] = base
    <2>1. {} \in SUBSET (1..n)
      OBVIOUS
    <2> QED BY <1>7, <2>1
  <1>9. ASSUME NEW k \in 1..n PROVE g[1..k] = Widen(g[1..(k - 1)], vec[k])
    <2>1. /\ 1..k \in SUBSET (1..n) /\ 1..k # {}
          /\ Max(1..k) = k /\ (1..k) \ {k} = 1..(k - 1)
      BY MaxOfFirst
    <2> QED BY <1>7, <2>1
  <1> DEFINE f == [k \in 0..n |-> g[1..k]]
  <1>10. f[0] = base /\ f[n] = g[1..n] /\ DOMAIN f = 0..n /\ \A k \in 0..n : f[k] = g[1..k]
    <2>1. 1..0 = {} /\ 0 \in 0..n /\ n \in 0..n
      OBVIOUS
    <2> QED BY <1>8, <2>1
  <1>11. \A k \in 1..n : f[k] = Widen(f[k - 1], vec[k])
    <2>1. \A k \in 1..n : k \in 0..n /\ k - 1 \in 0..n
      OBVIOUS
    <2> QED BY <1>9, <2>1
  <1>12. f = [k \in 0..n |-> f[k]]
    OBVIOUS
  <1> HIDE DEF f
  <1> DEFINE T == {k \in Nat : k <= n => f[k] \in A}
  <1>13. \A k \in Nat : k >= 0 => k \in T
    <2>1. 0 \in T
      BY <1>3, <1>10
    <2>2. ASSUME NEW k \in Nat, k >= 0, k \in T PROVE k + 1 \in T
      <3> SUFFICES ASSUME k + 1 <= n PROVE f[k + 1] \in A
        OBVIOUS
      <3>1. k + 1 \in 1..n /\ (k + 1) - 1 = k /\ f[k] \in A
        BY <2>2
      <3> QED BY <1>2, <1>3, <1>11, <3>1
    <2> HIDE DEF T
    <2> QED BY <2>1, <2>2, SetInduction
  <1>14. f \in [0..n -> A]
    BY <1>12, <1>13
  <1> USE DEF A, base
  <1> QED BY <1>1, <1>6, <1>10, <1>11, <1>14 DEF Ranges

\* A range that is NaN stays so; another one is extended to the numbers that
\* are in vec, and to no others.
LEMMA ExtendedRange ==
    ASSUME NEW lo \in Number, NEW hi \in Number, NEW vec \in Seq(Number), NEW r,
           r = RR!Extended(lo, hi, vec)
    PROVE  /\ lo = NaN /\ hi = NaN => r[1] = NaN /\ r[2] = NaN
           /\ lo \in Int /\ hi \in Int =>
                  /\ r[1] \in Int /\ r[2] \in Int /\ r[1] <= lo /\ hi <= r[2]
                  /\ \A k \in 1..Len(vec) : vec[k] \in Int => r[1] <= vec[k] /\ vec[k] <= r[2]
                  /\ r[1] = lo \/ \E k \in 1..Len(vec) : r[1] = vec[k]
                  /\ r[2] = hi \/ \E k \in 1..Len(vec) : r[2] = vec[k]
  <1>1. PICK f : Ranges(lo, hi, vec, f)
    BY RangesExist
  <1>2. PICK n \in Nat : n = Len(vec) /\ DOMAIN vec = 1..n
    BY LenProperties
  <1>3. /\ f \in [0..n -> Number \X Number] /\ f[0] = <<lo, hi>> /\ r = f[n]
        /\ \A k \in 1..n : f[k] = Widen(f[k - 1], vec[k])
    BY <1>1, <1>2 DEF Ranges
  <1>4. \A k \in 1..n : vec[k] \in Number
    BY <1>2
  <1>5. ASSUME NEW m \in Nat, m + 1 <= n
        PROVE  /\ f[m + 1][1] = IF RR!Less(vec[m + 1], f[m][1]) THEN vec[m + 1] ELSE f[m][1]
               /\ f[m + 1][2] = IF RR!Less(f[m][2], vec[m + 1]) THEN vec[m + 1] ELSE f[m][2]
               /\ vec[m + 1] \in Number
    <2>1. PICK q \in 1..n : q = m + 1 /\ q - 1 = m /\ m \in 0..n
      BY <1>5
    <2> QED BY <1>3, <1>4, <2>1, WidenType
  <1>6. ASSUME lo = NaN, hi = NaN PROVE r[1] = NaN /\ r[2] = NaN
    <2> DEFINE T == {m \in Nat : m <= n => f[m][1] = NaN /\ f[m][2] = NaN}
    <2>1. 0 \in T
      BY <1>3, <1>6
    <2>2. ASSUME NEW m \in Nat, m >= 0, m \in T PROVE m + 1 \in T
      <3> SUFFICES ASSUME m + 1 <= n PROVE f[m + 1][1] = NaN /\ f[m + 1][2] = NaN
        OBVIOUS
      <3>1. f[m][1] = NaN /\ f[m][2] = NaN
        BY <2>2
      <3> QED BY <1>5, <3>1 DEF RR!Less
    <2> HIDE DEF T
    <2>3. n \in T
      BY <2>1, <2>2, SetInduction
    <2> QED BY <1>3, <2>3 DEF T
  <1>7. ASSUME lo \in Int, hi \in Int
        PROVE  /\ r[1] \in Int /\ r[2] \in Int /\ r[1] <= lo /\ hi <= r[2]
               /\ \A k \in 1..n : vec[k] \in Int => r[1] <= vec[k] /\ vec[k] <= r[2]
               /\ r[1] = lo \/ \E k \in 1..n : r[1] = vec[k]
               /\ r[2] = hi \/ \E k \in 1..n : r[2] = vec[k]
    <2> DEFINE P(m, a, b) ==
            /\ a \in Int /\ b \in Int /\ a <= lo /\ hi <= b
            /\ \A k \in 1..m : vec[k] \in Int => a <= vec[k] /\ vec[k] <= b
            /\ a = lo \/ \E k \in 1..m : a = vec[k]
            /\ b = hi \/ \E k \in 1..m : b = vec[k]
    <2> DEFINE T == {m \in Nat : m <= n => P(m, f[m][1], f[m][2])}
    <2>1. 0 \in T
      <3>1. P(0, lo, hi)
        BY <1>7
      <3> QED BY <1>3, <3>1
    <2>2. ASSUME NEW m \in Nat, m >= 0, m \in T PROVE m + 1 \in T
      <3> SUFFICES ASSUME m + 1 <= n PROVE P(m + 1, f[m + 1][1], f[m + 1][2])
        OBVIOUS
      <3>1. PICK a, b, x : a = f[m][1] /\ b = f[m][2] /\ x = vec[m + 1]
        OBVIOUS
      <3>2. P(m, a, b)
        BY <2>2, <3>1
      <3>3. PICK c, d : /\ c = f[m + 1][1] /\ d = f[m + 1][2]
                        /\ c = IF RR!Less(x, a) THEN x ELSE a
                        /\ d = IF RR!Less(b, x) THEN x ELSE b
        BY <1>5, <3>1
      <3>4. x \in Number
        BY <1>5, <3>1
      <3>5. \A k \in 1..(m + 1) : k \in 1..m \/ k = m + 1
        OBVIOUS
      <3>6. CASE x \in Int
        <4>1. /\ c = (IF x < a THEN x ELSE a) /\ d = (IF b < x THEN x ELSE b)
          BY <3>2, <3>3, <3>6, FormatsAssumption DEF RR!Less
        <4>2. c \in Int /\ d \in Int /\ c <= a /\ b <= d /\ c <= x /\ x <= d
          BY <3>2, <3>6, <4>1
        <4>3. c <= lo /\ hi <= d
          BY <1>7, <3>2, <4>2
        <4>4. \A k \in 1..(m + 1) : vec[k] \in Int => c <= vec[k] /\ vec[k] <= d
          BY <3>1, <3>2, <3>5, <4>2, SMTT(30)
        <4>5. /\ c = lo \/ \E k \in 1..(m + 1) : c = vec[k]
              /\ d = hi \/ \E k \in 1..(m + 1) : d = vec[k]
          <5>1. m + 1 \in 1..(m + 1) /\ \A k \in 1..m : k \in 1..(m + 1)
            OBVIOUS
          <5>2. c = a \/ c = vec[m + 1]
            BY <3>1, <4>1
          <5>3. d = b \/ d = vec[m + 1]
            BY <3>1, <4>1
          <5> QED BY <3>2, <5>1, <5>2, <5>3
        <4> QED BY <3>3, <4>2, <4>3, <4>4, <4>5
      <3>7. CASE x = NaN
        <4>1. c = a /\ d = b
          BY <3>3, <3>7 DEF RR!Less
        <4>2. \A k \in 1..(m + 1) : vec[k] \in Int => k \in 1..m
          BY <3>1, <3>5, <3>7, FormatsAssumption
        <4> QED BY <3>2, <3>3, <4>1, <4>2
      <3> QED BY <3>4, <3>6, <3>7 DEF Number
    <2> HIDE DEF T
    <2>3. n \in T
      BY <2>1, <2>2, SetInduction
    <2>4. P(n, f[n][1], f[n][2])
      BY <2>3 DEF T
    <2> QED BY <1>3, <2>4
  <1> QED BY <1>2, <1>6, <1>7


-----------------------------------------------------------------------------
(* The reader.                                                             *)

\* What has gone through the pipe, and what is in each of the inputs.
Piped == SubSeq(out, 1, sent)
Of(s) == IF s = RangeStdIn THEN Piped ELSE RangeData[s]

\* A step of the writer adds to its output and passes on more of it; when it
\* has ended there is nothing more.
LEMMA PipeGrows ==
    ASSUME CommandLineInv, StreamInv, WriterStep
    PROVE  /\ Piped \in Seq(Int) /\ Len(Piped) = sent /\ sent \in Nat
           /\ Piped' \in Seq(Int) /\ Len(Piped') = sent' /\ sent' \in Nat /\ sent <= sent'
           /\ \A k \in 1..sent : Piped'[k] = Piped[k]
           /\ at \in Exits => at' \in Exits /\ Piped' = Piped
  <1>1. StreamInv'
    BY StreamKept
  <1>2. PICK o \in Seq(Int), p \in Seq(Int), m \in Nat, n \in Nat :
            /\ o = out /\ p = out' /\ m = sent /\ n = sent'
            /\ m <= Len(o) /\ n <= Len(p)
    BY <1>1 DEF StreamInv
  <1>3. \A q \in Seq(Int), k \in Nat :
            k <= Len(q) => /\ SubSeq(q, 1, k) \in Seq(Int) /\ Len(SubSeq(q, 1, k)) = k
                           /\ \A j \in 1..k : SubSeq(q, 1, k)[j] = q[j]
    OBVIOUS
  <1>4. /\ Piped \in Seq(Int) /\ Len(Piped) = m /\ \A j \in 1..m : Piped[j] = o[j]
        /\ Piped' \in Seq(Int) /\ Len(Piped') = n /\ \A j \in 1..n : Piped'[j] = p[j]
    BY <1>2, <1>3 DEF Piped
  <1>5. m <= n /\ \A j \in 1..m : p[j] = o[j]
    <2>1. CASE /\ ~WriteVector /\ ~WriteError
      <3>1. out' = out /\ (sent' = sent \/ Flush)
        BY <2>1 DEF WriterStep, Next, Options, SetTrailing1, SetVectorSize, SetOutput,
                    ReadMatrix, ReadMatrixArgument, NoMatrix, StoreFiles, Applying, OpenOutput,
                    OpenInput, ReadVector, ReadEnd, ReadError, Finish, Killed, Ended, AtBound,
                    vars, output
      <3>2. o = p
        BY <1>2, <3>1
      <3>3. m <= n
        BY <1>2, <3>1, <3>2 DEF Flush
      <3> QED BY <3>2, <3>3
    <2>2. CASE WriteVector \/ WriteError
      <3>1. matrix_by_vector \in Seq(Int) /\ Len(matrix_by_vector) = rows /\ rows \in Nat
        BY <2>2, ProductType DEF WriteVector, WriteError, StreamInv, CommandLineInv, CommandInv
      <3>2. PICK w \in Seq(Int) : out' = out \o w
        <4>1. CASE WriteVector
          BY <3>1, <4>1 DEF WriteVector
        <4>2. CASE WriteError
          <5>1. PICK l \in 0..(rows - 1) : out' = out \o SubSeq(matrix_by_vector, 1, l)
            BY <4>2 DEF WriteError
          <5>2. l \in Nat /\ l <= Len(matrix_by_vector)
            BY <3>1
          <5> QED BY <1>3, <3>1, <5>1, <5>2
        <4> QED BY <2>2, <4>1, <4>2
      <3>3. /\ Len(p) = Len(o) + Len(w) /\ \A j \in 1..Len(o) : p[j] = o[j]
            /\ Len(o) \in Nat /\ Len(w) \in Nat /\ Len(p) \in Nat
        BY <1>2, <3>2, NumbersJoined, LenProperties
      <3>4. \A j \in 1..m : p[j] = o[j]
        <4>1. PICK l \in Nat : l = Len(o) /\ m <= l
          BY <1>2, <3>3
        <4>2. \A j \in 1..m : j \in 1..l
          BY <4>1
        <4> QED BY <3>3, <4>1, <4>2
      <3>5. m <= n
        BY <1>2, <2>2, <3>3 DEF WriteVector, WriteError, Flush
      <3> QED BY <3>4, <3>5
    <2> QED BY <2>1, <2>2
  <1>6. \A j \in 1..m : Piped'[j] = Piped[j]
    <2>1. \A j \in 1..m : j \in 1..n
      BY <1>5
    <2> QED BY <1>4, <1>5, <2>1
  <1>7. ASSUME at \in Exits PROVE at' \in Exits /\ Piped' = Piped
    <2>1. Ended \/ UNCHANGED vars
      BY <1>7 DEF WriterStep, Next, Options, SetTrailing1, SetVectorSize, SetOutput, IsNext,
                  ReadMatrix, ReadMatrixArgument, NoMatrix, StoreFiles, OptionsRead, Applying,
                  OpenOutput, OpenInput, ReadVector, ReadEnd, ReadError, WriteVector, WriteError,
                  Finish, Killed, AtBound, Exits
    <2>2. at' = at /\ out' = out /\ sent' = sent
      BY <2>1 DEF Ended, vars, output
    <2> QED BY <1>7, <2>2 DEF Piped
  <1> QED BY <1>2, <1>4, <1>5, <1>6, <1>7


RangeNames == IF r_args = << >> THEN <<RangeStdIn>> ELSE r_args

\* What is read has its type; an input that is at its end is and stays so.
ReaderInv ==
    /\ \E c \in RangeCommands : r_options = c.options /\ r_args = c.files
    /\ r_files \in Seq(RangeStreams \cup {NoFile})
    /\ r_at \in {"options", "files", "read"} \cup RR!Exits
    /\ r_at = "read" => r_files # << >> /\ RR!fp \in RangeStreams
    /\ r_pos \in [RangeStreams -> Nat] /\ feof \in [RangeStreams -> BOOLEAN]
    /\ \A s \in RangeStreams : r_pos[s] <= Len(Of(s))
    /\ \A s \in RangeStreams :
           feof[s] => r_pos[s] = Len(Of(s)) /\ (s = RangeStdIn => at \in Exits)
    /\ has_range_p \in BOOLEAN

\* The numbers read.
Seen(x) == \E s \in RangeStreams : \E k \in 1..r_pos[s] : Of(s)[k] = x

\* Without an error the files before the fp-th are at their end, and nothing
\* has been read of those after it.
ReaderPlace(fp) ==
    /\ fp \in 1..(Len(RangeNames) + 1)
    /\ Len(r_files) = Len(RangeNames) - fp + 1
    /\ \A i \in 1..Len(r_files) : r_files[i] = RangeNames[fp + i - 1]
    /\ \A i \in 1..(fp - 1) : RangeNames[i] \in RangeStreams /\ feof[RangeNames[i]]
    /\ \A s \in RangeStreams :
           (\A i \in 1..Len(RangeNames) : i <= fp => RangeNames[i] # s) => r_pos[s] = 0

\* The f-th file is the first that a number has been read of: the range is
\* that of the numbers read, or NaN if the first one was.
RangeFrom(f) ==
    /\ f \in 1..Len(RangeNames) /\ RangeNames[f] \in RangeStreams /\ r_pos[RangeNames[f]] >= 1
    /\ \A i \in 1..(f - 1) :
           RangeNames[i] \in RangeStreams /\ feof[RangeNames[i]] /\ r_pos[RangeNames[i]] = 0
    /\ IF Of(RangeNames[f])[1] = NaN
         THEN min = NaN /\ max = NaN
         ELSE /\ min \in Int /\ max \in Int /\ Seen(min) /\ Seen(max)
              /\ \A x \in Int : Seen(x) => min <= x /\ x <= max

RangeInv ==
    /\ r_at = "options" =>
           /\ r_files = << >> /\ ~has_range_p
           /\ \A s \in RangeStreams : r_pos[s] = 0 /\ feof[s] = FALSE
    /\ r_at \in {"files", "read", "ok"} /\ ~io_error /\ ~r_no_memory =>
           /\ \E fp : ReaderPlace(fp)
           /\ IF has_range_p THEN \E f : RangeFrom(f) ELSE \A s \in RangeStreams : r_pos[s] = 0
    /\ r_at = "ok" => r_files = << >> /\ (has_range_p => printed = <<min, max>>)

\* What an input holds.
LEMMA InputType ==
    ASSUME Piped \in Seq(Int), NEW s \in RangeStreams
    PROVE  Of(s) \in Seq(Number) /\ Len(Of(s)) \in Nat
  <1>1. CASE s = RangeStdIn
    <2>1. PICK p \in Seq(Int) : p = Piped
      OBVIOUS
    <2>2. PICK n \in Nat : n = Len(p) /\ p \in [1..n -> Int]
      OBVIOUS
    <2>3. p \in [1..n -> Number]
      BY <2>2 DEF Number
    <2>4. p \in Seq(Number)
      BY <2>3
    <2> QED BY <1>1, <2>1, <2>4, LenProperties DEF Of
  <1>2. CASE s # RangeStdIn
    <2>1. RangeData[s] \in Seq(Number)
      BY <1>2, RangeDataAssumption DEF Number
    <2> QED BY <1>2, <2>1, LenProperties DEF Of
  <1> QED BY <1>1, <1>2

LEMMA NamesType ==
    ASSUME ReaderInv
    PROVE  RangeNames \in Seq(RangeStreams \cup {NoFile}) /\ Len(RangeNames) \in Nat \ {0}
  <1>1. r_args \in Seq(RangeStreams \cup {NoFile})
    BY RangeCommandsAssumption DEF ReaderInv
  <1>2. CASE r_args = << >>
    <2>1. <<RangeStdIn>> \in Seq(RangeStreams \cup {NoFile}) /\ Len(<<RangeStdIn>>) = 1
      BY RangeDataAssumption
    <2> QED BY <1>2, <2>1 DEF RangeNames
  <1>3. CASE r_args # << >>
    <2>1. Len(r_args) \in Nat \ {0}
      BY <1>1, <1>3
    <2> QED BY <1>1, <1>3, <2>1 DEF RangeNames
  <1> QED BY <1>2, <1>3

\* The writer's steps change nothing that has been read.
LEMMA ReaderWaits ==
    ASSUME CommandLineInv, StreamInv, ReaderInv, RangeInv, WriterStep, UNCHANGED r_vars
    PROVE  ReaderInv' /\ RangeInv'
  <1>1. /\ r_options' = r_options /\ r_args' = r_args /\ r_files' = r_files /\ r_pos' = r_pos
        /\ feof' = feof /\ has_range_p' = has_range_p /\ min' = min /\ max' = max
        /\ printed' = printed /\ r_no_memory' = r_no_memory /\ io_error' = io_error
        /\ r_at' = r_at
    BY DEF r_vars
  <1>2. \A s \in RangeStreams :
            /\ Len(Of(s)) \in Nat /\ Len(Of(s)') \in Nat /\ Len(Of(s)) <= Len(Of(s)')
            /\ \A k \in 1..Len(Of(s)) : Of(s)'[k] = Of(s)[k]
            /\ (s = RangeStdIn => at \in Exits) => Of(s)' = Of(s)
    <2> SUFFICES ASSUME NEW s \in RangeStreams
                 PROVE  /\ Len(Of(s)) \in Nat /\ Len(Of(s)') \in Nat /\ Len(Of(s)) <= Len(Of(s)')
                        /\ \A k \in 1..Len(Of(s)) : Of(s)'[k] = Of(s)[k]
                        /\ (s = RangeStdIn => at \in Exits) => Of(s)' = Of(s)
      OBVIOUS
    <2>1. CASE s = RangeStdIn
      <3>1. Of(s) = Piped /\ Of(s)' = Piped'
        BY <2>1 DEF Of
      <3> QED BY <2>1, <3>1, PipeGrows
    <2>2. CASE s # RangeStdIn
      <3>1. Of(s)' = Of(s)
        BY <2>2 DEF Of
      <3>2. Len(Of(s)) \in Nat
        BY PipeGrows, InputType
      <3> QED BY <3>1, <3>2
    <2> QED BY <2>1, <2>2
  <1>3. \A s \in RangeStreams : \A k \in 1..r_pos[s] : k \in 1..Len(Of(s)) /\ Of(s)'[k] = Of(s)[k]
    <2> SUFFICES ASSUME NEW s \in RangeStreams, NEW k \in 1..r_pos[s]
                 PROVE  k \in 1..Len(Of(s)) /\ Of(s)'[k] = Of(s)[k]
      OBVIOUS
    <2>1. r_pos[s] \in Nat /\ r_pos[s] <= Len(Of(s)) /\ Len(Of(s)) \in Nat
      BY <1>2 DEF ReaderInv
    <2>2. k \in 1..Len(Of(s))
      BY <2>1
    <2> QED BY <1>2, <2>2
  <1>4. \A x : Seen(x)' = Seen(x)
    BY <1>1, <1>3 DEF Seen
  <1>5. RangeNames' = RangeNames
    BY <1>1 DEF RangeNames
  <1>6. ReaderInv'
    <2>1. \A s \in RangeStreams : r_pos'[s] <= Len(Of(s)')
      <3> SUFFICES ASSUME NEW s \in RangeStreams PROVE r_pos'[s] <= Len(Of(s)')
        OBVIOUS
      <3>1. r_pos[s] \in Nat /\ r_pos[s] <= Len(Of(s)) /\ Len(Of(s)) <= Len(Of(s)')
            /\ Len(Of(s)) \in Nat /\ Len(Of(s)') \in Nat
        BY <1>2 DEF ReaderInv
      <3> QED BY <1>1, <3>1
    <2>2. \A s \in RangeStreams :
              feof'[s] => r_pos'[s] = Len(Of(s)') /\ (s = RangeStdIn => at' \in Exits)
      <3>1. at \in Exits => at' \in Exits
        BY PipeGrows
      <3> QED BY <1>1, <1>2, <3>1 DEF ReaderInv
    <2>3. RR!fp' = RR!fp
      BY <1>1 DEF RR!fp
    <2> QED BY <1>1, <2>1, <2>2, <2>3 DEF ReaderInv
  <1>7. RangeInv'
    <2>1. \A fp : ReaderPlace(fp)' = ReaderPlace(fp)
      BY <1>1, <1>5 DEF ReaderPlace
    <2>2. ASSUME NEW f, RangeFrom(f) PROVE RangeFrom(f)'
      <3>1. RangeNames[f] \in RangeStreams /\ r_pos[RangeNames[f]] \in Nat /\ r_pos[RangeNames[f]] >= 1
        BY <2>2 DEF RangeFrom, ReaderInv
      <3>2. 1 \in 1..r_pos[RangeNames[f]]
        BY <3>1
      <3>3. Of(RangeNames[f])'[1] = Of(RangeNames[f])[1]
        <4>1. PICK s \in RangeStreams : s = RangeNames[f]
          BY <3>1
        <4>2. Of(s)'[1] = Of(s)[1] /\ s = RangeNames'[f]
          BY <1>3, <1>5, <3>2, <4>1
        <4>3. Of(RangeNames[f])' = Of(s)'
          BY <4>2 DEF Of
        <4> QED BY <4>1, <4>2, <4>3
      <3> QED BY <1>1, <1>4, <1>5, <2>2, <3>3 DEF RangeFrom
    <2> QED BY <1>1, <2>1, <2>2 DEF RangeInv
  <1> QED BY <1>6, <1>7


\* A step of the reader's: its input and its names are what they were.
LEMMA ReaderStands ==
    ASSUME UNCHANGED <<vars, r_options, r_args>>
    PROVE  /\ Of(RangeStdIn)' = Of(RangeStdIn) /\ \A s : Of(s)' = Of(s)
           /\ RangeNames' = RangeNames /\ at' = at
  <1>1. at' = at /\ out' = out /\ sent' = sent /\ r_options' = r_options /\ r_args' = r_args
    BY DEF vars, output
  <1>2. Piped' = Piped /\ RangeNames' = RangeNames
    BY <1>1 DEF Piped, RangeNames
  <1>3. \A s : Of(s)' = Of(s)
    BY <1>2 DEF Of
  <1>4. Of(RangeStdIn)' = Of(RangeStdIn)
    BY <1>2 DEF Of
  <1> QED BY <1>1, <1>2, <1>3, <1>4

\* The steps that read nothing.
LEMMA QuietReader ==
    ASSUME ReaderInv, RangeInv, UNCHANGED vars,
           RR!SetFormat \/ RR!StoreFiles \/ RR!OpenInput \/ RR!PrintRange \/ RR!Ended
    PROVE  ReaderInv' /\ RangeInv'
  <1>1. /\ UNCHANGED <<r_options, r_args, r_pos, feof, io_error, has_range_p, min, max>>
        /\ r_no_memory => r_no_memory'
    BY DEF RR!SetFormat, RR!StoreFiles, RR!OpenInput, RR!PrintRange, RR!Ended,
           RR!commandLine, RR!stream, RR!range, RR!vars
  <1>2. (\A s : Of(s)' = Of(s)) /\ RangeNames' = RangeNames /\ at' = at
    BY <1>1, ReaderStands
  <1>3. \/ /\ r_at = "options" /\ r_at' \in {"options", "usage"}
           /\ UNCHANGED r_files
        \/ /\ r_at = "options" /\ r_at' = "files"
           /\ \/ r_files' = RangeNames
              \/ r_no_memory' = TRUE /\ UNCHANGED r_files
        \/ /\ r_at = "files" /\ r_at' \in {"read", "open_error"} /\ UNCHANGED <<r_files, r_no_memory>>
           /\ r_files # << >> /\ (r_at' = "read" => Head(r_files) # NoFile)
        \/ /\ r_at = "files" /\ r_at' = "ok" /\ r_files = << >> /\ UNCHANGED <<r_files, r_no_memory>>
           /\ (has_range_p => printed' = <<min, max>>)
        \/ UNCHANGED <<r_at, r_files, r_no_memory, printed>>
    BY DEF RR!SetFormat, RR!StoreFiles, RR!OpenInput, RR!PrintRange, RR!Ended,
           RR!commandLine, RR!stream, RR!range, RR!vars, RangeNames
  <1>4. ReaderInv'
    <2>1. r_files' \in Seq(RangeStreams \cup {NoFile})
      BY <1>3, NamesType DEF ReaderInv
    <2>2. r_at' \in {"options", "files", "read"} \cup RR!Exits
      BY <1>3 DEF ReaderInv, RR!Exits
    <2>3. r_at' = "read" => r_files' # << >> /\ RR!fp' \in RangeStreams
      <3>1. CASE r_at = "files" /\ r_at' = "read" /\ r_files # << >> /\ Head(r_files) # NoFile
                 /\ UNCHANGED r_files
        <4>1. Head(r_files) \in RangeStreams \cup {NoFile}
          BY <3>1 DEF ReaderInv
        <4> QED BY <3>1, <4>1 DEF RR!fp
      <3>2. CASE UNCHANGED <<r_at, r_files>>
        BY <3>2 DEF ReaderInv, RR!fp
      <3> QED BY <1>3, <3>1, <3>2
    <2>4. \A s \in RangeStreams : r_pos'[s] <= Len(Of(s)')
      BY <1>1, <1>2 DEF ReaderInv
    <2>5. \A s \in RangeStreams :
              feof'[s] => r_pos'[s] = Len(Of(s)') /\ (s = RangeStdIn => at' \in Exits)
      BY <1>1, <1>2 DEF ReaderInv
    <2> QED BY <1>1, <2>1, <2>2, <2>3, <2>4, <2>5 DEF ReaderInv
  <1>5. /\ \A x : Seen(x)' = Seen(x)
        /\ \A f : RangeFrom(f)' = RangeFrom(f)
    <2>1. \A x : Seen(x)' = Seen(x)
      BY <1>1, <1>2 DEF Seen
    <2>2. \A f : Of(RangeNames[f])' = Of(RangeNames[f])
      <3>1. Piped' = Piped
        BY DEF Piped, vars, output
      <3> QED BY <1>2, <3>1 DEF Of
    <2>3. \A f : RangeFrom(f)' = RangeFrom(f)
      BY <1>1, <1>2, <2>1, <2>2 DEF RangeFrom
    <2> QED BY <2>1, <2>3
  <1>6. ASSUME NEW fp, UNCHANGED r_files PROVE ReaderPlace(fp)' = ReaderPlace(fp)
    BY <1>1, <1>2, <1>6 DEF ReaderPlace
  <1>7. ASSUME r_at' = "options"
        PROVE  /\ r_files' = << >> /\ ~has_range_p'
               /\ \A s \in RangeStreams : r_pos'[s] = 0 /\ feof'[s] = FALSE
    BY <1>1, <1>3, <1>7 DEF RangeInv
  <1>8. ASSUME r_at' \in {"files", "read", "ok"}, ~io_error', ~r_no_memory'
        PROVE  /\ \E fp : ReaderPlace(fp)'
               /\ IF has_range_p' THEN \E f : RangeFrom(f)'
                  ELSE \A s \in RangeStreams : r_pos'[s] = 0
    <2>1. CASE r_at = "options" /\ r_files' = RangeNames
      <3>1. ~has_range_p /\ \A s \in RangeStreams : r_pos[s] = 0
        BY <2>1 DEF RangeInv
      <3>2. PICK n \in Nat \ {0} : n = Len(RangeNames)
        BY NamesType
      <3>3. ReaderPlace(1)'
        <4>1. /\ 1 \in 1..(n + 1) /\ n = n - 1 + 1 /\ \A i \in 1..n : 1 + i - 1 = i
              /\ ~ (\E i : i \in 1..(1 - 1))
          BY <3>2
        <4> QED BY <1>1, <1>2, <2>1, <3>1, <3>2, <4>1 DEF ReaderPlace
      <3> QED BY <1>1, <3>1, <3>3
    <2>2. CASE r_at # "options"
      <3>1. UNCHANGED <<r_files, r_no_memory>> /\ r_at \in {"files", "read", "ok"}
        BY <1>3, <1>8, <2>2
      <3>2. /\ \E fp : ReaderPlace(fp)
            /\ IF has_range_p THEN \E f : RangeFrom(f) ELSE \A s \in RangeStreams : r_pos[s] = 0
        BY <1>1, <1>8, <3>1 DEF RangeInv
      <3> QED BY <1>1, <1>5, <1>6, <3>1, <3>2
    <2> QED BY <1>3, <1>8, <2>1, <2>2
  <1>9. ASSUME r_at' = "ok" PROVE r_files' = << >> /\ (has_range_p' => printed' = <<min', max'>>)
    BY <1>1, <1>3, <1>9 DEF RangeInv
  <1>10. RangeInv'
    BY <1>7, <1>8, <1>9 DEF RangeInv
  <1> QED BY <1>4, <1>10

\* The end of an input.
LEMMA InputEnds ==
    ASSUME StreamInv, Piped \in Seq(Int), ReaderInv, RangeInv, UNCHANGED vars, RR!EndInput
    PROVE  ReaderInv' /\ RangeInv'
  <1>1. /\ r_at = "read" /\ r_at' = "files" /\ r_files' = Tail(r_files)
        /\ UNCHANGED <<r_options, r_args, r_pos, has_range_p, min, max, printed, r_no_memory>>
    BY DEF RR!EndInput, RR!commandLine, RR!range
  <1>2. (\A s : Of(s)' = Of(s)) /\ RangeNames' = RangeNames /\ at' = at
    BY <1>1, ReaderStands
  <1>3. PICK s \in RangeStreams, fs \in Seq(RangeStreams \cup {NoFile}) :
            s = RR!fp /\ fs = r_files /\ fs # << >> /\ s = fs[1]
    BY <1>1 DEF ReaderInv, RR!fp
  <1>4. RR!contents = Of(s) /\ Len(Of(s)) \in Nat /\ r_pos[s] \in Nat
    BY <1>3, InputType DEF RR!contents, Of, Piped, ReaderInv
  <1>5. \/ feof[s] /\ UNCHANGED <<feof, io_error>>
        \/ /\ r_pos[s] = Len(Of(s)) /\ (s = RangeStdIn => at \in Exits)
           /\ feof' = [feof EXCEPT ![s] = TRUE] /\ UNCHANGED io_error
        \/ io_error' = TRUE /\ UNCHANGED feof
    <2>1. RR!available = Len(Of(s)) - r_pos[s] /\ RR!complete = (s = RangeStdIn => at \in Exits)
      BY <1>3, <1>4 DEF RR!available, RR!complete
    <2>2. RR!available = 0 => r_pos[s] = Len(Of(s))
      BY <1>4, <2>1
    <2> QED BY <1>3, <2>1, <2>2 DEF RR!EndInput
  <1>6. /\ feof' \in [RangeStreams -> BOOLEAN]
        /\ \A t \in RangeStreams : feof'[t] => feof[t] \/ (t = s /\ r_pos[s] = Len(Of(s))
                                                        /\ (s = RangeStdIn => at \in Exits))
        /\ \A t \in RangeStreams : feof[t] => feof'[t]
        /\ io_error' \/ feof'[s]
    BY <1>5 DEF ReaderInv
  <1>7. ReaderInv'
    <2>1. r_files' \in Seq(RangeStreams \cup {NoFile})
      <3>1. Tail(fs) \in Seq(RangeStreams \cup {NoFile})
        BY <1>3
      <3> QED BY <1>1, <1>3, <3>1
    <2>2. \A t \in RangeStreams : r_pos'[t] <= Len(Of(t)')
      BY <1>1, <1>2 DEF ReaderInv
    <2>3. \A t \in RangeStreams :
              feof'[t] => r_pos'[t] = Len(Of(t)') /\ (t = RangeStdIn => at' \in Exits)
      BY <1>1, <1>2, <1>6 DEF ReaderInv
    <2> QED BY <1>1, <1>6, <2>1, <2>2, <2>3 DEF ReaderInv
  <1>8. ASSUME ~io_error', ~r_no_memory'
        PROVE  /\ \E fp : ReaderPlace(fp)'
               /\ IF has_range_p' THEN \E f : RangeFrom(f)'
                  ELSE \A t \in RangeStreams : r_pos'[t] = 0
    <2>1. ~io_error /\ ~r_no_memory
      BY <1>1, <1>5, <1>8
    <2>2. PICK fp : ReaderPlace(fp)
      BY <1>1, <2>1 DEF RangeInv
    <2>3. PICK n \in Nat : n = Len(RangeNames)
      BY NamesType
    <2>4. /\ fp \in 1..(n + 1) /\ Len(fs) = n - fp + 1
          /\ \A i \in 1..(n - fp + 1) : fs[i] = RangeNames[fp + i - 1]
      BY <1>3, <2>2, <2>3 DEF ReaderPlace
    <2>5. fp \in 1..n
      <3>1. Len(fs) > 0 /\ Len(fs) \in Nat
        BY <1>3
      <3> QED BY <2>3, <2>4, <3>1
    <2>6. s = RangeNames[fp]
      <3>1. 1 \in 1..(n - fp + 1) /\ fp + 1 - 1 = fp
        BY <2>3, <2>5
      <3> QED BY <1>3, <2>4, <3>1
    <2>7. PICK q \in Nat : q = fp + 1 /\ q - 1 = fp /\ q \in 1..(n + 1)
      BY <2>3, <2>5
    <2>8. ReaderPlace(q)'
      <3>1. /\ Len(r_files') = n - q + 1
            /\ \A i \in 1..(n - q + 1) : r_files'[i] = RangeNames[q + i - 1]
        <4>1. Len(Tail(fs)) = Len(fs) - 1 /\ \A i \in 1..(Len(fs) - 1) : Tail(fs)[i] = fs[i + 1]
          BY <1>3
        <4>2. Len(fs) - 1 = n - q + 1
          BY <2>3, <2>4, <2>5, <2>7
        <4>3. \A i \in 1..(n - q + 1) : fs[i + 1] = RangeNames[q + i - 1]
          <5>1. \A i \in 1..(n - q + 1) :
                    i + 1 \in 1..(n - fp + 1) /\ fp + (i + 1) - 1 = q + i - 1
            BY <2>3, <2>5, <2>7
          <5> QED BY <2>4, <5>1
        <4> QED BY <1>1, <1>3, <4>1, <4>2, <4>3
      <3>2. \A i \in 1..(q - 1) : RangeNames[i] \in RangeStreams /\ feof'[RangeNames[i]]
        <4>1. \A i \in 1..(q - 1) : i = fp \/ i \in 1..(fp - 1)
          BY <2>5, <2>7
        <4>2. feof'[s]
          BY <1>6, <1>8
        <4>3. \A i \in 1..(fp - 1) : RangeNames[i] \in RangeStreams /\ feof'[RangeNames[i]]
          BY <1>6, <2>2, Zenon DEF ReaderPlace
        <4>4. RangeNames[fp] \in RangeStreams /\ feof'[RangeNames[fp]]
          BY <1>3, <2>6, <4>2
        <4> QED BY <4>1, <4>3, <4>4, Zenon
      <3>3. \A t \in RangeStreams :
                (\A i \in 1..n : i <= q => RangeNames[i] # t) => r_pos'[t] = 0
        <4>1. \A i \in 1..n : i <= fp => i <= q
          BY <2>5, <2>7
        <4> QED BY <1>1, <2>2, <2>3, <4>1 DEF ReaderPlace
      <3> QED BY <1>2, <2>3, <2>7, <3>1, <3>2, <3>3 DEF ReaderPlace
    <2>9. ASSUME NEW f, RangeFrom(f) PROVE RangeFrom(f)'
      <3>1. \A x : Seen(x)' = Seen(x)
        BY <1>1, <1>2 DEF Seen
      <3>2. Of(RangeNames[f])' = Of(RangeNames[f])
        <4>1. Piped' = Piped
          BY DEF Piped, vars, output
        <4> QED BY <1>2, <4>1 DEF Of
      <3> QED BY <1>1, <1>2, <1>6, <2>9, <3>1, <3>2 DEF RangeFrom
    <2>10. IF has_range_p THEN \E f : RangeFrom(f) ELSE \A t \in RangeStreams : r_pos[t] = 0
      BY <1>1, <2>1 DEF RangeInv
    <2> QED BY <1>1, <2>8, <2>9, <2>10
  <1>9. RangeInv'
    BY <1>1, <1>8 DEF RangeInv
  <1> QED BY <1>7, <1>9


\* A block: the n numbers vec of the input s, after the first p.
Taken(s, p, n, vec) ==
    /\ r_at = "read" /\ s = RR!fp /\ ~feof[s] /\ p = r_pos[s]
    /\ p + n <= Len(Of(s)) /\ Len(Of(s)) \in Nat /\ Len(vec) = n
    /\ \A k \in 1..n : vec[k] = Of(s)[p + k]
    /\ RR!Extend(vec)
    /\ r_pos' = [r_pos EXCEPT ![s] = @ + n]
    /\ \/ UNCHANGED feof
       \/ /\ p + n = Len(Of(s)) /\ (s = RangeStdIn => at \in Exits)
          /\ feof' = [feof EXCEPT ![s] = TRUE]

LEMMA BlockRead ==
    ASSUME StreamInv, Piped \in Seq(Int), ReaderInv, UNCHANGED vars, RR!ReadBlock
    PROVE  \E s \in RangeStreams, p \in Nat, n \in Nat \ {0}, vec \in Seq(Number) :
               Taken(s, p, n, vec)
  <1>1. PICK s \in RangeStreams : s = RR!fp /\ ~feof[s] /\ r_at = "read"
    BY DEF ReaderInv, RR!ReadBlock
  <1>2. PICK d \in Seq(Number) : d = Of(s) /\ RR!contents = d
    BY <1>1, InputType DEF RR!contents, Of, Piped
  <1>3. PICK l \in Nat, p \in Nat : l = Len(d) /\ p = r_pos[s]
    BY <1>1, LenProperties DEF ReaderInv
  <1>4. /\ RR!available = l - p /\ (RR!complete => (s = RangeStdIn => at \in Exits))
    BY <1>1, <1>2, <1>3 DEF RR!available, RR!complete
  <1>5. PICK n \in 1..RR!buf_elts :
            /\ n <= l - p
            /\ RR!Extend(SubSeq(d, p + 1, p + n))
            /\ r_pos' = [r_pos EXCEPT ![s] = @ + n]
            /\ \/ UNCHANGED feof
               \/ /\ n = l - p /\ (s = RangeStdIn => at \in Exits)
                  /\ feof' = [feof EXCEPT ![s] = TRUE]
    BY <1>1, <1>2, <1>3, <1>4 DEF RR!ReadBlock
  <1>6. PICK m \in Nat \ {0} : m = n
    OBVIOUS
  <1>7. p + m <= l /\ (m = l - p => p + m = l)
    BY <1>3, <1>5, <1>6
  <1>8. PICK vec \in Seq(Number) :
            /\ vec = SubSeq(d, p + 1, p + m) /\ Len(vec) = m
            /\ \A k \in 1..m : vec[k] = d[p + k]
    <2>1. p + 1 \in Nat /\ p + m \in Nat /\ p + 1 >= 1 /\ p + m <= Len(d)
      BY <1>3, <1>7
    <2>2. SubSeq(d, p + 1, p + m) \in Seq(Number) /\ Len(SubSeq(d, p + 1, p + m)) = m
      BY <2>1
    <2>3. \A k \in 1..m : SubSeq(d, p + 1, p + m)[k] = d[p + k]
      BY <2>1
    <2> QED BY <2>2, <2>3
  <1>9. Taken(s, p, m, vec)
    BY <1>1, <1>2, <1>3, <1>5, <1>6, <1>7, <1>8 DEF Taken
  <1> QED BY <1>9

\* A block more, and the range is that of what has been read then.
LEMMA BlockExtends ==
    ASSUME StreamInv, Piped \in Seq(Int), ReaderInv, RangeInv, UNCHANGED vars, RR!ReadBlock
    PROVE  ReaderInv' /\ RangeInv'
  <1>1. PICK s \in RangeStreams, p \in Nat, n \in Nat \ {0}, vec \in Seq(Number) :
               /\ r_at = "read" /\ s = RR!fp /\ ~feof[s] /\ p = r_pos[s]
               /\ p + n <= Len(Of(s)) /\ Len(Of(s)) \in Nat /\ Len(vec) = n
               /\ \A k \in 1..n : vec[k] = Of(s)[p + k]
               /\ RR!Extend(vec)
               /\ r_pos' = [r_pos EXCEPT ![s] = @ + n]
               /\ \/ UNCHANGED feof
                  \/ /\ p + n = Len(Of(s)) /\ (s = RangeStdIn => at \in Exits)
                     /\ feof' = [feof EXCEPT ![s] = TRUE]
    <2>1. PICK s \in RangeStreams, p \in Nat, n \in Nat \ {0}, vec \in Seq(Number) :
              Taken(s, p, n, vec)
      BY BlockRead
    <2> QED BY <2>1, ZenonT(30) DEF Taken
  <1>2. UNCHANGED <<r_options, r_args, r_files, printed, r_no_memory, io_error, r_at>>
    BY DEF RR!ReadBlock, RR!commandLine
  <1>3. (\A t : Of(t)' = Of(t)) /\ RangeNames' = RangeNames /\ at' = at
    BY <1>2, ReaderStands
  <1>4. \A t \in RangeStreams : r_pos[t] \in Nat /\ r_pos'[t] = IF t = s THEN p + n ELSE r_pos[t]
    BY <1>1 DEF ReaderInv
  <1>5. \A t \in RangeStreams : /\ feof[t] => feof'[t] /\ t # s
                                /\ feof'[t] => feof[t] \/ t = s
    BY <1>1 DEF ReaderInv
  <1>6. has_range_p' = TRUE
    BY <1>1 DEF RR!Extend
  <1>7. ReaderInv'
    <2>1. r_pos' \in [RangeStreams -> Nat] /\ feof' \in [RangeStreams -> BOOLEAN]
      <3>1. p + n \in Nat
        BY <1>1
      <3>2. r_pos' \in [RangeStreams -> Nat]
        BY <1>1, <3>1 DEF ReaderInv
      <3>3. feof' \in [RangeStreams -> BOOLEAN]
        BY <1>1, Zenon DEF ReaderInv
      <3> QED BY <3>2, <3>3
    <2>2. \A t \in RangeStreams : r_pos'[t] <= Len(Of(t)')
      BY <1>1, <1>3, <1>4 DEF ReaderInv
    <2>3. \A t \in RangeStreams :
              feof'[t] => r_pos'[t] = Len(Of(t)') /\ (t = RangeStdIn => at' \in Exits)
      <3> SUFFICES ASSUME NEW t \in RangeStreams, feof'[t]
                   PROVE  r_pos'[t] = Len(Of(t)) /\ (t = RangeStdIn => at \in Exits)
        BY <1>3
      <3>1. CASE t = s
        <4>1. p + n = Len(Of(s)) /\ (s = RangeStdIn => at \in Exits)
          BY <1>1, <3>1
        <4> QED BY <1>4, <3>1, <4>1
      <3>2. CASE t # s
        BY <1>4, <1>5, <3>2 DEF ReaderInv
      <3> QED BY <3>1, <3>2
    <2>4. RR!fp' = RR!fp
      BY <1>2 DEF RR!fp
    <2> QED BY <1>2, <1>6, <2>1, <2>2, <2>3, <2>4 DEF ReaderInv
  <1>8. \A x : Seen(x)' <=> Seen(x) \/ \E k \in 1..n : vec[k] = x
    <2> SUFFICES ASSUME NEW x PROVE Seen(x)' <=> Seen(x) \/ \E k \in 1..n : vec[k] = x
      OBVIOUS
    <2>1. ASSUME Seen(x)' PROVE Seen(x) \/ \E k \in 1..n : vec[k] = x
      <3>1. PICK t \in RangeStreams : \E k \in 1..r_pos'[t] : Of(t)[k] = x
        BY <1>3, <2>1 DEF Seen
      <3>4. PICK k \in 1..r_pos'[t] : Of(t)[k] = x
        BY <3>1
      <3>2. CASE k \in 1..r_pos[t]
        BY <3>2, <3>4 DEF Seen
      <3>3. CASE k \notin 1..r_pos[t]
        <4>1. t = s /\ k \in 1..(p + n) /\ k \notin 1..p
          BY <1>1, <1>4, <3>3
        <4>2. k - p \in 1..n /\ p + (k - p) = k
          BY <4>1
        <4>3. vec[k - p] = x
          BY <1>1, <3>4, <4>1, <4>2
        <4> QED BY <4>2, <4>3
      <3> QED BY <3>2, <3>3
    <2>2. ASSUME Seen(x) PROVE Seen(x)'
      <3>1. PICK t \in RangeStreams : \E k \in 1..r_pos[t] : Of(t)[k] = x
        BY <2>2 DEF Seen
      <3>3. PICK k \in 1..r_pos[t] : Of(t)[k] = x
        BY <3>1
      <3>2. k \in 1..r_pos'[t]
        BY <1>1, <1>4, <3>3
      <3> QED BY <1>3, <3>2, <3>3 DEF Seen
    <2>3. ASSUME NEW k \in 1..n, vec[k] = x PROVE Seen(x)'
      <3>1. Of(s)[p + k] = x /\ p + k \in 1..(p + n)
        BY <1>1, <2>3
      <3>2. p + k \in 1..r_pos'[s]
        BY <1>4, <3>1
      <3> QED BY <1>3, <3>1, <3>2 DEF Seen
    <2> QED BY <2>1, <2>2, <2>3
  <1>9. \A k \in 1..n : vec[k] \in Number
    BY <1>1
  <1>10. \A f : Of(RangeNames[f])' = Of(RangeNames[f])
    <2>1. Piped' = Piped
      BY DEF Piped, vars, output
    <2> QED BY <1>3, <2>1 DEF Of
  <1>11. ASSUME ~io_error', ~r_no_memory'
         PROVE  /\ \E fp : ReaderPlace(fp)'
                /\ \E f : RangeFrom(f)'
    <2>1. ~io_error /\ ~r_no_memory
      BY <1>2, <1>11
    <2>2. PICK fp : ReaderPlace(fp)
      BY <1>1, <2>1 DEF RangeInv
    <2>3. PICK l \in Nat : l = Len(RangeNames)
      BY NamesType
    <2>4. fp \in 1..l /\ s = RangeNames[fp]
      <3>1. PICK fs \in Seq(RangeStreams \cup {NoFile}) :
                fs = r_files /\ fs # << >> /\ s = fs[1]
        BY <1>1 DEF ReaderInv, RR!fp
      <3>2. Len(fs) > 0 /\ Len(fs) \in Nat /\ Len(fs) = l - fp + 1 /\ fp \in 1..(l + 1)
        BY <2>2, <2>3, <3>1 DEF ReaderPlace
      <3>3. fp \in 1..l /\ 1 \in 1..Len(fs) /\ fp + 1 - 1 = fp
        BY <2>3, <3>2
      <3>4. fs[1] = RangeNames[fp + 1 - 1]
        BY <2>2, <3>1, <3>3 DEF ReaderPlace
      <3> QED BY <3>1, <3>3, <3>4
    <2>5. ReaderPlace(fp)'
      <3>1. \A i \in 1..(fp - 1) : RangeNames[i] \in RangeStreams /\ feof'[RangeNames[i]]
        BY <1>5, <2>2, Zenon DEF ReaderPlace
      <3>2. \A t \in RangeStreams :
                (\A i \in 1..l : i <= fp => RangeNames[i] # t) => r_pos'[t] = 0
        <4>1. fp <= fp
          BY <2>3, <2>4
        <4> QED BY <1>4, <2>2, <2>3, <2>4, <4>1 DEF ReaderPlace
      <3> QED BY <1>2, <1>3, <2>2, <2>3, <3>1, <3>2 DEF ReaderPlace
    <2>6. CASE has_range_p
      <3>1. PICK f : RangeFrom(f)
        BY <1>1, <2>1, <2>6 DEF RangeInv
      <3>2. PICK r : r = RR!Extended(min, max, vec) /\ min' = r[1] /\ max' = r[2]
        BY <1>1, <2>6 DEF RR!Extend
      <3>3. r_pos'[RangeNames[f]] >= 1 /\ RangeNames[f] \in RangeStreams /\ f \in 1..Len(RangeNames)
        BY <1>1, <1>4, <3>1 DEF RangeFrom
      <3>4. \A i \in 1..(f - 1) :
                RangeNames[i] \in RangeStreams /\ feof'[RangeNames[i]] /\ r_pos'[RangeNames[i]] = 0
        <4> SUFFICES ASSUME NEW i \in 1..(f - 1)
                     PROVE  /\ RangeNames[i] \in RangeStreams /\ feof'[RangeNames[i]]
                            /\ r_pos'[RangeNames[i]] = 0
          OBVIOUS
        <4>1. RangeNames[i] \in RangeStreams /\ feof[RangeNames[i]] /\ r_pos[RangeNames[i]] = 0
          BY <3>1 DEF RangeFrom
        <4>2. feof'[RangeNames[i]] /\ RangeNames[i] # s
          BY <1>5, <4>1
        <4>3. r_pos'[RangeNames[i]] = r_pos[RangeNames[i]]
          BY <1>4, <4>1, <4>2
        <4> QED BY <4>1, <4>2, <4>3
      <3>5. CASE Of(RangeNames[f])[1] = NaN
        <4>1. min = NaN /\ max = NaN /\ min \in Number /\ max \in Number
          BY <3>1, <3>5 DEF RangeFrom, Number
        <4>2. r[1] = NaN /\ r[2] = NaN
          BY <3>2, <4>1, ExtendedRange
        <4> QED BY <1>3, <1>10, <2>5, <3>2, <3>3, <3>4, <3>5, <4>2 DEF RangeFrom
      <3>6. CASE Of(RangeNames[f])[1] # NaN
        <4>1. /\ min \in Int /\ max \in Int /\ min \in Number /\ max \in Number
              /\ Seen(min) /\ Seen(max) /\ \A x \in Int : Seen(x) => min <= x /\ x <= max
          BY <3>1, <3>6 DEF RangeFrom, Number
        <4>2. /\ r[1] \in Int /\ r[2] \in Int /\ r[1] <= min /\ max <= r[2]
              /\ \A k \in 1..Len(vec) : vec[k] \in Int => r[1] <= vec[k] /\ vec[k] <= r[2]
              /\ r[1] = min \/ \E k \in 1..Len(vec) : r[1] = vec[k]
              /\ r[2] = max \/ \E k \in 1..Len(vec) : r[2] = vec[k]
          BY <3>2, <4>1, ExtendedRange
        <4>3. Seen(r[1])' /\ Seen(r[2])'
          BY <1>1, <1>8, <4>1, <4>2
        <4>4. ASSUME NEW x \in Int, Seen(x)' PROVE r[1] <= x /\ x <= r[2]
          <5>1. CASE Seen(x)
            <6>1. min <= x /\ x <= max
              BY <4>1, <5>1
            <6> QED BY <4>1, <4>2, <6>1
          <5>2. CASE \E k \in 1..n : vec[k] = x
            BY <1>1, <4>2, <5>2
          <5> QED BY <1>8, <4>4, <5>1, <5>2
        <4>5. Seen(min)' /\ Seen(max)'
          BY <3>2, <4>3 DEF Seen
        <4> QED BY <1>3, <1>10, <2>5, <3>2, <3>3, <3>4, <3>6, <4>2, <4>4, <4>5 DEF RangeFrom
      <3> QED BY <3>5, <3>6
    <2>7. CASE ~has_range_p
      <3>1. \A t \in RangeStreams : r_pos[t] = 0
        BY <1>1, <2>1, <2>7 DEF RangeInv
      <3>2. p = 0 /\ vec[1] = Of(s)[1] /\ 1 \in 1..n /\ Head(vec) = vec[1]
        <4>1. p = 0 /\ 1 \in 1..n /\ p + 1 = 1
          BY <1>1, <3>1
        <4> QED BY <1>1, <4>1
      <3>3. PICK tl \in Seq(Number) : /\ tl = Tail(vec) /\ Len(tl) = n - 1
                                      /\ \A k \in 1..(n - 1) : tl[k] = vec[k + 1]
        <4>1. vec # << >>
          BY <1>1
        <4>2. Tail(vec) \in Seq(Number)
          BY <4>1
        <4>3. Len(Tail(vec)) = n - 1 /\ \A k \in 1..(n - 1) : Tail(vec)[k] = vec[k + 1]
          BY <1>1, <4>1
        <4> QED BY <4>2, <4>3
      <3>4. PICK lo \in Number : lo = vec[1]
        BY <1>9, <3>2
      <3>5. PICK r : r = RR!Extended(lo, lo, tl) /\ min' = r[1] /\ max' = r[2]
        BY <1>1, <2>7, <3>2, <3>3, <3>4 DEF RR!Extend
      <3>6. \A x : Seen(x)' <=> \E k \in 1..n : vec[k] = x
        <4>1. \A x : ~Seen(x)
          BY <3>1 DEF Seen
        <4> QED BY <1>8, <4>1
      <3>7. r_pos'[RangeNames[fp]] >= 1 /\ RangeNames[fp] \in RangeStreams
        <4>1. p + n >= 1
          BY <1>1
        <4> QED BY <1>4, <2>4, <4>1
      <3>8. \A i \in 1..(fp - 1) :
                RangeNames[i] \in RangeStreams /\ feof'[RangeNames[i]] /\ r_pos'[RangeNames[i]] = 0
        <4> SUFFICES ASSUME NEW i \in 1..(fp - 1)
                     PROVE  /\ RangeNames[i] \in RangeStreams /\ feof'[RangeNames[i]]
                            /\ r_pos'[RangeNames[i]] = 0
          OBVIOUS
        <4>1. RangeNames[i] \in RangeStreams /\ feof[RangeNames[i]]
          BY <2>2 DEF ReaderPlace
        <4>2. feof'[RangeNames[i]] /\ RangeNames[i] # s
          BY <1>5, <4>1
        <4>3. r_pos'[RangeNames[i]] = r_pos[RangeNames[i]]
          BY <1>4, <4>1, <4>2
        <4> QED BY <3>1, <4>1, <4>2, <4>3
      <3>9. CASE lo = NaN
        <4>1. r[1] = NaN /\ r[2] = NaN
          BY <3>5, <3>9, ExtendedRange
        <4> QED BY <1>3, <1>10, <2>3, <2>4, <2>5, <3>2, <3>4, <3>5, <3>7, <3>8, <3>9, <4>1
              DEF RangeFrom
      <3>10. CASE lo # NaN
        <4>1. lo \in Int
          BY <3>10 DEF Number
        <4>2. /\ r[1] \in Int /\ r[2] \in Int /\ r[1] <= lo /\ lo <= r[2]
              /\ \A k \in 1..Len(tl) : tl[k] \in Int => r[1] <= tl[k] /\ tl[k] <= r[2]
              /\ r[1] = lo \/ \E k \in 1..Len(tl) : r[1] = tl[k]
              /\ r[2] = lo \/ \E k \in 1..Len(tl) : r[2] = tl[k]
          BY <3>5, <4>1, ExtendedRange
        <4>3. /\ \A k \in 1..(n - 1) : k + 1 \in 1..n
              /\ \A k \in 1..n : k = 1 \/ (k - 1 \in 1..(n - 1) /\ (k - 1) + 1 = k)
          OBVIOUS
        <4>4. Seen(r[1])' /\ Seen(r[2])'
          <5>1. \A k \in 1..Len(tl) : \E j \in 1..n : vec[j] = tl[k]
            BY <3>3, <4>3
          <5>2. \E j \in 1..n : vec[j] = lo
            BY <3>2, <3>4
          <5> QED BY <3>6, <4>2, <5>1, <5>2
        <4>5. ASSUME NEW x \in Int, Seen(x)' PROVE r[1] <= x /\ x <= r[2]
          <5>1. PICK k \in 1..n : vec[k] = x
            BY <3>6, <4>5
          <5>2. CASE k = 1
            BY <3>4, <4>2, <5>1, <5>2
          <5>3. CASE k - 1 \in 1..(n - 1) /\ (k - 1) + 1 = k
            <6>1. tl[k - 1] = x /\ k - 1 \in 1..Len(tl)
              BY <3>3, <5>1, <5>3
            <6> QED BY <4>2, <6>1
          <5> QED BY <4>3, <5>2, <5>3
        <4>6. Seen(min)' /\ Seen(max)'
          BY <3>5, <4>4 DEF Seen
        <4> QED BY <1>3, <1>10, <2>3, <2>4, <2>5, <3>2, <3>4, <3>5, <3>7, <3>8, <3>10, <4>2, <4>5,
                   <4>6 DEF RangeFrom
      <3> QED BY <3>9, <3>10
    <2> QED BY <2>6, <2>7
  <1>12. RangeInv'
    BY <1>1, <1>2, <1>6, <1>11 DEF RangeInv
  <1> QED BY <1>7, <1>12


LEMMA ReaderKept ==
    ASSUME CommandLineInv, StreamInv, ReaderInv, RangeInv, [PipelineNext]_<<vars, r_vars>>
    PROVE  ReaderInv' /\ RangeInv'
  <1>1. CASE UNCHANGED r_vars
    BY <1>1, WriterSteps, ReaderWaits
  <1>2. CASE RR!Next /\ UNCHANGED vars
    <2>1. Piped \in Seq(Int)
      <3>1. WriterStep
        BY <1>2 DEF WriterStep
      <3> QED BY <3>1, PipeGrows
    <2> QED BY <1>2, <2>1, QuietReader, InputEnds, BlockExtends DEF RR!Next
  <1> QED BY <1>1, <1>2 DEF PipelineNext, Write, Read, BrokenPipe

LEMMA ReaderInit == PipelineInit => ReaderInv /\ RangeInv
  <1> SUFFICES ASSUME PipelineInit PROVE ReaderInv /\ RangeInv
    OBVIOUS
  <1>1. /\ \E c \in RangeCommands : r_options = c.options /\ r_args = c.files
        /\ r_files = << >> /\ r_pos = [s \in RangeStreams |-> 0]
        /\ feof = [s \in RangeStreams |-> FALSE]
        /\ has_range_p = FALSE /\ r_at = "options"
    BY DEF PipelineInit, RR!Init
  <1>2. \A s \in RangeStreams : Len(Of(s)) \in Nat
    <2>1. out = << >> /\ sent = 0
      BY DEF PipelineInit, Init
    <2>2. PICK o \in Seq(Int) : o = << >>
      <3>1. << >> \in Seq(Int)
        OBVIOUS
      <3> QED BY <3>1, Zenon
    <2>3. SubSeq(o, 1, 0) \in Seq(Int)
      BY <2>2
    <2>4. Piped \in Seq(Int)
      BY <2>1, <2>2, <2>3 DEF Piped
    <2> QED BY <2>4, InputType
  <1>3. r_pos \in [RangeStreams -> Nat] /\ \A s \in RangeStreams : r_pos[s] = 0
    BY <1>1
  <1>4. \A s \in RangeStreams : r_pos[s] <= Len(Of(s))
    BY <1>2, <1>3
  <1>5. feof \in [RangeStreams -> BOOLEAN] /\ \A s \in RangeStreams : feof[s] = FALSE
    BY <1>1, Zenon
  <1>6. r_files \in Seq(RangeStreams \cup {NoFile})
    BY <1>1
  <1>7. ReaderInv
    BY <1>1, <1>3, <1>4, <1>5, <1>6 DEF ReaderInv
  <1>8. RangeInv
    BY <1>1, <1>3, <1>5 DEF RangeInv
  <1> QED BY <1>7, <1>8

\* What there is to read at the end has been read.
LEMMA AllSeen ==
    ASSUME ReaderInv, RangeInv, r_at = "ok", ~io_error, ~r_no_memory
    PROVE  /\ \A i \in 1..Len(RangeNames) :
                  /\ RangeNames[i] \in RangeStreams
                  /\ r_pos[RangeNames[i]] = Len(Of(RangeNames[i]))
                  /\ RangeNames[i] = RangeStdIn => at \in Exits
           /\ \A s \in RangeStreams :
                  (\A i \in 1..Len(RangeNames) : RangeNames[i] # s) => r_pos[s] = 0
           /\ IF has_range_p THEN printed = <<min, max>> /\ \E f : RangeFrom(f)
              ELSE \A s \in RangeStreams : r_pos[s] = 0
  <1>1. PICK fp : ReaderPlace(fp)
    BY DEF RangeInv
  <1>2. PICK n \in Nat : n = Len(RangeNames)
    BY NamesType
  <1>3. fp = n + 1
    <2>1. r_files = << >> /\ Len(<< >>) = 0
      BY DEF RangeInv
    <2>2. 0 = n - fp + 1 /\ fp \in 1..(n + 1)
      BY <1>1, <1>2, <2>1 DEF ReaderPlace
    <2> QED BY <2>2
  <1>4. \A i \in 1..n : i \in 1..(fp - 1) /\ i <= fp
    BY <1>3
  <1>5. \A i \in 1..n : RangeNames[i] \in RangeStreams /\ feof[RangeNames[i]]
    BY <1>1, <1>4, Zenon DEF ReaderPlace
  <1>6. \A s \in RangeStreams : (\A i \in 1..n : RangeNames[i] # s) => r_pos[s] = 0
    BY <1>1, <1>2, <1>4 DEF ReaderPlace
  <1> QED BY <1>2, <1>5, <1>6 DEF RangeInv, ReaderInv

\* The numbers that there are.
RangePieces ==
    [i \in DOMAIN RangeNames |->
        IF \E j \in 1..(i - 1) : RangeNames[j] = RangeNames[i] THEN << >> ELSE Of(RangeNames[i])]

LEMMA NumbersLaid ==
    ASSUME Piped \in Seq(Int), ReaderInv,
           \A i \in 1..Len(RangeNames) : RangeNames[i] \in RangeStreams
    PROVE  /\ RR!Numbers = FlattenSeq(RangePieces) /\ RR!Numbers \in Seq(Number)
           /\ Len(RangePieces) = Len(RangeNames)
           /\ \A i \in 1..Len(RangeNames) :
                  RangePieces[i] = IF \E j \in 1..(i - 1) : RangeNames[j] = RangeNames[i]
                                     THEN << >> ELSE Of(RangeNames[i])
           /\ \E off : Laid(RangePieces, off)
  <1>1. PICK n \in Nat \ {0} : n = Len(RangeNames) /\ DOMAIN RangeNames = 1..n
    BY NamesType
  <1> DEFINE S == Seq(Number)
             Piece(i) == IF \E j \in 1..(i - 1) : RangeNames[j] = RangeNames[i]
                           THEN << >> ELSE Of(RangeNames[i])
  <1>2. \A i \in 1..n : Piece(i) \in S
    <2> SUFFICES ASSUME NEW i \in 1..n PROVE Piece(i) \in S
      OBVIOUS
    <2>1. Of(RangeNames[i]) \in S
      BY <1>1, InputType
    <2>2. << >> \in S
      OBVIOUS
    <2> QED BY <2>1, <2>2
  <1> HIDE DEF S
  <1>3. RangePieces = [i \in 1..n |-> Piece(i)]
    BY <1>1 DEF RangePieces
  <1> HIDE DEF Piece
  <1>4. RangePieces \in [1..n -> S] /\ \A i \in 1..n : RangePieces[i] = Piece(i)
    BY <1>2, <1>3
  <1>5. PICK s \in Seq(S) : s = RangePieces /\ Len(s) = n
    BY <1>4
  <1>6. RR!Numbers = FlattenSeq(RangePieces)
    BY Zenon DEF RR!Numbers, RangePieces, RangeNames, Of, Piped, RR!FlattenSeq, FlattenSeq
  <1>7. FlattenSeq(s) \in S /\ \E off : Laid(s, off)
    <2>1. s \in Seq(Seq(Number)) /\ Len(s) > 0
      BY <1>1, <1>5 DEF S
    <2> QED BY <2>1, FlattenLayout DEF S
  <1> USE DEF S, Piece
  <1> QED BY <1>1, <1>4, <1>5, <1>6, <1>7

\* What rawrange prints is the range of all of the numbers that there are, or
\* NaN if that is the first of them, whatever the blocks and the files
\* (rawrange.c:247-279, numrange.c:25-42).
LEMMA PrintedIsRange ==
    ASSUME Piped \in Seq(Int), ReaderInv, RangeInv PROVE PrintsRange
  <1> SUFFICES ASSUME r_at = "ok", ~io_error, ~r_no_memory, RR!Numbers # << >>
               PROVE  LET numbers == RR!ToSet(RR!Numbers) \ {NaN}
                      IN  IF Head(RR!Numbers) = NaN THEN printed = <<NaN, NaN>>
                          ELSE /\ {printed[1], printed[2]} \subseteq numbers
                               /\ \A x \in numbers : printed[1] <= x /\ x <= printed[2]
    BY DEF PrintsRange, RR!PrintsRange
  <1>1. PICK n \in Nat \ {0} : n = Len(RangeNames)
    BY NamesType
  <1>2. /\ \A i \in 1..n : RangeNames[i] \in RangeStreams
                           /\ r_pos[RangeNames[i]] = Len(Of(RangeNames[i]))
        /\ \A s \in RangeStreams : (\A i \in 1..n : RangeNames[i] # s) => r_pos[s] = 0
        /\ IF has_range_p THEN printed = <<min, max>> /\ \E f : RangeFrom(f)
           ELSE \A s \in RangeStreams : r_pos[s] = 0
    BY <1>1, AllSeen
  <1>3. PICK all \in Seq(Number) : all = RR!Numbers /\ all = FlattenSeq(RangePieces) /\ all # << >>
    BY <1>1, <1>2, NumbersLaid
  <1>4. PICK off : Laid(RangePieces, off)
    BY <1>1, <1>2, NumbersLaid
  <1>5. /\ Len(RangePieces) = n
        /\ \A i \in 1..n : RangePieces[i] = IF \E j \in 1..(i - 1) : RangeNames[j] = RangeNames[i]
                                              THEN << >> ELSE Of(RangeNames[i])
    BY <1>1, <1>2, NumbersLaid
  <1>6. /\ off \in [1..n -> Nat] /\ off[1] = 0
        /\ \A i \in 2..n : off[i] = off[i - 1] + Len(RangePieces[i - 1])
        /\ \A i \in 1..n : \A k \in 1..Len(RangePieces[i]) :
               off[i] + k \in 1..Len(all) /\ all[off[i] + k] = RangePieces[i][k]
        /\ \A j \in 1..Len(all) :
               \E i \in 1..n : \E k \in 1..Len(RangePieces[i]) : j = off[i] + k
    BY <1>3, <1>4, <1>5 DEF Laid
  <1>7. PICK m \in Nat \ {0} : m = Len(all) /\ DOMAIN all = 1..m /\ Head(all) = all[1]
    BY <1>3
  <1>8. ASSUME NEW i \in 1..n, NEW k \in 1..Len(RangePieces[i])
        PROVE  /\ RangePieces[i] = Of(RangeNames[i]) /\ k \in 1..r_pos[RangeNames[i]]
               /\ \A j \in 1..(i - 1) : RangeNames[j] # RangeNames[i]
    <2>1. RangePieces[i] # << >>
      <3>1. Len(<< >>) = 0 /\ 1..0 = {}
        OBVIOUS
      <3> QED BY <3>1
    <2> QED BY <1>2, <1>5, <2>1
  <1>9. \A j \in 1..m : Seen(all[j])
    <2> SUFFICES ASSUME NEW j \in 1..m PROVE Seen(all[j])
      OBVIOUS
    <2>1. PICK i \in 1..n : \E k \in 1..Len(RangePieces[i]) : j = off[i] + k
      BY <1>6, <1>7
    <2>2. PICK k \in 1..Len(RangePieces[i]) : j = off[i] + k
      BY <2>1
    <2>3. all[j] = Of(RangeNames[i])[k]
      <3>1. all[off[i] + k] = RangePieces[i][k]
        BY <1>6
      <3>2. RangePieces[i] = Of(RangeNames[i])
        BY <1>8
      <3> QED BY <2>2, <3>1, <3>2
    <2> QED BY <1>2, <1>8, <2>3 DEF Seen
  <1>10. \A x : Seen(x) => \E j \in 1..m : all[j] = x
    <2> SUFFICES ASSUME NEW x, Seen(x) PROVE \E j \in 1..m : all[j] = x
      OBVIOUS
    <2>1. PICK s \in RangeStreams : \E k \in 1..r_pos[s] : Of(s)[k] = x
      BY DEF Seen
    <2>2. PICK k \in 1..r_pos[s] : Of(s)[k] = x
      BY <2>1
    <2>3. {i \in 1..n : RangeNames[i] = s} # {}
      <3>1. r_pos[s] # 0
        BY <2>2
      <3> QED BY <1>2, <3>1
    <2>4. PICK i \in 1..n : RangeNames[i] = s /\ \A j \in 1..n : RangeNames[j] = s => i <= j
      <3> DEFINE A == {i \in 1..n : RangeNames[i] = s}
      <3>1. A \in SUBSET Nat /\ A # {}
        BY <2>3
      <3> HIDE DEF A
      <3>2. PICK i \in A : \A j \in A : i <= j
        BY <3>1, LeastNumber
      <3> QED BY <3>2 DEF A
    <2>5. ~ \E j \in 1..(i - 1) : RangeNames[j] = RangeNames[i]
      <3>1. \A j \in 1..(i - 1) : j \in 1..n /\ ~(i <= j)
        OBVIOUS
      <3> QED BY <2>4, <3>1
    <2>6. RangePieces[i] = Of(s) /\ k \in 1..Len(RangePieces[i])
      BY <1>2, <1>5, <2>4, <2>5
    <2>7. off[i] + k \in 1..m /\ all[off[i] + k] = RangePieces[i][k]
      <3>1. k \in 1..Len(RangePieces[i])
        BY <2>6
      <3> QED BY <1>6, <1>7, <3>1
    <2>8. all[off[i] + k] = x
      BY <2>2, <2>6, <2>7
    <2> QED BY <2>7, <2>8
  <1>11. has_range_p
    <2>1. Seen(all[1])
      BY <1>7, <1>9
    <2>2. \E s \in RangeStreams : r_pos[s] # 0
      BY <2>1 DEF Seen
    <2> QED BY <1>2, <2>2
  <1>12. PICK f : RangeFrom(f)
    BY <1>2, <1>11
  <1>13. printed = <<min, max>> /\ printed[1] = min /\ printed[2] = max
    BY <1>2, <1>11
  <1>14. all[1] = Of(RangeNames[f])[1]
    <2>1. /\ f \in 1..n /\ RangeNames[f] \in RangeStreams /\ r_pos[RangeNames[f]] >= 1
          /\ \A i \in 1..(f - 1) : RangeNames[i] \in RangeStreams /\ r_pos[RangeNames[i]] = 0
      BY <1>1, <1>12 DEF RangeFrom
    <2>2. ~ \E j \in 1..(f - 1) : RangeNames[j] = RangeNames[f]
      BY <2>1
    <2>3. RangePieces[f] = Of(RangeNames[f]) /\ 1 \in 1..Len(RangePieces[f])
      <3>1. r_pos[RangeNames[f]] \in Nat
        BY <2>1 DEF ReaderInv
      <3> QED BY <1>2, <1>5, <2>1, <2>2, <3>1
    <2>4. \A i \in 1..(f - 1) : Len(RangePieces[i]) = 0
      <3> SUFFICES ASSUME NEW i \in 1..(f - 1) PROVE Len(RangePieces[i]) = 0
        OBVIOUS
      <3>1. i \in 1..n /\ Len(<< >>) = 0
        BY <2>1
      <3>2. Len(Of(RangeNames[i])) = 0
        BY <1>2, <2>1, <3>1
      <3> QED BY <1>5, <3>1, <3>2
    <2>5. off[f] = 0
      <3> DEFINE T == {i \in Nat : i <= f => off[i] = 0}
      <3>1. 1 \in T
        BY <1>6
      <3>2. ASSUME NEW i \in Nat, i >= 1, i \in T PROVE i + 1 \in T
        <4> SUFFICES ASSUME i + 1 <= f PROVE off[i + 1] = 0
          OBVIOUS
        <4>1. PICK q \in Nat : q = i + 1 /\ q - 1 = i /\ q \in 2..n /\ i \in 1..(f - 1) /\ i <= f
          BY <2>1, <3>2
        <4>2. off[q] = off[i] + Len(RangePieces[i]) /\ off[i] = 0
          BY <1>6, <3>2, <4>1
        <4> QED BY <2>4, <4>1, <4>2
      <3> HIDE DEF T
      <3>3. \A i \in Nat : i >= 1 => i \in T
        BY <3>1, <3>2, SetInduction
      <3>4. f \in T
        BY <2>1, <3>3
      <3> QED BY <2>1, <3>4 DEF T
    <2>6. all[off[f] + 1] = RangePieces[f][1] /\ off[f] + 1 = 1
      BY <1>6, <2>1, <2>3, <2>5
    <2> QED BY <2>3, <2>6
  <1>15. RR!ToSet(RR!Numbers) = {all[j] : j \in 1..m}
    BY <1>3, <1>7 DEF RR!ToSet
  <1>16. CASE all[1] = NaN
    <2>1. printed = <<NaN, NaN>>
      BY <1>12, <1>13, <1>14, <1>16 DEF RangeFrom
    <2> QED BY <1>3, <1>7, <1>16, <2>1
  <1>17. CASE all[1] # NaN
    <2>1. /\ min \in Int /\ max \in Int /\ Seen(min) /\ Seen(max)
          /\ \A x \in Int : Seen(x) => min <= x /\ x <= max
      BY <1>12, <1>14, <1>17 DEF RangeFrom
    <2>2. min # NaN /\ max # NaN
      BY <2>1, FormatsAssumption
    <2>3. {min, max} \subseteq RR!ToSet(RR!Numbers) \ {NaN}
      BY <1>10, <1>15, <2>1, <2>2
    <2>4. ASSUME NEW x \in RR!ToSet(RR!Numbers) \ {NaN} PROVE min <= x /\ x <= max
      <3>1. PICK j \in 1..m : x = all[j]
        BY <1>15
      <3>2. x \in Int
        BY <1>3, <1>7, <3>1 DEF Number
      <3> QED BY <1>9, <2>1, <3>1, <3>2
    <2>5. Head(RR!Numbers) # NaN
      BY <1>3, <1>7, <1>17
    <2> QED BY <1>13, <2>3, <2>4, <2>5
  <1> QED BY <1>16, <1>17


PipelineInv ==
    /\ CommandLineInv /\ StreamInv /\ ProductInv
    /\ ReaderInv /\ RangeInv

LEMMA PipelineInductive ==
    /\ PipelineInit => PipelineInv
    /\ PipelineInv /\ [PipelineNext]_<<vars, r_vars>> => PipelineInv'
  <1>1. PipelineInit => PipelineInv
    BY CommandLineInit, StreamInit, ReaderInit DEF PipelineInit, PipelineInv
  <1>2. ASSUME PipelineInv, [PipelineNext]_<<vars, r_vars>> PROVE PipelineInv'
    <2>1. WriterStep
      BY <1>2, WriterSteps
    <2>2. CommandLineInv' /\ StreamInv' /\ ProductInv'
      BY <1>2, <2>1, CommandLineKept, StreamKept, ProductKept DEF PipelineInv
    <2>3. ReaderInv' /\ RangeInv'
      BY <1>2, ReaderKept DEF PipelineInv
    <2> QED BY <2>2, <2>3 DEF PipelineInv
  <1> QED BY <1>1, <1>2

\* What has gone through the pipe is numbers.
LEMMA PipedType ==
    ASSUME CommandLineInv, StreamInv
    PROVE  Piped \in Seq(Int) /\ Len(Piped) = sent /\ sent \in Nat
           /\ \A j \in 1..sent : Piped[j] = out[j]
  <1>1. PICK o \in Seq(Int), m \in Nat : o = out /\ m = sent /\ m <= Len(o)
    BY DEF StreamInv
  <1>2. /\ SubSeq(o, 1, m) \in Seq(Int) /\ Len(SubSeq(o, 1, m)) = m
        /\ \A j \in 1..m : SubSeq(o, 1, m)[j] = o[j]
    BY <1>1
  <1> QED BY <1>1, <1>2 DEF Piped

\* What rawrange prints is the range of all of the numbers that there are, or
\* NaN if that is the first of them, whatever its blocks and its files, and
\* however its reads come between the writes (rawrange.c:247-279,
\* numrange.c:25-42).
THEOREM RangeIsPrinted == PipelineSpec => []PrintsRange
  <1>1. ASSUME PipelineInv PROVE PrintsRange
    BY <1>1, PipedType, PrintedIsRange DEF PipelineInv
  <1> QED BY <1>1, PipelineInductive, PTL DEF PipelineSpec

\* The range that is printed at the end of the pipe has every coordinate of
\* every vector that the matrix was applied to in it, and nothing is read that
\* was not passed on (rawmatrix.c:255-270, rawrange.c:261-279).
THEOREM RangeHasProducts == PipelineSpec => []RangeOfProducts
  <1>1. ASSUME PipelineInv PROVE r_pos[RangeStdIn] <= sent
    <2>1. RangeStdIn \in RangeStreams /\ Of(RangeStdIn) = Piped
      BY RangeDataAssumption DEF Of
    <2> QED BY <1>1, <2>1, PipedType DEF PipelineInv, ReaderInv
  <1>2. ASSUME PipelineInv, at = "ok", r_at = "ok", in_sz > 0, r_args = <<RangeStdIn>>,
               ~lost, ~io_error, ~no_memory, ~r_no_memory,
               NEW k \in DOMAIN Vectors, NEW i \in 1..rows
        PROVE  Image(i, Vectors[k]) \in printed[1]..printed[2]
    <2> USE <1>2 DEF PipelineInv
    <2>1. /\ ProgressInv /\ matrix_read_p /\ next > Len(options)
      BY DEF ProductInv, Started, CommandLineInv, CommandInv
    <2>2. PICK r \in Nat \ {0} : r = rows /\ i \in 1..r
      BY DEF CommandLineInv, CommandInv
    <2>3. PICK l \in Nat : l = Len(Vectors) /\ DOMAIN Vectors = 1..l
      <3>1. Vectors \in Seq(Seq(Int))
        BY <2>1, VectorsLaid
      <3> QED BY <3>1, LenProperties
    <2>4. sent = r * l /\ Len(out) = r * l
      BY <2>1, <2>2, <2>3 DEF ProgressInv, AllWritten
    <2>5. PICK c \in Nat, x \in Nat : c = k - 1 /\ x = i - 1 /\ x < r /\ c + 1 = k /\ x + 1 = i
      BY <2>2, <2>3
    <2>6. PICK j \in 1..(r * l) : (j - 1) % r = x /\ (j - 1) \div r = c
      <3>1. PICK a \in Nat : a = c * r
        BY Times
      <3>2. (a + x) % r = x /\ (a + x) \div r = c
        <4> HIDE <1>2
        <4>1. c \in Nat /\ x \in Nat /\ r \in Nat \ {0} /\ x < r
          BY <2>2, <2>5
        <4>2. (c * r + x) % r = x /\ (c * r + x) \div r = c
          BY <4>1, Remainder, ZenonT(30)
        <4> QED BY <3>1, <4>2
      <3>3. a + x + 1 <= r * l
        <4>1. r * (c + 1) = a + r
          BY <3>1
        <4>2. PICK e \in Nat : e = c + 1 /\ e <= l
          BY <2>3, <2>5
        <4>3. r * e <= r * l
          BY <4>2, TimesMore
        <4>4. PICK y \in Nat : y = r * l
          BY Times
        <4> QED BY <2>5, <4>1, <4>2, <4>3, <4>4
      <3>4. PICK y \in Nat : y = r * l
        BY Times
      <3>5. a + x + 1 \in 1..y /\ (a + x + 1) - 1 = a + x
        BY <3>3, <3>4
      <3> QED BY <3>2, <3>4, <3>5
    <2>7. out[j] = Image(i, Vectors[k])
      <3>1. out[j] = Image(((j - 1) % rows) + 1, Vectors[((j - 1) \div rows) + 1])
        BY <2>1, <2>4 DEF ProgressInv, Product
      <3> QED BY <2>2, <2>5, <2>6, <3>1
    <2>8. PICK v \in Int : v = out[j]
      <3>1. j \in 1..Len(out)
        BY <2>4
      <3> QED BY <3>1 DEF StreamInv
    <2>9. /\ RangeNames = <<RangeStdIn>> /\ RangeStdIn \in RangeStreams
          /\ Of(RangeStdIn) = Piped
      BY RangeDataAssumption DEF RangeNames, Of
    <2>10. /\ Len(RangeNames) = 1 /\ 1 \in 1..Len(RangeNames) /\ RangeNames[1] = RangeStdIn
      BY <2>9
    <2>11. /\ Piped \in Seq(Int) /\ Len(Piped) = r * l
           /\ \A q \in 1..(r * l) : Piped[q] = out[q]
      BY <2>4, PipedType
    <2>12. r_pos[RangeStdIn] = r * l
      BY <2>9, <2>10, <2>11, AllSeen
    <2>13. Seen(v)
      <3>1. j \in 1..r_pos[RangeStdIn] /\ Of(RangeStdIn)[j] = v
        BY <2>8, <2>9, <2>11, <2>12
      <3> QED BY <2>9, <3>1 DEF Seen
    <2>14. r_pos[RangeStdIn] # 0
      BY <2>12
    <2>15. printed = <<min, max>> /\ \E f : RangeFrom(f)
      BY <2>9, <2>14, AllSeen
    <2>16. PICK f : RangeFrom(f)
      BY <2>15
    <2>17. f = 1 /\ RangeNames[f] = RangeStdIn
      BY <2>10, <2>16 DEF RangeFrom
    <2>18. Of(RangeNames[f])[1] \in Int
      <3>1. 1 \in 1..(r * l)
        <4>1. PICK y \in Nat : y = r * l
          BY Times
        <4> QED BY <4>1
      <3> QED BY <2>9, <2>11, <2>17, <3>1
    <2>19. min \in Int /\ max \in Int /\ min <= v /\ v <= max
      <3>1. Of(RangeNames[f])[1] # NaN
        BY <2>18, FormatsAssumption
      <3> QED BY <2>13, <2>16, <3>1 DEF RangeFrom
    <2> QED BY <2>7, <2>8, <2>15, <2>19
  <1>3. ASSUME PipelineInv PROVE RangeOfProducts
    BY <1>1, <1>2, <1>3, Zenon DEF RangeOfProducts
  <1> QED BY <1>3, PipelineInductive, PTL DEF PipelineSpec

=============================================================================
