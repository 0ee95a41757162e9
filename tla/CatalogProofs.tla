---------------------------- MODULE CatalogProofs ----------------------------
(***************************************************************************)
(* What a catalog holds, the search of a message in it and the parser of   *)
(* its plural forms (src/intl/loadmsgcat.c, dcigettext.c, plural.y,        *)
(* plural.c), for every file, every word size and every search.            *)
(***************************************************************************)
EXTENDS Catalog, DataLemmas

-----------------------------------------------------------------------------
(* Numerals and hash values.                                               *)

\* What has been read of a numeral.
Numbers == [value : 0..(ULONG - 1), over : BOOLEAN]
NoDigit == [value |-> 0, over |-> FALSE]

LEMMA DigitTyped == \A n \in Numbers, d \in 0..9 : Digit(n, d) \in Numbers
  <1>1. ULONG \in Nat \ {0}
    BY PluralAssumption
  <1> SUFFICES ASSUME NEW n \in Numbers, NEW d \in 0..9
               PROVE  Digit(n, d) \in Numbers
    OBVIOUS
  <1>2. n.value \in 0..(ULONG - 1) /\ n.over \in BOOLEAN
    BY DEF Numbers
  <1>3. n.value * 10 + d \in Nat
    BY <1>1, <1>2
  <1>4. (n.value * 10 + d) % ULONG \in 0..(ULONG - 1)
    BY <1>1, <1>3, Division
  <1>5. (n.over \/ n.value * 10 + d >= ULONG) \in BOOLEAN
    OBVIOUS
  <1> QED BY <1>4, <1>5 DEF Digit, Numbers

LEMMA ZeroTyped == NoDigit \in Numbers
  BY PluralAssumption DEF NoDigit, Numbers

\* The value of a numeral has the width of an unsigned long.
LEMMA DigitsTyped ==
    ASSUME NEW s \in Seq(0..9)
    PROVE  FoldLeft(Digit, NoDigit, s) \in Numbers
  <1> DEFINE n == Len(s)
             A == Numbers
             Rec(g) == g = [t \in SUBSET (1..n) |->
                               IF t = {} THEN NoDigit ELSE Digit(g[t \ {Max(t)}], s[Max(t)])]
  <1>1. n \in Nat /\ DOMAIN s = 1..n
    BY LenProperties
  <1>2. NoDigit \in A /\ \A r \in A, k \in 1..n : Digit(r, s[k]) \in A
    BY ElementOfSeq, DigitTyped, ZeroTyped
  <1> HIDE DEF A, n
  <1>3. \E g : Rec(g)
    <2> DEFINE h == [q \in A \X (1..n) |-> Digit(q[1], s[q[2]])]
    <2>1. h \in [A \X (1..n) -> A]
      BY <1>2
    <2>2. \A r \in A, k \in 1..n : h[<<r, k>>] = Digit(r, s[k])
      OBVIOUS
    <2> HIDE DEF h
    <2>3. PICK g : Folds(A, n, NoDigit, h, g)
      BY <1>1, <1>2, <2>1, FoldExists
    <2>4. /\ g \in [SUBSET (1..n) -> A]
          /\ \A t \in SUBSET (1..n) :
                 g[t] = IF t = {} THEN NoDigit ELSE h[<<g[t \ {Max(t)}], Max(t)>>]
      BY <2>3 DEF Folds
    <2>5. ASSUME NEW t \in SUBSET (1..n), t # {}
          PROVE  g[t] = Digit(g[t \ {Max(t)}], s[Max(t)])
      <3>1. Max(t) \in 1..n
        BY <1>1, <2>5, GreatestNumber
      <3>2. g[t \ {Max(t)}] \in A
        BY <2>4
      <3> QED BY <2>2, <2>4, <2>5, <3>1, <3>2
    <2>6. \A t \in SUBSET (1..n) :
              g[t] = IF t = {} THEN NoDigit ELSE Digit(g[t \ {Max(t)}], s[Max(t)])
      BY <2>4, <2>5
    <2>7. g = [t \in SUBSET (1..n) |-> g[t]]
      BY <2>4
    <2>8. Rec(g)
      BY <2>6, <2>7, Zenon
    <2> HIDE DEF Rec
    <2> QED BY <2>8
  <1> DEFINE g == CHOOSE g : Rec(g)
  <1>4. Rec(g)
    BY <1>3
  <1>5. FoldLeft(Digit, NoDigit, s) = g[1..n]
    BY <1>1, Zenon DEF FoldLeft, MapThenFoldSet, Max
  <1> HIDE DEF g
  <1>6. \A t \in SUBSET (1..n) :
            g[t] = IF t = {} THEN NoDigit ELSE Digit(g[t \ {Max(t)}], s[Max(t)])
    BY <1>4, Zenon
  <1> HIDE DEF Rec
  <1> DEFINE T == {k \in Nat : k <= n => g[1..k] \in A}
  <1>7. 0 \in T
    <2>1. {} \in SUBSET (1..n) /\ 1..0 = {}
      OBVIOUS
    <2>2. g[1..0] = NoDigit
      BY <1>6, <2>1
    <2> QED BY <1>2, <2>2
  <1>8. ASSUME NEW k \in Nat, k >= 0, k \in T PROVE k + 1 \in T
    <2> SUFFICES ASSUME k + 1 <= n PROVE g[1..(k + 1)] \in A
      OBVIOUS
    <2>1. g[1..k] \in A
      BY <1>1, <1>8
    <2>2. PICK m \in 1..n : m = k + 1
      BY <1>1
    <2>3. /\ 1..m \in SUBSET (1..n) /\ 1..m # {}
          /\ Max(1..m) = m /\ (1..m) \ {m} = 1..(m - 1)
      BY <1>1, MaxOfFirst
    <2>4. m - 1 = k
      BY <2>2
    <2>5. g[1..m] = Digit(g[1..k], s[m])
      BY <1>6, <2>3, <2>4
    <2> QED BY <1>2, <2>1, <2>2, <2>5
  <1> HIDE DEF T
  <1>9. n \in T
    BY <1>1, <1>7, <1>8, SetInduction
  <1> QED BY <1>5, <1>9 DEF T, A

LEMMA NumeralTyped ==
    \A l \in DOMAIN Numerals : NumeralValue(l) \in 0..(ULONG - 1) /\ strtoul(l) \in 0..(ULONG - 1)
  <1> SUFFICES ASSUME NEW l \in DOMAIN Numerals
               PROVE  NumeralValue(l) \in 0..(ULONG - 1) /\ strtoul(l) \in 0..(ULONG - 1)
    OBVIOUS
  <1>1. Numerals[l] \in Seq(0..9)
    BY PluralAssumption
  <1>2. FoldLeft(Digit, NoDigit, Numerals[l]) \in Numbers
    BY <1>1, DigitsTyped
  <1>3. Digits(l) \in Numbers
    BY <1>2, Zenon DEF Digits, NoDigit
  <1>4. Digits(l).value \in 0..(ULONG - 1)
    BY <1>3 DEF Numbers
  <1> QED BY <1>4, PluralAssumption DEF NumeralValue, strtoul

LEMMA HalvesTyped == \A a, b \in 0..15 : XorOfHalves[a][b] \in Nat
  <1> SUFFICES ASSUME NEW a \in 0..15, NEW b \in 0..15 PROVE XorOfHalves[a][b] \in Nat
    OBVIOUS
  <1> DEFINE bit(k) == ((a \div k) + (b \div k)) % 2
  <1>1. bit(1) \in Nat /\ bit(2) \in Nat /\ bit(4) \in Nat /\ bit(8) \in Nat
    OBVIOUS
  <1>2. XorOfHalves[a][b] = bit(1) + 2 * bit(2) + 4 * bit(4) + 8 * bit(8)
    BY DEF XorOfHalves
  <1> HIDE DEF bit
  <1> QED BY <1>1, <1>2

LEMMA ShiftedTyped == \A h \in Int, c \in Byte : Shifted(h, c) \in Int
  <1> SUFFICES ASSUME NEW h \in Int, NEW c \in Byte PROVE Shifted(h, c) \in Int
    OBVIOUS
  <1> DEFINE hval == ((h * 16) + c) % LONG
             high == HASHWORD \div 16
             g    == (hval \div high) % 16
             half == (hval \div 16) % 16
  <1>1. hval \in Nat
    BY CatalogAssumption DEF Byte
  <1>2. high \in Nat \ {0}
    BY CatalogAssumption
  <1>3. Shifted(h, c) = hval + 16 * (XorOfHalves[half][g] - half) - g * high
    BY DEF Shifted
  <1> HIDE DEF hval, high
  <1>4. g \in 0..15 /\ half \in 0..15
    <2>1. hval \div high \in Nat
      BY <1>1, <1>2, Division
    <2> QED BY <1>1, <2>1
  <1>5. XorOfHalves[half][g] \in Nat
    BY <1>4, HalvesTyped
  <1> HIDE DEF g, half
  <1>6. g * high \in Int
    BY <1>2, <1>4
  <1> QED BY <1>1, <1>3, <1>4, <1>5, <1>6

LEMMA ZeroInt == 0 \in Int
  OBVIOUS

\* What the bytes of a string are shifted into is a number.
LEMMA HashTyped ==
    ASSUME NEW s \in Seq(Byte)
    PROVE  FoldLeft(Shifted, 0, s) \in Int
  <1> DEFINE n == Len(s)
             A == Int
             Rec(g) == g = [t \in SUBSET (1..n) |->
                               IF t = {} THEN 0 ELSE Shifted(g[t \ {Max(t)}], s[Max(t)])]
  <1>1. n \in Nat /\ DOMAIN s = 1..n
    BY LenProperties
  <1>2. 0 \in A /\ \A r \in A, k \in 1..n : Shifted(r, s[k]) \in A
    BY ElementOfSeq, ShiftedTyped, ZeroInt
  <1> HIDE DEF A, n
  <1>3. \E g : Rec(g)
    <2> DEFINE h == [q \in A \X (1..n) |-> Shifted(q[1], s[q[2]])]
    <2>1. h \in [A \X (1..n) -> A]
      BY <1>2
    <2>2. \A r \in A, k \in 1..n : h[<<r, k>>] = Shifted(r, s[k])
      OBVIOUS
    <2> HIDE DEF h
    <2>3. PICK g : Folds(A, n, 0, h, g)
      BY <1>1, <1>2, <2>1, FoldExists
    <2>4. /\ g \in [SUBSET (1..n) -> A]
          /\ \A t \in SUBSET (1..n) :
                 g[t] = IF t = {} THEN 0 ELSE h[<<g[t \ {Max(t)}], Max(t)>>]
      BY <2>3 DEF Folds
    <2>5. ASSUME NEW t \in SUBSET (1..n), t # {}
          PROVE  g[t] = Shifted(g[t \ {Max(t)}], s[Max(t)])
      <3>1. Max(t) \in 1..n
        BY <1>1, <2>5, GreatestNumber
      <3>2. g[t \ {Max(t)}] \in A
        BY <2>4
      <3> QED BY <2>2, <2>4, <2>5, <3>1, <3>2
    <2>6. \A t \in SUBSET (1..n) :
              g[t] = IF t = {} THEN 0 ELSE Shifted(g[t \ {Max(t)}], s[Max(t)])
      BY <2>4, <2>5
    <2>7. g = [t \in SUBSET (1..n) |-> g[t]]
      BY <2>4
    <2>8. Rec(g)
      BY <2>6, <2>7, Zenon
    <2> HIDE DEF Rec
    <2> QED BY <2>8
  <1> DEFINE g == CHOOSE g : Rec(g)
  <1>4. Rec(g)
    BY <1>3
  <1>5. FoldLeft(Shifted, 0, s) = g[1..n]
    BY <1>1, Zenon DEF FoldLeft, MapThenFoldSet, Max
  <1> HIDE DEF g
  <1>6. \A t \in SUBSET (1..n) :
            g[t] = IF t = {} THEN 0 ELSE Shifted(g[t \ {Max(t)}], s[Max(t)])
    BY <1>4, Zenon
  <1> HIDE DEF Rec
  <1> DEFINE T == {k \in Nat : k <= n => g[1..k] \in A}
  <1>7. 0 \in T
    <2>1. {} \in SUBSET (1..n) /\ 1..0 = {}
      OBVIOUS
    <2>2. g[1..0] = 0
      BY <1>6, <2>1
    <2> QED BY <1>2, <2>2
  <1>8. ASSUME NEW k \in Nat, k >= 0, k \in T PROVE k + 1 \in T
    <2> SUFFICES ASSUME k + 1 <= n PROVE g[1..(k + 1)] \in A
      OBVIOUS
    <2>1. g[1..k] \in A
      BY <1>1, <1>8
    <2>2. PICK m \in 1..n : m = k + 1
      BY <1>1
    <2>3. /\ 1..m \in SUBSET (1..n) /\ 1..m # {}
          /\ Max(1..m) = m /\ (1..m) \ {m} = 1..(m - 1)
      BY <1>1, MaxOfFirst
    <2>4. m - 1 = k
      BY <2>2
    <2>5. g[1..m] = Shifted(g[1..k], s[m])
      BY <1>6, <2>3, <2>4
    <2> QED BY <1>2, <2>1, <2>2, <2>5
  <1> HIDE DEF T
  <1>9. n \in T
    BY <1>1, <1>7, <1>8, SetInduction
  <1> QED BY <1>5, <1>9 DEF T, A

LEMMA HashIsWord == \A s \in Seq(Byte) : hash_string(s) \in 0..(HASHWORD - 1)
  BY HashTyped, CatalogAssumption DEF hash_string

-----------------------------------------------------------------------------
(* The parser of plural forms.                                             *)

Lexemes == {"==", "!=", "<", "<=", ">", ">=", "*", "/", "%", "+", "-", "&&", "||"}
Tokens  == {"exp", "NUMBER", "EQUOP2", "CMPOP2", "ADDOP2", "MULOP2", "&", "|",
            "!", "n", "?", ":", "(", ")", "YYEOF", "YYERRCODE"}
Ops  == {"var", "lnot", "qmop", "num", NULL} \cup {OpOf[l] : l \in Lexemes}
Node == [operation : Ops, num : Int, args : Seq(Int)]
Symbol == [token : Tokens, val : Ops \cup Int \cup Seq(Node)]

SymbolOK(s) ==
    /\ s \in Symbol
    /\ s.token = "exp" => s.val \in Seq(Node)
    /\ s.token = "NUMBER" => s.val \in Int
    /\ s.token \notin {"exp", "NUMBER"} => s.val \in Ops

\* How many nodes the value of a symbol has.
Size(s) == IF s.token = "exp" THEN Len(s.val) ELSE 0

\* What is below a symbol on the stack.
BelowOK(st, k) ==
    /\ st[k].token \in Binary \cup {"?"} => k > 1 /\ st[k - 1].token = "exp"
    /\ st[k].token = ":" => k > 2 /\ st[k - 1].token = "exp" /\ st[k - 2].token = "?"
    /\ st[k].token = ")" => k > 2 /\ st[k - 1].token = "exp" /\ st[k - 2].token = "("

\* How many nodes the symbols up to each have.
Nodes(st, off) ==
    /\ off \in [0..Len(st) -> Nat] /\ off[0] = 0
    /\ \A k \in 1..Len(st) : off[k - 1] + Size(st[k]) = off[k]

\* The symbols on the stack; their nodes are all that are allocated.
StackOK(st, n) ==
    /\ st \in Seq(Symbol)
    /\ \A k \in 1..Len(st) : SymbolOK(st[k]) /\ BelowOK(st, k)
    /\ \E off : Nodes(st, off) /\ off[Len(st)] = n

\* The tree that the parser returns is all that is allocated; where it fails
\* nothing is said, since a text with an error in it may leave nodes behind.
TreeIsAll ==
    /\ parser = "accepted" => nodes = Len(plural)
    /\ parser = "done" => nodes = Len(plural) \/ plural = GERMANIC_PLURAL

PluralInv ==
    /\ PluralTypeOK /\ TreeIsAll
    /\ parser \in {"off", "parsing"} => StackOK(stack, nodes) /\ Len(stack) < yystacksize - 1

LEMMA SizeIsNumber == ASSUME NEW s, SymbolOK(s) PROVE Size(s) \in Nat
  BY LenProperties DEF SymbolOK, Size

LEMMA StackEmpty == StackOK(<< >>, 0)
  <1> DEFINE off == [k \in 0..0 |-> 0]
  <1>1. << >> \in Seq(Symbol) /\ Len(<< >>) = 0
    BY EmptySeq
  <1>2. Nodes(<< >>, off) /\ off[Len(<< >>)] = 0
    BY <1>1 DEF Nodes
  <1> HIDE DEF off
  <1>3. \A k \in 1..Len(<< >>) : FALSE
    BY <1>1
  <1> QED BY <1>1, <1>2, <1>3 DEF StackOK

\* What is left of a stack when some symbols are taken off and one is put on.
LEMMA Replaced ==
    ASSUME NEW st \in Seq(Symbol), NEW k \in 0..Len(st), NEW s \in Symbol
    PROVE  LET st2 == Append(SubSeq(st, 1, Len(st) - k), s)
           IN  /\ st2 \in Seq(Symbol) /\ Len(st2) = Len(st) - k + 1 /\ Len(st) \in Nat
               /\ st2[Len(st) - k + 1] = s
               /\ \A j \in 1..(Len(st) - k) : st2[j] = st[j]
  <1> DEFINE m  == Len(st) - k
             s1 == SubSeq(st, 1, m)
  <1>1. Len(st) \in Nat /\ m \in Nat /\ m <= Len(st)
    BY LenProperties
  <1>2. \A j \in 1..m : st[j] \in Symbol
    BY <1>1, ElementOfSeq
  <1>3. PICK l \in Int : l = m
    BY <1>1
  <1>4. /\ s1 \in Seq(Symbol) /\ Len(s1) = (IF 1 <= m THEN m - 1 + 1 ELSE 0)
        /\ \A j \in 1..(m - 1 + 1) : s1[j] = st[1 + j - 1]
    <2>1. 1 \in Int /\ \A j \in 1..l : st[j] \in Symbol
      BY <1>2, <1>3
    <2>2. /\ SubSeq(st, 1, l) \in Seq(Symbol)
          /\ Len(SubSeq(st, 1, l)) = (IF 1 <= l THEN l - 1 + 1 ELSE 0)
          /\ \A j \in 1..(l - 1 + 1) : SubSeq(st, 1, l)[j] = st[1 + j - 1]
      BY <2>1, SubSeqProperties
    <2> QED BY <2>2, <1>3
  <1> HIDE DEF s1
  <1>5. Len(s1) = m /\ \A j \in 1..m : s1[j] = st[j]
    BY <1>1, <1>4
  <1>6. /\ Append(s1, s) \in Seq(Symbol) /\ Len(Append(s1, s)) = m + 1
        /\ Append(s1, s)[m + 1] = s /\ \A j \in 1..m : Append(s1, s)[j] = s1[j]
    <2>1. /\ Append(s1, s) \in Seq(Symbol) /\ Len(Append(s1, s)) = Len(s1) + 1
          /\ Append(s1, s)[Len(s1) + 1] = s /\ \A j \in 1..Len(s1) : Append(s1, s)[j] = s1[j]
      BY <1>4, AppendProperties
    <2> QED BY <1>5, <2>1, Zenon
  <1> QED BY <1>1, <1>5, <1>6 DEF s1

LEMMA StackPushed ==
    ASSUME NEW st, NEW n, StackOK(st, n), NEW k \in 0..Len(st), NEW s, SymbolOK(s),
           BelowOK(Append(SubSeq(st, 1, Len(st) - k), s), Len(st) - k + 1),
           NEW off, Nodes(st, off), NEW more \in Nat, off[Len(st) - k] + Size(s) = more
    PROVE  StackOK(Append(SubSeq(st, 1, Len(st) - k), s), more)
  <1> DEFINE m   == Len(st) - k
             st2 == Append(SubSeq(st, 1, m), s)
             off2 == [j \in 0..(m + 1) |-> IF j = m + 1 THEN off[m] + Size(s) ELSE off[j]]
  <1>1. /\ st2 \in Seq(Symbol) /\ Len(st2) = m + 1 /\ Len(st) \in Nat
        /\ st2[m + 1] = s /\ \A j \in 1..m : st2[j] = st[j]
    BY Replaced DEF StackOK, SymbolOK
  <1>2. m \in Nat /\ m <= Len(st)
    BY <1>1
  <1>3. BelowOK(st2, m + 1)
    OBVIOUS
  <1>4. off[m] + Size(s) = more
    OBVIOUS
  <1> HIDE DEF m, st2
  <1>5. ASSUME NEW j \in 1..Len(st2) PROVE SymbolOK(st2[j]) /\ BelowOK(st2, j)
    <2>1. CASE j = m + 1
      BY <1>1, <1>3, <2>1
    <2>2. CASE j # m + 1
      <3>1. j \in 1..m /\ j \in 1..Len(st) /\ st2[j] = st[j]
        BY <1>1, <1>2, <2>2
      <3>2. SymbolOK(st[j]) /\ BelowOK(st, j)
        BY <3>1 DEF StackOK
      <3>3. /\ j > 1 => st2[j - 1] = st[j - 1]
            /\ j > 2 => st2[j - 2] = st[j - 2]
        BY <1>1, <1>2, <3>1
      <3> QED BY <3>1, <3>2, <3>3 DEF BelowOK
    <2> QED BY <2>1, <2>2
  <1>6. /\ off \in [0..Len(st) -> Nat] /\ off[0] = 0
        /\ \A j \in 1..Len(st) : off[j - 1] + Size(st[j]) = off[j]
    BY DEF Nodes
  <1>7. Size(s) \in Nat
    BY SizeIsNumber
  <1>8. off2 \in [0..Len(st2) -> Nat]
    <2>1. m \in 0..Len(st) /\ \A j \in 0..(m + 1) : j # m + 1 => j \in 0..Len(st)
      BY <1>1, <1>2
    <2>2. off[m] \in Nat /\ \A j \in 0..(m + 1) : j # m + 1 => off[j] \in Nat
      BY <1>6, <2>1
    <2>3. off[m] + Size(s) \in Nat
      BY <1>7, <2>2
    <2> QED BY <1>1, <2>2, <2>3
  <1>9. ASSUME NEW j \in 1..Len(st2) PROVE off2[j - 1] + Size(st2[j]) = off2[j]
    <2>1. CASE j = m + 1
      <3>1. off2[j] = off[m] + Size(s) /\ off2[j - 1] = off[m]
        BY <1>1, <1>2, <2>1
      <3>2. off[m] + Size(s) \in Nat /\ st2[j] = s
        BY <1>1, <1>2, <1>6, <1>7, <2>1
      <3> HIDE DEF off2
      <3> QED BY <3>1, <3>2
    <2>2. CASE j # m + 1
      <3>1. j \in 1..m /\ j \in 1..Len(st) /\ st2[j] = st[j] /\ j - 1 \in 0..m
        BY <1>1, <1>2, <2>2
      <3>2. off2[j] = off[j] /\ off2[j - 1] = off[j - 1]
        BY <3>1, <1>2
      <3> HIDE DEF off2
      <3> QED BY <1>6, <3>1, <3>2
    <2> QED BY <2>1, <2>2
  <1>10. off2[Len(st2)] = more /\ off2[0] = 0
    BY <1>1, <1>2, <1>4, <1>6
  <1> HIDE DEF off2
  <1>11. Nodes(st2, off2)
    BY <1>8, <1>9, <1>10 DEF Nodes
  <1>12. StackOK(st2, more)
    BY <1>1, <1>5, <1>10, <1>11 DEF StackOK
  <1> QED BY <1>12 DEF m, st2

LEMMA BinaryTokens == Binary = {"|", "&", "EQUOP2", "CMPOP2", "ADDOP2", "MULOP2"}
  BY DEF Binary, Levels, ToSet

LEMMA NullIsNone == NULL \in Seq(Node) /\ Len(NULL) = 0 /\ NULL \in Ops
  BY EmptySeq DEF NULL, Ops

\* A node is put after its arguments.
LEMMA ExpressionType ==
    ASSUME NEW op \in Ops, NEW args \in Seq(Seq(Node))
    PROVE  /\ Expression(op, args) \in Seq(Node) /\ Freed(args) \in Nat
           /\ Len(Expression(op, args)) = Freed(args) + 1
  <1> DEFINE back(j) == 1 + Len(FlattenSeq(SubSeq(args, j + 1, Len(args))))
             node == [operation |-> op, num |-> 0, args |-> [j \in DOMAIN args |-> back(j)]]
             flat == FlattenSeq(args)
  <1>1. Len(args) \in Nat /\ DOMAIN args = 1..Len(args)
    BY LenProperties
  <1>2. flat \in Seq(Node)
    BY FlattenType
  <1>3. \A j \in 1..Len(args) : back(j) \in Int
    <2> SUFFICES ASSUME NEW j \in 1..Len(args) PROVE back(j) \in Int
      OBVIOUS
    <2>1. PICK m \in Int : m = j + 1
      OBVIOUS
    <2> DEFINE n == Len(args)
    <2>5. n \in Int
      BY <1>1
    <2>2. \A x \in m..n : args[x] \in Seq(Node)
      BY <1>1, <2>1, ElementOfSeq
    <2> HIDE DEF n
    <2>3. SubSeq(args, m, n) \in Seq(Seq(Node))
      BY <2>2, <2>5, SubSeqProperties
    <2>4. FlattenSeq(SubSeq(args, j + 1, Len(args))) \in Seq(Node)
      BY <2>1, <2>3, FlattenType DEF n
    <2> QED BY <2>4, LenProperties
  <1> HIDE DEF back
  <1>4. [j \in DOMAIN args |-> back(j)] \in Seq(Int)
    BY <1>1, <1>3
  <1>5. node \in Node
    BY <1>4 DEF Node
  <1>6. Expression(op, args) = Append(flat, node)
    BY DEF Expression, back
  <1> HIDE DEF node, flat
  <1>7. Append(flat, node) \in Seq(Node) /\ Len(Append(flat, node)) = Len(flat) + 1
    BY <1>2, <1>5, AppendProperties
  <1> QED BY <1>2, <1>6, <1>7, LenProperties DEF Freed, flat

LEMMA FreedOne == \A a \in Seq(Node) : <<a>> \in Seq(Seq(Node)) /\ Freed(<<a>>) = Len(a)
  <1> SUFFICES ASSUME NEW a \in Seq(Node)
               PROVE  <<a>> \in Seq(Seq(Node)) /\ Freed(<<a>>) = Len(a)
    OBVIOUS
  <1>1. <<a>> \in Seq(Seq(Node)) /\ <<a>> # << >> /\ Head(<<a>>) = a /\ Tail(<<a>>) = << >>
    OBVIOUS
  <1>2. FlattenSeq(<<a>>) = a \o FlattenSeq(<< >>)
    BY <1>1, FlattenHead
  <1> QED BY <1>1, <1>2, FlattenNone, ConcatEmptySeq DEF Freed

LEMMA FreedMore ==
    ASSUME NEW args \in Seq(Seq(Node)), args # << >>
    PROVE  Freed(args) = Len(Head(args)) + Freed(Tail(args))
  <1>1. /\ FlattenSeq(Tail(args)) \in Seq(Node) /\ Head(args) \in Seq(Node)
        /\ FlattenSeq(args) = Head(args) \o FlattenSeq(Tail(args))
    BY FlattenHead
  <1> QED BY <1>1, ConcatProperties DEF Freed

LEMMA FreedArguments ==
    /\ << >> \in Seq(Seq(Node)) /\ Freed(<< >>) = 0
    /\ \A a, b \in Seq(Node) :
           <<a, b>> \in Seq(Seq(Node)) /\ Freed(<<a, b>>) = Len(a) + Len(b)
    /\ \A a, b, c \in Seq(Node) :
           <<a, b, c>> \in Seq(Seq(Node)) /\ Freed(<<a, b, c>>) = Len(a) + Len(b) + Len(c)
  <1>1. << >> \in Seq(Seq(Node)) /\ Freed(<< >>) = 0
    BY EmptySeq, FlattenNone DEF Freed
  <1>2. ASSUME NEW a \in Seq(Node), NEW b \in Seq(Node)
        PROVE  <<a, b>> \in Seq(Seq(Node)) /\ Freed(<<a, b>>) = Len(a) + Len(b)
    <2>1. <<a, b>> \in Seq(Seq(Node)) /\ <<a, b>> # << >>
      OBVIOUS
    <2>2. Head(<<a, b>>) = a /\ Tail(<<a, b>>) = <<b>>
      OBVIOUS
    <2> QED BY <2>1, <2>2, FreedOne, FreedMore
  <1>3. ASSUME NEW a \in Seq(Node), NEW b \in Seq(Node), NEW c \in Seq(Node)
        PROVE  /\ <<a, b, c>> \in Seq(Seq(Node))
               /\ Freed(<<a, b, c>>) = Len(a) + Len(b) + Len(c)
    <2>1. <<a, b, c>> \in Seq(Seq(Node)) /\ <<a, b, c>> # << >>
      OBVIOUS
    <2>2. Head(<<a, b, c>>) = a /\ Tail(<<a, b, c>>) = <<b, c>>
      OBVIOUS
    <2>3. Len(a) \in Nat /\ Len(b) \in Nat /\ Len(c) \in Nat
      BY LenProperties
    <2>4. Freed(<<a, b, c>>) = Len(a) + Freed(<<b, c>>) /\ Freed(<<b, c>>) = Len(b) + Len(c)
      BY <1>2, <2>1, <2>2, FreedMore
    <2> QED BY <2>1, <2>3, <2>4
  <1> QED BY <1>1, <1>2, <1>3

LEMMA SymbolOf ==
    /\ \A t \in Tokens \ {"exp", "NUMBER"}, v \in Ops : SymbolOK([token |-> t, val |-> v])
    /\ \A v \in Int : SymbolOK([token |-> "NUMBER", val |-> v])
    /\ \A v \in Seq(Node) : SymbolOK(Exp(v))
  <1>1. ASSUME NEW t \in Tokens, NEW v \in Ops \cup Int \cup Seq(Node)
        PROVE  [token |-> t, val |-> v] \in Symbol
    BY DEF Symbol
  <1>2. "exp" \in Tokens /\ "NUMBER" \in Tokens /\ "exp" # "NUMBER"
    BY DEF Tokens
  <1>3. \A t, v : [token |-> t, val |-> v].token = t /\ [token |-> t, val |-> v].val = v
    OBVIOUS
  <1>4. \A t \in Tokens \ {"exp", "NUMBER"}, v \in Ops : SymbolOK([token |-> t, val |-> v])
    BY <1>1, <1>3, Zenon DEF SymbolOK
  <1>5. \A v \in Int : SymbolOK([token |-> "NUMBER", val |-> v])
    BY <1>1, <1>2, <1>3, Zenon DEF SymbolOK
  <1>6. \A v \in Seq(Node) : SymbolOK(Exp(v))
    BY <1>1, <1>2, <1>3, Zenon DEF SymbolOK, Exp
  <1> QED BY <1>4, <1>5, <1>6

LEMMA LexemeOK == ASSUME NEW l PROVE SymbolOK(yylex(l))
  <1> DEFINE op == OpOf[l]
  <1>1. l \in Lexemes => op \in Ops
    BY DEF Ops
  <1>2. NULL \in Ops
    BY NullIsNone
  <1>3. l \in DOMAIN Numerals => SymbolOK([token |-> "NUMBER", val |-> NumeralValue(l)])
    <2>1. l \in DOMAIN Numerals => NumeralValue(l) \in Int
      BY NumeralTyped, PluralAssumption
    <2> QED BY <2>1, SymbolOf
  <1> HIDE DEF op
  <1>4. \A t \in {"EQUOP2", "CMPOP2", "ADDOP2", "MULOP2", "&", "|"} :
            l \in Lexemes => SymbolOK([token |-> t, val |-> op])
    <2>1. \A t \in {"EQUOP2", "CMPOP2", "ADDOP2", "MULOP2", "&", "|"} : t \in Tokens \ {"exp", "NUMBER"}
      BY DEF Tokens
    <2> QED BY <1>1, <2>1, SymbolOf
  <1>5. \A t \in {"!", "n", "?", ":", "(", ")", "YYEOF", "YYERRCODE"} :
            SymbolOK([token |-> t, val |-> NULL])
    <2>1. \A t \in {"!", "n", "?", ":", "(", ")", "YYEOF", "YYERRCODE"} :
              t \in Tokens \ {"exp", "NUMBER"}
      BY DEF Tokens
    <2> QED BY <1>2, <2>1, SymbolOf
  <1>6. \A k \in {"==", "!=", "<", "<=", ">", ">=", "+", "-", "*", "/", "%", "&&", "||"} : k \in Lexemes
    BY DEF Lexemes
  <1> QED BY <1>3, <1>4, <1>5, <1>6 DEF yylex, op

LEMMA LookaheadOK == SymbolOK(Lookahead)
  <1>1. SymbolOK([token |-> "YYEOF", val |-> NULL])
    <2>1. "YYEOF" \in Tokens \ {"exp", "NUMBER"}
      BY DEF Tokens
    <2> QED BY <2>1, NullIsNone, SymbolOf
  <1> QED BY <1>1, LexemeOK DEF Lookahead

\* A symbol is put on the stack: it never goes past its end, since the parser
\* stops when only one place is left.
LEMMA Pushes ==
    ASSUME PluralInv, parser = "parsing", NEW k \in 0..Len(stack), NEW s, SymbolOK(s),
           BelowOK(Append(SubSeq(stack, 1, Len(stack) - k), s), Len(stack) - k + 1),
           Push(k, s), NEW off, Nodes(stack, off), nodes' \in Nat,
           off[Len(stack) - k] + Size(s) = nodes',
           UNCHANGED <<nplurals, plural>>, failures' \in 0..MaxFailures
    PROVE  PluralInv'
  <1>1. StackOK(stack, nodes) /\ stack \in Seq(Symbol) /\ s \in Symbol
    BY DEF PluralInv, StackOK, SymbolOK
  <1>2. StackOK(stack', nodes')
    <2>1. stack' = Append(SubSeq(stack, 1, Len(stack) - k), s)
      BY DEF Push
    <2>2. PICK n \in Nat : n = nodes
      BY DEF PluralInv, PluralTypeOK
    <2>3. StackOK(stack, n)
      BY <1>1, <2>2
    <2>4. PICK more \in Nat : more = nodes'
      OBVIOUS
    <2>5. off[Len(stack) - k] + Size(s) = more
      BY <2>4
    <2>6. StackOK(Append(SubSeq(stack, 1, Len(stack) - k), s), more)
      BY <2>3, <2>5, StackPushed
    <2> QED BY <2>1, <2>4, <2>6
  <1>3. Len(stack') = Len(stack) - k + 1 /\ Len(stack) \in Nat
    BY <1>1, Replaced DEF Push
  <1>4. Len(stack') \in Nat /\ Len(stack') <= yystacksize - 1
    BY <1>3 DEF PluralInv, PluralTypeOK
  <1>5. /\ yystacksize \in YYINITDEPTH..YYMAXDEPTH /\ YYINITDEPTH \in Nat /\ YYMAXDEPTH \in Nat
        /\ YYINITDEPTH > 1
    BY PluralAssumption DEF PluralInv, PluralTypeOK
  <1>6. yystacksize' \in YYINITDEPTH..YYMAXDEPTH /\ yystacksize' >= yystacksize
    BY <1>5 DEF Push
  <1>7. /\ parser' \in {"parsing", "rejected"}
        /\ parser' = "parsing" => Len(stack') < yystacksize' - 1
    BY DEF Push
  <1>8. Len(stack') <= yystacksize' - 1
    BY <1>4, <1>5, <1>6
  <1>9. PluralTypeOK' /\ TreeIsAll'
    BY <1>6, <1>7, <1>8 DEF PluralTypeOK, TreeIsAll, PluralInv
  <1> QED BY <1>2, <1>7, <1>9 DEF PluralInv

LEMMA ExpBelow == ASSUME NEW st, NEW k, st[k].token = "exp" PROVE BelowOK(st, k)
  <1>1. "exp" \notin Binary \cup {"?"} /\ "exp" # ":" /\ "exp" # ")"
    BY BinaryTokens
  <1> QED BY <1>1 DEF BelowOK

\* An expression takes the place of the last symbols.
LEMMA ExpPushed ==
    ASSUME PluralInv, parser = "parsing", NEW k \in 0..Len(stack), NEW e \in Seq(Node),
           Push(k, Exp(e)), NEW off, Nodes(stack, off), nodes' \in Nat,
           off[Len(stack) - k] + Len(e) = nodes',
           UNCHANGED <<nplurals, plural>>, failures' \in 0..MaxFailures
    PROVE  PluralInv'
  <1> DEFINE st2 == Append(SubSeq(stack, 1, Len(stack) - k), Exp(e))
  <1>1. SymbolOK(Exp(e)) /\ Exp(e) \in Symbol
    BY SymbolOf DEF SymbolOK
  <1>2. stack \in Seq(Symbol)
    BY DEF PluralInv, StackOK
  <1>3. st2[Len(stack) - k + 1] = Exp(e)
    BY <1>1, <1>2, Replaced
  <1>4. Exp(e).token = "exp" /\ Size(Exp(e)) = Len(e)
    BY DEF Exp, Size
  <1>5. BelowOK(st2, Len(stack) - k + 1)
    BY <1>3, <1>4, ExpBelow
  <1> QED BY <1>1, <1>4, <1>5, Pushes

LEMMA FailCounted == ASSUME PluralInv, Fail PROVE failures' \in 0..MaxFailures
  BY PluralAssumption DEF PluralInv, PluralTypeOK, Fail

\* A node is made of arguments that are on the stack, or these are freed.
LEMMA NewExp ==
    ASSUME PluralInv, parser = "parsing", NEW k \in 0..Len(stack), NEW op \in Ops,
           NEW args \in Seq(Seq(Node)), new_exp(k, op, args),
           NEW off, Nodes(stack, off), off[Len(stack) - k] + Freed(args) = nodes,
           off[Len(stack) - k] \in Nat, UNCHANGED <<nplurals, plural>>
    PROVE  PluralInv'
  <1>1. /\ Expression(op, args) \in Seq(Node) /\ Freed(args) \in Nat
        /\ Len(Expression(op, args)) = Freed(args) + 1
    BY ExpressionType
  <1>2. nodes \in Nat /\ failures \in 0..MaxFailures
    BY DEF PluralInv, PluralTypeOK
  <1>3. CASE Push(k, Exp(Expression(op, args))) /\ nodes' = nodes + 1 /\ UNCHANGED failures
    <2>1. nodes' \in Nat /\ off[Len(stack) - k] + Len(Expression(op, args)) = nodes'
      BY <1>1, <1>2, <1>3
    <2>2. failures' \in 0..MaxFailures
      BY <1>2, <1>3
    <2> QED BY <1>1, <1>3, <2>1, <2>2, ExpPushed
  <1>4. CASE /\ Push(k, Exp(NULL)) /\ nodes' = nodes - Freed(args)
             /\ IF NULL \in ToSet(args) THEN UNCHANGED failures ELSE Fail
    <2>1. nodes' \in Nat /\ off[Len(stack) - k] + Len(NULL) = nodes'
      BY <1>1, <1>2, <1>4, NullIsNone
    <2>2. failures' \in 0..MaxFailures
      BY <1>2, <1>4, FailCounted
    <2> QED BY <1>4, <2>1, <2>2, NullIsNone, ExpPushed
  <1> QED BY <1>3, <1>4 DEF new_exp

LEMMA StackTyped ==
    ASSUME PluralInv, parser = "parsing"
    PROVE  /\ Len(stack) \in Nat /\ stack \in Seq(Symbol)
           /\ \A k \in 1..Len(stack) : SymbolOK(stack[k]) /\ BelowOK(stack, k)
           /\ StackOK(stack, nodes)
           /\ \E off : Nodes(stack, off) /\ off[Len(stack)] = nodes
  BY LenProperties DEF PluralInv, StackOK

\* What is k from the top, and the nodes it has.
LEMMA NodesOf ==
    ASSUME PluralInv, parser = "parsing", NEW k \in 1..Len(stack), NEW off, Nodes(stack, off)
    PROVE  /\ off[Len(stack) + 1 - k] \in Nat /\ off[Len(stack) - k] \in Nat
           /\ Token(k) = "exp" => /\ Value(k) \in Seq(Node) /\ Len(Value(k)) \in Nat
                                  /\ off[Len(stack) - k] + Len(Value(k)) = off[Len(stack) + 1 - k]
           /\ Token(k) # "exp" => off[Len(stack) - k] = off[Len(stack) + 1 - k]
  <1>1. PICK m : m = Len(stack) + 1 - k
    OBVIOUS
  <1>2. /\ m \in 1..Len(stack) /\ m - 1 = Len(stack) - k /\ k <= Len(stack)
        /\ m \in 0..Len(stack) /\ m - 1 \in 0..Len(stack)
    BY <1>1, StackTyped
  <1>3. SymbolOK(stack[m]) /\ Token(k) = stack[m].token /\ Value(k) = stack[m].val
    BY <1>1, <1>2, StackTyped DEF Token, Value
  <1>4. off[m] \in Nat /\ off[m - 1] \in Nat /\ off[m - 1] + Size(stack[m]) = off[m]
    BY <1>2 DEF Nodes
  <1>5. CASE Token(k) = "exp"
    <2>1. Value(k) \in Seq(Node) /\ Size(stack[m]) = Len(Value(k))
      BY <1>3, <1>5 DEF SymbolOK, Size
    <2>2. Len(Value(k)) \in Nat
      BY <2>1, LenProperties
    <2> QED BY <1>1, <1>2, <1>4, <1>5, <2>1, <2>2
  <1>6. CASE Token(k) # "exp"
    <2>1. Size(stack[m]) = 0
      BY <1>3, <1>6 DEF Size
    <2> QED BY <1>1, <1>2, <1>4, <1>6, <2>1
  <1> QED BY <1>5, <1>6

LEMMA TokenThere ==
    ASSUME PluralInv, parser = "parsing", NEW k \in 1..5, Token(k) # "none"
    PROVE  k \in 1..Len(stack) /\ k <= Len(stack)
  BY StackTyped DEF Token

LEMMA VarReduced ==
    ASSUME PluralInv, parser = "parsing", ReduceVar, UNCHANGED <<nplurals, plural>>
    PROVE  PluralInv'
  <1> DEFINE m == Len(stack)
  <1>1. Token(1) = "n" /\ 1 \in 1..m /\ m \in Nat
    BY TokenThere, StackTyped DEF ReduceVar
  <1>2. PICK off : Nodes(stack, off) /\ off[m] = nodes
    BY StackTyped
  <1>3. off[m - 1] \in Nat /\ off[m - 1] = nodes
    <2>1. off[m - 1] \in Nat /\ off[m - 1] = off[m + 1 - 1] /\ m + 1 - 1 = m
      BY <1>1, <1>2, NodesOf
    <2> QED BY <1>2, <2>1
  <1>4. << >> \in Seq(Seq(Node)) /\ Freed(<< >>) = 0 /\ "var" \in Ops
    BY FreedArguments DEF Ops
  <1>5. off[m - 1] + Freed(<< >>) = nodes /\ 1 \in 0..m
    BY <1>1, <1>3, <1>4
  <1>6. new_exp(1, "var", << >>)
    BY DEF ReduceVar
  <1> QED BY <1>2, <1>3, <1>4, <1>5, <1>6, NewExp

LEMMA NumReduced ==
    ASSUME PluralInv, parser = "parsing", ReduceNum, UNCHANGED <<nplurals, plural>>
    PROVE  PluralInv'
  <1> DEFINE m == Len(stack)
  <1>1. Token(1) = "NUMBER" /\ 1 \in 0..m /\ 1 \in 1..m /\ m \in Nat
    BY TokenThere, StackTyped DEF ReduceNum
  <1>2. PICK off : Nodes(stack, off) /\ off[m] = nodes
    BY StackTyped
  <1>3. off[m - 1] = nodes
    <2>1. off[m - 1] = off[m + 1 - 1] /\ m + 1 - 1 = m
      BY <1>1, <1>2, NodesOf
    <2> QED BY <1>2, <2>1
  <1>4. nodes \in Nat /\ failures \in 0..MaxFailures
    BY DEF PluralInv, PluralTypeOK
  <1>5. CASE Push(1, Exp(<<Num(Value(1))>>)) /\ nodes' = nodes + 1 /\ UNCHANGED failures
    <2>1. Value(1) \in Int
      <3>1. SymbolOK(stack[m + 1 - 1]) /\ stack[m + 1 - 1].token = "NUMBER"
        BY <1>1, StackTyped DEF Token
      <3> QED BY <3>1 DEF SymbolOK, Value
    <2>2. Num(Value(1)) \in Node
      BY <2>1, EmptySeq DEF Num, Node, Ops
    <2>3. <<Num(Value(1))>> \in Seq(Node) /\ Len(<<Num(Value(1))>>) = 1
      BY <2>2
    <2>4. nodes' \in Nat /\ off[m - 1] + Len(<<Num(Value(1))>>) = nodes'
      BY <1>3, <1>4, <1>5, <2>3
    <2>5. failures' \in 0..MaxFailures
      BY <1>4, <1>5
    <2> QED BY <1>1, <1>2, <1>5, <2>3, <2>4, <2>5, ExpPushed
  <1>6. CASE Push(1, Exp(NULL)) /\ UNCHANGED nodes /\ Fail
    <2>1. nodes' \in Nat /\ off[m - 1] + Len(NULL) = nodes'
      BY <1>3, <1>4, <1>6, NullIsNone
    <2> QED BY <1>1, <1>2, <1>6, <2>1, FailCounted, NullIsNone, ExpPushed
  <1> QED BY <1>5, <1>6 DEF ReduceNum

\* Below a closing parenthesis is what it encloses.
LEMMA ParenthesesReduced ==
    ASSUME PluralInv, parser = "parsing", ReduceParentheses, UNCHANGED <<nplurals, plural>>
    PROVE  PluralInv'
  <1> DEFINE m == Len(stack)
  <1>1. Token(1) = ")" /\ 1 \in 1..m /\ m \in Nat
    BY TokenThere, StackTyped DEF ReduceParentheses
  <1>2. m \in 1..m /\ stack[m].token = ")"
    BY <1>1 DEF Token
  <1>3. m > 2 /\ stack[m - 1].token = "exp" /\ stack[m - 2].token = "("
    <2>1. BelowOK(stack, m)
      BY <1>2, StackTyped
    <2> QED BY <1>2, <2>1 DEF BelowOK
  <1>4. /\ 3 \in 0..m /\ 2 \in 1..m /\ 3 \in 1..m /\ 2 <= m /\ 3 <= m
        /\ m + 1 - 1 = m /\ m + 1 - 2 = m - 1 /\ m + 1 - 3 = m - 2
    BY <1>1, <1>3
  <1>5. Token(2) = "exp" /\ Token(3) = "("
    BY <1>3, <1>4 DEF Token
  <1>6. PICK off : Nodes(stack, off) /\ off[m] = nodes
    BY StackTyped
  <1>7. /\ Value(2) \in Seq(Node) /\ off[m - 2] + Len(Value(2)) = off[m - 1]
        /\ off[m - 1] = off[m] /\ off[m - 3] = off[m - 2]
    BY <1>1, <1>4, <1>5, <1>6, NodesOf
  <1>8. /\ nodes \in Nat /\ failures \in 0..MaxFailures /\ UNCHANGED <<nodes, failures>>
    BY DEF PluralInv, PluralTypeOK, ReduceParentheses
  <1>9. nodes' \in Nat /\ failures' \in 0..MaxFailures /\ off[m - 3] + Len(Value(2)) = nodes'
    BY <1>6, <1>7, <1>8
  <1>10. Push(3, Exp(Value(2)))
    BY DEF ReduceParentheses
  <1> QED BY <1>4, <1>6, <1>7, <1>9, <1>10, ExpPushed

LEMMA NotReduced ==
    ASSUME PluralInv, parser = "parsing", ReduceNot, UNCHANGED <<nplurals, plural>>
    PROVE  PluralInv'
  <1> DEFINE m == Len(stack)
  <1>1. Token(1) = "exp" /\ Token(2) = "!" /\ 1 \in 1..m /\ 2 \in 1..m /\ m \in Nat
    BY TokenThere, StackTyped DEF ReduceNot, NotDone, AfterExp
  <1>2. 2 \in 0..m /\ m + 1 - 1 = m /\ m + 1 - 2 = m - 1
    BY <1>1
  <1>3. PICK off : Nodes(stack, off) /\ off[m] = nodes
    BY StackTyped
  <1>4. /\ Value(1) \in Seq(Node) /\ off[m - 1] + Len(Value(1)) = off[m]
        /\ off[m - 2] = off[m - 1] /\ off[m - 2] \in Nat
    BY <1>1, <1>2, <1>3, NodesOf
  <1>5. <<Value(1)>> \in Seq(Seq(Node)) /\ Freed(<<Value(1)>>) = Len(Value(1)) /\ "lnot" \in Ops
    BY <1>4, FreedOne DEF Ops
  <1>6. off[m - 2] + Freed(<<Value(1)>>) = nodes
    BY <1>3, <1>4, <1>5
  <1>7. new_exp(2, "lnot", <<Value(1)>>)
    BY DEF ReduceNot
  <1> QED BY <1>2, <1>3, <1>4, <1>5, <1>6, <1>7, NewExp

LEMMA BinaryReduced ==
    ASSUME PluralInv, parser = "parsing", ReduceBinary, UNCHANGED <<nplurals, plural>>
    PROVE  PluralInv'
  <1> DEFINE m == Len(stack)
  <1>1. /\ Token(1) = "exp" /\ Token(2) \in Binary /\ Token(3) = "exp"
        /\ 1 \in 1..m /\ 3 \in 1..m /\ m \in Nat
    BY TokenThere, StackTyped DEF ReduceBinary, BinaryDone, AfterExp
  <1>2. /\ 3 \in 0..m /\ 2 \in 1..m /\ m - 1 \in 1..m
        /\ m + 1 - 1 = m /\ m + 1 - 3 = m - 2 /\ m + 1 - 2 = m - 1
    BY <1>1
  <1>3. "exp" \notin Binary /\ "NUMBER" \notin Binary
    BY BinaryTokens
  <1>4. Value(2) \in Ops
    <2>1. SymbolOK(stack[m - 1]) /\ stack[m - 1].token \in Binary
      BY <1>1, <1>2, StackTyped DEF Token
    <2> QED BY <1>2, <1>3, <2>1 DEF SymbolOK, Value
  <1>5. PICK off : Nodes(stack, off) /\ off[m] = nodes
    BY StackTyped
  <1>6. /\ Value(1) \in Seq(Node) /\ Len(Value(1)) \in Nat /\ off[m - 1] + Len(Value(1)) = off[m]
        /\ Value(3) \in Seq(Node) /\ Len(Value(3)) \in Nat
        /\ off[m - 3] + Len(Value(3)) = off[m - 2]
        /\ off[m - 2] = off[m - 1] /\ off[m - 3] \in Nat
    BY <1>1, <1>2, <1>3, <1>5, NodesOf
  <1>7. /\ <<Value(3), Value(1)>> \in Seq(Seq(Node))
        /\ Freed(<<Value(3), Value(1)>>) = Len(Value(3)) + Len(Value(1))
    BY <1>6, FreedArguments
  <1>8. off[m - 3] + Freed(<<Value(3), Value(1)>>) = nodes
    BY <1>5, <1>6, <1>7
  <1>9. new_exp(3, Value(2), <<Value(3), Value(1)>>)
    BY DEF ReduceBinary
  <1> QED BY <1>2, <1>4, <1>5, <1>6, <1>7, <1>8, <1>9, NewExp

\* Below the ":" are an expression, its "?" and the condition.
LEMMA TernaryReduced ==
    ASSUME PluralInv, parser = "parsing", ReduceTernary, UNCHANGED <<nplurals, plural>>
    PROVE  PluralInv'
  <1> DEFINE m == Len(stack)
  <1>1. Token(1) = "exp" /\ Token(2) = ":" /\ 1 \in 1..m /\ 2 \in 1..m /\ m \in Nat
    BY TokenThere, StackTyped DEF ReduceTernary, TernaryDone, AfterExp
  <1>2. m - 1 \in 1..m /\ stack[m - 1].token = ":" /\ m + 1 - 2 = m - 1
    BY <1>1 DEF Token
  <1>3. m - 1 > 2 /\ stack[m - 2].token = "exp" /\ stack[m - 3].token = "?"
    <2>1. BelowOK(stack, m - 1)
      BY <1>2, StackTyped
    <2>2. (m - 1) - 1 = m - 2 /\ (m - 1) - 2 = m - 3
      BY <1>1
    <2> QED BY <1>2, <2>1, <2>2 DEF BelowOK
  <1>4. m - 3 > 1 /\ stack[m - 4].token = "exp"
    <2>1. m - 3 \in 1..m /\ (m - 3) - 1 = m - 4
      BY <1>1, <1>3
    <2>2. BelowOK(stack, m - 3)
      BY <2>1, StackTyped
    <2> QED BY <1>3, <2>1, <2>2 DEF BelowOK
  <1>5. /\ 5 \in 0..m /\ 3 \in 1..m /\ 4 \in 1..m /\ 5 \in 1..m /\ 3 <= m /\ 4 <= m /\ 5 <= m
        /\ m + 1 - 1 = m /\ m + 1 - 3 = m - 2 /\ m + 1 - 4 = m - 3 /\ m + 1 - 5 = m - 4
    BY <1>1, <1>4
  <1>6. Token(3) = "exp" /\ Token(4) = "?" /\ Token(5) = "exp"
    BY <1>3, <1>4, <1>5 DEF Token
  <1>7. PICK off : Nodes(stack, off) /\ off[m] = nodes
    BY StackTyped
  <1>8. /\ Value(1) \in Seq(Node) /\ Len(Value(1)) \in Nat /\ off[m - 1] + Len(Value(1)) = off[m]
        /\ off[m - 2] = off[m - 1]
        /\ Value(3) \in Seq(Node) /\ Len(Value(3)) \in Nat
        /\ off[m - 3] + Len(Value(3)) = off[m - 2]
    BY <1>1, <1>2, <1>5, <1>6, <1>7, NodesOf
  <1>9. /\ off[m - 4] = off[m - 3] /\ off[m - 5] \in Nat
        /\ Value(5) \in Seq(Node) /\ Len(Value(5)) \in Nat
        /\ off[m - 5] + Len(Value(5)) = off[m - 4]
    BY <1>1, <1>5, <1>6, <1>7, NodesOf
  <1>10. /\ <<Value(5), Value(3), Value(1)>> \in Seq(Seq(Node)) /\ "qmop" \in Ops
         /\ Freed(<<Value(5), Value(3), Value(1)>>) = Len(Value(5)) + Len(Value(3)) + Len(Value(1))
    BY <1>8, <1>9, FreedArguments DEF Ops
  <1>11. off[m - 5] + Freed(<<Value(5), Value(3), Value(1)>>) = nodes
    BY <1>7, <1>8, <1>9, <1>10
  <1>12. new_exp(5, "qmop", <<Value(5), Value(3), Value(1)>>)
    BY DEF ReduceTernary
  <1> QED BY <1>5, <1>7, <1>8, <1>9, <1>10, <1>11, <1>12, NewExp

\* A symbol is only shifted where the grammar has it.
LEMMA Shifts == ASSUME PluralInv, Shift PROVE PluralInv'
  <1> DEFINE m == Len(stack)
             s == Lookahead
             st2 == Append(SubSeq(stack, 1, m - 0), s)
  <1>1. /\ parser = "parsing" /\ ~Done /\ CanShift /\ Push(0, s)
        /\ UNCHANGED <<nodes, plural, nplurals, failures>>
    BY DEF Shift
  <1>2. SymbolOK(s) /\ s \in Symbol
    BY LookaheadOK DEF SymbolOK
  <1>3. m \in Nat /\ stack \in Seq(Symbol) /\ 0 \in 0..m /\ m - 0 = m
    BY <1>1, StackTyped
  <1>4. st2[m + 1] = s /\ \A j \in 1..m : st2[j] = stack[j]
    BY <1>2, <1>3, Replaced
  <1>5. BelowOK(st2, m + 1)
    <2> HIDE DEF st2, s
    <2>1. CASE AfterExp
      <3>1. m >= 1 /\ stack[m].token = "exp"
        BY <1>3, <2>1 DEF AfterExp, Token
      <3>2. m + 1 > 1 /\ st2[(m + 1) - 1].token = "exp"
        BY <1>3, <1>4, <3>1
      <3>3. \/ s.token \in Binary \cup {"?"}
            \/ s.token = ":" /\ Token(2) = "?"
            \/ s.token = ")" /\ Token(2) = "("
        BY <1>1, <2>1 DEF CanShift, Binds, s
      <3>4. ":" \notin Binary \cup {"?"} /\ ")" \notin Binary \cup {"?"}
        BY BinaryTokens
      <3>5. CASE s.token \in Binary \cup {"?"}
        BY <1>4, <3>2, <3>4, <3>5 DEF BelowOK
      <3>6. ASSUME NEW t, Token(2) = t, t # "none"
            PROVE  m + 1 > 2 /\ st2[(m + 1) - 2].token = t
        <4>1. 2 <= m /\ stack[m + 1 - 2].token = t
          BY <3>6 DEF Token
        <4>2. (m + 1) - 2 \in 1..m
          BY <1>3, <4>1
        <4> QED BY <1>3, <1>4, <4>1, <4>2
      <3>7. CASE s.token = ":" /\ Token(2) = "?"
        BY <1>4, <3>2, <3>4, <3>6, <3>7 DEF BelowOK
      <3>8. CASE s.token = ")" /\ Token(2) = "("
        BY <1>4, <3>2, <3>4, <3>6, <3>8 DEF BelowOK
      <3> QED BY <3>3, <3>5, <3>7, <3>8
    <2>2. CASE ~AfterExp
      <3>1. s.token \in {"n", "NUMBER", "(", "!"}
        BY <1>1, <2>2 DEF CanShift, s
      <3>2. s.token \notin Binary \cup {"?", ":", ")"}
        BY <3>1, BinaryTokens
      <3> QED BY <1>4, <3>2 DEF BelowOK
    <2> QED BY <2>1, <2>2
  <1>6. Size(s) = 0
    <2>1. s.token # "exp"
      <3>1. CASE AfterExp
        BY <1>1, <3>1, BinaryTokens DEF CanShift, Binds
      <3>2. CASE ~AfterExp
        BY <1>1, <3>2 DEF CanShift
      <3> QED BY <3>1, <3>2
    <2> QED BY <2>1 DEF Size
  <1>7. PICK off : Nodes(stack, off) /\ off[m] = nodes
    BY <1>1, StackTyped
  <1>8. nodes \in Nat /\ failures \in 0..MaxFailures
    BY DEF PluralInv, PluralTypeOK
  <1>9. nodes' \in Nat /\ failures' \in 0..MaxFailures /\ off[m - 0] + Size(s) = nodes'
    BY <1>1, <1>3, <1>6, <1>7, <1>8
  <1>10. UNCHANGED <<nplurals, plural>>
    BY <1>1
  <1> HIDE DEF s
  <1>11. BelowOK(Append(SubSeq(stack, 1, Len(stack) - 0), s), Len(stack) - 0 + 1)
    BY <1>3, <1>5
  <1> QED BY <1>1, <1>2, <1>3, <1>7, <1>9, <1>10, <1>11, Pushes

\* The one expression that is left is all that is allocated.
LEMMA StartReduced == ASSUME PluralInv, ReduceStart PROVE PluralInv'
  <1>1. /\ parser = "parsing" /\ UNCHANGED <<stack, yystacksize, nodes, nplurals, failures>>
        /\ parser' \in {"accepted", "rejected"}
        /\ parser' = "accepted" => plural' = Value(1)
        /\ Token(1) = "exp" /\ Len(stack) = 1
    BY DEF ReduceStart, AllDone, AfterExp
  <1>2. PICK off : Nodes(stack, off) /\ off[1] = nodes
    BY <1>1, StackTyped
  <1>3. off[0] + Len(Value(1)) = off[1] /\ Len(Value(1)) \in Nat
    <2>1. 1 \in 1..Len(stack) /\ Len(stack) + 1 - 1 = 1 /\ Len(stack) - 1 = 0
      BY <1>1
    <2> QED BY <1>1, <1>2, <2>1, NodesOf
  <1>4. off[0] = 0
    BY <1>2 DEF Nodes
  <1>5. TreeIsAll'
    BY <1>1, <1>2, <1>3, <1>4 DEF TreeIsAll
  <1> QED BY <1>1, <1>5 DEF PluralInv, PluralTypeOK

LEMMA ErrorFound == ASSUME PluralInv, yyerrlab PROVE PluralInv'
  <1>1. /\ parser' = "rejected" /\ stack' = << >>
        /\ UNCHANGED <<yystacksize, nodes, nplurals, failures>>
    BY DEF yyerrlab
  <1>2. yystacksize \in YYINITDEPTH..YYMAXDEPTH
    BY DEF PluralInv, PluralTypeOK
  <1>3. Len(<< >>) <= yystacksize - 1
    BY <1>2, PluralAssumption
  <1> QED BY <1>1, <1>3 DEF PluralInv, PluralTypeOK, TreeIsAll

LEMMA PluralsExtracted == ASSUME PluralInv, Extracted PROVE PluralInv'
  <1>1. /\ parser' = "done" /\ stack' = << >> /\ nplurals' \in {nplurals, 2}
        /\ UNCHANGED <<yystacksize, nodes, failures>>
        /\ (parser = "accepted" /\ plural' = plural) \/ plural' = GERMANIC_PLURAL
    BY DEF Extracted
  <1>2. yystacksize \in YYINITDEPTH..YYMAXDEPTH /\ nplurals \in 0..(ULONG - 1)
    BY DEF PluralInv, PluralTypeOK
  <1>3. Len(<< >>) <= yystacksize - 1 /\ nplurals' \in 0..(ULONG - 1)
    BY <1>1, <1>2, PluralAssumption
  <1>4. TreeIsAll'
    BY <1>1 DEF PluralInv, TreeIsAll
  <1> QED BY <1>1, <1>3, <1>4 DEF PluralInv, PluralTypeOK

LEMMA ParseSteps == ASSUME PluralInv, Parse PROVE PluralInv'
  <1>1. CASE Reduce
    <2>1. parser = "parsing" /\ UNCHANGED <<nplurals, plural>>
      BY <1>1 DEF Reduce
    <2> QED BY <1>1, <2>1, VarReduced, NumReduced, ParenthesesReduced, NotReduced, BinaryReduced,
               TernaryReduced DEF Reduce
  <1> QED BY <1>1, StartReduced, Shifts, ErrorFound, PluralsExtracted DEF Parse

LEMMA FieldsTaken ==
    ASSUME PluralInv, NEW h, EXTRACT_PLURAL_EXPRESSION(h)
    PROVE  PluralInv'
  <1>1. /\ parser = "off" /\ parser' \in {"parsing", "rejected"}
        /\ UNCHANGED <<stack, yystacksize, nodes, plural, failures>>
    BY DEF EXTRACT_PLURAL_EXPRESSION
  <1>2. nplurals \in 0..(ULONG - 1)
    BY DEF PluralInv, PluralTypeOK
  <1>3. nplurals' \in 0..(ULONG - 1)
    <2>1. \/ nplurals' = nplurals
          \/ h.nplurals \in DOMAIN Numerals /\ nplurals' = strtoul(h.nplurals)
      BY DEF EXTRACT_PLURAL_EXPRESSION
    <2> QED BY <1>2, <2>1, NumeralTyped
  <1> QED BY <1>1, <1>3 DEF PluralInv, PluralTypeOK, TreeIsAll

LEMMA PluralStart == ASSUME PluralInit PROVE PluralInv
  <1>1. /\ stack = << >> /\ yystacksize = YYINITDEPTH /\ nodes = 0 /\ failures = 0
        /\ nplurals = 0 /\ parser = "off"
    BY DEF PluralInit
  <1>2. Len(<< >>) = 0 /\ StackOK(<< >>, 0)
    BY StackEmpty
  <1> QED BY <1>1, <1>2, PluralAssumption DEF PluralInv, PluralTypeOK, TreeIsAll

\* An allocation of the catalog's may fail meanwhile.
LEMMA PluralStays ==
    ASSUME PluralInv,
           UNCHANGED <<header, text, stack, yystacksize, nodes, plural, nplurals, parser>>,
           UNCHANGED failures \/ Fail
    PROVE  PluralInv' /\ (failures' = 0 => failures = 0)
  <1>1. failures \in 0..MaxFailures /\ MaxFailures \in Nat
    BY PluralAssumption DEF PluralInv, PluralTypeOK
  <1>2. failures' \in 0..MaxFailures /\ (failures' = 0 => failures = 0)
    BY <1>1, FailCounted DEF Fail
  <1> QED BY <1>2 DEF PluralInv, PluralTypeOK, TreeIsAll

\* Memory that was missing is not forgotten.
LEMMA FailuresStay == ASSUME PluralInv, Parse PROVE failures' = 0 => failures = 0
  <1>1. failures \in Nat
    BY PluralAssumption DEF PluralInv, PluralTypeOK
  <1>2. Fail => failures' # 0
    BY <1>1 DEF Fail
  <1>3. CASE Reduce
    <2>1. UNCHANGED failures \/ Fail
      BY <1>3 DEF Reduce, ReduceVar, ReduceNum, ReduceParentheses, ReduceNot, ReduceBinary,
                  ReduceTernary, new_exp
    <2> QED BY <1>2, <2>1
  <1>4. CASE ReduceStart \/ Shift \/ yyerrlab \/ Extracted
    BY <1>4 DEF ReduceStart, Shift, yyerrlab, Extracted
  <1> QED BY <1>3, <1>4 DEF Parse

-----------------------------------------------------------------------------
(* Strings.                                                                *)

LEMMA LeastIn ==
    ASSUME NEW S \in SUBSET Nat, S # {}
    PROVE  Min(S) \in S /\ \A k \in S : Min(S) <= k
  <1>1. \E n \in S : \A k \in S : n <= k
    BY LeastNumber
  <1> QED BY <1>1, Zenon DEF Min

\* What strcmp sees is no longer than the string.
LEMMA CStringType ==
    ASSUME NEW s \in Seq(Byte)
    PROVE  CString(s) \in Seq(Byte) /\ Len(CString(s)) \in Nat /\ Len(CString(s)) <= Len(s)
  <1> DEFINE nuls == {k \in DOMAIN s : s[k] = 0}
             m    == Min(nuls) - 1
  <1>1. Len(s) \in Nat /\ DOMAIN s = 1..Len(s) /\ \A j \in 1..Len(s) : s[j] \in Byte
    BY LenProperties, ElementOfSeq
  <1>2. CASE nuls = {}
    BY <1>1, <1>2 DEF CString
  <1>3. CASE nuls # {}
    <2>1. nuls \in SUBSET Nat /\ nuls \in SUBSET (1..Len(s))
      BY <1>1
    <2>2. Min(nuls) \in nuls
      BY <1>3, <2>1, LeastIn
    <2>3. m \in 0..(Len(s) - 1)
      BY <1>1, <2>1, <2>2
    <2>4. CString(s) = SubSeq(s, 1, m)
      BY <1>3 DEF CString
    <2> HIDE DEF m, nuls
    <2>5. \A j \in 1..m : s[j] \in Byte
      BY <1>1, <2>3
    <2>6. SubSeq(s, 1, m) \in Seq(Byte) /\ Len(SubSeq(s, 1, m)) = (IF 1 <= m THEN m - 1 + 1 ELSE 0)
      <3>1. 1 \in Int /\ m \in Int
        BY <1>1, <2>3
      <3> QED BY <2>5, <3>1, SubSeqProperties
    <2> QED BY <1>1, <2>3, <2>4, <2>6
  <1> QED BY <1>2, <1>3

\* a is less than b, and p is the first place where they differ.
LessAt(a, b, p) ==
    /\ p \in 1..Len(b) /\ Len(a) >= p - 1
    /\ \A j \in 1..(p - 1) : a[j] = b[j]
    /\ Len(a) = p - 1 \/ a[p] < b[p]

LEMMA SamePrefix ==
    ASSUME NEW a \in Seq(Byte), NEW b \in Seq(Byte), NEW k \in Nat, k <= Len(a), k <= Len(b)
    PROVE  SubSeq(a, 1, k) = SubSeq(b, 1, k) <=> \A j \in 1..k : a[j] = b[j]
  <1>1. /\ 1 \in Int /\ k \in Int
        /\ (\A p \in 1..k : a[p] \in Byte) /\ (\A p \in 1..k : b[p] \in Byte)
    BY LenProperties, ElementOfSeq
  <1>2. /\ SubSeq(a, 1, k) \in Seq(Byte) /\ Len(SubSeq(a, 1, k)) = (IF 1 <= k THEN k - 1 + 1 ELSE 0)
        /\ \A p \in 1..(k - 1 + 1) : SubSeq(a, 1, k)[p] = a[1 + p - 1]
    BY <1>1, SubSeqProperties
  <1>3. /\ SubSeq(b, 1, k) \in Seq(Byte) /\ Len(SubSeq(b, 1, k)) = (IF 1 <= k THEN k - 1 + 1 ELSE 0)
        /\ \A p \in 1..(k - 1 + 1) : SubSeq(b, 1, k)[p] = b[1 + p - 1]
    BY <1>1, SubSeqProperties
  <1>4. k - 1 + 1 = k /\ (\A p \in 1..k : 1 + p - 1 = p) /\ (IF 1 <= k THEN k - 1 + 1 ELSE 0) = k
    OBVIOUS
  <1>5. \A p \in 1..k : SubSeq(a, 1, k)[p] = a[p] /\ SubSeq(b, 1, k)[p] = b[p]
    BY <1>2, <1>3, <1>4
  <1>6. (\A j \in 1..k : SubSeq(a, 1, k)[j] = SubSeq(b, 1, k)[j])
            => SubSeq(a, 1, k) = SubSeq(b, 1, k)
    BY <1>2, <1>3, <1>4, SeqEqual
  <1> QED BY <1>5, <1>6

LEMMA LessIsAt ==
    ASSUME NEW a \in Seq(Byte), NEW b \in Seq(Byte)
    PROVE  Less(a, b) <=> \E p \in 1..Len(b) : LessAt(a, b, p)
  <1>1. /\ Len(a) \in Nat /\ Len(b) \in Nat /\ DOMAIN a = 1..Len(a) /\ DOMAIN b = 1..Len(b)
    BY LenProperties
  <1>2. Len(a) <= Len(b) => (SubSeq(a, 1, Len(a)) = SubSeq(b, 1, Len(a))
                                 <=> \A j \in 1..Len(a) : a[j] = b[j])
    BY <1>1, SamePrefix
  <1>3. ASSUME IsStrictPrefix(a, b) PROVE \E p \in 1..Len(b) : LessAt(a, b, p)
    <2>1. Len(a) <= Len(b) /\ a # b /\ \A j \in 1..Len(a) : a[j] = b[j]
      BY <1>2, <1>3 DEF IsStrictPrefix, IsPrefix
    <2>2. Len(a) # Len(b)
      BY <2>1, SeqEqual
    <2>3. Len(a) + 1 \in 1..Len(b) /\ (Len(a) + 1) - 1 = Len(a) /\ Len(a) >= Len(a)
      <3>1. Len(a) \in Nat /\ Len(b) \in Nat /\ Len(a) <= Len(b) /\ Len(a) # Len(b)
        BY <1>1, <2>1, <2>2
      <3> QED BY <3>1
    <2>4. LessAt(a, b, Len(a) + 1)
      BY <2>1, <2>3 DEF LessAt
    <2> QED BY <2>3, <2>4
  <1>4. ASSUME NEW k \in 1..Len(a), k \in 1..Len(b)
        PROVE  SubSeq(a, 1, k - 1) = SubSeq(b, 1, k - 1) <=> \A j \in 1..(k - 1) : a[j] = b[j]
    <2>1. k - 1 \in Nat /\ k - 1 <= Len(a) /\ k - 1 <= Len(b)
      BY <1>1, <1>4
    <2> QED BY <2>1, SamePrefix
  <1>5. ASSUME NEW k \in DOMAIN a \cap DOMAIN b, a[k] < b[k], SubSeq(a, 1, k - 1) = SubSeq(b, 1, k - 1)
        PROVE  \E p \in 1..Len(b) : LessAt(a, b, p)
    <2>1. k \in 1..Len(a) /\ k \in 1..Len(b)
      BY <1>1
    <2>2. \A j \in 1..(k - 1) : a[j] = b[j]
      BY <1>4, <1>5, <2>1
    <2>3. LessAt(a, b, k)
      BY <1>1, <1>5, <2>1, <2>2 DEF LessAt
    <2> QED BY <2>1, <2>3
  <1>6. ASSUME NEW p \in 1..Len(b), LessAt(a, b, p) PROVE Less(a, b)
    <2>1. Len(a) >= p - 1 /\ \A j \in 1..(p - 1) : a[j] = b[j]
      BY <1>6 DEF LessAt
    <2>2. CASE Len(a) = p - 1
      <3>1. Len(a) <= Len(b) /\ a # b /\ \A j \in 1..Len(a) : a[j] = b[j]
        BY <1>1, <2>1, <2>2
      <3>2. IsStrictPrefix(a, b)
        BY <1>2, <3>1 DEF IsStrictPrefix, IsPrefix
      <3> QED BY <3>2 DEF Less
    <2>3. CASE Len(a) # p - 1
      <3>1. p \in 1..Len(a) /\ a[p] < b[p]
        BY <1>1, <1>6, <2>1, <2>3 DEF LessAt
      <3>2. SubSeq(a, 1, p - 1) = SubSeq(b, 1, p - 1)
        BY <1>4, <2>1, <3>1
      <3>3. p \in DOMAIN a \cap DOMAIN b
        BY <1>1, <3>1
      <3> QED BY <3>1, <3>2, <3>3 DEF Less
    <2> QED BY <2>2, <2>3
  <1> QED BY <1>3, <1>5, <1>6 DEF Less

LEMMA NotLessThanItself == ASSUME NEW a \in Seq(Byte) PROVE ~Less(a, a)
  <1> SUFFICES ASSUME NEW p \in 1..Len(a), LessAt(a, a, p) PROVE FALSE
    BY LessIsAt
  <1>1. Len(a) \in Nat /\ a[p] \in Byte
    BY LenProperties, ElementOfSeq
  <1>2. a[p] \in Nat /\ p \in Nat
    <2>1. \A x \in Byte : x \in Nat
      BY DEF Byte
    <2> QED BY <1>1, <2>1
  <1>3. ~(Len(a) = p - 1) /\ ~(a[p] < a[p])
    BY <1>1, <1>2
  <1> QED BY <1>3 DEF LessAt

LEMMA LessTransitive ==
    ASSUME NEW a \in Seq(Byte), NEW b \in Seq(Byte), NEW c \in Seq(Byte), Less(a, b), Less(b, c)
    PROVE  Less(a, c)
  <1>1. PICK p \in 1..Len(b) : LessAt(a, b, p)
    BY LessIsAt
  <1>2. PICK k \in 1..Len(c) : LessAt(b, c, k)
    BY LessIsAt
  <1>3. /\ Len(a) \in Nat /\ Len(b) \in Nat /\ Len(c) \in Nat
        /\ \A j \in 1..Len(a) : a[j] \in Nat
        /\ \A j \in 1..Len(b) : b[j] \in Nat
        /\ \A j \in 1..Len(c) : c[j] \in Nat
    <2>1. \A x \in Byte : x \in Nat
      BY DEF Byte
    <2>2. Len(a) \in Nat /\ Len(b) \in Nat /\ Len(c) \in Nat
      BY LenProperties
    <2>3. /\ \A j \in 1..Len(a) : a[j] \in Byte
          /\ \A j \in 1..Len(b) : b[j] \in Byte
          /\ \A j \in 1..Len(c) : c[j] \in Byte
      BY ElementOfSeq
    <2> QED BY <2>1, <2>2, <2>3
  <1>4. /\ p \in 1..Len(b) /\ Len(a) >= p - 1 /\ (\A j \in 1..(p - 1) : a[j] = b[j])
        /\ Len(a) = p - 1 \/ a[p] < b[p]
    BY <1>1 DEF LessAt
  <1>5. /\ k \in 1..Len(c) /\ Len(b) >= k - 1 /\ (\A j \in 1..(k - 1) : b[j] = c[j])
        /\ Len(b) = k - 1 \/ b[k] < c[k]
    BY <1>2 DEF LessAt
  <1>6. CASE p < k
    <2>1. b[p] = c[p] /\ p \in 1..Len(c) /\ \A j \in 1..(p - 1) : a[j] = c[j]
      BY <1>3, <1>4, <1>5, <1>6
    <2>2. LessAt(a, c, p)
      BY <1>4, <2>1 DEF LessAt
    <2> QED BY <2>1, <2>2, LessIsAt
  <1>7. CASE p = k
    <2>1. \A j \in 1..(p - 1) : a[j] = c[j]
      BY <1>3, <1>4, <1>5, <1>7
    <2>2. Len(a) = p - 1 \/ a[p] < c[p]
      <3> SUFFICES ASSUME Len(a) # p - 1 PROVE a[p] < c[p]
        OBVIOUS
      <3>1. p \in 1..Len(a) /\ p \in 1..Len(b) /\ p \in 1..Len(c) /\ Len(b) # k - 1
        BY <1>3, <1>4, <1>5, <1>7
      <3>2. a[p] < b[p] /\ b[p] < c[p]
        BY <1>4, <1>5, <1>7, <3>1
      <3>3. a[p] \in Nat /\ b[p] \in Nat /\ c[p] \in Nat
        BY <1>3, <3>1
      <3> QED BY <3>2, <3>3
    <2>3. LessAt(a, c, k)
      BY <1>4, <1>5, <1>7, <2>1, <2>2 DEF LessAt
    <2> QED BY <2>3, LessIsAt
  <1>8. CASE p > k
    <2>1. /\ \A j \in 1..(k - 1) : a[j] = c[j]
          /\ a[k] = b[k] /\ k \in 1..Len(a) /\ k \in 1..Len(b)
      BY <1>3, <1>4, <1>5, <1>8
    <2>2. a[k] < c[k] /\ Len(a) >= k - 1
      <3>1. Len(b) # k - 1
        BY <1>3, <2>1
      <3> QED BY <1>3, <1>5, <2>1, <3>1
    <2>3. LessAt(a, c, k)
      BY <1>5, <2>1, <2>2 DEF LessAt
    <2> QED BY <2>3, LessIsAt
  <1> QED BY <1>3, <1>4, <1>5, <1>6, <1>7, <1>8

-----------------------------------------------------------------------------
(* System dependent strings.                                               *)

LEMMA SegmentType == \A name : get_sysdep_segment_value(name) \in Seq(Byte)
  <1>1. PRI \in [{"PRI"} \X Conversions \X Sizes -> Seq(Byte)]
    BY FilesAssumption
  <1>2. \A name \in {"PRI"} \X Conversions \X Sizes : PRI[name] \in Seq(Byte)
    <2> DEFINE D == {"PRI"} \X Conversions \X Sizes
    <2>1. PRI \in [D -> Seq(Byte)]
      BY <1>1
    <2> HIDE DEF D
    <2>2. \A name \in D : PRI[name] \in Seq(Byte)
      BY <2>1
    <2> QED BY <2>2 DEF D
  <1>3. <<73>> \in Seq(Byte) /\ << >> \in Seq(Byte)
    <2>1. 73 \in Byte
      BY DEF Byte
    <2> QED BY <2>1
  <1> QED BY <1>2, <1>3, Zenon DEF get_sysdep_segment_value

LEMMA JoinedType ==
    ASSUME NEW f \in CatalogFiles, NEW s \in Parts,
           \A k \in 1..(Len(s) - 1) : Supported(f, s[k].ref)
    PROVE  Joined(f, s) \in Seq(Byte)
  <1> DEFINE Part == [static : Seq(Byte), ref : Nat \cup {None}]
             next(k) == IF k < Len(s) THEN SegmentValues(f)[s[k].ref + 1] ELSE << >>
             pieces == [k \in DOMAIN s |-> s[k].static \o next(k)]
  <1>1. s \in Seq(Part) /\ \A k \in 1..(Len(s) - 1) : s[k].ref # None
    BY DEF Parts
  <1>2. /\ Len(s) \in Nat /\ DOMAIN s = 1..Len(s)
        /\ \A k \in 1..Len(s) : s[k].static \in Seq(Byte) /\ s[k].ref \in Nat \cup {None}
    <2>1. Len(s) \in Nat /\ DOMAIN s = 1..Len(s) /\ \A k \in 1..Len(s) : s[k] \in Part
      BY <1>1, LenProperties, ElementOfSeq
    <2> QED BY <2>1
  <1>3. Len(f.segments) \in Nat /\ DOMAIN f.segments = 1..Len(f.segments)
    BY FilesAssumption, LenProperties
  <1>4. \A k \in DOMAIN f.segments : SegmentValues(f)[k] \in Seq(Byte)
    BY SegmentType DEF SegmentValues
  <1>5. ASSUME NEW k \in 1..Len(s) PROVE next(k) \in Seq(Byte)
    <2>1. CASE k < Len(s)
      <3>1. k \in 1..(Len(s) - 1)
        BY <1>2, <2>1
      <3>2. s[k].ref \in Nat /\ s[k].ref < Len(f.segments)
        BY <1>1, <1>2, <3>1 DEF Supported
      <3>3. s[k].ref + 1 \in DOMAIN f.segments
        BY <1>3, <3>2
      <3> QED BY <1>4, <2>1, <3>3
    <2>2. CASE ~(k < Len(s))
      BY <2>2, EmptySeq
    <2> QED BY <2>1, <2>2
  <1> HIDE DEF next
  <1>6. ASSUME NEW k \in 1..Len(s) PROVE s[k].static \o next(k) \in Seq(Byte)
    BY <1>2, <1>5, ConcatProperties
  <1>7. pieces \in Seq(Seq(Byte))
    BY <1>2, <1>6
  <1>8. Joined(f, s) = FlattenSeq(pieces)
    BY DEF Joined, next
  <1> HIDE DEF pieces
  <1> QED BY <1>7, <1>8, FlattenType

LEMMA ValidJoined ==
    ASSUME NEW f \in CatalogFiles, NEW pair \in [orig : Parts, trans : Parts], Valid(f, pair)
    PROVE  Joined(f, pair.orig) \in Seq(Byte) /\ Joined(f, pair.trans) \in Seq(Byte)
  <1> DEFINE Ref == Nat \cup {None}
             refs(s) == [k \in 1..(Len(s) - 1) |-> s[k].ref]
             a == refs(pair.orig)
             b == refs(pair.trans)
  <1>1. pair.orig \in Parts /\ pair.trans \in Parts
    OBVIOUS
  <1>2. ASSUME NEW s \in Parts
        PROVE  /\ refs(s) \in Seq(Ref) /\ Len(s) \in Nat
               /\ \A k \in 1..(Len(s) - 1) : k \in 1..Len(refs(s)) /\ refs(s)[k] = s[k].ref
    <2> DEFINE n == IF Len(s) > 0 THEN Len(s) - 1 ELSE 0
    <2>1. s \in Seq([static : Seq(Byte), ref : Ref])
      BY DEF Parts
    <2>2. Len(s) \in Nat /\ \A k \in 1..Len(s) : s[k].ref \in Ref
      <3>1. Len(s) \in Nat /\ \A k \in 1..Len(s) : s[k] \in [static : Seq(Byte), ref : Ref]
        BY <2>1, LenProperties, ElementOfSeq
      <3> QED BY <3>1
    <2>3. n \in Nat /\ 1..(Len(s) - 1) = 1..n /\ 1..n \subseteq 1..Len(s)
      BY <2>2
    <2> HIDE DEF n, Ref
    <2>4. refs(s) = [k \in 1..n |-> s[k].ref]
      BY <2>3
    <2>5. [k \in 1..n |-> s[k].ref] \in Seq(Ref) /\ Len([k \in 1..n |-> s[k].ref]) = n
      BY <2>2, <2>3
    <2>6. \A k \in 1..n : [j \in 1..n |-> s[j].ref][k] = s[k].ref
      OBVIOUS
    <2> QED BY <2>2, <2>3, <2>4, <2>5, <2>6
  <1>3. a \in Seq(Ref) /\ b \in Seq(Ref)
    BY <1>1, <1>2
  <1>4. References(pair) = a \o b
    BY DEF References
  <1>5. \A r \in ToSet(a \o b) : Supported(f, r)
    BY <1>4 DEF Valid
  <1>6. /\ \A k \in 1..(Len(pair.orig) - 1) : k \in 1..Len(a) /\ a[k] = pair.orig[k].ref
        /\ \A k \in 1..(Len(pair.trans) - 1) : k \in 1..Len(b) /\ b[k] = pair.trans[k].ref
    BY <1>1, <1>2
  <1> HIDE DEF a, b, refs, Ref
  <1>7. /\ a \o b \in Seq(Ref) /\ Len(a) \in Nat /\ Len(b) \in Nat
        /\ \A j \in 1..Len(a) : j \in 1..Len(a \o b) /\ (a \o b)[j] = a[j]
        /\ \A k \in 1..Len(b) : Len(a) + k \in 1..Len(a \o b) /\ (a \o b)[Len(a) + k] = b[k]
    BY <1>3, ConcatLayout
  <1>8. ToSet(a \o b) = {(a \o b)[j] : j \in 1..Len(a \o b)}
    BY <1>7, LenProperties DEF ToSet
  <1>9. /\ \A j \in 1..Len(a) : a[j] \in ToSet(a \o b)
        /\ \A k \in 1..Len(b) : b[k] \in ToSet(a \o b)
    BY <1>7, <1>8
  <1>10. /\ \A k \in 1..(Len(pair.orig) - 1) : Supported(f, pair.orig[k].ref)
         /\ \A k \in 1..(Len(pair.trans) - 1) : Supported(f, pair.trans[k].ref)
    BY <1>5, <1>6, <1>9
  <1> QED BY <1>1, <1>10, JoinedType

\* What is put together from a file are strings.
LEMMA InMemType == ASSUME NEW f \in CatalogFiles PROVE InMem(f) \in Seq(Strings)
  <1> DEFINE P == {p \in [orig : Parts, trans : Parts] : Valid(f, p)}
             pick == [k \in DOMAIN f.sysdep |-> IF Valid(f, f.sysdep[k]) THEN <<f.sysdep[k]>> ELSE << >>]
             valid == FlattenSeq(pick)
             join(p) == [orig |-> Joined(f, p.orig), trans |-> Joined(f, p.trans)]
  <1>1. f.sysdep \in Seq([orig : Parts, trans : Parts])
    BY FilesAssumption
  <1>2. /\ Len(f.sysdep) \in Nat /\ DOMAIN f.sysdep = 1..Len(f.sysdep)
        /\ \A k \in 1..Len(f.sysdep) : f.sysdep[k] \in [orig : Parts, trans : Parts]
    BY <1>1, LenProperties, ElementOfSeq
  <1>3. pick \in Seq(Seq(P))
    <2>1. ASSUME NEW k \in 1..Len(f.sysdep)
          PROVE  (IF Valid(f, f.sysdep[k]) THEN <<f.sysdep[k]>> ELSE << >>) \in Seq(P)
      <3>1. Valid(f, f.sysdep[k]) => f.sysdep[k] \in P
        BY <1>2
      <3> HIDE DEF P
      <3>2. Valid(f, f.sysdep[k]) => <<f.sysdep[k]>> \in Seq(P)
        BY <3>1
      <3> QED BY <3>2, EmptySeq
    <2> HIDE DEF P
    <2> QED BY <1>2, <2>1
  <1>4. valid \in Seq(P)
    <2> HIDE DEF P, pick
    <2> QED BY <1>3, FlattenType
  <1>5. \A p \in P : join(p) \in Strings
    <2> SUFFICES ASSUME NEW p \in P PROVE join(p) \in Strings
      OBVIOUS
    <2>1. Joined(f, p.orig) \in Seq(Byte) /\ Joined(f, p.trans) \in Seq(Byte)
      BY ValidJoined
    <2> QED BY <2>1 DEF Strings
  <1>6. InMem(f) = [k \in DOMAIN valid |-> join(valid[k])]
    BY DEF InMem
  <1> HIDE DEF valid, P, join
  <1>7. Len(valid) \in Nat /\ DOMAIN valid = 1..Len(valid) /\ \A k \in 1..Len(valid) : valid[k] \in P
    BY <1>4, LenProperties, ElementOfSeq
  <1> QED BY <1>5, <1>6, <1>7

-----------------------------------------------------------------------------
(* The places in a hash table.                                             *)

LEMMA ProbeFirst ==
    ASSUME NEW h \in Nat, NEW size \in Nat, size > 2 PROVE Probe(h, size, 0) = First(h, size)
  <1>1. First(h, size) \in Nat /\ First(h, size) < size
    BY Division DEF First
  <1>2. size - 2 \in Nat \ {0}
    OBVIOUS
  <1>3. Step(h, size) \in Nat
    BY <1>2, Division DEF Step
  <1>4. 0 * Step(h, size) = 0
    BY <1>3, Times
  <1>5. PICK f \in Nat : f = First(h, size)
    BY <1>1
  <1>6. (0 * size + f) % size = f
    BY <1>1, <1>5, Remainder
  <1> QED BY <1>1, <1>4, <1>5, <1>6 DEF Probe

\* Each place that is looked at comes after the one before, around the end.
LEMMA ProbeMoves ==
    ASSUME NEW h \in Nat, NEW size \in Nat, size > 2, NEW j \in Nat
    PROVE  /\ Probe(h, size, j) \in 0..(size - 1)
           /\ NextPlace(Probe(h, size, j), Step(h, size), size) = Probe(h, size, j + 1)
           /\ Probe(h, size, 0) = First(h, size)
  <1> DEFINE f == First(h, size)
             s == Step(h, size)
             n == f + j * s
             q == n \div size
             x == n % size
  <1>1. f \in Nat /\ f < size
    BY Division DEF First
  <1>2. s \in Nat /\ s >= 1 /\ s < size
    <2>1. size - 2 \in Nat \ {0}
      OBVIOUS
    <2>2. h % (size - 2) \in 0..((size - 2) - 1)
      BY <2>1, Division
    <2> QED BY <2>2 DEF Step
  <1> HIDE DEF f, s
  <1>3. j * s \in Nat /\ (j + 1) * s = j * s + s /\ 0 * s = 0
    BY <1>2, Times
  <1>4. n \in Nat /\ f + (j + 1) * s = n + s
    BY <1>1, <1>2, <1>3
  <1>5. Probe(h, size, j) = n % size /\ Probe(h, size, j + 1) = (n + s) % size
    BY <1>4 DEF Probe, f, s
  <1> HIDE DEF n
  <1>0. size \in Nat \ {0}
    OBVIOUS
  <1>6. q \in Nat /\ x \in 0..(size - 1) /\ n = q * size + x
    BY <1>0, <1>4, Division
  <1> HIDE DEF q, x
  <1>7. CASE x + s < size
    <2>1. n + s = q * size + (x + s)
      <3>1. q * size \in Nat
        BY <1>6
      <3> QED BY <1>2, <1>6, <3>1
    <2>2. PICK y \in Nat : y = x + s
      BY <1>2, <1>6
    <2>3. (q * size + y) % size = y
      BY <1>0, <1>6, <1>7, <2>2, Remainder
    <2>4. (n + s) % size = x + s
      BY <2>1, <2>2, <2>3
    <2>5. NextPlace(x, s, size) = x + s
      BY <1>2, <1>6, <1>7 DEF NextPlace
    <2> QED BY <1>5, <1>6, <2>4, <2>5, ProbeFirst DEF s, x
  <1>8. CASE ~(x + s < size)
    <2>1. PICK y \in Nat : y = x + s - size
      BY <1>2, <1>6, <1>8
    <2>2. y < size
      BY <1>2, <1>6, <2>1
    <2>3. q * size \in Nat /\ (q + 1) * size = q * size + size
      BY <1>6, Times
    <2>4. n + s = (q + 1) * size + y
      BY <1>2, <1>6, <2>1, <2>3
    <2>5. PICK r \in Nat : r = q + 1
      BY <1>6
    <2>6. (r * size + y) % size = y
      BY <1>0, <2>2, <2>5, Remainder
    <2>7. (n + s) % size = y
      BY <2>4, <2>5, <2>6
    <2>8. NextPlace(x, s, size) = y
      BY <1>2, <1>6, <1>8, <2>1 DEF NextPlace
    <2> QED BY <1>5, <1>6, <2>7, <2>8, ProbeFirst DEF s, x
  <1> QED BY <1>7, <1>8

-----------------------------------------------------------------------------
(* The invariant.                                                          *)

\* The catalog's messages by number, and how many there are; the table in the
\* order of this machine.
Id(a) == CString(OrigOf(a))
Total == domain.nstrings + Len(domain.sysdep)
Table == InOrder(domain.hash_tab, domain.must_swap_hash_tab)

\* How many system dependent ones are in the table.
Placed ==
    CASE at = "augment"           -> 0
      [] at \in {"enter", "place"} -> i - 1
      [] OTHER                     -> Len(domain.sysdep)

\* No place before the j-th for h is empty.
Passed(h, j) == \A l \in 0..(j - 1) : Table[Probe(h, Len(Table), l) + 1] # 0

Memory == [fd : BOOLEAN, data : {"none", "mapped", "malloced"}, domain : BOOLEAN, malloced : BOOLEAN]
Domain == [nstrings : Nat, hash_size : Int, hash_tab : Seq(Int), must_swap_hash_tab : BOOLEAN,
           sysdep : Seq(Strings)]

Early == {"open", "stat", "map", "read", "magic", "allocate", "revision"}
Holds == {"augment", "enter", "place", "header", "parse", "find", "probe", "halve", "found", "killed"}
Both  == {"idle", "loaded", "absent", "answered"}

\* What is held, from one step of the loading to the next.
Held ==
    /\ mem \in Memory /\ decided \in BOOLEAN
    /\ ~decided => at = "idle" /\ mem = Nothing /\ domain = NoDomain
    /\ at \in Early => domain = NoDomain /\ ~mem.malloced /\ decided
    /\ at = "open" => mem = Nothing
    /\ at \in {"stat", "map"} => mem.data = "none" /\ ~mem.domain
    /\ at = "read" => mem.data # "none" /\ ~mem.domain
    /\ at \in {"magic", "allocate"} => mem.data # "none" /\ ~mem.fd /\ ~mem.domain
    /\ at = "revision" => mem.data # "none" /\ ~mem.fd /\ mem.domain
    /\ at \in Holds => domain # NoDomain
    /\ at \notin Early /\ domain = NoDomain =>
           ~mem.domain /\ ~mem.malloced /\ (failures = 0 => mem = Nothing)
    /\ domain # NoDomain =>
           /\ mem.domain /\ mem.data # "none" /\ ~mem.fd
           /\ domain.sysdep # << >> => mem.malloced

\* Every message that is in the table is found in it, and without one the
\* messages are in order.
Findable ==
    domain # NoDomain =>
        /\ domain \in Domain /\ domain.nstrings = Len(file.strings)
        /\ IF domain.hash_tab = << >>
           THEN /\ domain.sysdep = << >> /\ at \notin {"augment", "enter", "place", "probe"}
                /\ \A a, b \in 0..(Total - 1) : a < b => Less(Id(a), Id(b))
           ELSE /\ Len(domain.hash_tab) = domain.hash_size /\ domain.hash_size > 2
                /\ \A x \in DOMAIN Table : Table[x] \in 0..Total
                /\ \A a \in 0..(domain.nstrings + Placed - 1) :
                       \E j \in Nat : FoundAt(Table, hash_string(Id(a)), a + 1, j)
        /\ at = "augment" => domain.must_swap_hash_tab = MustSwap
        /\ at \in {"enter", "place"} => ~domain.must_swap_hash_tab /\ i \in 1..(Len(domain.sysdep) + 1)
        /\ at = "place" =>
               /\ i <= Len(domain.sysdep)
               /\ \E h \in 0..(HASHWORD - 1), j \in Nat :
                      /\ h = hash_string(CString(domain.sysdep[i].orig))
                      /\ incr = Step(h, domain.hash_size) /\ idx = Probe(h, domain.hash_size, j)
                      /\ Passed(h, j)

\* What a search has seen is not what it looks for.
Searched ==
    /\ query \in Queries \cup {Header}
    /\ domain = NoDomain => act = None
    /\ domain # NoDomain => act \in {None} \cup 0..(Total - 1)
    /\ query.from = "load" => at \notin {"answered", "killed"} /\ (at = "absent" => domain # NoDomain)
    /\ at \in {"find", "probe", "halve", "absent"} /\ query.from = "caller" => act = None
    /\ at = "probe" =>
           /\ domain.hash_tab # << >>
           /\ \E h \in 0..(HASHWORD - 1), j \in Nat :
                  /\ h = hash_string(query.id)
                  /\ incr = Step(h, domain.hash_size) /\ idx = Probe(h, domain.hash_size, j)
                  /\ Passed(h, j)
                  /\ \A l \in 0..(j - 1) : Id(Table[Probe(h, Len(Table), l) + 1] - 1) # query.id
    /\ at = "halve" =>
           /\ domain.hash_tab = << >>
           /\ bottom \in Nat /\ top \in Nat /\ bottom <= top /\ top <= Total
           /\ \A a \in 0..(bottom - 1) : Less(Id(a), query.id)
           /\ \A a \in top..(Total - 1) : Less(query.id, Id(a))
    /\ at = "found" => act # None /\ Id(act) = query.id
    /\ at = "absent" /\ domain # NoDomain => \A a \in 0..(Total - 1) : Id(a) # query.id
    /\ at = "answered" /\ domain # NoDomain =>
           IF act = None THEN \A a \in 0..(Total - 1) : Id(a) # query.id
           ELSE Id(act) = query.id /\ form = plural_lookup(act, query.n)

IInv ==
    /\ file \in CatalogFiles /\ queries \in 0..MaxQueries
    /\ at \in Early \cup Holds \cup Both
    /\ header \in {NoHeader, file.header}
    /\ PluralInv /\ Held /\ Findable /\ Searched

LEMMA RecordsAreNotNone == \A d \in Domain : d # NoDomain
  <1> SUFFICES ASSUME NEW d \in Domain, d = NoDomain PROVE FALSE
    OBVIOUS
  <1>1. "nstrings" \in DOMAIN d
    BY DEF Domain
  <1>2. DOMAIN NoDomain = {}
    BY DEF NoDomain
  <1> QED BY <1>1, <1>2

LEMMA FileStrings ==
    ASSUME NEW f \in CatalogFiles
    PROVE  /\ Len(f.strings) \in Nat /\ DOMAIN f.strings = 1..Len(f.strings)
           /\ \A k \in 1..Len(f.strings) :
                  f.strings[k].orig \in Seq(Byte) /\ f.strings[k].trans \in Seq(Byte)
           /\ TablesHold(f)
  <1>1. f.strings \in Seq(Strings) /\ TablesHold(f)
    BY FilesAssumption
  <1>2. \A k \in 1..Len(f.strings) : f.strings[k] \in Strings
    BY <1>1, ElementOfSeq
  <1> QED BY <1>1, <1>2, LenProperties DEF Strings

\* The invariant's parts before a catalog is loaded.
LEMMA EarlyStep ==
    ASSUME IInv, domain = NoDomain, domain' = NoDomain, UNCHANGED <<file, queries, query, act, header>>,
           at' \in Early \cup {"loaded"}, PluralInv', Held'
    PROVE  IInv'
  <1>1. Findable'
    BY DEF Findable
  <1>2. Searched'
    BY DEF Searched, IInv, Early
  <1>3. at' \in Early \cup Holds \cup Both
    BY DEF Both
  <1> QED BY <1>1, <1>2, <1>3 DEF IInv

LEMMA StatesDiffer ==
    /\ \A s \in Early : s \notin Holds /\ s \notin Both
    /\ "loaded" \in Both /\ "idle" \in Both /\ "loaded" \notin Early /\ "loaded" \notin Holds
    /\ "idle" \notin Early /\ "idle" \notin Holds
  BY DEF Early, Holds, Both

LEMMA PluralUnchanged == ASSUME PluralInv, UNCHANGED plural_vars PROVE PluralInv' /\ failures' = failures
  BY DEF plural_vars, PluralInv, PluralTypeOK, TreeIsAll

LEMMA NothingHeld ==
    /\ Nothing \in Memory /\ Nothing.data = "none"
    /\ ~Nothing.fd /\ ~Nothing.domain /\ ~Nothing.malloced
    /\ \A m \in Memory : m.data = "none" /\ ~m.fd /\ ~m.domain /\ ~m.malloced => m = Nothing
  <1>1. Nothing \in Memory
    BY DEF Nothing, Memory
  <1>2. Nothing.data = "none" /\ Nothing.fd = FALSE /\ Nothing.domain = FALSE /\ Nothing.malloced = FALSE
    BY DEF Nothing
  <1>3. ASSUME NEW m \in Memory, m.data = "none", ~m.fd, ~m.domain, ~m.malloced
        PROVE  m = Nothing
    <2>1. m.fd = FALSE /\ m.domain = FALSE /\ m.malloced = FALSE
      BY <1>3 DEF Memory
    <2>2. m = [fd |-> m.fd, data |-> m.data, domain |-> m.domain, malloced |-> m.malloced]
      BY DEF Memory
    <2> QED BY <1>3, <2>1, <2>2 DEF Nothing
  <1> QED BY <1>1, <1>2, <1>3

LEMMA HeldEarly ==
    ASSUME mem' \in Memory, decided' = TRUE, domain' = NoDomain, ~mem'.malloced,
           \/ at' = "open" /\ mem' = Nothing
           \/ at' \in {"stat", "map"} /\ mem'.data = "none" /\ ~mem'.domain
           \/ at' = "read" /\ mem'.data # "none" /\ ~mem'.domain
           \/ at' \in {"magic", "allocate"} /\ mem'.data # "none" /\ ~mem'.fd /\ ~mem'.domain
           \/ at' = "revision" /\ mem'.data # "none" /\ ~mem'.fd /\ mem'.domain
           \/ at' = "loaded" /\ ~mem'.domain /\ (failures' = 0 => mem' = Nothing)
    PROVE  Held'
  <1>1. at' \in Early \cup {"loaded"} /\ at' \notin Holds /\ (at' \notin Early => at' = "loaded")
    BY DEF Early, Holds
  <1>2. decided' \in BOOLEAN /\ decided'
    OBVIOUS
  <1>3. /\ at' = "open" => mem' = Nothing
        /\ at' \in {"stat", "map"} => mem'.data = "none" /\ ~mem'.domain
        /\ at' = "read" => mem'.data # "none" /\ ~mem'.domain
        /\ at' \in {"magic", "allocate"} => mem'.data # "none" /\ ~mem'.fd /\ ~mem'.domain
        /\ at' = "revision" => mem'.data # "none" /\ ~mem'.fd /\ mem'.domain
        /\ at' = "loaded" => ~mem'.domain /\ (failures' = 0 => mem' = Nothing)
    OBVIOUS
  <1> QED BY <1>1, <1>2, <1>3 DEF Held

LEMMA Decided == ASSUME Held, at # "idle" PROVE decided = TRUE
  BY DEF Held

LEMMA LoadStarts == ASSUME IInv, LoadDomain PROVE IInv'
  <1>1. /\ at = "idle" /\ ~decided /\ decided' = TRUE /\ at' \in {"open", "loaded"}
        /\ UNCHANGED <<mem, domain, file, queries, query, act, plural_vars>>
    BY DEF LoadDomain, Loading, find_vars
  <1>2. mem = Nothing /\ domain = NoDomain
    BY <1>1 DEF IInv, Held
  <1>3. PluralInv' /\ UNCHANGED <<header, failures>>
    BY <1>1, PluralUnchanged DEF IInv, plural_vars
  <1>4. Held'
    BY <1>1, <1>2, NothingHeld, HeldEarly
  <1>5. at' \in Early \cup {"loaded"}
    BY <1>1 DEF Early
  <1> QED BY <1>1, <1>2, <1>3, <1>4, <1>5, EarlyStep

LEMMA Opens == ASSUME IInv, Open PROVE IInv'
  <1>1. /\ at = "open" /\ UNCHANGED <<domain, decided, file, queries, query, act, plural_vars>>
        /\ \/ mem' = [mem EXCEPT !.fd = TRUE] /\ at' = "stat"
           \/ UNCHANGED mem /\ at' = "loaded"
    BY DEF Open, Loading, find_vars
  <1>2. mem = Nothing /\ domain = NoDomain /\ decided
    BY <1>1 DEF IInv, Held, Early
  <1>3. PluralInv' /\ UNCHANGED <<header, failures>>
    BY <1>1, PluralUnchanged DEF IInv, plural_vars
  <1>4. Held'
    <2>1. decided' = TRUE
      BY <1>1, Decided DEF IInv
    <2>2. /\ mem' \in Memory /\ mem'.data = "none" /\ ~mem'.domain /\ ~mem'.malloced
          /\ at' = "loaded" => mem' = Nothing
      <3>1. CASE mem' = [mem EXCEPT !.fd = TRUE] /\ at' = "stat"
        BY <1>2, <3>1 DEF Nothing, Memory
      <3>2. CASE UNCHANGED mem /\ at' = "loaded"
        BY <1>2, <3>2, NothingHeld
      <3> QED BY <1>1, <3>1, <3>2
    <2> QED BY <1>1, <1>2, <2>1, <2>2, HeldEarly
  <1>5. at' \in Early \cup {"loaded"}
    BY <1>1 DEF Early
  <1> QED BY <1>1, <1>2, <1>3, <1>4, <1>5, EarlyStep

LEMMA Stats == ASSUME IInv, Stat PROVE IInv'
  <1>1. /\ at = "stat" /\ UNCHANGED <<domain, decided, file, queries, query, act, plural_vars>>
        /\ \/ mem' = [mem EXCEPT !.fd = FALSE] /\ at' = "loaded"
           \/ UNCHANGED mem /\ at' = "map"
    BY DEF Stat, Loading, find_vars
  <1>2. /\ mem \in Memory /\ mem.data = "none" /\ ~mem.domain /\ ~mem.malloced
        /\ domain = NoDomain /\ decided
    BY <1>1 DEF IInv, Held, Early
  <1>3. PluralInv' /\ UNCHANGED <<header, failures>>
    BY <1>1, PluralUnchanged DEF IInv, plural_vars
  <1>4. Held'
    <2>1. decided' = TRUE
      BY <1>1, Decided DEF IInv
    <2>2. CASE mem' = [mem EXCEPT !.fd = FALSE] /\ at' = "loaded"
      <3>1. mem' \in Memory /\ mem'.data = "none" /\ ~mem'.fd /\ ~mem'.domain /\ ~mem'.malloced
        BY <1>2, <2>2 DEF Memory
      <3>2. mem' = Nothing
        BY <3>1, NothingHeld
      <3> QED BY <1>1, <1>2, <2>1, <2>2, <3>1, <3>2, HeldEarly
    <2>3. CASE UNCHANGED mem /\ at' = "map"
      BY <1>1, <1>2, <2>1, <2>3, HeldEarly
    <2> QED BY <1>1, <2>2, <2>3
  <1>5. at' \in Early \cup {"loaded"}
    BY <1>1 DEF Early
  <1> QED BY <1>1, <1>2, <1>3, <1>4, <1>5, EarlyStep

\* Where memory is missing, what is held is allowed to be lost.
LEMMA FailedOnce == ASSUME PluralInv, Fail PROVE failures' # 0
  BY PluralAssumption DEF Fail, PluralInv, PluralTypeOK

LEMMA Maps == ASSUME IInv, Map PROVE IInv'
  <1>1. /\ at = "map" /\ UNCHANGED <<domain, decided, file, queries, query, act, header>>
        /\ \/ mem' = [mem EXCEPT !.fd = FALSE, !.data = "mapped"] /\ at' = "magic" /\ UNCHANGED failures
           \/ mem' = [mem EXCEPT !.data = "malloced"] /\ at' = "read" /\ Fail
           \/ UNCHANGED mem /\ at' = "loaded" /\ Fail
    BY DEF Map, find_vars
  <1>2. /\ mem \in Memory /\ mem.data = "none" /\ ~mem.domain /\ ~mem.malloced
        /\ domain = NoDomain /\ decided /\ PluralInv
    BY <1>1 DEF IInv, Held, Early
  <1>3. PluralInv'
    BY <1>2, PluralStays DEF Map
  <1>4. Held'
    <2>1. decided' = TRUE
      BY <1>1, Decided DEF IInv
    <2>2. CASE mem' = [mem EXCEPT !.fd = FALSE, !.data = "mapped"] /\ at' = "magic"
      <3>1. mem' \in Memory /\ mem'.data # "none" /\ ~mem'.fd /\ ~mem'.domain /\ ~mem'.malloced
        BY <1>2, <2>2 DEF Memory
      <3> QED BY <1>1, <1>2, <2>1, <2>2, <3>1, HeldEarly
    <2>3. CASE mem' = [mem EXCEPT !.data = "malloced"] /\ at' = "read"
      <3>1. mem' \in Memory /\ mem'.data # "none" /\ ~mem'.domain /\ ~mem'.malloced
        BY <1>2, <2>3 DEF Memory
      <3> QED BY <1>1, <1>2, <2>1, <2>3, <3>1, HeldEarly
    <2>4. CASE UNCHANGED mem /\ at' = "loaded" /\ Fail
      <3>1. failures' # 0
        BY <1>2, <2>4, FailedOnce
      <3> QED BY <1>1, <1>2, <2>1, <2>4, <3>1, HeldEarly
    <2> QED BY <1>1, <2>2, <2>3, <2>4
  <1>5. at' \in Early \cup {"loaded"}
    BY <1>1 DEF Early
  <1> QED BY <1>1, <1>2, <1>3, <1>4, <1>5, EarlyStep

LEMMA Reads == ASSUME IInv, Read PROVE IInv'
  <1>1. /\ at = "read" /\ UNCHANGED <<domain, decided, file, queries, query, act, header>>
        /\ mem' = [mem EXCEPT !.fd = FALSE]
        /\ \/ at' = "magic" /\ UNCHANGED failures
           \/ at' = "loaded" /\ Fail
    BY DEF Read, find_vars
  <1>2. /\ mem \in Memory /\ mem.data # "none" /\ ~mem.domain /\ ~mem.malloced
        /\ domain = NoDomain /\ decided /\ PluralInv
    BY <1>1 DEF IInv, Held, Early
  <1>3. PluralInv'
    BY <1>2, PluralStays DEF Read
  <1>4. Held'
    <2>1. decided' = TRUE
      BY <1>1, Decided DEF IInv
    <2>2. mem' \in Memory /\ mem'.data # "none" /\ ~mem'.fd /\ ~mem'.domain /\ ~mem'.malloced
      BY <1>1, <1>2 DEF Memory
    <2>3. at' = "loaded" => failures' # 0
      BY <1>1, <1>2, FailedOnce
    <2> QED BY <1>1, <1>2, <2>1, <2>2, <2>3, HeldEarly
  <1>5. at' \in Early \cup {"loaded"}
    BY <1>1 DEF Early
  <1> QED BY <1>1, <1>2, <1>3, <1>4, <1>5, EarlyStep

LEMMA ChecksMagic == ASSUME IInv, Magic PROVE IInv'
  <1>1. /\ at = "magic" /\ UNCHANGED <<domain, decided, file, queries, query, act, plural_vars>>
        /\ \/ mem' = [mem EXCEPT !.data = "none"] /\ at' = "loaded"
           \/ UNCHANGED mem /\ at' = "allocate"
    BY DEF Magic, Loading, find_vars
  <1>2. /\ mem \in Memory /\ mem.data # "none" /\ ~mem.fd /\ ~mem.domain /\ ~mem.malloced
        /\ domain = NoDomain /\ decided
    BY <1>1 DEF IInv, Held, Early
  <1>3. PluralInv' /\ UNCHANGED <<header, failures>>
    BY <1>1, PluralUnchanged DEF IInv, plural_vars
  <1>4. Held'
    <2>1. decided' = TRUE
      BY <1>1, Decided DEF IInv
    <2>2. CASE mem' = [mem EXCEPT !.data = "none"] /\ at' = "loaded"
      <3>1. mem' \in Memory /\ mem'.data = "none" /\ ~mem'.fd /\ ~mem'.domain /\ ~mem'.malloced
        BY <1>2, <2>2 DEF Memory
      <3>2. mem' = Nothing
        BY <3>1, NothingHeld
      <3> QED BY <1>1, <1>2, <2>1, <2>2, <3>1, <3>2, HeldEarly
    <2>3. CASE UNCHANGED mem /\ at' = "allocate"
      BY <1>1, <1>2, <2>1, <2>3, HeldEarly
    <2> QED BY <1>1, <2>2, <2>3
  <1>5. at' \in Early \cup {"loaded"}
    BY <1>1 DEF Early
  <1> QED BY <1>1, <1>2, <1>3, <1>4, <1>5, EarlyStep

LEMMA Allocates == ASSUME IInv, Allocate PROVE IInv'
  <1>1. /\ at = "allocate" /\ UNCHANGED <<domain, decided, file, queries, query, act, header>>
        /\ \/ mem' = [mem EXCEPT !.domain = TRUE] /\ at' = "revision" /\ UNCHANGED failures
           \/ UNCHANGED mem /\ at' = "loaded" /\ Fail
    BY DEF Allocate, find_vars
  <1>2. /\ mem \in Memory /\ mem.data # "none" /\ ~mem.fd /\ ~mem.domain /\ ~mem.malloced
        /\ domain = NoDomain /\ decided /\ PluralInv
    BY <1>1 DEF IInv, Held, Early
  <1>3. PluralInv'
    BY <1>2, PluralStays DEF Allocate
  <1>4. Held'
    <2>1. decided' = TRUE
      BY <1>1, Decided DEF IInv
    <2>2. CASE mem' = [mem EXCEPT !.domain = TRUE] /\ at' = "revision"
      <3>1. mem' \in Memory /\ mem'.data # "none" /\ ~mem'.fd /\ mem'.domain /\ ~mem'.malloced
        BY <1>2, <2>2 DEF Memory
      <3> QED BY <1>1, <1>2, <2>1, <2>2, <3>1, HeldEarly
    <2>3. CASE UNCHANGED mem /\ at' = "loaded" /\ Fail
      <3>1. failures' # 0
        BY <1>2, <2>3, FailedOnce
      <3> QED BY <1>1, <1>2, <2>1, <2>3, <3>1, HeldEarly
    <2> QED BY <1>1, <2>2, <2>3
  <1>5. at' \in Early \cup {"loaded"}
    BY <1>1 DEF Early
  <1> QED BY <1>1, <1>2, <1>3, <1>4, <1>5, EarlyStep

\* What the tables of a file are.
LEMMA TablesAre ==
    ASSUME file \in CatalogFiles
    PROVE  /\ Tables \in Domain /\ Tables.nstrings = Len(file.strings) /\ Tables.sysdep = << >>
           /\ Tables.must_swap_hash_tab = MustSwap /\ MustSwap \in BOOLEAN
           /\ Len(file.strings) \in Nat
           /\ IF Tables.hash_tab = << >>
              THEN \A k, l \in 1..Len(file.strings) :
                       k < l => Less(CString(file.strings[k].orig), CString(file.strings[l].orig))
              ELSE /\ Len(Tables.hash_tab) = Tables.hash_size /\ Tables.hash_size > 2
                   /\ \A x \in DOMAIN InOrder(Tables.hash_tab, MustSwap) :
                          InOrder(Tables.hash_tab, MustSwap)[x] \in 0..Len(file.strings)
                   /\ \A k \in 1..Len(file.strings) : \E j \in Nat :
                          FoundAt(InOrder(Tables.hash_tab, MustSwap),
                                  hash_string(CString(file.strings[k].orig)), k, j)
  <1> DEFINE n == Len(file.strings)
             size == W(MustSwap, file.hash_size)
             table == InOrder(file.hash_tab, MustSwap)
             id(k) == CString(file.strings[k].orig)
             tab == IF size > 2 THEN file.hash_tab ELSE << >>
  <1>1. n \in Nat /\ DOMAIN file.strings = 1..n /\ TablesHold(file)
    BY FileStrings
  <1>2. /\ W(MustSwap, file.nstrings) = n /\ file.hash_size \in Int
        /\ IF size > 2
           THEN /\ Len(file.hash_tab) = size
                /\ file.hash_tab \in Seq(Int) /\ \A x \in DOMAIN table : table[x] \in 0..n
                /\ \A k \in DOMAIN file.strings :
                       \E j \in 0..(Len(table) - 1) : FoundAt(table, hash_string(id(k)), k, j)
           ELSE \A k, l \in DOMAIN file.strings : k < l => Less(id(k), id(l))
    BY <1>1, Zenon DEF TablesHold, MustSwap
  <1>3. MustSwap \in BOOLEAN
    BY DEF MustSwap
  <1>4. size \in Int
    <2>1. file.hash_size \in Int
      BY <1>2
    <2> QED BY <2>1 DEF W
  <1>5. /\ Tables.nstrings = W(MustSwap, file.nstrings) /\ Tables.hash_size = size
        /\ Tables.hash_tab = tab /\ Tables.must_swap_hash_tab = MustSwap /\ Tables.sysdep = << >>
        /\ Tables = [nstrings |-> W(MustSwap, file.nstrings), hash_size |-> size, hash_tab |-> tab,
                     must_swap_hash_tab |-> MustSwap, sysdep |-> << >>]
    BY DEF Tables
  <1> HIDE DEF size, table, id, n
  <1>6. tab \in Seq(Int) /\ << >> \in Seq(Strings)
    BY <1>2, EmptySeq
  <1>7. Tables \in Domain
    <2> HIDE DEF tab
    <2> QED BY <1>1, <1>2, <1>3, <1>4, <1>5, <1>6 DEF Domain
  <1>8. CASE size > 2
    <2>1. tab = file.hash_tab /\ Len(tab) = size /\ tab # << >>
      <3>1. tab = file.hash_tab /\ Len(tab) = size
        BY <1>2, <1>8
      <3>2. Len(<< >>) = 0
        OBVIOUS
      <3> QED BY <1>4, <1>8, <3>1, <3>2
    <2>2. table = InOrder(Tables.hash_tab, MustSwap)
      BY <1>5, <2>1 DEF table
    <2>3. \A k \in 1..n : \E j \in Nat : FoundAt(table, hash_string(id(k)), k, j)
      <3>1. \A k \in DOMAIN file.strings :
                \E j \in 0..(Len(table) - 1) : FoundAt(table, hash_string(id(k)), k, j)
        BY <1>2, <1>8
      <3>2. \A j \in 0..(Len(table) - 1) : j \in Nat
        OBVIOUS
      <3> QED BY <1>1, <3>1, <3>2
    <2>4. \A x \in DOMAIN table : table[x] \in 0..n
      BY <1>2, <1>8
    <2>5. Tables.hash_tab # << >> /\ Len(Tables.hash_tab) = Tables.hash_size /\ Tables.hash_size > 2
      BY <1>5, <1>8, <2>1
    <2> QED BY <1>1, <1>2, <1>3, <1>5, <1>7, <2>2, <2>3, <2>4, <2>5 DEF n, id
  <1>9. CASE ~(size > 2)
    <2>1. Tables.hash_tab = << >>
      BY <1>5, <1>9
    <2>2. \A k, l \in 1..n : k < l => Less(id(k), id(l))
      BY <1>1, <1>2, <1>9
    <2> QED BY <1>1, <1>2, <1>3, <1>5, <1>7, <2>1, <2>2 DEF n, id
  <1> QED BY <1>8, <1>9

\* A catalog as the file has it.
LEMMA FindableAtFirst ==
    ASSUME file \in CatalogFiles, UNCHANGED file, NEW s \in Seq(Strings),
           domain' = [Tables EXCEPT !.sysdep = s],
           \/ at' = "header" /\ s = << >>
           \/ at' = "augment" /\ Tables.hash_tab # << >>
    PROVE  Findable' /\ domain' # NoDomain
  <1> DEFINE n == Len(file.strings)
             d == [Tables EXCEPT !.sysdep = s]
             table == InOrder(Tables.hash_tab, MustSwap)
             id(k) == CString(file.strings[k].orig)
  <1>1. /\ Tables \in Domain /\ Tables.nstrings = n /\ Tables.must_swap_hash_tab = MustSwap
        /\ MustSwap \in BOOLEAN /\ n \in Nat
        /\ IF Tables.hash_tab = << >>
           THEN \A k, l \in 1..n : k < l => Less(id(k), id(l))
           ELSE /\ Len(Tables.hash_tab) = Tables.hash_size /\ Tables.hash_size > 2
                /\ \A x \in DOMAIN table : table[x] \in 0..n
                /\ \A k \in 1..n : \E j \in Nat : FoundAt(table, hash_string(id(k)), k, j)
    BY TablesAre
  <1>2. /\ d \in Domain /\ d.nstrings = n /\ d.must_swap_hash_tab = MustSwap
        /\ d.hash_tab = Tables.hash_tab /\ d.hash_size = Tables.hash_size /\ d.sysdep = s
    BY <1>1 DEF Domain
  <1>3. domain' = d /\ file' = file
    OBVIOUS
  <1> HIDE DEF d
  <1>4. /\ Total' = n + Len(s) /\ Table' = table /\ MustSwap' = MustSwap /\ Len(s) \in Nat
        /\ domain' \in Domain /\ domain'.nstrings = Len(file'.strings)
    BY <1>2, <1>3, LenProperties DEF Total, Table, MustSwap
  <1>5. \A a \in 0..(n - 1) : Id(a)' = id(a + 1)
    BY <1>1, <1>2, <1>3 DEF Id, OrigOf
  <1>6. Placed' = 0
    BY <1>2, <1>3 DEF Placed
  <1> HIDE DEF table, id, n
  <1>7. CASE Tables.hash_tab = << >>
    <2>1. domain'.hash_tab = << >> /\ domain'.sysdep = << >> /\ at' = "header" /\ Total' = n
      BY <1>1, <1>2, <1>3, <1>4, <1>7
    <2>2. \A a, b \in 0..(Total' - 1) : a < b => Less(Id(a)', Id(b)')
      <3> SUFFICES ASSUME NEW a \in 0..(n - 1), NEW b \in 0..(n - 1), a < b
                   PROVE  Less(Id(a)', Id(b)')
        BY <2>1
      <3>1. a + 1 \in 1..n /\ b + 1 \in 1..n /\ a + 1 < b + 1
        BY <1>1
      <3>2. Less(id(a + 1), id(b + 1))
        BY <1>1, <1>7, <3>1
      <3> QED BY <1>5, <3>2
    <2> QED BY <1>4, <2>1, <2>2, <1>3, RecordsAreNotNone DEF Findable
  <1>8. CASE Tables.hash_tab # << >>
    <2>1. /\ domain'.hash_tab # << >> /\ Len(domain'.hash_tab) = domain'.hash_size
          /\ domain'.hash_size > 2 /\ domain'.must_swap_hash_tab = MustSwap'
          /\ domain'.nstrings = n
      BY <1>1, <1>2, <1>3, <1>4, <1>8
    <2>2. \A x \in DOMAIN Table' : Table'[x] \in 0..Total'
      BY <1>1, <1>4, <1>8
    <2>3. \A a \in 0..(domain'.nstrings + Placed' - 1) :
              \E j \in Nat : FoundAt(Table', hash_string(Id(a)'), a + 1, j)
      <3> SUFFICES ASSUME NEW a \in 0..(n - 1)
                   PROVE  \E j \in Nat : FoundAt(table, hash_string(Id(a)'), a + 1, j)
        BY <1>1, <1>4, <1>6, <2>1
      <3>1. a + 1 \in 1..n
        BY <1>1
      <3> QED BY <1>1, <1>5, <1>8, <3>1
    <2>4. at' \in {"header", "augment"}
      OBVIOUS
    <2> QED BY <1>4, <2>1, <2>2, <2>3, <2>4, RecordsAreNotNone DEF Findable
  <1> QED BY <1>7, <1>8

\* The revision is read, and what the file says checked.
LEMMA Revises == ASSUME IInv, Revision PROVE IInv'
  <1>1. /\ at = "revision" /\ UNCHANGED <<decided, file, queries, query, act, header>>
        /\ UNCHANGED failures \/ Fail
    BY DEF Revision, find_vars
  <1>2. /\ mem \in Memory /\ mem.data # "none" /\ ~mem.fd /\ mem.domain /\ ~mem.malloced
        /\ domain = NoDomain /\ decided /\ PluralInv /\ decided = TRUE
        /\ file \in CatalogFiles
    BY <1>1, Decided DEF IInv, Held, Early
  <1>3. PluralInv'
    BY <1>1, <1>2, PluralStays DEF Revision
  <1>4. CASE Invalid
    <2>1. mem' = Nothing /\ domain' = NoDomain /\ at' = "loaded"
      BY <1>4 DEF Invalid
    <2>2. Held'
      BY <1>1, <1>2, <2>1, NothingHeld, HeldEarly
    <2>3. at' \in Early \cup {"loaded"}
      BY <2>1
    <2> QED BY <1>1, <1>2, <1>3, <2>1, <2>2, <2>3, EarlyStep
  <1>5. ASSUME NEW s \in Seq(Strings), domain' = [Tables EXCEPT !.sysdep = s],
               \/ at' = "header" /\ s = << >> /\ UNCHANGED mem
               \/ /\ at' = "augment" /\ Tables.hash_tab # << >>
                  /\ mem' = [mem EXCEPT !.malloced = TRUE]
        PROVE  IInv'
    <2>1. Findable' /\ domain' # NoDomain
      BY <1>1, <1>2, <1>5, FindableAtFirst
    <2>2. /\ mem' \in Memory /\ mem'.data # "none" /\ ~mem'.fd /\ mem'.domain
          /\ domain'.sysdep # << >> => mem'.malloced
      <3>1. domain'.sysdep = s
        <4>1. Tables \in Domain
          BY <1>2, TablesAre
        <4> QED BY <1>5, <4>1 DEF Domain
      <3>2. CASE at' = "header" /\ s = << >> /\ UNCHANGED mem
        BY <1>2, <3>1, <3>2
      <3>3. CASE at' = "augment" /\ mem' = [mem EXCEPT !.malloced = TRUE]
        BY <1>2, <3>3 DEF Memory
      <3> QED BY <1>5, <3>2, <3>3
    <2>3. Held'
      <3>1. at' \in Holds /\ at' \notin Early
        BY <1>5 DEF Holds, Early
      <3>2. at' \in {"header", "augment"}
        BY <1>5
      <3>3. decided' \in BOOLEAN /\ decided'
        BY <1>1, <1>2
      <3> QED BY <2>1, <2>2, <3>1, <3>2, <3>3 DEF Held
    <2>4. Searched'
      <3>1. act = None /\ query \in Queries \cup {Header}
        BY <1>2 DEF IInv, Searched
      <3>2. at' \in {"header", "augment"}
        BY <1>5
      <3> QED BY <1>1, <2>1, <3>1, <3>2 DEF Searched
    <2>5. at' \in Early \cup Holds \cup Both
      BY <1>5 DEF Holds
    <2> QED BY <1>1, <1>3, <2>1, <2>3, <2>4, <2>5 DEF IInv
  <1>6. CASE domain' = Tables /\ at' = "header" /\ UNCHANGED mem
    <2>1. Tables = [Tables EXCEPT !.sysdep = << >>]
      <3>1. Tables \in Domain /\ Tables.sysdep = << >>
        BY <1>2, TablesAre
      <3> QED BY <3>1 DEF Domain
    <2>2. << >> \in Seq(Strings)
      BY EmptySeq
    <2> QED BY <1>5, <1>6, <2>1, <2>2
  <1>7. CASE /\ domain' = [Tables EXCEPT !.sysdep = InMem(file)]
             /\ mem' = [mem EXCEPT !.malloced = TRUE]
             /\ at' = "augment" /\ Tables.hash_tab # << >>
    BY <1>2, <1>5, <1>7, InMemType
  <1>8. \/ Invalid
        \/ domain' = Tables /\ at' = "header" /\ UNCHANGED mem
        \/ /\ domain' = [Tables EXCEPT !.sysdep = InMem(file)]
           /\ mem' = [mem EXCEPT !.malloced = TRUE]
           /\ at' = "augment" /\ Tables.hash_tab # << >>
    BY Zenon DEF Revision
  <1> QED BY <1>4, <1>6, <1>7, <1>8

LEMMA SameCatalog ==
    ASSUME UNCHANGED <<file, domain>>
    PROVE  /\ Total' = Total /\ Table' = Table /\ MustSwap' = MustSwap
           /\ \A a : OrigOf(a)' = OrigOf(a) /\ Id(a)' = Id(a)
           /\ \A h, j : Passed(h, j)' <=> Passed(h, j)
  <1>1. Total' = Total /\ Table' = Table /\ MustSwap' = MustSwap
    BY DEF Total, Table, MustSwap
  <1>2. \A a : OrigOf(a)' = OrigOf(a)
    BY DEF OrigOf
  <1>3. \A a : Id(a)' = Id(a)
    BY <1>2, Zenon DEF Id
  <1>4. \A h, j : Passed(h, j)' <=> Passed(h, j)
    BY <1>1, Zenon DEF Passed
  <1> QED BY <1>1, <1>2, <1>3, <1>4

Building == {"augment", "enter", "place"}

\* A catalog that stays as it is.
LEMMA FindableStays ==
    ASSUME Findable, UNCHANGED <<file, domain>>, at \notin Building, at' \notin Building,
           at' = "probe" => domain = NoDomain \/ domain.hash_tab # << >>
    PROVE  Findable'
  <1> SUFFICES ASSUME domain # NoDomain PROVE Findable'
    BY DEF Findable
  <1>1. Placed' = Len(domain.sysdep) /\ Placed = Len(domain.sysdep)
    BY DEF Placed, Building
  <1>2. at' \notin {"augment", "enter", "place"} /\ at \notin {"augment", "enter", "place"}
    BY DEF Building
  <1>3. domain' = domain /\ file' = file
    OBVIOUS
  <1>4. domain \in Domain /\ domain.nstrings = Len(file.strings)
    BY DEF Findable
  <1>5. CASE domain.hash_tab = << >>
    <2>1. domain.sysdep = << >> /\ \A a, b \in 0..(Total - 1) : a < b => Less(Id(a), Id(b))
      BY <1>5 DEF Findable
    <2>2. \A a, b \in 0..(Total' - 1) : a < b => Less(Id(a)', Id(b)')
      BY <2>1, SameCatalog
    <2>3. at' # "probe"
      BY <1>5
    <2> QED BY <1>2, <1>3, <1>4, <1>5, <2>1, <2>2, <2>3 DEF Findable
  <1>6. CASE domain.hash_tab # << >>
    <2>1. /\ Len(domain.hash_tab) = domain.hash_size /\ domain.hash_size > 2
          /\ \A x \in DOMAIN Table : Table[x] \in 0..Total
          /\ \A a \in 0..(domain.nstrings + Placed - 1) :
                 \E j \in Nat : FoundAt(Table, hash_string(Id(a)), a + 1, j)
      BY <1>6 DEF Findable
    <2>2. \A x \in DOMAIN Table' : Table'[x] \in 0..Total'
      BY <2>1, SameCatalog
    <2>3. \A a \in 0..(domain'.nstrings + Placed' - 1) :
              \E j \in Nat : FoundAt(Table', hash_string(Id(a)'), a + 1, j)
      BY <1>1, <1>3, <2>1, SameCatalog
    <2> QED BY <1>2, <1>3, <1>4, <1>6, <2>1, <2>2, <2>3 DEF Findable
  <1> QED BY <1>5, <1>6

\* What a catalog has taken stays taken.
LEMMA HeldStays ==
    ASSUME Held, decided, at \notin Early, at' \notin Early, UNCHANGED <<mem, domain, decided>>,
           failures' = 0 => failures = 0, at' \in Holds => domain # NoDomain
    PROVE  Held'
  <1>1. /\ mem \in Memory /\ decided \in BOOLEAN
        /\ domain = NoDomain => ~mem.domain /\ ~mem.malloced /\ (failures = 0 => mem = Nothing)
        /\ domain # NoDomain => /\ mem.domain /\ mem.data # "none" /\ ~mem.fd
                                /\ domain.sysdep # << >> => mem.malloced
    BY DEF Held
  <1>2. /\ mem' = mem /\ decided' = decided /\ domain' = domain
        /\ at' \notin {"open", "stat", "map", "read", "magic", "allocate", "revision"}
    BY DEF Early
  <1> QED BY <1>1, <1>2 DEF Held

LEMMA LateStep ==
    ASSUME IInv, decided, at \notin Early, at \notin Building,
           at' \in Holds \cup Both, at' \notin Early, at' \notin Building,
           UNCHANGED <<file, mem, domain, decided>>, queries' \in 0..MaxQueries,
           header' \in {NoHeader, file.header}, PluralInv', failures' = 0 => failures = 0,
           at' \in Holds => domain # NoDomain,
           at' = "probe" => domain = NoDomain \/ domain.hash_tab # << >>,
           Searched'
    PROVE  IInv'
  <1>1. Held'
    BY HeldStays DEF IInv
  <1>2. Findable'
    BY FindableStays DEF IInv
  <1>3. file' \in CatalogFiles /\ file' = file /\ at' \in Early \cup Holds \cup Both
    BY DEF IInv
  <1> QED BY <1>1, <1>2, <1>3 DEF IInv

\* The messages of a catalog are strings.
LEMMA IdType ==
    ASSUME IInv, domain # NoDomain
    PROVE  /\ domain \in Domain /\ domain.nstrings \in Nat /\ Len(domain.sysdep) \in Nat /\ Total \in Nat
           /\ domain.nstrings = Len(file.strings)
           /\ \A a \in 0..(Total - 1) :
                  OrigOf(a) \in Seq(Byte) /\ Id(a) \in Seq(Byte) /\ Len(Id(a)) <= Len(OrigOf(a))
  <1>1. domain \in Domain /\ domain.nstrings = Len(file.strings) /\ file \in CatalogFiles
    BY DEF IInv, Findable
  <1>2. /\ Len(file.strings) \in Nat
        /\ \A k \in 1..Len(file.strings) : file.strings[k].orig \in Seq(Byte)
    BY <1>1, FileStrings
  <1>3. /\ domain.sysdep \in Seq(Strings) /\ Len(domain.sysdep) \in Nat
        /\ \A k \in 1..Len(domain.sysdep) : domain.sysdep[k].orig \in Seq(Byte)
    <2>1. domain.sysdep \in Seq(Strings)
      BY <1>1 DEF Domain
    <2>2. \A k \in 1..Len(domain.sysdep) : domain.sysdep[k] \in Strings
      BY <2>1, ElementOfSeq
    <2> QED BY <2>1, <2>2, LenProperties DEF Strings
  <1>4. Total = Len(file.strings) + Len(domain.sysdep)
    BY <1>1 DEF Total
  <1>5. ASSUME NEW a \in 0..(Total - 1) PROVE OrigOf(a) \in Seq(Byte)
    <2>1. CASE a < domain.nstrings
      <3>1. a + 1 \in 1..Len(file.strings)
        BY <1>1, <1>2, <2>1
      <3> QED BY <1>2, <2>1, <3>1 DEF OrigOf
    <2>2. CASE ~(a < domain.nstrings)
      <3>1. a - domain.nstrings + 1 \in 1..Len(domain.sysdep)
        <4> DEFINE n == Len(file.strings)
                   m == Len(domain.sysdep)
        <4>1. n \in Nat /\ m \in Nat /\ domain.nstrings = n /\ Total = n + m
          BY <1>1, <1>2, <1>3, <1>4
        <4> HIDE DEF n, m
        <4>2. a \in 0..(n + m - 1) /\ ~(a < n)
          BY <2>2, <4>1
        <4>3. a - n + 1 \in 1..m
          BY <4>1, <4>2
        <4> QED BY <4>1, <4>3 DEF m
      <3> QED BY <1>3, <2>2, <3>1 DEF OrigOf
    <2> QED BY <2>1, <2>2
  <1>6. \A a \in 0..(Total - 1) :
            OrigOf(a) \in Seq(Byte) /\ Id(a) \in Seq(Byte) /\ Len(Id(a)) <= Len(OrigOf(a))
    BY <1>5, CStringType DEF Id
  <1>7. Total \in Nat /\ domain.nstrings \in Nat
    <2> DEFINE n == Len(file.strings)
               m == Len(domain.sysdep)
    <2>1. n \in Nat /\ m \in Nat /\ domain.nstrings = n /\ Total = n + m
      BY <1>1, <1>2, <1>3, <1>4
    <2> HIDE DEF n, m
    <2> QED BY <2>1
  <1> QED BY <1>1, <1>3, <1>6, <1>7

-----------------------------------------------------------------------------
(* The search.                                                             *)

LEMMA TableType ==
    ASSUME NEW tab \in Seq(Int), NEW swap \in BOOLEAN
    PROVE  /\ InOrder(tab, swap) \in Seq(Int) /\ Len(InOrder(tab, swap)) = Len(tab) /\ Len(tab) \in Nat
           /\ DOMAIN InOrder(tab, swap) = 1..Len(tab)
           /\ \A x \in 1..Len(tab) : InOrder(tab, swap)[x] = W(swap, tab[x])
  <1>1. Len(tab) \in Nat /\ DOMAIN tab = 1..Len(tab) /\ \A x \in 1..Len(tab) : tab[x] \in Int
    BY LenProperties, ElementOfSeq
  <1>2. \A x \in 1..Len(tab) : W(swap, tab[x]) \in Int
    BY <1>1 DEF W
  <1>3. InOrder(tab, swap) = [x \in 1..Len(tab) |-> W(swap, tab[x])]
    BY <1>1 DEF InOrder
  <1> DEFINE n == Len(tab)
             f == [x \in 1..n |-> W(swap, tab[x])]
  <1>4. f \in Seq(Int) /\ Len(f) = n /\ DOMAIN f = 1..n
    <2>1. n \in Nat
      BY <1>1
    <2> HIDE DEF n
    <2>2. \A x \in 1..n : W(swap, tab[x]) \in Int
      BY <1>2 DEF n
    <2> QED BY <2>1, <2>2
  <1> QED BY <1>1, <1>3, <1>4

\* A place of the table, and what is read there.
LEMMA PlaceRead ==
    ASSUME IInv, domain # NoDomain, domain.hash_tab # << >>,
           NEW h \in 0..(HASHWORD - 1), NEW j \in Nat
    PROVE  /\ domain.hash_size \in Nat /\ domain.hash_size > 2
           /\ Len(domain.hash_tab) = domain.hash_size /\ Len(Table) = domain.hash_size
           /\ Table \in Seq(Int) /\ DOMAIN Table = 1..domain.hash_size /\ h \in Nat
           /\ Probe(h, domain.hash_size, j) \in 0..(domain.hash_size - 1)
           /\ Probe(h, domain.hash_size, j) + 1 \in 1..domain.hash_size
           /\ NextPlace(Probe(h, domain.hash_size, j), Step(h, domain.hash_size), domain.hash_size)
                  = Probe(h, domain.hash_size, j + 1)
           /\ Probe(h, domain.hash_size, 0) = First(h, domain.hash_size)
           /\ \A x \in 1..domain.hash_size :
                  Table[x] = W(domain.must_swap_hash_tab, domain.hash_tab[x]) /\ Table[x] \in 0..Total
  <1>1. /\ domain \in Domain /\ Len(domain.hash_tab) = domain.hash_size /\ domain.hash_size > 2
        /\ \A x \in DOMAIN Table : Table[x] \in 0..Total
    BY DEF IInv, Findable
  <1>2. domain.hash_tab \in Seq(Int) /\ domain.must_swap_hash_tab \in BOOLEAN /\ domain.hash_size \in Int
    BY <1>1 DEF Domain
  <1>3. /\ Table \in Seq(Int) /\ Len(Table) = domain.hash_size /\ domain.hash_size \in Nat
        /\ DOMAIN Table = 1..domain.hash_size
        /\ \A x \in 1..domain.hash_size : Table[x] = W(domain.must_swap_hash_tab, domain.hash_tab[x])
    BY <1>1, <1>2, TableType DEF Table
  <1>4. h \in Nat
    BY CatalogAssumption
  <1>5. PICK size \in Nat : size = domain.hash_size /\ size > 2
    BY <1>1, <1>3
  <1>6. /\ Probe(h, size, j) \in 0..(size - 1)
        /\ NextPlace(Probe(h, size, j), Step(h, size), size) = Probe(h, size, j + 1)
        /\ Probe(h, size, 0) = First(h, size)
    BY <1>4, <1>5, ProbeMoves
  <1>7. Probe(h, size, j) + 1 \in 1..size
    BY <1>5, <1>6
  <1> QED BY <1>1, <1>3, <1>4, <1>5, <1>6, <1>7

\* What is looked for is a string.
LEMMA QueryType ==
    ASSUME IInv
    PROVE  /\ query.id \in Seq(Byte) /\ Len(query.id) \in Nat
           /\ hash_string(query.id) \in 0..(HASHWORD - 1)
           /\ query.from = "load" \/ (query \in Queries /\ query.from = "caller")
  <1>1. CASE query \in Queries
    <2>1. query.id \in Seq(Byte) /\ query.from = "caller"
      BY <1>1, FilesAssumption
    <2> QED BY <1>1, <2>1, HashIsWord, LenProperties
  <1>2. CASE query = Header
    <2>1. query.id = << >> /\ query.from = "load"
      BY <1>2 DEF Header
    <2>2. query.id \in Seq(Byte)
      BY <2>1, EmptySeq
    <2> QED BY <2>1, <2>2, HashIsWord, LenProperties
  <1> QED BY <1>1, <1>2 DEF IInv, Searched

\* Where a search by the table is.
LEMMA Probing ==
    ASSUME IInv, at = "probe"
    PROVE  /\ domain # NoDomain /\ domain.hash_tab # << >> /\ decided
           /\ \E j \in Nat :
                  LET h == hash_string(query.id)
                      x == Probe(h, domain.hash_size, j)
                  IN  /\ incr = Step(h, domain.hash_size) /\ idx = x /\ nstr = Table[x + 1]
                      /\ x \in 0..(domain.hash_size - 1) /\ nstr \in 0..Total
                      /\ Passed(h, j)
                      /\ \A l \in 0..(j - 1) :
                             Id(Table[Probe(h, domain.hash_size, l) + 1] - 1) # query.id
  <1>1. domain # NoDomain /\ domain.hash_tab # << >> /\ decided
    BY Decided DEF IInv, Held, Searched, Holds
  <1>2. PICK h \in 0..(HASHWORD - 1), j \in Nat :
            /\ h = hash_string(query.id)
            /\ incr = Step(h, domain.hash_size) /\ idx = Probe(h, domain.hash_size, j)
            /\ Passed(h, j)
            /\ \A l \in 0..(j - 1) : Id(Table[Probe(h, Len(Table), l) + 1] - 1) # query.id
    BY DEF IInv, Searched
  <1> DEFINE x == Probe(h, domain.hash_size, j)
  <1>3. /\ x + 1 \in 1..domain.hash_size /\ x \in 0..(domain.hash_size - 1)
        /\ Len(Table) = domain.hash_size
        /\ Table[x + 1] = W(domain.must_swap_hash_tab, domain.hash_tab[x + 1])
        /\ Table[x + 1] \in 0..Total
    BY <1>1, PlaceRead
  <1>4. nstr = Table[x + 1]
    BY <1>2, <1>3 DEF nstr
  <1> HIDE DEF x
  <1>5. \A l \in 0..(j - 1) : Id(Table[Probe(h, domain.hash_size, l) + 1] - 1) # query.id
    BY <1>2, <1>3
  <1>6. /\ incr = Step(h, domain.hash_size) /\ idx = x /\ nstr = Table[x + 1]
        /\ x \in 0..(domain.hash_size - 1) /\ nstr \in 0..Total
        /\ Passed(h, j)
    BY <1>2, <1>3, <1>4 DEF x
  <1> QED BY <1>1, <1>2, <1>5, <1>6 DEF x

LEMMA LateStates ==
    /\ Holds \cap Early = {} /\ Both \cap Early = {} /\ Both \cap Holds = {} /\ Both \cap Building = {}
    /\ {"header", "parse", "find", "probe", "halve", "found", "killed"} \subseteq Holds \ Building
    /\ {"idle", "loaded", "absent", "answered"} \subseteq Both
  BY DEF Early, Holds, Both, Building

LEMMA Asks == ASSUME IInv, Query PROVE IInv'
  <1>1. /\ at = "idle" /\ decided /\ queries < MaxQueries /\ query' \in Queries /\ queries' = queries + 1
        /\ at' = (IF domain = NoDomain THEN "absent" ELSE "find") /\ act' = None
        /\ UNCHANGED <<file, mem, domain, decided, plural_vars>>
    BY DEF Query
  <1>2. PluralInv' /\ failures' = failures /\ header' = header
    BY <1>1, PluralUnchanged DEF IInv, plural_vars
  <1>3. queries' \in 0..MaxQueries
    BY <1>1, CatalogAssumption DEF IInv
  <1>4. query'.from = "caller"
    BY <1>1, FilesAssumption
  <1>5. Searched'
    BY <1>1, <1>4 DEF Searched
  <1>6. decided /\ at \notin Early /\ at \notin Building
    BY <1>1, LateStates
  <1>7. /\ at' \in Holds \cup Both /\ at' \notin Early /\ at' \notin Building
        /\ at' \in Holds => domain # NoDomain
        /\ at' # "probe"
    BY <1>1, LateStates
  <1> QED BY <1>1, <1>2, <1>3, <1>5, <1>6, <1>7, LateStep DEF IInv

LEMMA LooksForHeader == ASSUME IInv, FindHeader PROVE IInv'
  <1>1. /\ at = "header" /\ at' = "find" /\ query' = Header
        /\ UNCHANGED <<file, mem, domain, decided, queries, act, plural_vars>>
    BY DEF FindHeader, load_vars
  <1>2. PluralInv' /\ failures' = failures /\ header' = header
    BY <1>1, PluralUnchanged DEF IInv, plural_vars
  <1>3. query'.from = "load"
    BY <1>1 DEF Header
  <1>4. domain # NoDomain /\ act \in {None} \cup 0..(Total - 1) /\ decided
    BY <1>1, Decided DEF IInv, Held, Holds, Searched
  <1>5. Searched'
    BY <1>1, <1>3, <1>4, SameCatalog DEF Searched
  <1>6. decided /\ at \notin Early /\ at \notin Building
    BY <1>1, <1>4, LateStates
  <1>7. at' \in Holds \cup Both /\ at' \notin Early /\ at' \notin Building /\ at' # "probe"
    BY <1>1, LateStates
  <1> QED BY <1>1, <1>2, <1>4, <1>5, <1>6, <1>7, LateStep DEF IInv

\* The search starts at the first place, or with all that is in order.
LEMMA Finds == ASSUME IInv, Find PROVE IInv'
  <1> DEFINE h == hash_string(query.id)
  <1>1. /\ at = "find"
        /\ UNCHANGED <<file, mem, domain, decided, queries, query, act, plural_vars>>
        /\ IF domain.hash_tab # << >>
           THEN /\ idx' = First(h, domain.hash_size) /\ incr' = Step(h, domain.hash_size)
                /\ at' = "probe"
           ELSE bottom' = 0 /\ top' = domain.nstrings /\ at' = "halve"
    BY DEF Find, load_vars
  <1>2. PluralInv' /\ failures' = failures /\ header' = header
    BY <1>1, PluralUnchanged DEF IInv, plural_vars
  <1>3. domain # NoDomain /\ act \in {None} \cup 0..(Total - 1) /\ decided
    BY <1>1, Decided DEF IInv, Held, Holds, Searched
  <1>4. /\ query \in Queries \cup {Header} /\ (query.from = "caller" => act = None)
        /\ h \in 0..(HASHWORD - 1)
    BY <1>1, QueryType DEF IInv, Searched
  <1> HIDE DEF h
  <1>5. ASSUME domain.hash_tab # << >> PROVE Searched'
    <2>1. PICK k \in 0..(HASHWORD - 1) : k = h
      BY <1>4
    <2>2. Probe(k, domain.hash_size, 0) = First(k, domain.hash_size)
      BY <1>3, <1>5, PlaceRead
    <2>3. /\ k = hash_string(query'.id) /\ incr' = Step(k, domain'.hash_size)
          /\ idx' = Probe(k, domain'.hash_size, 0)
      BY <1>1, <1>5, <2>1, <2>2 DEF h
    <2>4. 0..(0 - 1) = {}
      OBVIOUS
    <2>5. Passed(k, 0)' /\ \A l \in 0..(0 - 1) :
                               Id(Table[Probe(k, Len(Table), l) + 1] - 1)' # query'.id
      BY <2>4 DEF Passed
    <2>6. \E m \in 0..(HASHWORD - 1), j \in Nat :
              /\ m = hash_string(query'.id)
              /\ incr' = Step(m, domain'.hash_size) /\ idx' = Probe(m, domain'.hash_size, j)
              /\ Passed(m, j)'
              /\ \A l \in 0..(j - 1) : Id(Table[Probe(m, Len(Table), l) + 1] - 1)' # query'.id
      BY <2>3, <2>5
    <2>7. at' = "probe" /\ domain'.hash_tab # << >> /\ domain' = domain /\ domain' # NoDomain
      BY <1>1, <1>3, <1>5
    <2>8. act' \in {None} \cup 0..(Total' - 1)
      BY <1>1, <1>3, SameCatalog
    <2> QED BY <1>1, <1>4, <2>6, <2>7, <2>8 DEF Searched
  <1>6. ASSUME domain.hash_tab = << >> PROVE Searched'
    <2>1. domain.nstrings = Total /\ Total \in Nat
      <3>1. domain.sysdep = << >>
        BY <1>3, <1>6 DEF IInv, Findable
      <3>2. Len(domain.sysdep) = 0 /\ domain.nstrings \in Nat
        BY <1>3, <3>1, IdType
      <3> QED BY <3>2 DEF Total
    <2>2. /\ at' = "halve" /\ domain'.hash_tab = << >> /\ domain' # NoDomain
          /\ bottom' = 0 /\ top' = Total' /\ Total' \in Nat
      BY <1>1, <1>3, <1>6, <2>1, SameCatalog
    <2>3. 0..(0 - 1) = {} /\ \A n \in Nat : n..(n - 1) = {}
      OBVIOUS
    <2>4. 0..(bottom' - 1) = {} /\ top'..(Total' - 1) = {}
      BY <2>2, <2>3
    <2>5. act' \in {None} \cup 0..(Total' - 1)
      BY <1>1, <1>3, SameCatalog
    <2>6. /\ \A a \in 0..(bottom' - 1) : Less(Id(a)', query'.id)
          /\ \A a \in top'..(Total' - 1) : Less(query'.id, Id(a)')
      BY <2>4
    <2>7. /\ bottom' \in Nat /\ top' \in Nat /\ bottom' <= top' /\ top' <= Total'
      BY <2>2
    <2> QED BY <1>1, <1>4, <2>2, <2>5, <2>6, <2>7 DEF Searched
  <1>7. decided /\ at \notin Early /\ at \notin Building
    BY <1>1, <1>3, LateStates
  <1>8. at' \in {"probe", "halve"} /\ (at' = "probe" => domain.hash_tab # << >>)
    BY <1>1
  <1>9. at' \in Holds \cup Both /\ at' \notin Early /\ at' \notin Building
    BY <1>8, LateStates
  <1> QED BY <1>1, <1>2, <1>3, <1>5, <1>6, <1>7, <1>8, <1>9, LateStep DEF IInv

\* No message is left that could be found behind an empty place.
LEMMA EmptyPlace == ASSUME IInv, ProbeEmpty PROVE IInv'
  <1>1. /\ at = "probe" /\ nstr = 0 /\ at' = "absent"
        /\ UNCHANGED <<file, mem, domain, decided, queries, query, act, plural_vars>>
    BY DEF ProbeEmpty, load_vars, find_vars
  <1>2. PluralInv' /\ failures' = failures /\ header' = header
    BY <1>1, PluralUnchanged DEF IInv, plural_vars
  <1> DEFINE h == hash_string(query.id)
             size == domain.hash_size
  <1>3. domain # NoDomain /\ domain.hash_tab # << >> /\ decided
    BY <1>1, Probing
  <1>4. PICK j \in Nat :
            /\ nstr = Table[Probe(h, size, j) + 1]
            /\ \A l \in 0..(j - 1) : Id(Table[Probe(h, size, l) + 1] - 1) # query.id
    BY <1>1, Probing, Zenon
  <1>5. h \in 0..(HASHWORD - 1)
    BY QueryType
  <1> HIDE DEF h
  <1>6. ASSUME NEW a \in 0..(Total - 1), Id(a) = query.id PROVE FALSE
    <2>1. /\ Total \in Nat /\ domain.nstrings \in Nat /\ Placed \in Nat
          /\ domain.nstrings + Placed = Total
      <3>1. Placed = Len(domain.sysdep)
        BY <1>1 DEF Placed
      <3> QED BY <1>3, <3>1, IdType DEF Total
    <2>2. PICK k \in Nat : FoundAt(Table, h, a + 1, k)
      <3>1. \A b \in 0..(domain.nstrings + Placed - 1) :
                \E k \in Nat : FoundAt(Table, hash_string(Id(b)), b + 1, k)
        BY <1>3, Zenon DEF IInv, Findable
      <3>2. \E k \in Nat : FoundAt(Table, hash_string(Id(a)), a + 1, k)
        <4>1. a \in 0..(domain.nstrings + Placed - 1)
          BY <2>1
        <4> QED BY <3>1, <4>1
      <3> QED BY <1>6, <3>2 DEF h
    <2>3. Len(Table) = size
      BY <1>3, <1>5, PlaceRead
    <2>4. /\ Table[Probe(h, size, k) + 1] = a + 1
          /\ \A l \in 0..(k - 1) : Table[Probe(h, size, l) + 1] # 0
      BY <2>2, <2>3 DEF FoundAt
    <2>5. a + 1 # 0 /\ (a + 1) - 1 = a
      BY <2>1
    <2>6. CASE j < k
      <3>1. j \in 0..(k - 1)
        BY <2>6
      <3> QED BY <1>1, <1>4, <2>4, <3>1
    <2>7. CASE j = k
      BY <1>1, <1>4, <2>4, <2>5, <2>7
    <2>8. CASE k < j
      <3>1. k \in 0..(j - 1)
        BY <2>8
      <3> QED BY <1>4, <1>6, <2>4, <2>5, <3>1
    <2> QED BY <2>6, <2>7, <2>8
  <1>7. Searched'
    <2>1. \A a \in 0..(Total' - 1) : Id(a)' # query'.id
      BY <1>1, <1>6, SameCatalog
    <2>2. act' \in {None} \cup 0..(Total' - 1) /\ query \in Queries \cup {Header}
      BY <1>1, <1>3, SameCatalog DEF IInv, Searched
    <2>3. query.from = "caller" => act = None
      BY <1>1 DEF IInv, Searched
    <2>4. domain' # NoDomain
      BY <1>1, <1>3
    <2> QED BY <1>1, <2>1, <2>2, <2>3, <2>4 DEF Searched
  <1>8. decided /\ at \notin Early /\ at \notin Building
    BY <1>1, <1>3, LateStates
  <1>9. at' \in Holds \cup Both /\ at' \notin Early /\ at' \notin Building /\ at' # "probe"
    BY <1>1, LateStates
  <1> QED BY <1>1, <1>2, <1>3, <1>7, <1>8, <1>9, LateStep DEF IInv

LEMMA FullPlace == ASSUME IInv, ProbeFound PROVE IInv'
  <1>1. /\ at = "probe" /\ nstr # 0 /\ act' = nstr - 1 /\ at' = "found"
        /\ UNCHANGED <<file, mem, domain, decided, queries, query, plural_vars>>
    BY DEF ProbeFound, load_vars
  <1>2. PluralInv' /\ failures' = failures /\ header' = header
    BY <1>1, PluralUnchanged DEF IInv, plural_vars
  <1>3. domain # NoDomain /\ decided /\ nstr \in 0..Total
    BY <1>1, Probing, Zenon
  <1>4. Id(nstr - 1) = query.id
    BY DEF ProbeFound, Matches, Id
  <1>5. Total \in Nat
    BY <1>3, IdType
  <1>6. nstr - 1 \in 0..(Total - 1) /\ nstr - 1 # None
    BY <1>1, <1>3, <1>5 DEF None
  <1> HIDE DEF nstr
  <1>7. Searched'
    <2>1. act' \in {None} \cup 0..(Total' - 1) /\ act' # None
      BY <1>1, <1>6, SameCatalog
    <2>2. Id(act)' = query'.id
      <3>1. act' \in 0..(Total - 1)
        BY <1>1, <1>6
      <3>2. PICK a : a = act'
        OBVIOUS
      <3>3. Id(a)' = Id(a)
        BY <1>1, SameCatalog
      <3>4. Id(act)' = Id(a)
        BY <1>1, <3>2 DEF Id, OrigOf
      <3> QED BY <1>1, <1>4, <3>2, <3>4
    <2>3. query' \in Queries \cup {Header} /\ domain' # NoDomain
      BY <1>1, <1>3 DEF IInv, Searched
    <2> QED BY <1>1, <2>1, <2>2, <2>3 DEF Searched
  <1>8. decided /\ at \notin Early /\ at \notin Building
    BY <1>1, <1>3, LateStates
  <1>9. at' \in Holds \cup Both /\ at' \notin Early /\ at' \notin Building /\ at' # "probe"
    BY <1>1, LateStates
  <1> QED BY <1>1, <1>2, <1>3, <1>7, <1>8, <1>9, LateStep DEF IInv

\* A place with another message is passed over.
LEMMA OtherPlace == ASSUME IInv, ProbeNext PROVE IInv'
  <1>1. /\ at = "probe" /\ nstr # 0 /\ at' = "probe" /\ ~Matches(nstr - 1)
        /\ idx' = NextPlace(idx, incr, domain.hash_size) /\ incr' = incr
        /\ UNCHANGED <<file, mem, domain, decided, queries, query, act, plural_vars>>
    BY DEF ProbeNext, load_vars
  <1>2. PluralInv' /\ failures' = failures /\ header' = header
    BY <1>1, PluralUnchanged DEF IInv, plural_vars
  <1> DEFINE h == hash_string(query.id)
             size == domain.hash_size
  <1>3. domain # NoDomain /\ domain.hash_tab # << >> /\ decided
    BY <1>1, Probing
  <1>4. PICK j \in Nat :
            /\ incr = Step(h, size) /\ idx = Probe(h, size, j)
            /\ nstr = Table[Probe(h, size, j) + 1] /\ nstr \in 0..Total
            /\ Passed(h, j)
            /\ \A l \in 0..(j - 1) : Id(Table[Probe(h, size, l) + 1] - 1) # query.id
    BY <1>1, Probing, Zenon
  <1>5. h \in 0..(HASHWORD - 1) /\ Len(query.id) \in Nat
    BY QueryType
  <1>6. PICK k \in 0..(HASHWORD - 1) : k = h
    BY <1>5
  <1> HIDE DEF h
  <1>7. /\ Len(Table) = size
        /\ NextPlace(Probe(k, size, j), Step(k, size), size) = Probe(k, size, j + 1)
    BY <1>3, PlaceRead
  <1>8. Id(nstr - 1) # query.id
    <2>1. nstr - 1 \in 0..(Total - 1)
      <3>1. Total \in Nat
        BY <1>3, IdType
      <3> HIDE DEF nstr
      <3> QED BY <1>1, <1>4, <3>1
    <2>2. Len(Id(nstr - 1)) <= Len(OrigOf(nstr - 1)) /\ Id(nstr - 1) \in Seq(Byte)
          /\ OrigOf(nstr - 1) \in Seq(Byte)
      BY <1>3, <2>1, IdType
    <2> SUFFICES ASSUME Id(nstr - 1) = query.id PROVE FALSE
      OBVIOUS
    <2>3. /\ Len(OrigOf(nstr - 1)) >= Len(query.id)
          /\ Len(OrigOf(nstr - 1)) + 1 > Len(query.id)
      <3>1. Len(OrigOf(nstr - 1)) \in Nat
        BY <2>2, LenProperties
      <3>2. Len(query.id) <= Len(OrigOf(nstr - 1))
        BY <2>2
      <3> QED BY <1>5, <3>1, <3>2
    <2> HIDE DEF nstr
    <2>4. Matches(nstr - 1)
      BY <2>3, Zenon DEF Matches, Id
    <2> QED BY <1>1, <2>4
  <1> HIDE DEF nstr
  <1>9. Passed(k, j + 1)' /\ \A l \in 0..((j + 1) - 1) :
                                 Id(Table[Probe(k, Len(Table), l) + 1] - 1)' # query'.id
    <2>1. ASSUME NEW l \in 0..((j + 1) - 1)
          PROVE  Table[Probe(k, size, l) + 1] # 0 /\ Id(Table[Probe(k, size, l) + 1] - 1) # query.id
      <3>1. l \in 0..(j - 1) \/ l = j
        OBVIOUS
      <3>2. CASE l \in 0..(j - 1)
        BY <1>4, <1>6, <1>7, <3>2 DEF Passed
      <3>3. CASE l = j
        BY <1>1, <1>4, <1>6, <1>8, <3>3
      <3> QED BY <3>1, <3>2, <3>3
    <2>2. Passed(k, j + 1)
      BY <1>7, <2>1 DEF Passed
    <2>3. ASSUME NEW l \in 0..((j + 1) - 1)
          PROVE  Id(Table[Probe(k, Len(Table), l) + 1] - 1)' # query'.id
      <3>1. PICK a : a = Table[Probe(k, Len(Table), l) + 1] - 1
        OBVIOUS
      <3>2. Table' = Table /\ Id(a)' = Id(a)
        BY <1>1, SameCatalog
      <3>3. Id(Table[Probe(k, Len(Table), l) + 1] - 1)' = Id(a)
        BY <1>1, <3>1, <3>2 DEF Id, OrigOf
      <3> QED BY <1>1, <1>7, <2>1, <3>1, <3>3
    <2> QED BY <1>1, <2>2, <2>3, SameCatalog
  <1>10. idx' = Probe(k, size, j + 1) /\ incr' = Step(k, size)
    BY <1>1, <1>4, <1>6, <1>7
  <1>11. Searched'
    <2>1. \E m \in 0..(HASHWORD - 1), n \in Nat :
              /\ m = hash_string(query'.id)
              /\ incr' = Step(m, domain'.hash_size) /\ idx' = Probe(m, domain'.hash_size, n)
              /\ Passed(m, n)'
              /\ \A l \in 0..(n - 1) : Id(Table[Probe(m, Len(Table), l) + 1] - 1)' # query'.id
      <3>1. j + 1 \in Nat
        OBVIOUS
      <3>2. k = hash_string(query'.id) /\ domain' = domain
        BY <1>1, <1>6 DEF h
      <3> QED BY <1>9, <1>10, <3>1, <3>2
    <2>2. /\ query \in Queries \cup {Header} /\ act \in {None} \cup 0..(Total - 1)
          /\ query.from = "caller" => act = None
      BY <1>1, <1>3 DEF IInv, Searched
    <2>3. act' \in {None} \cup 0..(Total' - 1) /\ domain' # NoDomain /\ domain'.hash_tab # << >>
      BY <1>1, <1>3, <2>2, SameCatalog
    <2> QED BY <1>1, <2>1, <2>2, <2>3 DEF Searched
  <1>12. decided /\ at \notin Early /\ at \notin Building
    BY <1>1, <1>3, LateStates
  <1>13. at' \in Holds \cup Both /\ at' \notin Early /\ at' \notin Building
    BY <1>1, LateStates
  <1> QED BY <1>1, <1>2, <1>3, <1>11, <1>12, <1>13, LateStep DEF IInv

\* One half of what is left is put aside.
LEMMA Halves == ASSUME IInv, Halve PROVE IInv'
  <1> DEFINE m == (bottom + top) \div 2
             s == CString(OrigOf(m))
  <1>1. /\ at = "halve" /\ bottom < top
        /\ UNCHANGED <<file, mem, domain, decided, queries, query, plural_vars>>
        /\ \/ Less(query.id, s) /\ top' = m /\ UNCHANGED <<bottom, act, at>>
           \/ Less(s, query.id) /\ bottom' = m + 1 /\ UNCHANGED <<top, act, at>>
           \/ s = query.id /\ act' = m /\ at' = "found" /\ UNCHANGED <<bottom, top>>
    BY DEF Halve, Upper, load_vars
  <1>2. PluralInv' /\ failures' = failures /\ header' = header
    BY <1>1, PluralUnchanged DEF IInv, plural_vars
  <1>3. domain # NoDomain /\ decided
    BY <1>1, Decided DEF IInv, Held, Holds
  <1>4. /\ domain.hash_tab = << >>
        /\ bottom \in Nat /\ top \in Nat /\ bottom <= top /\ top <= Total
        /\ \A a \in 0..(bottom - 1) : Less(Id(a), query.id)
        /\ \A a \in top..(Total - 1) : Less(query.id, Id(a))
        /\ query \in Queries \cup {Header} /\ act \in {None} \cup 0..(Total - 1)
        /\ query.from = "caller" => act = None
    BY <1>1, <1>3 DEF IInv, Searched
  <1>5. Total \in Nat /\ \A a \in 0..(Total - 1) : Id(a) \in Seq(Byte)
    BY <1>3, IdType
  <1>6. m \in Nat /\ bottom <= m /\ m < top /\ m \in 0..(Total - 1)
    BY <1>1, <1>4, <1>5
  <1> HIDE DEF m
  <1>7. s = Id(m) /\ query.id \in Seq(Byte)
    BY QueryType DEF Id
  <1> HIDE DEF s
  <1>8. \A a, b \in 0..(Total - 1) : a < b => Less(Id(a), Id(b))
    BY <1>3, <1>4 DEF IInv, Findable
  <1>9. Total' = Total /\ (\A a : Id(a)' = Id(a)) /\ query' = query
    BY <1>1, SameCatalog
  <1>10. ASSUME at' = at, UNCHANGED act, bottom' \in Nat, top' \in Nat, bottom' <= top', top' <= Total,
                \A a \in 0..(bottom' - 1) : Less(Id(a), query.id),
                \A a \in top'..(Total - 1) : Less(query.id, Id(a))
         PROVE  Searched'
    <2>1. /\ \A a \in 0..(bottom' - 1) : Less(Id(a)', query'.id)
          /\ \A a \in top'..(Total' - 1) : Less(query'.id, Id(a)')
      BY <1>9, <1>10
    <2>2. /\ act' \in {None} \cup 0..(Total' - 1) /\ domain' # NoDomain /\ domain'.hash_tab = << >>
          /\ at' = "halve" /\ top' <= Total'
      BY <1>1, <1>3, <1>4, <1>9, <1>10
    <2> QED BY <1>1, <1>4, <1>10, <2>1, <2>2 DEF Searched
  <1>11. ASSUME Less(query.id, s), top' = m, UNCHANGED <<bottom, act, at>>
         PROVE  Searched'
    <2>1. ASSUME NEW a \in m..(Total - 1) PROVE Less(query.id, Id(a))
      <3>1. CASE a = m
        BY <1>7, <1>11, <3>1
      <3>2. CASE a # m
        <4>1. a \in 0..(Total - 1) /\ m < a
          BY <1>5, <1>6, <3>2
        <4>2. Less(Id(m), Id(a)) /\ Id(m) \in Seq(Byte) /\ Id(a) \in Seq(Byte)
          BY <1>5, <1>6, <1>8, <4>1
        <4> QED BY <1>7, <1>11, <4>2, LessTransitive
      <3> QED BY <3>1, <3>2
    <2>2. bottom' \in Nat /\ top' \in Nat /\ bottom' <= top' /\ top' <= Total
      BY <1>4, <1>5, <1>6, <1>11
    <2> QED BY <1>4, <1>10, <1>11, <2>1, <2>2
  <1>12. ASSUME Less(s, query.id), bottom' = m + 1, UNCHANGED <<top, act, at>>
         PROVE  Searched'
    <2>1. ASSUME NEW a \in 0..((m + 1) - 1) PROVE Less(Id(a), query.id)
      <3>1. CASE a = m
        BY <1>7, <1>12, <3>1
      <3>2. CASE a # m
        <4>1. a \in 0..(Total - 1) /\ a < m
          BY <1>5, <1>6, <3>2
        <4>2. Less(Id(a), Id(m)) /\ Id(m) \in Seq(Byte) /\ Id(a) \in Seq(Byte)
          BY <1>5, <1>6, <1>8, <4>1
        <4> QED BY <1>7, <1>12, <4>2, LessTransitive
      <3> QED BY <3>1, <3>2
    <2>2. bottom' \in Nat /\ top' \in Nat /\ bottom' <= top' /\ top' <= Total
      BY <1>4, <1>5, <1>6, <1>12
    <2> QED BY <1>4, <1>10, <1>12, <2>1, <2>2
  <1>13. ASSUME s = query.id, act' = m, at' = "found"
         PROVE  Searched'
    <2>1. act' # None /\ act' \in {None} \cup 0..(Total' - 1) /\ domain' # NoDomain
      BY <1>1, <1>3, <1>6, <1>9, <1>13 DEF None
    <2>2. Id(act)' = query'.id
      <3>1. Id(act)' = Id(m)
        BY <1>1, <1>13 DEF Id, OrigOf
      <3> QED BY <1>7, <1>9, <1>13, <3>1
    <2> QED BY <1>4, <1>9, <1>13, <2>1, <2>2 DEF Searched
  <1>14. Searched'
    BY <1>1, <1>11, <1>12, <1>13
  <1>15. decided /\ at \notin Early /\ at \notin Building
    BY <1>1, <1>3, LateStates
  <1>16. at' \in {"halve", "found"}
    BY <1>1
  <1>17. at' \in Holds \cup Both /\ at' \notin Early /\ at' \notin Building /\ at' # "probe"
    BY <1>16, LateStates
  <1> QED BY <1>1, <1>2, <1>3, <1>14, <1>15, <1>17, LateStep DEF IInv

LEMMA NoHalfLeft == ASSUME IInv, HalvesEnd PROVE IInv'
  <1>1. /\ at = "halve" /\ bottom >= top /\ at' = "absent"
        /\ UNCHANGED <<file, mem, domain, decided, queries, query, act, plural_vars>>
    BY DEF HalvesEnd, load_vars, find_vars
  <1>2. PluralInv' /\ failures' = failures /\ header' = header
    BY <1>1, PluralUnchanged DEF IInv, plural_vars
  <1>3. domain # NoDomain /\ decided
    BY <1>1, Decided DEF IInv, Held, Holds
  <1>4. /\ bottom \in Nat /\ top \in Nat /\ bottom <= top /\ top <= Total
        /\ \A a \in 0..(bottom - 1) : Less(Id(a), query.id)
        /\ \A a \in top..(Total - 1) : Less(query.id, Id(a))
        /\ query \in Queries \cup {Header} /\ act \in {None} \cup 0..(Total - 1)
        /\ query.from = "caller" => act = None
    BY <1>1, <1>3 DEF IInv, Searched
  <1>5. Total \in Nat /\ query.id \in Seq(Byte)
    BY <1>3, IdType, QueryType
  <1>6. ASSUME NEW a \in 0..(Total - 1) PROVE Id(a) # query.id
    <2>1. a \in 0..(bottom - 1) \/ a \in top..(Total - 1)
      BY <1>1, <1>4, <1>5
    <2> QED BY <1>4, <1>5, <2>1, NotLessThanItself
  <1>7. Searched'
    <2>1. \A a \in 0..(Total' - 1) : Id(a)' # query'.id
      BY <1>1, <1>6, SameCatalog
    <2>2. act' \in {None} \cup 0..(Total' - 1) /\ domain' # NoDomain
      BY <1>1, <1>3, <1>4, SameCatalog
    <2> QED BY <1>1, <1>4, <2>1, <2>2 DEF Searched
  <1>8. decided /\ at \notin Early /\ at \notin Building
    BY <1>1, <1>3, LateStates
  <1>9. at' \in Holds \cup Both /\ at' \notin Early /\ at' \notin Building /\ at' # "probe"
    BY <1>1, LateStates
  <1> QED BY <1>1, <1>2, <1>3, <1>7, <1>8, <1>9, LateStep DEF IInv

LEMMA Answers == ASSUME IInv, Answer PROVE IInv'
  <1>1. /\ at \in {"found", "absent"} /\ query.from = "caller"
        /\ UNCHANGED <<file, mem, domain, decided, queries, query, act, plural_vars>>
        /\ \/ at = "found" /\ at' = "killed"
           \/ at = "found" /\ at' = "answered" /\ form' = plural_lookup(act, query.n)
           \/ at = "absent" /\ at' = "answered"
    BY DEF Answer, load_vars
  <1>2. PluralInv' /\ failures' = failures /\ header' = header
    BY <1>1, PluralUnchanged DEF IInv, plural_vars
  <1>3. decided /\ (at = "found" => domain # NoDomain)
    BY <1>1, Decided DEF IInv, Held, Holds
  <1>4. /\ query \in Queries \cup {Header}
        /\ domain = NoDomain => act = None
        /\ domain # NoDomain => act \in {None} \cup 0..(Total - 1)
        /\ at = "found" => act # None /\ Id(act) = query.id
        /\ at = "absent" => act = None
        /\ at = "absent" /\ domain # NoDomain => \A a \in 0..(Total - 1) : Id(a) # query.id
    BY <1>1 DEF IInv, Searched
  <1>5. /\ Id(act)' = Id(act) /\ plural_lookup(act, query.n)' = plural_lookup(act, query.n)
        /\ Total' = Total
    <2>1. Id(act)' = Id(act)
      BY <1>1 DEF Id, OrigOf
    <2>2. plural' = plural /\ nplurals' = nplurals
      BY <1>1 DEF plural_vars
    <2>3. TransOf(act)' = TransOf(act)
      BY <1>1 DEF TransOf
    <2>4. VariantsOf(act)' = VariantsOf(act)
      BY <2>3 DEF VariantsOf
    <2>5. plural_lookup(act, query.n)' = plural_lookup(act, query.n)
      BY <1>1, <2>2, <2>4 DEF plural_lookup
    <2> QED BY <1>1, <2>1, <2>5, SameCatalog
  <1>6. /\ query' \in Queries \cup {Header} /\ query'.from = "caller" /\ at' \in {"killed", "answered"}
        /\ domain' = NoDomain => act' = None
        /\ domain' # NoDomain => act' \in {None} \cup 0..(Total' - 1)
    BY <1>1, <1>4, <1>5
  <1>7. at' = "answered" /\ domain' # NoDomain =>
            IF act' = None THEN \A a \in 0..(Total' - 1) : Id(a)' # query'.id
            ELSE Id(act)' = query'.id /\ form' = plural_lookup(act, query.n)'
    <2>1. CASE at = "found"
      BY <1>1, <1>4, <1>5, <2>1
    <2>2. CASE at = "absent"
      <3>1. domain # NoDomain => \A a \in 0..(Total' - 1) : Id(a)' # query'.id
        BY <1>1, <1>4, <2>2, SameCatalog
      <3> QED BY <1>1, <1>4, <2>2, <3>1
    <2> QED BY <1>1, <2>1, <2>2
  <1>8. Searched'
    BY <1>6, <1>7 DEF Searched
  <1>9. decided /\ at \notin Early /\ at \notin Building
    BY <1>1, <1>3, LateStates
  <1>10. /\ at' \in Holds \cup Both /\ at' \notin Early /\ at' \notin Building /\ at' # "probe"
         /\ at' \in Holds => domain # NoDomain
    BY <1>1, <1>3, LateStates
  <1> QED BY <1>1, <1>2, <1>8, <1>9, <1>10, LateStep DEF IInv

LEMMA Returns == ASSUME IInv, Return PROVE IInv'
  <1>1. /\ at = "answered" /\ at' = "idle" /\ act' = None
        /\ UNCHANGED <<file, mem, domain, decided, queries, query, plural_vars>>
    BY DEF Return, load_vars
  <1>2. PluralInv' /\ failures' = failures /\ header' = header
    BY <1>1, PluralUnchanged DEF IInv, plural_vars
  <1>3. decided
    BY <1>1, Decided DEF IInv
  <1>4. Searched'
    BY <1>1 DEF IInv, Searched
  <1>5. decided /\ at \notin Early /\ at \notin Building
    BY <1>1, <1>3, LateStates
  <1>6. at' \in Holds \cup Both /\ at' \notin Early /\ at' \notin Building /\ at' # "probe"
        /\ at' \notin Holds
    BY <1>1, LateStates
  <1> QED BY <1>1, <1>2, <1>4, <1>5, <1>6, LateStep DEF IInv

-----------------------------------------------------------------------------
(* The end of the loading.                                                 *)

\* What stays of a search when the parser runs.
LEMMA ActStays ==
    ASSUME Searched, UNCHANGED <<file, domain, query, act>>,
           at' \in {"parse", "loaded"} \/ (at' = "idle" /\ at = "loaded")
    PROVE  Searched'
  <1>1. /\ query' \in Queries \cup {Header} /\ at' \in {"parse", "loaded", "idle"}
        /\ domain' = NoDomain => act' = None
        /\ domain' # NoDomain => act' \in {None} \cup 0..(Total' - 1)
    BY SameCatalog DEF Searched
  <1> QED BY <1>1 DEF Searched

LEMMA Extracts == ASSUME IInv, ExtractPlural PROVE IInv'
  <1>1. /\ at \in {"found", "absent"} /\ query.from = "load" /\ at' = "parse"
        /\ UNCHANGED <<file, mem, domain, decided, queries, query, act>>
        /\ EXTRACT_PLURAL_EXPRESSION(IF at = "found" THEN file.header ELSE NoHeader)
    BY DEF ExtractPlural, load_vars, find_vars
  <1>2. PluralInv'
    BY <1>1, FieldsTaken DEF IInv
  <1>3. failures' = failures /\ header' = (IF at = "found" THEN file.header ELSE NoHeader)
    BY <1>1 DEF EXTRACT_PLURAL_EXPRESSION
  <1>4. domain # NoDomain /\ decided
    BY <1>1, Decided DEF IInv, Held, Holds, Searched
  <1>5. Searched'
    BY <1>1, ActStays DEF IInv
  <1>6. decided /\ at \notin Early /\ at \notin Building
    BY <1>1, <1>4, LateStates
  <1>7. at' \in Holds \cup Both /\ at' \notin Early /\ at' \notin Building /\ at' # "probe"
    BY <1>1, LateStates
  <1>8. header' \in {NoHeader, file.header}
    BY <1>3
  <1> QED BY <1>1, <1>2, <1>3, <1>4, <1>5, <1>6, <1>7, <1>8, LateStep DEF IInv

LEMMA HeaderStays == ASSUME Parse PROVE header' = header
  BY DEF Parse, Reduce, ReduceVar, ReduceNum, ReduceParentheses, ReduceNot, ReduceBinary,
         ReduceTernary, ReduceStart, Shift, yyerrlab, Extracted, new_exp, Push

LEMMA Parses == ASSUME IInv, ParsePlural PROVE IInv'
  <1>1. /\ at = "parse" /\ at' \in {"parse", "loaded"} /\ Parse
        /\ UNCHANGED <<file, mem, domain, decided, queries, query, act>>
    BY DEF ParsePlural, load_vars, find_vars
  <1>2. PluralInv' /\ (failures' = 0 => failures = 0) /\ header' = header
    BY <1>1, ParseSteps, FailuresStay, HeaderStays DEF IInv
  <1>3. domain # NoDomain /\ decided
    BY <1>1, Decided DEF IInv, Held, Holds
  <1>4. Searched'
    BY <1>1, ActStays DEF IInv
  <1>5. decided /\ at \notin Early /\ at \notin Building
    BY <1>1, <1>3, LateStates
  <1>6. at' \in Holds \cup Both /\ at' \notin Early /\ at' \notin Building /\ at' # "probe"
    BY <1>1, LateStates
  <1> QED BY <1>1, <1>2, <1>3, <1>4, <1>5, <1>6, LateStep DEF IInv

LEMMA LoadEnds == ASSUME IInv, Loaded PROVE IInv'
  <1>1. /\ at = "loaded" /\ at' = "idle"
        /\ UNCHANGED <<file, mem, domain, decided, queries, query, act, plural_vars>>
    BY DEF Loaded, load_vars, find_vars
  <1>2. PluralInv' /\ failures' = failures /\ header' = header
    BY <1>1, PluralUnchanged DEF IInv, plural_vars
  <1>3. decided
    BY <1>1, Decided DEF IInv
  <1>4. Searched'
    BY <1>1, ActStays DEF IInv
  <1>5. decided /\ at \notin Early /\ at \notin Building
    BY <1>1, <1>3, LateStates
  <1>6. at' \in Holds \cup Both /\ at' \notin Early /\ at' \notin Building /\ at' # "probe"
        /\ at' \notin Holds
    BY <1>1, LateStates
  <1> QED BY <1>1, <1>2, <1>4, <1>5, <1>6, LateStep DEF IInv

-----------------------------------------------------------------------------
(* System dependent strings are entered in the table.                      *)

LEMMA HeldBuilt ==
    ASSUME Held, decided, domain # NoDomain, at' \in Holds, at' \notin Early, UNCHANGED <<mem, decided>>,
           domain' # NoDomain, domain'.sysdep = domain.sysdep
    PROVE  Held'
  <1>1. /\ mem \in Memory /\ decided \in BOOLEAN /\ mem.domain /\ mem.data # "none" /\ ~mem.fd
        /\ domain.sysdep # << >> => mem.malloced
    BY DEF Held
  <1>2. at' \notin {"open", "stat", "map", "read", "magic", "allocate", "revision"}
    BY DEF Early
  <1>3. mem' = mem /\ decided' = decided
    OBVIOUS
  <1> QED BY <1>1, <1>2, <1>3 DEF Held

LEMMA BuildStep ==
    ASSUME IInv, at \in Building, at' \in {"enter", "place", "header"},
           UNCHANGED <<file, mem, decided, queries, query, act, plural_vars>>,
           domain' # NoDomain, domain'.sysdep = domain.sysdep, domain'.nstrings = domain.nstrings,
           Findable'
    PROVE  IInv'
  <1>1. PluralInv' /\ header' = header
    BY PluralUnchanged DEF IInv, plural_vars
  <1>2. domain # NoDomain /\ decided
    <2>1. at \in Holds /\ at # "idle"
      BY DEF Building, Holds
    <2> QED BY <2>1, Decided DEF IInv, Held
  <1>3. at' \in Holds /\ at' \notin Early
    BY DEF Holds, Early
  <1>4. Held'
    BY <1>2, <1>3, HeldBuilt DEF IInv
  <1>5. Searched'
    <2>1. Total' = Total
      BY DEF Total
    <2>2. query' \in Queries \cup {Header} /\ act' \in {None} \cup 0..(Total' - 1)
      BY <1>2, <2>1 DEF IInv, Searched
    <2> QED BY <2>2 DEF Searched
  <1>6. file' \in CatalogFiles /\ queries' \in 0..MaxQueries /\ header' \in {NoHeader, file'.header}
    BY <1>1 DEF IInv
  <1> QED BY <1>1, <1>3, <1>4, <1>5, <1>6 DEF IInv

\* A table with system dependent strings, while they are entered.
LEMMA BuiltTable ==
    ASSUME IInv, at \in Building
    PROVE  /\ domain # NoDomain /\ domain \in Domain /\ domain.nstrings = Len(file.strings)
           /\ domain.nstrings \in Nat /\ Len(domain.sysdep) \in Nat
           /\ Total = domain.nstrings + Len(domain.sysdep)
           /\ domain.hash_tab # << >> /\ domain.hash_tab \in Seq(Int)
           /\ Len(domain.hash_tab) = domain.hash_size
           /\ domain.hash_size \in Nat /\ domain.hash_size > 2 /\ Len(Table) = domain.hash_size
           /\ DOMAIN Table = 1..domain.hash_size
           /\ \A x \in 1..domain.hash_size :
                  /\ Table[x] = W(domain.must_swap_hash_tab, domain.hash_tab[x])
                  /\ Table[x] \in 0..Total
           /\ \A a \in 0..(domain.nstrings + Placed - 1) :
                  \E j \in Nat : FoundAt(Table, hash_string(Id(a)), a + 1, j)
           /\ at = "augment" => domain.must_swap_hash_tab = MustSwap
           /\ at \in {"enter", "place"} =>
                  domain.must_swap_hash_tab = FALSE /\ i \in 1..(Len(domain.sysdep) + 1)
  <1>1. at \in Holds
    BY DEF Building, Holds
  <1>2. domain # NoDomain
    BY <1>1 DEF IInv, Held
  <1>3. domain.hash_tab # << >>
    BY <1>2 DEF IInv, Findable, Building
  <1>4. /\ domain \in Domain /\ Len(domain.hash_tab) = domain.hash_size
        /\ \A a \in 0..(domain.nstrings + Placed - 1) :
               \E j \in Nat : FoundAt(Table, hash_string(Id(a)), a + 1, j)
        /\ at = "augment" => domain.must_swap_hash_tab = MustSwap
        /\ at \in {"enter", "place"} =>
               ~domain.must_swap_hash_tab /\ i \in 1..(Len(domain.sysdep) + 1)
    BY <1>2, <1>3, Zenon DEF IInv, Findable
  <1>5. domain.hash_tab \in Seq(Int) /\ domain.must_swap_hash_tab \in BOOLEAN
    BY <1>4 DEF Domain
  <1>6. PICK h \in 0..(HASHWORD - 1) : TRUE
    BY CatalogAssumption
  <1>7. /\ domain.hash_size \in Nat /\ domain.hash_size > 2 /\ Len(Table) = domain.hash_size
        /\ DOMAIN Table = 1..domain.hash_size
        /\ \A x \in 1..domain.hash_size :
               Table[x] = W(domain.must_swap_hash_tab, domain.hash_tab[x]) /\ Table[x] \in 0..Total
    <2>1. 0 \in Nat
      OBVIOUS
    <2> QED BY <1>2, <1>3, <2>1, PlaceRead
  <1>8. /\ domain.nstrings \in Nat /\ Len(domain.sysdep) \in Nat /\ domain.nstrings = Len(file.strings)
    BY <1>2, IdType
  <1> QED BY <1>2, <1>3, <1>4, <1>5, <1>7, <1>8 DEF Total

LEMMA Copied ==
    ASSUME NEW tab \in Seq(Int), NEW swap \in BOOLEAN, NEW new,
           new = [k \in DOMAIN tab |-> W(swap, tab[k])]
    PROVE  /\ new \in Seq(Int) /\ Len(new) = Len(tab) /\ (tab # << >> => new # << >>)
           /\ InOrder(new, FALSE) = InOrder(tab, swap)
  <1>1. /\ InOrder(tab, swap) \in Seq(Int) /\ Len(InOrder(tab, swap)) = Len(tab) /\ Len(tab) \in Nat
        /\ DOMAIN InOrder(tab, swap) = 1..Len(tab)
    BY TableType
  <1>2. new = InOrder(tab, swap)
    BY DEF InOrder
  <1>3. /\ InOrder(new, FALSE) \in Seq(Int) /\ Len(InOrder(new, FALSE)) = Len(new)
        /\ \A x \in 1..Len(new) : InOrder(new, FALSE)[x] = W(FALSE, new[x])
    BY <1>1, <1>2, TableType
  <1>4. \A x \in 1..Len(new) : InOrder(new, FALSE)[x] = new[x]
    BY <1>3 DEF W
  <1>5. InOrder(new, FALSE) = new
    BY <1>1, <1>2, <1>3, <1>4, SeqEqual
  <1>6. tab # << >> => new # << >>
    BY <1>1, <1>2
  <1> QED BY <1>1, <1>2, <1>5, <1>6

LEMMA Augments == ASSUME IInv, Augment PROVE IInv'
  <1> DEFINE new == [k \in DOMAIN domain.hash_tab |-> W(MustSwap, domain.hash_tab[k])]
  <1>1. /\ at = "augment" /\ at' = "enter" /\ i' = 1
        /\ UNCHANGED <<file, mem, decided, queries, query, act, plural_vars>>
        /\ domain' = [domain EXCEPT !.hash_tab = new, !.must_swap_hash_tab = FALSE]
    BY DEF Augment, Loading, find_vars
  <1>2. at \in Building
    BY <1>1 DEF Building
  <1>3. /\ domain # NoDomain /\ domain \in Domain /\ domain.nstrings = Len(file.strings)
        /\ domain.nstrings \in Nat /\ Len(domain.sysdep) \in Nat
        /\ domain.hash_tab # << >> /\ domain.hash_tab \in Seq(Int)
        /\ Len(domain.hash_tab) = domain.hash_size /\ domain.hash_size > 2
        /\ DOMAIN Table = 1..domain.hash_size
        /\ \A x \in 1..domain.hash_size : Table[x] \in 0..Total
        /\ \A a \in 0..(domain.nstrings + Placed - 1) :
               \E j \in Nat : FoundAt(Table, hash_string(Id(a)), a + 1, j)
        /\ domain.must_swap_hash_tab = MustSwap
    BY <1>1, <1>2, BuiltTable
  <1>4. MustSwap \in BOOLEAN
    BY DEF MustSwap
  <1>5. /\ new \in Seq(Int) /\ Len(new) = Len(domain.hash_tab) /\ new # << >>
        /\ InOrder(new, FALSE) = Table
    <2>1. PICK tab \in Seq(Int), swap \in BOOLEAN : tab = domain.hash_tab /\ swap = MustSwap
      BY <1>3, <1>4
    <2>2. new = [k \in DOMAIN tab |-> W(swap, tab[k])]
      BY <2>1
    <2> HIDE DEF new
    <2>3. /\ new \in Seq(Int) /\ Len(new) = Len(tab) /\ (tab # << >> => new # << >>)
          /\ InOrder(new, FALSE) = InOrder(tab, swap)
      BY <2>2, Copied
    <2>4. Table = InOrder(tab, swap)
      BY <1>3, <2>1 DEF Table
    <2> QED BY <1>3, <2>1, <2>3, <2>4
  <1> HIDE DEF new
  <1>6. /\ domain' \in Domain /\ domain'.hash_tab = new /\ domain'.must_swap_hash_tab = FALSE
        /\ domain'.nstrings = domain.nstrings /\ domain'.sysdep = domain.sysdep
        /\ domain'.hash_size = domain.hash_size
    BY <1>1, <1>3, <1>5 DEF Domain
  <1>7. Table' = Table /\ Total' = Total /\ domain' # NoDomain
    BY <1>5, <1>6, RecordsAreNotNone DEF Table, Total
  <1>8. Placed' = 0 /\ Placed = 0
    BY <1>1 DEF Placed
  <1>9. \A a : Id(a)' = Id(a)
    BY <1>1, <1>6 DEF Id, OrigOf
  <1>10. Findable'
    <2>1. \A a \in 0..(domain'.nstrings + Placed' - 1) :
              \E j \in Nat : FoundAt(Table', hash_string(Id(a)'), a + 1, j)
      BY <1>3, <1>6, <1>7, <1>8, <1>9
    <2>2. /\ Len(domain'.hash_tab) = domain'.hash_size /\ domain'.hash_size > 2
          /\ domain'.hash_tab # << >> /\ domain'.nstrings = Len(file'.strings)
          /\ \A x \in DOMAIN Table' : Table'[x] \in 0..Total'
          /\ ~domain'.must_swap_hash_tab /\ i' \in 1..(Len(domain'.sysdep) + 1)
      BY <1>1, <1>3, <1>5, <1>6, <1>7
    <2> QED BY <1>1, <1>6, <2>1, <2>2 DEF Findable
  <1> QED BY <1>1, <1>2, <1>6, <1>7, <1>10, BuildStep

\* A string is about to be entered.
LEMMA Enters == ASSUME IInv, Enter PROVE IInv'
  <1> DEFINE h == hash_string(CString(domain.sysdep[i].orig))
  <1>1. /\ at = "enter" /\ at' = "place" /\ i' = i /\ i <= Len(domain.sysdep)
        /\ UNCHANGED <<file, mem, domain, decided, queries, query, act, plural_vars>>
        /\ idx' = First(h, domain.hash_size) /\ incr' = Step(h, domain.hash_size)
    BY DEF Enter, load_vars
  <1>2. at \in Building
    BY <1>1 DEF Building
  <1>3. /\ domain # NoDomain /\ domain \in Domain /\ domain.nstrings = Len(file.strings)
        /\ Len(domain.sysdep) \in Nat
        /\ domain.hash_tab # << >> /\ Len(domain.hash_tab) = domain.hash_size /\ domain.hash_size > 2
        /\ DOMAIN Table = 1..domain.hash_size
        /\ \A x \in 1..domain.hash_size : Table[x] \in 0..Total
        /\ \A a \in 0..(domain.nstrings + Placed - 1) :
               \E j \in Nat : FoundAt(Table, hash_string(Id(a)), a + 1, j)
        /\ domain.must_swap_hash_tab = FALSE /\ i \in 1..(Len(domain.sysdep) + 1)
    BY <1>1, <1>2, BuiltTable
  <1>4. h \in 0..(HASHWORD - 1)
    <2>1. domain.sysdep \in Seq(Strings) /\ i \in 1..Len(domain.sysdep)
      BY <1>1, <1>3 DEF Domain
    <2>2. domain.sysdep[i].orig \in Seq(Byte)
      <3>1. domain.sysdep[i] \in Strings
        BY <2>1, ElementOfSeq
      <3> QED BY <3>1 DEF Strings
    <2> QED BY <2>2, CStringType, HashIsWord
  <1> HIDE DEF h
  <1>5. PICK k \in 0..(HASHWORD - 1) : k = h
    BY <1>4
  <1>6. Probe(k, domain.hash_size, 0) = First(k, domain.hash_size)
    <2>1. 0 \in Nat
      OBVIOUS
    <2> QED BY <1>3, <2>1, PlaceRead
  <1>7. Placed' = Placed
    BY <1>1 DEF Placed
  <1>8. Passed(k, 0)'
    <2>1. 0..(0 - 1) = {}
      OBVIOUS
    <2> QED BY <2>1 DEF Passed
  <1>9. Findable'
    <2>1. \A a \in 0..(domain'.nstrings + Placed' - 1) :
              \E j \in Nat : FoundAt(Table', hash_string(Id(a)'), a + 1, j)
      BY <1>1, <1>3, <1>7, SameCatalog
    <2>2. /\ Len(domain'.hash_tab) = domain'.hash_size /\ domain'.hash_size > 2
          /\ domain'.hash_tab # << >> /\ domain'.nstrings = Len(file'.strings) /\ domain' \in Domain
          /\ \A x \in DOMAIN Table' : Table'[x] \in 0..Total'
          /\ ~domain'.must_swap_hash_tab /\ i' \in 1..(Len(domain'.sysdep) + 1)
          /\ i' <= Len(domain'.sysdep)
      BY <1>1, <1>3, SameCatalog
    <2>3. \E m \in 0..(HASHWORD - 1), j \in Nat :
              /\ m = hash_string(CString(domain'.sysdep[i'].orig))
              /\ incr' = Step(m, domain'.hash_size) /\ idx' = Probe(m, domain'.hash_size, j)
              /\ Passed(m, j)'
      <3>1. /\ k = hash_string(CString(domain'.sysdep[i'].orig))
            /\ incr' = Step(k, domain'.hash_size) /\ idx' = Probe(k, domain'.hash_size, 0)
        BY <1>1, <1>5, <1>6 DEF h
      <3> QED BY <1>8, <3>1
    <2> QED BY <1>1, <2>1, <2>2, <2>3 DEF Findable
  <1> QED BY <1>1, <1>2, <1>3, <1>9, BuildStep

\* The place that is looked at for the string that is being entered.
LEMMA Placing ==
    ASSUME IInv, at = "place"
    PROVE  /\ i <= Len(domain.sysdep)
           /\ \E h \in 0..(HASHWORD - 1), j \in Nat :
                  /\ h = hash_string(CString(domain.sysdep[i].orig))
                  /\ incr = Step(h, domain.hash_size) /\ idx = Probe(h, domain.hash_size, j)
                  /\ Probe(h, domain.hash_size, j) + 1 \in 1..domain.hash_size
                  /\ Table[idx + 1] = domain.hash_tab[idx + 1]
                  /\ NextPlace(idx, incr, domain.hash_size) = Probe(h, domain.hash_size, j + 1)
                  /\ \A l \in 0..(j - 1) : Table[Probe(h, domain.hash_size, l) + 1] # 0
  <1>1. at \in Building
    BY DEF Building
  <1>2. /\ domain # NoDomain /\ domain.hash_tab # << >> /\ domain.must_swap_hash_tab = FALSE
        /\ Len(Table) = domain.hash_size
    BY <1>1, BuiltTable
  <1>3. /\ i <= Len(domain.sysdep)
        /\ \E h \in 0..(HASHWORD - 1), j \in Nat :
               /\ h = hash_string(CString(domain.sysdep[i].orig))
               /\ incr = Step(h, domain.hash_size) /\ idx = Probe(h, domain.hash_size, j)
               /\ Passed(h, j)
    BY <1>2, Zenon DEF IInv, Findable
  <1>4. PICK h \in 0..(HASHWORD - 1), j \in Nat :
               /\ h = hash_string(CString(domain.sysdep[i].orig))
               /\ incr = Step(h, domain.hash_size) /\ idx = Probe(h, domain.hash_size, j)
               /\ Passed(h, j)
    BY <1>3
  <1>5. /\ Probe(h, domain.hash_size, j) + 1 \in 1..domain.hash_size
        /\ NextPlace(Probe(h, domain.hash_size, j), Step(h, domain.hash_size), domain.hash_size)
               = Probe(h, domain.hash_size, j + 1)
        /\ \A x \in 1..domain.hash_size :
               Table[x] = W(domain.must_swap_hash_tab, domain.hash_tab[x])
    BY <1>2, PlaceRead
  <1>6. Table[idx + 1] = domain.hash_tab[idx + 1]
    BY <1>2, <1>4, <1>5 DEF W
  <1>7. \A l \in 0..(j - 1) : Table[Probe(h, domain.hash_size, l) + 1] # 0
    BY <1>2, <1>4 DEF Passed
  <1> QED BY <1>3, <1>4, <1>5, <1>6, <1>7

LEMMA PassesPlace == ASSUME IInv, Occupied PROVE IInv'
  <1>1. /\ at = "place" /\ at' = "place" /\ i' = i /\ domain.hash_tab[idx + 1] # 0
        /\ idx' = NextPlace(idx, incr, domain.hash_size) /\ incr' = incr
        /\ UNCHANGED <<file, mem, domain, decided, queries, query, act, plural_vars>>
    BY DEF Occupied, load_vars
  <1>2. at \in Building
    BY <1>1 DEF Building
  <1>3. /\ domain # NoDomain /\ domain \in Domain /\ domain.nstrings = Len(file.strings)
        /\ domain.hash_tab # << >> /\ Len(domain.hash_tab) = domain.hash_size /\ domain.hash_size > 2
        /\ DOMAIN Table = 1..domain.hash_size /\ Len(Table) = domain.hash_size
        /\ \A x \in 1..domain.hash_size : Table[x] \in 0..Total
        /\ \A a \in 0..(domain.nstrings + Placed - 1) :
               \E j \in Nat : FoundAt(Table, hash_string(Id(a)), a + 1, j)
        /\ domain.must_swap_hash_tab = FALSE /\ i \in 1..(Len(domain.sysdep) + 1)
    BY <1>1, <1>2, BuiltTable
  <1>4. PICK h \in 0..(HASHWORD - 1), j \in Nat :
            /\ h = hash_string(CString(domain.sysdep[i].orig))
            /\ incr = Step(h, domain.hash_size) /\ idx = Probe(h, domain.hash_size, j)
            /\ Table[idx + 1] = domain.hash_tab[idx + 1]
            /\ NextPlace(idx, incr, domain.hash_size) = Probe(h, domain.hash_size, j + 1)
            /\ \A l \in 0..(j - 1) : Table[Probe(h, domain.hash_size, l) + 1] # 0
    BY <1>1, Placing, Zenon
  <1>5. Passed(h, j + 1)
    <2>1. \A l \in 0..((j + 1) - 1) : Table[Probe(h, domain.hash_size, l) + 1] # 0
      <3> SUFFICES ASSUME NEW l \in 0..((j + 1) - 1) PROVE Table[Probe(h, domain.hash_size, l) + 1] # 0
        OBVIOUS
      <3>1. l \in 0..(j - 1) \/ l = j
        OBVIOUS
      <3> QED BY <1>1, <1>4, <3>1
    <2> QED BY <1>3, <2>1 DEF Passed
  <1>6. Placed' = Placed
    BY <1>1 DEF Placed
  <1>7. Findable'
    <2>1. \A a \in 0..(domain'.nstrings + Placed' - 1) :
              \E k \in Nat : FoundAt(Table', hash_string(Id(a)'), a + 1, k)
      BY <1>1, <1>3, <1>6, SameCatalog
    <2>2. /\ Len(domain'.hash_tab) = domain'.hash_size /\ domain'.hash_size > 2
          /\ domain'.hash_tab # << >> /\ domain'.nstrings = Len(file'.strings) /\ domain' \in Domain
          /\ \A x \in DOMAIN Table' : Table'[x] \in 0..Total'
          /\ ~domain'.must_swap_hash_tab /\ i' \in 1..(Len(domain'.sysdep) + 1)
          /\ i' <= Len(domain'.sysdep)
      BY <1>1, <1>3, SameCatalog, Placing
    <2>3. \E m \in 0..(HASHWORD - 1), k \in Nat :
              /\ m = hash_string(CString(domain'.sysdep[i'].orig))
              /\ incr' = Step(m, domain'.hash_size) /\ idx' = Probe(m, domain'.hash_size, k)
              /\ Passed(m, k)'
      <3>1. /\ h = hash_string(CString(domain'.sysdep[i'].orig))
            /\ incr' = Step(h, domain'.hash_size) /\ idx' = Probe(h, domain'.hash_size, j + 1)
            /\ Passed(h, j + 1)'
        BY <1>1, <1>4, <1>5, SameCatalog
      <3>2. j + 1 \in Nat
        OBVIOUS
      <3> QED BY <3>1, <3>2
    <2> QED BY <1>1, <2>1, <2>2, <2>3 DEF Findable
  <1> QED BY <1>1, <1>2, <1>3, <1>7, BuildStep

LEMMA AllEntered == ASSUME IInv, Entered PROVE IInv'
  <1>1. /\ at = "enter" /\ at' = "header" /\ i > Len(domain.sysdep)
        /\ UNCHANGED <<file, mem, domain, decided, queries, query, act, plural_vars>>
    BY DEF Entered, Loading, find_vars
  <1>2. at \in Building
    BY <1>1 DEF Building
  <1>3. /\ domain # NoDomain /\ domain \in Domain /\ domain.nstrings = Len(file.strings)
        /\ Len(domain.sysdep) \in Nat
        /\ domain.hash_tab # << >> /\ Len(domain.hash_tab) = domain.hash_size /\ domain.hash_size > 2
        /\ DOMAIN Table = 1..domain.hash_size
        /\ \A x \in 1..domain.hash_size : Table[x] \in 0..Total
        /\ \A a \in 0..(domain.nstrings + Placed - 1) :
               \E j \in Nat : FoundAt(Table, hash_string(Id(a)), a + 1, j)
        /\ i \in 1..(Len(domain.sysdep) + 1)
    BY <1>1, <1>2, BuiltTable
  <1>4. Placed' = Placed
    <2>1. i - 1 = Len(domain.sysdep)
      <3>1. PICK n \in Nat : n = Len(domain.sysdep)
        BY <1>3
      <3>2. i \in 1..(n + 1) /\ i > n
        BY <1>1, <1>3, <3>1
      <3> QED BY <3>1, <3>2
    <2>2. Placed = i - 1 /\ Placed' = Len(domain.sysdep)
      BY <1>1 DEF Placed
    <2> QED BY <2>1, <2>2
  <1>5. Findable'
    <2>1. \A a \in 0..(domain'.nstrings + Placed' - 1) :
              \E j \in Nat : FoundAt(Table', hash_string(Id(a)'), a + 1, j)
      BY <1>1, <1>3, <1>4, SameCatalog
    <2>2. /\ Len(domain'.hash_tab) = domain'.hash_size /\ domain'.hash_size > 2
          /\ domain'.hash_tab # << >> /\ domain'.nstrings = Len(file'.strings) /\ domain' \in Domain
          /\ \A x \in DOMAIN Table' : Table'[x] \in 0..Total'
      BY <1>1, <1>3, SameCatalog
    <2> QED BY <1>1, <2>1, <2>2 DEF Findable
  <1> QED BY <1>1, <1>2, <1>3, <1>5, BuildStep

\* The string is entered at the first empty place; what was found before is
\* found still.
LEMMA EntersHere == ASSUME IInv, Empty PROVE IInv'
  <1> DEFINE n == domain.nstrings
             size == domain.hash_size
             x == idx + 1
             tab == [domain.hash_tab EXCEPT ![idx + 1] = domain.nstrings + i]
  <1>1. /\ at = "place" /\ at' = "enter" /\ i' = i + 1 /\ domain.hash_tab[x] = 0
        /\ domain' = [domain EXCEPT !.hash_tab = tab]
        /\ UNCHANGED <<file, mem, decided, queries, query, act, plural_vars>>
    BY DEF Empty, find_vars
  <1>2. at \in Building
    BY <1>1 DEF Building
  <1>3. /\ domain # NoDomain /\ domain \in Domain /\ n = Len(file.strings)
        /\ n \in Nat /\ Len(domain.sysdep) \in Nat /\ Total = n + Len(domain.sysdep)
        /\ domain.hash_tab # << >> /\ domain.hash_tab \in Seq(Int)
        /\ Len(domain.hash_tab) = size /\ size > 2 /\ size \in Nat
        /\ DOMAIN Table = 1..size /\ Len(Table) = size
        /\ \A y \in 1..size : /\ Table[y] = W(domain.must_swap_hash_tab, domain.hash_tab[y])
                               /\ Table[y] \in 0..Total
        /\ \A a \in 0..(n + Placed - 1) :
               \E j \in Nat : FoundAt(Table, hash_string(Id(a)), a + 1, j)
        /\ domain.must_swap_hash_tab = FALSE /\ i \in 1..(Len(domain.sysdep) + 1)
    BY <1>1, <1>2, BuiltTable
  <1>4. /\ i <= Len(domain.sysdep)
        /\ \E h \in 0..(HASHWORD - 1), j \in Nat :
            /\ h = hash_string(CString(domain.sysdep[i].orig))
            /\ idx = Probe(h, size, j) /\ x \in 1..size
            /\ Table[x] = domain.hash_tab[x]
            /\ \A l \in 0..(j - 1) : Table[Probe(h, size, l) + 1] # 0
    BY <1>1, Placing, Zenon
  <1>5. PICK h \in 0..(HASHWORD - 1), j \in Nat :
            /\ h = hash_string(CString(domain.sysdep[i].orig))
            /\ idx = Probe(h, size, j) /\ x \in 1..size
            /\ Table[x] = 0
            /\ \A l \in 0..(j - 1) : Table[Probe(h, size, l) + 1] # 0
    BY <1>1, <1>4
  <1>6. /\ i \in Nat /\ i >= 1 /\ n + i \in Int /\ n + i # 0 /\ n + i \in 0..Total
        /\ n + i = (n + (i - 1)) + 1
    <2>1. PICK m \in Nat : m = Len(domain.sysdep)
      BY <1>3
    <2>2. i \in 1..(m + 1) /\ i <= m /\ n \in Nat /\ Total = n + m
      BY <1>3, <1>4, <2>1
    <2> HIDE DEF n
    <2> QED BY <2>2
  <1>7. /\ tab \in Seq(Int) /\ Len(tab) = size /\ tab # << >> /\ tab[x] = n + i
        /\ \A y \in 1..size : y # x => tab[y] = domain.hash_tab[y]
    <2>1. DOMAIN domain.hash_tab = 1..size
      BY <1>3, LenProperties
    <2>2. tab \in Seq(Int) /\ Len(tab) = Len(domain.hash_tab)
      BY <1>3, <1>5, <1>6, <2>1
    <2>3. tab[x] = n + i /\ \A y \in 1..size : y # x => tab[y] = domain.hash_tab[y]
      BY <1>5, <2>1
    <2>4. Len(<< >>) = 0
      OBVIOUS
    <2>5. tab # << >>
      BY <1>3, <2>2, <2>4
    <2> QED BY <1>3, <2>2, <2>3, <2>5
  <1> HIDE DEF tab
  <1>8. /\ domain' \in Domain /\ domain'.hash_tab = tab /\ domain'.must_swap_hash_tab = FALSE
        /\ domain'.nstrings = n /\ domain'.sysdep = domain.sysdep /\ domain'.hash_size = size
    BY <1>1, <1>3, <1>7 DEF Domain
  <1>9. Total' = Total /\ domain' # NoDomain
    BY <1>8, RecordsAreNotNone DEF Total
  <1>10. /\ DOMAIN Table' = 1..size /\ Len(Table') = size /\ Table'[x] = n + i
         /\ \A y \in 1..size : y # x => Table'[y] = Table[y]
    <2>1. Table' = InOrder(tab, FALSE)
      BY <1>8 DEF Table
    <2>2. /\ Len(InOrder(tab, FALSE)) = Len(tab) /\ DOMAIN InOrder(tab, FALSE) = 1..Len(tab)
          /\ \A y \in 1..Len(tab) : InOrder(tab, FALSE)[y] = W(FALSE, tab[y])
      BY <1>7, TableType
    <2>3. \A y \in 1..size : Table'[y] = tab[y]
      BY <1>7, <2>1, <2>2 DEF W
    <2>4. \A y \in 1..size : Table[y] = domain.hash_tab[y]
      BY <1>3 DEF W
    <2> QED BY <1>5, <1>7, <2>1, <2>2, <2>3, <2>4
  <1> DEFINE here == n + (i - 1)
  <1>11. /\ \A a : Id(a)' = Id(a)
         /\ Id(here) = CString(domain.sysdep[i].orig)
    <2>1. \A a : Id(a)' = Id(a)
      BY <1>1, <1>8 DEF Id, OrigOf
    <2>2. ~(here < n) /\ here - n + 1 = i
      BY <1>3, <1>6
    <2>3. OrigOf(here) = domain.sysdep[i].orig
      BY <2>2 DEF OrigOf
    <2> QED BY <2>1, <2>3 DEF Id
  <1>12. ASSUME NEW g \in 0..(HASHWORD - 1), NEW l \in Nat, Table[Probe(g, size, l) + 1] # 0
         PROVE  /\ Table'[Probe(g, size, l) + 1] # 0
                /\ Table'[Probe(g, size, l) + 1] = Table[Probe(g, size, l) + 1]
    <2>1. Probe(g, size, l) + 1 \in 1..size
      BY <1>3, PlaceRead
    <2>2. Probe(g, size, l) + 1 # x
      BY <1>5, <1>12
    <2> QED BY <1>10, <1>12, <2>1, <2>2
  <1>13. ASSUME NEW a \in 0..(n + Placed - 1)
         PROVE  \E k \in Nat : FoundAt(Table', hash_string(Id(a)), a + 1, k)
    <2>1. PICK k \in Nat : FoundAt(Table, hash_string(Id(a)), a + 1, k)
      BY <1>3
    <2>2. a \in 0..(Total - 1) /\ a + 1 # 0
      <3>1. Placed = i - 1
        BY <1>1 DEF Placed
      <3>2. PICK m \in Nat : m = Len(domain.sysdep)
        BY <1>3
      <3>3. i \in 1..(m + 1) /\ n \in Nat /\ Total = n + m /\ a \in 0..(n + (i - 1) - 1)
        BY <1>3, <3>1, <3>2
      <3> HIDE DEF n
      <3> QED BY <3>3
    <2>3. PICK g \in 0..(HASHWORD - 1) : g = hash_string(Id(a))
      BY <1>3, <2>2, IdType, HashIsWord
    <2>4. /\ Table[Probe(g, size, k) + 1] = a + 1
          /\ \A l \in 0..(k - 1) : Table[Probe(g, size, l) + 1] # 0
      BY <1>3, <2>1, <2>3 DEF FoundAt
    <2>5. Table'[Probe(g, size, k) + 1] = a + 1
      BY <1>12, <2>2, <2>4
    <2>6. \A l \in 0..(k - 1) : Table'[Probe(g, size, l) + 1] # 0
      <3> SUFFICES ASSUME NEW l \in 0..(k - 1) PROVE Table'[Probe(g, size, l) + 1] # 0
        OBVIOUS
      <3>1. l \in Nat
        OBVIOUS
      <3> QED BY <1>12, <2>4, <3>1
    <2> QED BY <1>10, <2>3, <2>5, <2>6 DEF FoundAt
  <1>14. FoundAt(Table', hash_string(Id(here)), here + 1, j)
    <2>1. Table'[Probe(h, size, j) + 1] = here + 1
      BY <1>5, <1>6, <1>10
    <2>2. \A l \in 0..(j - 1) : Table'[Probe(h, size, l) + 1] # 0
      <3> SUFFICES ASSUME NEW l \in 0..(j - 1) PROVE Table'[Probe(h, size, l) + 1] # 0
        OBVIOUS
      <3>1. l \in Nat
        OBVIOUS
      <3> QED BY <1>5, <1>12, <3>1
    <2>3. hash_string(Id(here)) = h
      BY <1>5, <1>11
    <2> QED BY <1>10, <2>1, <2>2, <2>3 DEF FoundAt
  <1>15. \A a \in 0..(n + Placed' - 1) :
             \E k \in Nat : FoundAt(Table', hash_string(Id(a)'), a + 1, k)
    <2> SUFFICES ASSUME NEW a \in 0..(n + Placed' - 1)
                 PROVE  \E k \in Nat : FoundAt(Table', hash_string(Id(a)), a + 1, k)
      BY <1>11
    <2>1. Placed = i - 1 /\ Placed' = i
      <3>1. Placed = i - 1 /\ Placed' = i' - 1
        BY <1>1 DEF Placed
      <3> QED BY <1>1, <1>6, <3>1
    <2>2. a \in 0..(n + Placed - 1) \/ a = here
      <3>1. a \in 0..(n + i - 1) /\ n \in Nat /\ i \in Nat
        BY <1>3, <1>6, <2>1
      <3> HIDE DEF n
      <3>2. a \in 0..(n + (i - 1) - 1) \/ a = n + (i - 1)
        BY <3>1
      <3> QED BY <2>1, <3>2
    <2> HIDE DEF here
    <2> QED BY <1>13, <1>14, <2>2
  <1>16. Findable'
    <2>1. \A y \in DOMAIN Table' : Table'[y] \in 0..Total'
      <3> SUFFICES ASSUME NEW y \in 1..size PROVE Table'[y] \in 0..Total
        BY <1>9, <1>10
      <3> QED BY <1>3, <1>6, <1>10
    <2>2. i' \in 1..(Len(domain'.sysdep) + 1)
      <3>1. PICK m \in Nat : m = Len(domain.sysdep)
        BY <1>3
      <3>2. i + 1 \in 1..(m + 1)
        BY <1>4, <1>6, <3>1
      <3> QED BY <1>1, <1>8, <3>1, <3>2
    <2>3. \A a \in 0..(domain'.nstrings + Placed' - 1) :
              \E k \in Nat : FoundAt(Table', hash_string(Id(a)'), a + 1, k)
      BY <1>8, <1>15
    <2>4. /\ Len(domain'.hash_tab) = domain'.hash_size /\ domain'.hash_size > 2
          /\ domain'.hash_tab # << >> /\ domain'.nstrings = Len(file'.strings) /\ domain' \in Domain
          /\ ~domain'.must_swap_hash_tab
      BY <1>1, <1>3, <1>7, <1>8
    <2> QED BY <1>1, <2>1, <2>2, <2>3, <2>4 DEF Findable
  <1> QED BY <1>1, <1>2, <1>8, <1>9, <1>16, BuildStep

-----------------------------------------------------------------------------
(* The theorems.                                                           *)

LEMMA Starts == ASSUME Init PROVE IInv
  <1>1. /\ PluralInit /\ file \in CatalogFiles /\ mem = Nothing /\ domain = NoDomain /\ decided = FALSE
        /\ query = Header /\ act = None /\ queries = 0 /\ at = "idle"
    BY DEF Init
  <1>2. PluralInv /\ header = NoHeader
    BY <1>1, PluralStart DEF PluralInit
  <1>3. Held
    <2>1. at \notin Early /\ at \notin Holds
      BY <1>1, StatesDiffer
    <2> QED BY <1>1, <2>1, NothingHeld DEF Held
  <1>4. Findable
    BY <1>1 DEF Findable
  <1>5. Searched
    BY <1>1 DEF Searched
  <1>6. queries \in 0..MaxQueries /\ at \in Early \cup Holds \cup Both
    BY <1>1, CatalogAssumption DEF Both
  <1> QED BY <1>1, <1>2, <1>3, <1>4, <1>5, <1>6 DEF IInv

LEMMA Stutters == ASSUME IInv, UNCHANGED cat_vars PROVE IInv'
  <1>1. UNCHANGED <<file, mem, domain, decided, i, queries, query, idx, incr, bottom, top, act, form, at,
                    plural_vars>>
    BY DEF cat_vars, load_vars, find_vars
  <1>2. PluralInv' /\ UNCHANGED <<header, failures, plural, nplurals>>
    BY <1>1, PluralUnchanged DEF IInv, plural_vars
  <1>3. Held'
    BY <1>1, <1>2 DEF IInv, Held
  <1>4. Findable'
    <2>1. Findable' <=> Findable
      BY <1>1 DEF Findable, Table, Placed, Total, MustSwap, Id, OrigOf, Passed
    <2> QED BY <2>1 DEF IInv
  <1>5. Searched'
    <2>1. Searched' <=> Searched
      BY <1>1, <1>2 DEF Searched, Table, Total, Id, OrigOf, TransOf, VariantsOf, plural_lookup, Passed
    <2> QED BY <2>1 DEF IInv
  <1> QED BY <1>1, <1>2, <1>3, <1>4, <1>5 DEF IInv

LEMMA CatalogSteps == IInv /\ [Next]_cat_vars => IInv'
  <1> SUFFICES ASSUME IInv, [Next]_cat_vars PROVE IInv'
    OBVIOUS
  <1>1. CASE LoadDomain
    BY <1>1, LoadStarts
  <1>2. CASE Loads
    BY <1>2, Opens, Stats, Maps, Reads, ChecksMagic, Allocates, Revises, Augments, Enters, PassesPlace,
       EntersHere, AllEntered, LooksForHeader, Extracts, Parses, LoadEnds DEF Loads
  <1>3. CASE Query
    BY <1>3, Asks
  <1>4. CASE Searches
    BY <1>4, Finds, EmptyPlace, FullPlace, OtherPlace, Halves, NoHalfLeft, Answers, Returns DEF Searches
  <1>5. CASE UNCHANGED cat_vars
    BY <1>5, Stutters
  <1> QED BY <1>1, <1>2, <1>3, <1>4, <1>5 DEF Next

\* Every step of the loading, of the parser and of a search keeps the
\* invariant.
THEOREM Invariance == Spec => []IInv
  <1>1. Init => IInv
    BY Starts
  <1>2. IInv /\ [Next]_cat_vars => IInv'
    BY CatalogSteps
  <1> QED BY <1>1, <1>2, PTL DEF Spec

\* The state has its type, a catalog that is there has its memory, and every
\* index into its table and its messages is one of theirs, while it is loaded
\* and searched (loadmsgcat.c:1300-1336, dcigettext.c:742-810).
THEOREM TypeCorrect == Spec => []TypeOK
  <1>1. IInv => TypeOK
    <2> SUFFICES ASSUME IInv PROVE TypeOK
      OBVIOUS
    <2>1. PluralTypeOK /\ queries \in 0..MaxQueries
      BY DEF IInv, PluralInv
    <2>2. /\ at \in {"idle", "open", "stat", "map", "read", "magic", "allocate", "revision", "augment",
                     "enter", "place", "header", "parse", "loaded", "find", "probe", "halve", "found",
                     "absent", "answered", "killed"}
      BY DEF IInv, Early, Holds, Both
    <2>3. decided \in BOOLEAN /\ mem.data \in {"none", "mapped", "malloced"}
      BY DEF IInv, Held, Memory
    <2>4. ASSUME domain # NoDomain
          PROVE  /\ mem.domain /\ mem.data # "none" /\ domain.nstrings = Len(file.strings)
                 /\ domain.sysdep # << >> => mem.malloced
                 /\ act \in {None} \cup 0..(domain.nstrings + Len(domain.sysdep) - 1)
      <3>1. act \in {None} \cup 0..(Total - 1)
        BY <2>4 DEF IInv, Searched
      <3>2. mem.domain /\ mem.data # "none" /\ (domain.sysdep # << >> => mem.malloced)
        BY <2>4 DEF IInv, Held
      <3> QED BY <2>4, <3>1, <3>2, IdType DEF Total
    <2>5. ASSUME at = "probe" PROVE idx \in 0..(domain.hash_size - 1)
      BY <2>5, Probing, Zenon
    <2>6. ASSUME at = "place" PROVE idx \in 0..(domain.hash_size - 1)
      <3>1. at \in Building
        BY <2>6 DEF Building
      <3>2. domain # NoDomain /\ domain.hash_tab # << >>
        BY <3>1, BuiltTable
      <3>3. PICK h \in 0..(HASHWORD - 1), j \in Nat : idx = Probe(h, domain.hash_size, j)
        BY <2>6, Placing, Zenon
      <3> QED BY <3>2, <3>3, PlaceRead
    <2> QED BY <2>1, <2>2, <2>3, <2>4, <2>5, <2>6 DEF TypeOK
  <1> QED BY <1>1, Invariance, PTL

\* The messages in the order of their numbers.
LEMMA MessagesAre ==
    ASSUME IInv, domain # NoDomain
    PROVE  DOMAIN Messages = 1..Total /\ \A k \in 1..Total : Messages[k] = OrigOf(k - 1)
  <1> DEFINE n == Len(file.strings)
             m == Len(domain.sysdep)
             a == [k \in DOMAIN file.strings |-> file.strings[k].orig]
             b == IF domain.sysdep = << >> THEN << >>
                  ELSE [k \in DOMAIN domain.sysdep |-> domain.sysdep[k].orig]
  <1>1. /\ n \in Nat /\ m \in Nat /\ domain.nstrings = n /\ Total = n + m /\ domain \in Domain
        /\ file \in CatalogFiles
    BY IdType DEF Total, IInv
  <1>2. DOMAIN file.strings = 1..n /\ \A k \in 1..n : file.strings[k].orig \in Seq(Byte)
    BY <1>1, FileStrings
  <1>3. /\ domain.sysdep \in Seq(Strings) /\ DOMAIN domain.sysdep = 1..m
        /\ \A k \in 1..m : domain.sysdep[k].orig \in Seq(Byte)
    <2>1. domain.sysdep \in Seq(Strings)
      BY <1>1 DEF Domain
    <2>2. \A k \in 1..m : domain.sysdep[k] \in Strings
      BY <2>1, ElementOfSeq
    <2> QED BY <2>1, <2>2, LenProperties DEF Strings
  <1>4. Messages = a \o b
    BY DEF Messages
  <1>5. a \in Seq(Seq(Byte)) /\ Len(a) = n /\ \A k \in 1..n : a[k] = file.strings[k].orig
    <2> HIDE DEF n
    <2>1. a = [k \in 1..n |-> file.strings[k].orig]
      BY <1>2
    <2> QED BY <1>1, <1>2, <2>1
  <1>6. b \in Seq(Seq(Byte)) /\ Len(b) = m /\ \A k \in 1..m : b[k] = domain.sysdep[k].orig
    <2>1. CASE domain.sysdep = << >>
      BY <2>1, EmptySeq
    <2>2. CASE domain.sysdep # << >>
      <3> HIDE DEF m
      <3>1. b = [k \in 1..m |-> domain.sysdep[k].orig]
        BY <1>3, <2>2
      <3> QED BY <1>1, <1>3, <3>1
    <2> QED BY <2>1, <2>2
  <1> HIDE DEF a, b, n, m
  <1>7. /\ a \o b \in Seq(Seq(Byte)) /\ Len(a \o b) = n + m
        /\ \A j \in 1..n : (a \o b)[j] = a[j]
        /\ \A k \in 1..m : (a \o b)[n + k] = b[k]
    <2> DEFINE T == Seq(Byte)
    <2>1. a \in Seq(T) /\ b \in Seq(T)
      BY <1>5, <1>6
    <2> HIDE DEF T
    <2>2. /\ a \o b \in Seq(T) /\ Len(a \o b) = Len(a) + Len(b)
          /\ \A j \in 1..Len(a) : (a \o b)[j] = a[j]
          /\ \A k \in 1..Len(b) : (a \o b)[Len(a) + k] = b[k]
      BY <2>1, ConcatLayout
    <2> QED BY <1>5, <1>6, <2>2 DEF T
  <1>8. DOMAIN Messages = 1..Total
    BY <1>1, <1>4, <1>7, LenProperties
  <1>9. ASSUME NEW k \in 1..Total PROVE Messages[k] = OrigOf(k - 1)
    <2>1. CASE k \in 1..n
      <3>1. k - 1 < n /\ (k - 1) + 1 = k
        BY <1>1, <2>1
      <3>2. OrigOf(k - 1) = file.strings[k].orig
        BY <1>1, <3>1 DEF OrigOf
      <3> QED BY <1>4, <1>5, <1>7, <2>1, <3>2
    <2>2. CASE k \notin 1..n
      <3>1. ~(k - 1 < n) /\ (k - 1) - n + 1 = k - n /\ k - n \in 1..m /\ n + (k - n) = k
        BY <1>1, <2>2
      <3>2. OrigOf(k - 1) = domain.sysdep[k - n].orig
        BY <1>1, <3>1 DEF OrigOf
      <3> QED BY <1>4, <1>6, <1>7, <3>1, <3>2
    <2> QED BY <2>1, <2>2
  <1> QED BY <1>8, <1>9

LEMMA TransType ==
    ASSUME IInv, domain # NoDomain, NEW a \in 0..(Total - 1) PROVE TransOf(a) \in Seq(Byte)
  <1> DEFINE n == Len(file.strings)
             m == Len(domain.sysdep)
  <1>1. /\ n \in Nat /\ m \in Nat /\ domain.nstrings = n /\ Total = n + m /\ domain \in Domain
        /\ file \in CatalogFiles
    BY IdType DEF Total, IInv
  <1>2. \A k \in 1..n : file.strings[k].trans \in Seq(Byte)
    BY <1>1, FileStrings
  <1>3. \A k \in 1..m : domain.sysdep[k].trans \in Seq(Byte)
    <2>1. domain.sysdep \in Seq(Strings)
      BY <1>1 DEF Domain
    <2>2. \A k \in 1..m : domain.sysdep[k] \in Strings
      BY <2>1, ElementOfSeq
    <2> QED BY <2>2 DEF Strings
  <1> HIDE DEF n, m
  <1>4. CASE a < n
    <2>1. a + 1 \in 1..n
      BY <1>1, <1>4
    <2> QED BY <1>1, <1>2, <1>4, <2>1 DEF TransOf
  <1>5. CASE ~(a < n)
    <2>1. a - n + 1 \in 1..m
      BY <1>1, <1>5
    <2> QED BY <1>1, <1>3, <1>5, <2>1 DEF TransOf
  <1> QED BY <1>4, <1>5

\* The form that was meant, where the header's numbers of forms and expression
\* are the catalog's.
LEMMA FormIsRight ==
    ASSUME IInv, domain # NoDomain, act \in 0..(Total - 1), query \in Queries,
           "forms" \in DOMAIN header, plural = header.means, nplurals = strtoul(header.nplurals),
           header.forms[query.n] < VariantsOf(act)
    PROVE  plural_lookup(act, query.n) = header.forms[query.n]
  <1> DEFINE index == plural_eval(plural, query.n)
             want == header.forms[query.n]
  <1>1. header = file.header /\ file \in CatalogFiles
    <2>1. DOMAIN NoHeader = {}
      BY DEF NoHeader
    <2> QED BY <2>1 DEF IInv
  <1>2. want \in Nat /\ want = (IF index >= nplurals THEN 0 ELSE index)
    <2>1. FormsHold(file.header)
      BY <1>1, FilesAssumption
    <2> QED BY <1>1, <2>1, Zenon DEF FormsHold
  <1>3. plural_lookup(act, query.n) = IF index >= nplurals \/ index >= VariantsOf(act) THEN 0 ELSE index
    BY DEF plural_lookup
  <1>4. VariantsOf(act) \in Nat
    <2> DEFINE nuls == {k \in DOMAIN TransOf(act) : TransOf(act)[k] = 0}
    <2>1. TransOf(act) \in Seq(Byte)
      BY TransType
    <2>2. Len(TransOf(act)) \in Nat /\ DOMAIN TransOf(act) = 1..Len(TransOf(act))
      BY <2>1, LenProperties
    <2>3. IsFiniteSet(1..Len(TransOf(act)))
      BY <2>2, FS_Interval
    <2>4. nuls \subseteq 1..Len(TransOf(act))
      BY <2>2
    <2>5. Cardinality(nuls) \in Nat
      BY <2>3, <2>4, FS_Subset, FS_CardinalityType
    <2> QED BY <2>5 DEF VariantsOf
  <1> HIDE DEF index, want
  <1>5. CASE index >= nplurals
    BY <1>2, <1>3, <1>5 DEF want
  <1>6. CASE ~(index >= nplurals)
    <2>1. want = index /\ want < VariantsOf(act)
      BY <1>2, <1>6 DEF want
    <2>2. ~(index >= VariantsOf(act))
      BY <1>2, <1>4, <2>1
    <2> QED BY <1>3, <1>6, <2>1, <2>2 DEF want
  <1> QED BY <1>5, <1>6

\* The expression that the header's text was parsed to is all that stays
\* allocated, whatever the text is and wherever memory ran out: no node of it
\* has been freed and none is left beside it (plural.y:44-109, 154-203).
THEOREM NothingBesideTheTree == Spec => []TreeIsAll
  <1>1. IInv => TreeIsAll
    BY DEF IInv, PluralInv
  <1> QED BY <1>1, Invariance, PTL

\* An answer is the message that was asked for, if the catalog has it, and
\* the form that its translator meant: in a hash table as the file has it or
\* with system dependent strings entered, in either byte order, or by halves
\* (loadmsgcat.c:1300-1336, dcigettext.c:742-810).
THEOREM SearchStaysRight == Spec => []SearchIsRight
  <1>1. IInv => SearchIsRight
    <2> SUFFICES ASSUME IInv, at = "answered" PROVE SearchIsRight
      BY DEF SearchIsRight
    <2>1. CASE domain = NoDomain
      BY <2>1 DEF IInv, Searched, SearchIsRight
    <2>2. CASE domain # NoDomain
      <3> DEFINE there == {k \in DOMAIN Messages : CString(Messages[k]) = query.id}
      <3>1. DOMAIN Messages = 1..Total /\ \A k \in 1..Total : Messages[k] = OrigOf(k - 1)
        BY <2>2, MessagesAre
      <3>2. Total \in Nat
        BY <2>2, IdType
      <3>3. there = {k \in 1..Total : Id(k - 1) = query.id}
        BY <3>1 DEF Id
      <3> HIDE DEF there
      <3>4. /\ query \in Queries
            /\ act \in {None} \cup 0..(Total - 1)
            /\ IF act = None THEN \A a \in 0..(Total - 1) : Id(a) # query.id
               ELSE Id(act) = query.id /\ form = plural_lookup(act, query.n)
        BY <2>2, QueryType DEF IInv, Searched
      <3>5. ASSUME act = None PROVE there = {}
        <4> SUFFICES ASSUME NEW k \in 1..Total PROVE Id(k - 1) # query.id
          BY <3>3
        <4>1. k - 1 \in 0..(Total - 1)
          BY <3>2
        <4> QED BY <3>4, <3>5, <4>1
      <3>6. ASSUME act # None
            PROVE  /\ act + 1 \in there
                   /\ /\ "forms" \in DOMAIN header
                     /\ plural = header.means /\ nplurals = strtoul(header.nplurals) =>
                          (header.forms[query.n] < VariantsOf(act) => form = header.forms[query.n])
        <4>1. act \in 0..(Total - 1) /\ Id(act) = query.id /\ form = plural_lookup(act, query.n)
          BY <3>4, <3>6
        <4>2. act + 1 \in 1..Total /\ (act + 1) - 1 = act
          BY <3>2, <4>1
        <4>3. act + 1 \in there
          BY <3>3, <4>1, <4>2
        <4>4. ASSUME "forms" \in DOMAIN header, plural = header.means,
                     nplurals = strtoul(header.nplurals), header.forms[query.n] < VariantsOf(act)
              PROVE  form = header.forms[query.n]
          BY <2>2, <3>4, <4>1, <4>4, FormIsRight
        <4> QED BY <4>3, <4>4
      <3> QED BY <2>1, <2>2, <3>5, <3>6, Zenon DEF SearchIsRight, there
    <2> QED BY <2>1, <2>2
  <1> QED BY <1>1, Invariance, PTL

\* After a call, a catalog that was refused holds neither descriptor nor
\* memory, unless memory or its file failed; one that was loaded holds its own
\* and no descriptor (loadmsgcat.c:936-941, 996-1005, 1366-1381).
THEOREM NothingStays == Spec => []NothingIsKept
  <1>1. IInv => NothingIsKept
    <2> SUFFICES ASSUME IInv, at = "idle", decided PROVE NothingIsKept
      BY DEF NothingIsKept
    <2>1. at \notin Early
      BY StatesDiffer
    <2> QED BY <2>1 DEF IInv, Held, NothingIsKept
  <1> QED BY <1>1, Invariance, PTL

=============================================================================
