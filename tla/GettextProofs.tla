---------------------------- MODULE GettextProofs ----------------------------
(***************************************************************************)
(* Theorems about Gettext, for every set of domains, directories,          *)
(* codesets, environments and catalogs: the types of what is kept, the     *)
(* order of the bindings, and that an answer is what the bindings, the     *)
(* default domain and the environment ask for.                             *)
(***************************************************************************)
EXTENDS Gettext, DataLemmas

-----------------------------------------------------------------------------
(* The list of bindings.                                                   *)

Binding ==
    [domain : Domains, dirname : Absolute \cup Relative \cup {DefaultDir},
     codeset : Codesets \cup {NoCodeset}, codeset_cntr : Nat]

\* The first of the greater names is one of them, and there is none before it.
LEMMA FirstGreater ==
    ASSUME NEW S \in SUBSET Nat, S # {}
    PROVE  Min(S) \in S /\ \A k \in S : Min(S) <= k
  <1>1. PICK n \in S : \A k \in S : n <= k
    BY LeastNumber
  <1> QED BY <1>1 DEF Min

\* A walk that does not find a domain has passed only lesser ones: a binding
\* before the first greater one is of another domain.
LEMMA Unbound ==
    ASSUME bindings \in Seq(Binding), NEW d \in Domains, Position(d) = {},
           NEW k \in DOMAIN bindings,
           \A j \in 1..k : Place[bindings[j].domain] <= Place[d]
    PROVE  Place[bindings[k].domain] < Place[d]
  <1>1. bindings[k] \in Binding
    BY ElementOfSeq, LenProperties
  <1>2. bindings[k].domain \in Domains
    BY <1>1 DEF Binding
  <1>3. k \in Nat \ {0}
    BY LenProperties
  <1>4. Place[bindings[k].domain] # Place[d]
    <2>1. bindings[k].domain # d
      BY DEF Position
    <2> QED BY <1>2, <2>1, DomainsAssumption
  <1>5. Place[bindings[k].domain] <= Place[d]
    BY <1>3
  <1>6. Place[bindings[k].domain] \in Nat /\ Place[d] \in Nat
    BY <1>2, DomainsAssumption
  <1> QED BY <1>4, <1>5, <1>6

\* new has one element more than the list of bindings.
Adds(new, b) ==
    /\ \A i \in DOMAIN bindings : \E j \in DOMAIN new : new[j] = bindings[i]
    /\ \E j \in DOMAIN new : new[j] = b
    /\ \A j \in DOMAIN new : new[j] = b \/ \E i \in DOMAIN bindings : new[j] = bindings[i]

\* A binding put into the list leaves it in order.
LEMMA InsertKeepsOrder ==
    ASSUME bindings \in Seq(Binding), BindingsInOrder,
           NEW b \in Binding, Position(b.domain) = {}
    PROVE  /\ Insert(b) \in Seq(Binding)
           /\ \A i \in 2..Len(Insert(b)) :
                  Place[Insert(b)[i - 1].domain] < Place[Insert(b)[i].domain]
           /\ Adds(Insert(b), b)
  <1> DEFINE greater == {i \in DOMAIN bindings : Place[b.domain] < Place[bindings[i].domain]}
             n       == Len(bindings)
  <1>1. /\ n \in Nat /\ DOMAIN bindings = 1..n /\ b.domain \in Domains
        /\ \A i \in 1..n : bindings[i] \in Binding
    BY LenProperties, ElementOfSeq, ZenonT(30) DEF Binding
  <1>2. \A i \in 1..n : Place[bindings[i].domain] \in Nat
    BY <1>1, DomainsAssumption DEF Binding
  <1>3. Place[b.domain] \in Nat
    BY <1>1, DomainsAssumption
  <1>4. CASE greater = {}
    <2>1. Insert(b) = Append(bindings, b)
      BY <1>4 DEF Insert
    <2>2. /\ Append(bindings, b) \in Seq(Binding)
          /\ Len(Append(bindings, b)) = n + 1
          /\ \A i \in 1..n : Append(bindings, b)[i] = bindings[i]
          /\ Append(bindings, b)[n + 1] = b
      BY AppendProperties
    <2>3. n > 0 => Place[bindings[n].domain] < Place[b.domain]
      <3> SUFFICES ASSUME n > 0 PROVE Place[bindings[n].domain] < Place[b.domain]
        OBVIOUS
      <3>1. \A j \in 1..n : Place[bindings[j].domain] <= Place[b.domain]
        BY <1>1, <1>2, <1>3, <1>4
      <3>2. n \in DOMAIN bindings
        BY <1>1
      <3> QED BY <1>1, <3>1, <3>2, Unbound
    <2>4. ASSUME NEW i \in 2..(n + 1)
          PROVE  Place[Append(bindings, b)[i - 1].domain] < Place[Append(bindings, b)[i].domain]
      <3>1. CASE i = n + 1
        <4>1. n \in 1..n /\ i - 1 = n /\ n > 0
          BY <1>1, <3>1
        <4>2. Append(bindings, b)[i - 1] = bindings[n] /\ Append(bindings, b)[i] = b
          BY <2>2, <3>1, <4>1
        <4> QED BY <2>3, <4>1, <4>2
      <3>2. CASE i \in 2..n
        BY <1>1, <2>2, <3>2 DEF BindingsInOrder
      <3> QED BY <1>1, <3>1, <3>2
    <2>5. Adds(Append(bindings, b), b)
      <3> DEFINE new == Append(bindings, b)
      <3>1. /\ DOMAIN new = 1..(n + 1) /\ new[n + 1] = b /\ n + 1 \in 1..(n + 1)
            /\ \A i \in 1..n : i \in 1..(n + 1) /\ new[i] = bindings[i]
            /\ \A i \in 1..(n + 1) : i = n + 1 \/ i \in 1..n
        BY <1>1, <2>2
      <3> HIDE DEF new
      <3>2. \A i \in 1..n : \E j \in 1..(n + 1) : new[j] = bindings[i]
        BY <3>1
      <3>3. \A j \in 1..(n + 1) : new[j] = b \/ \E i \in 1..n : new[j] = bindings[i]
        BY <3>1
      <3> QED BY <1>1, <3>1, <3>2, <3>3 DEF Adds
    <2> QED BY <2>1, <2>2, <2>4, <2>5
  <1>5. CASE greater # {}
    <2> DEFINE k     == Min(greater)
               left  == SubSeq(bindings, 1, k - 1)
               right == SubSeq(bindings, k, n)
               new   == (left \o <<b>>) \o right
    <2>1. /\ k \in 1..n /\ Place[b.domain] < Place[bindings[k].domain]
          /\ \A j \in 1..(k - 1) : j \notin greater
      <3>1. greater \in SUBSET Nat
        BY <1>1
      <3>2. k \in greater /\ \A j \in greater : k <= j
        BY <1>5, <3>1, FirstGreater
      <3> HIDE DEF k
      <3>3. k \in 1..n
        BY <1>1, <3>2
      <3> QED BY <3>2, <3>3
    <2>2. Insert(b) = new
      BY <1>5 DEF Insert, InsertAt
    <2> HIDE DEF k
    <2>3. \A j \in 1..(k - 1) : Place[bindings[j].domain] <= Place[b.domain]
      BY <1>1, <1>2, <1>3, <2>1
    <2>4. k > 1 => Place[bindings[k - 1].domain] < Place[b.domain]
      <3> SUFFICES ASSUME k > 1 PROVE Place[bindings[k - 1].domain] < Place[b.domain]
        OBVIOUS
      <3>1. k - 1 \in DOMAIN bindings
        BY <1>1, <2>1
      <3> QED BY <1>1, <2>3, <3>1, Unbound
    <2>5. /\ left \in Seq(Binding) /\ Len(left) = k - 1
          /\ \A j \in 1..(k - 1) : left[j] = bindings[j]
      BY <1>1, <2>1, SubSeqProperties
    <2>6. /\ right \in Seq(Binding) /\ Len(right) = n - k + 1
          /\ \A j \in 1..(n - k + 1) : right[j] = bindings[k + j - 1]
      BY <1>1, <2>1, SubSeqProperties
    <2> HIDE DEF left, right
    <2>7. <<b>> \in Seq(Binding) /\ Len(<<b>>) = 1 /\ <<b>>[1] = b
      OBVIOUS
    <2>8. /\ left \o <<b>> \in Seq(Binding) /\ Len(left \o <<b>>) = k
          /\ \A j \in 1..(k - 1) : (left \o <<b>>)[j] = bindings[j]
          /\ (left \o <<b>>)[k] = b
      <3> DEFINE one == <<b>>
      <3>1. one \in Seq(Binding) /\ Len(one) = 1 /\ one[1] = b
        BY <2>7
      <3> HIDE DEF one
      <3>2. /\ left \o one \in Seq(Binding) /\ Len(left \o one) = Len(left) + Len(one)
            /\ \A j \in 1..(Len(left) + Len(one)) :
                   (left \o one)[j] = IF j <= Len(left) THEN left[j] ELSE one[j - Len(left)]
        BY <2>5, <3>1, ConcatProperties
      <3>3. /\ k \in Nat \ {0} /\ Len(left) = k - 1 /\ Len(one) = 1
        BY <2>1, <2>5, <3>1, <1>1
      <3>4. \A j \in 1..k : (left \o one)[j] = IF j <= k - 1 THEN left[j] ELSE one[j - (k - 1)]
        BY <3>2, <3>3
      <3>5. (left \o one)[k] = one[1]
        <4>1. k \in 1..k /\ ~ (k <= k - 1) /\ k - (k - 1) = 1
          BY <3>3
        <4> QED BY <3>4, <4>1
      <3>6. \A j \in 1..(k - 1) : (left \o one)[j] = left[j]
        BY <3>3, <3>4
      <3>7. left \o one \in Seq(Binding) /\ Len(left \o one) = k
        BY <3>2, <3>3
      <3> QED BY <2>5, <3>1, <3>5, <3>6, <3>7 DEF one
    <2>9. /\ new \in Seq(Binding) /\ Len(new) = n + 1
          /\ \A j \in 1..(k - 1) : new[j] = bindings[j]
          /\ new[k] = b
          /\ \A j \in (k + 1)..(n + 1) : new[j] = bindings[j - 1]
      <3> DEFINE front == left \o <<b>>
      <3>1. /\ front \in Seq(Binding) /\ Len(front) = k
            /\ \A j \in 1..(k - 1) : front[j] = bindings[j]
            /\ front[k] = b
        BY <2>8
      <3>2. new = front \o right
        OBVIOUS
      <3> HIDE DEF front, new
      <3>3. /\ front \o right \in Seq(Binding)
            /\ Len(front \o right) = Len(front) + Len(right)
            /\ \A j \in 1..(Len(front) + Len(right)) :
                   (front \o right)[j] = IF j <= Len(front) THEN front[j]
                                        ELSE right[j - Len(front)]
        BY <2>6, <3>1, ConcatProperties
      <3>4. /\ k \in 1..n /\ n \in Nat /\ Len(front) = k /\ Len(right) = n - k + 1
        BY <1>1, <2>1, <2>6, <3>1
      <3>5. new \in Seq(Binding) /\ Len(new) = n + 1
        BY <3>2, <3>3, <3>4
      <3>6. \A j \in 1..(n + 1) : new[j] = IF j <= k THEN front[j] ELSE right[j - k]
        BY <3>2, <3>3, <3>4
      <3>7. \A j \in 1..k : new[j] = front[j]
        BY <3>4, <3>6
      <3>8. ASSUME NEW j \in (k + 1)..(n + 1) PROVE new[j] = bindings[j - 1]
        <4>1. j \in 1..(n + 1) /\ ~ (j <= k) /\ j - k \in 1..(n - k + 1) /\ k + (j - k) - 1 = j - 1
          BY <3>4
        <4>2. new[j] = right[j - k]
          BY <3>6, <4>1
        <4>3. right[j - k] = bindings[k + (j - k) - 1]
          BY <2>6, <4>1
        <4> QED BY <4>1, <4>2, <4>3
      <3> QED BY <3>1, <3>4, <3>5, <3>7, <3>8
    <2> HIDE DEF new
    <2>10. ASSUME NEW i \in 2..(n + 1)
           PROVE  Place[new[i - 1].domain] < Place[new[i].domain]
      <3>1. CASE i < k
        BY <1>1, <2>1, <2>9, <3>1 DEF BindingsInOrder
      <3>2. CASE i = k
        BY <1>1, <2>1, <2>4, <2>9, <3>2
      <3>3. CASE i = k + 1
        BY <1>1, <2>1, <2>9, <3>3
      <3>4. CASE i > k + 1
        <4>1. i - 1 \in 2..n /\ new[i - 1] = bindings[(i - 1) - 1] /\ new[i] = bindings[i - 1]
          BY <1>1, <2>1, <2>9, <3>4
        <4> QED BY <4>1 DEF BindingsInOrder
      <3> QED BY <2>1, <3>1, <3>2, <3>3, <3>4
    <2>11. Adds(new, b)
      <3>1. /\ DOMAIN new = 1..(n + 1) /\ k \in 1..(n + 1)
            /\ \A i \in 1..n : \/ i \in 1..(k - 1) /\ i \in 1..(n + 1)
                               \/ i + 1 \in (k + 1)..(n + 1) /\ i + 1 \in 1..(n + 1) /\ (i + 1) - 1 = i
            /\ \A i \in 1..(n + 1) : \/ i = k
                                     \/ i \in 1..(k - 1) /\ i \in 1..n
                                     \/ i \in (k + 1)..(n + 1) /\ i - 1 \in 1..n
        BY <1>1, <2>1, <2>9
      <3>2. \A i \in 1..n : \E j \in 1..(n + 1) : new[j] = bindings[i]
        BY <2>9, <3>1
      <3>3. \A j \in 1..(n + 1) : new[j] = b \/ \E i \in 1..n : new[j] = bindings[i]
        BY <2>9, <3>1
      <3> QED BY <1>1, <2>9, <3>1, <3>2, <3>3 DEF Adds
    <2> QED BY <2>2, <2>9, <2>10, <2>11
  <1> QED BY <1>4, <1>5

\* A binding that is changed in its place, and not its domain, moves nothing.
LEMMA ChangeKeepsOrder ==
    ASSUME bindings \in Seq(Binding), BindingsInOrder, NEW k \in DOMAIN bindings,
           NEW b \in Binding, b.domain = bindings[k].domain,
           bindings' = [bindings EXCEPT ![k] = b]
    PROVE  bindings' \in Seq(Binding) /\ BindingsInOrder'
  <1>1. /\ Len(bindings) \in Nat /\ DOMAIN bindings = 1..Len(bindings)
    BY LenProperties
  <1>2. bindings' \in Seq(Binding) /\ Len(bindings') = Len(bindings)
    BY <1>1, ExceptSeq
  <1>3. \A i \in 1..Len(bindings) : bindings'[i].domain = bindings[i].domain
    BY <1>1
  <1> QED BY <1>1, <1>2, <1>3 DEF BindingsInOrder

-----------------------------------------------------------------------------
(* The invariant.                                                          *)

OrderInv == bindings \in Seq(Binding) /\ BindingsInOrder

\* Along the list the names go up: two places of it are of two domains.
LEMMA StrictAlong ==
    ASSUME OrderInv
    PROVE  \A i, j \in DOMAIN bindings : i < j => Place[bindings[i].domain] < Place[bindings[j].domain]
  <1> SUFFICES ASSUME NEW i \in DOMAIN bindings, NEW l \in DOMAIN bindings, i < l,
                      ~ (Place[bindings[i].domain] < Place[bindings[l].domain])
               PROVE  FALSE
    OBVIOUS
  <1> DEFINE n == Len(bindings)
             p == [j \in 1..n |-> Place[bindings[j].domain]]
             back == {j \in 1..n : i < j /\ ~ (p[i] < p[j])}
  <1>1. n \in Nat /\ DOMAIN bindings = 1..n /\ \A j \in 1..n : bindings[j] \in Binding
    BY LenProperties, ElementOfSeq, ZenonT(30) DEF OrderInv
  <1>2. p \in [1..n -> Nat]
    BY <1>1, DomainsAssumption DEF Binding
  <1>3. \A j \in 2..n : p[j - 1] < p[j]
    BY <1>1 DEF OrderInv, BindingsInOrder
  <1>4. i \in 1..n /\ l \in back
    BY <1>1
  <1> HIDE DEF n, p
  <1>5. PICK j \in back : \A k \in back : j <= k
    <2>1. back \in SUBSET Nat /\ back # {}
      BY <1>1, <1>4
    <2> HIDE DEF back
    <2> QED BY <2>1, LeastNumber
  <1>6. CASE j - 1 = i
    BY <1>1, <1>2, <1>3, <1>4, <1>5, <1>6
  <1>7. CASE j - 1 # i
    <2>1. j - 1 \in 1..n /\ i < j - 1 /\ j - 1 \notin back
      BY <1>1, <1>4, <1>5, <1>7
    <2>2. p[i] < p[j - 1] /\ p[j - 1] < p[j] /\ p[i] \in Nat /\ p[j] \in Nat /\ p[j - 1] \in Nat
      BY <1>1, <1>2, <1>3, <1>4, <1>5, <2>1
    <2> QED BY <1>5, <2>2
  <1> QED BY <1>6, <1>7

\* The walk finds the binding of a domain if there is one.
Finds ==
    \A d \in Domains :
        /\ \A i \in DOMAIN bindings : bindings[i].domain = d => BindingOf(d) = bindings[i]
        /\ (\A i \in DOMAIN bindings : bindings[i].domain # d) => BindingOf(d) = << >>

LEMMA OrderFinds == OrderInv => Finds
  <1> SUFFICES ASSUME OrderInv PROVE Finds
    OBVIOUS
  <1>1. /\ Len(bindings) \in Nat /\ DOMAIN bindings = 1..Len(bindings)
        /\ \A j \in DOMAIN bindings : bindings[j] \in Binding
    BY LenProperties, ElementOfSeq, ZenonT(30) DEF OrderInv
  <1>2. \A j \in DOMAIN bindings : Place[bindings[j].domain] \in Nat
    BY <1>1, DomainsAssumption DEF Binding
  <1>3. ASSUME NEW d \in Domains, NEW i \in DOMAIN bindings, bindings[i].domain = d
        PROVE  BindingOf(d) = bindings[i]
    <2>1. \A j \in 1..i : Place[bindings[j].domain] <= Place[d]
      BY <1>1, <1>2, <1>3, StrictAlong
    <2>2. i \in Position(d)
      BY <1>3, <2>1 DEF Position
    <2>3. \A j \in Position(d) : j = i
      <3> SUFFICES ASSUME NEW j \in Position(d), j # i PROVE FALSE
        OBVIOUS
      <3>1. j \in DOMAIN bindings /\ bindings[j].domain = bindings[i].domain
        BY <1>3 DEF Position
      <3>2. i < j \/ j < i
        BY <1>1, <3>1
      <3> QED BY <1>2, <3>1, <3>2, StrictAlong
    <2>4. (CHOOSE j \in Position(d) : TRUE) = i
      BY <2>2, <2>3
    <2> QED BY <2>2, <2>4 DEF BindingOf
  <1>4. ASSUME NEW d \in Domains, \A i \in DOMAIN bindings : bindings[i].domain # d
        PROVE  BindingOf(d) = << >>
    BY <1>4 DEF BindingOf, Position
  <1> QED BY <1>3, <1>4 DEF Finds

\* What a change of the bindings does: b is the binding of its domain from
\* then on, and the others stay what they are.
Rebound(b) ==
    /\ BindingOf(b.domain)' = b
    /\ \A d \in Domains \ {b.domain} : BindingOf(d)' = BindingOf(d)

LEMMA ChangeRebinds ==
    ASSUME OrderInv, OrderInv', NEW k \in DOMAIN bindings, NEW b \in Binding,
           b.domain = bindings[k].domain, bindings' = [bindings EXCEPT ![k] = b]
    PROVE  Rebound(b) /\ BindingOf(b.domain) = bindings[k]
  <1>1. Finds /\ Finds'
    BY OrderFinds, PTL
  <1>2. /\ DOMAIN bindings' = DOMAIN bindings /\ bindings'[k] = b
        /\ \A i \in DOMAIN bindings \ {k} : bindings'[i] = bindings[i]
    OBVIOUS
  <1>3. b.domain \in Domains
    BY DEF Binding
  <1>4. BindingOf(b.domain)' = b
    BY <1>1, <1>2, <1>3 DEF Finds
  <1>5. BindingOf(b.domain) = bindings[k]
    BY <1>1, <1>3 DEF Finds
  <1>6. ASSUME NEW d \in Domains \ {b.domain} PROVE BindingOf(d)' = BindingOf(d)
    <2>1. CASE \A i \in DOMAIN bindings : bindings[i].domain # d
      BY <1>1, <1>2, <1>6, <2>1 DEF Finds
    <2>2. ASSUME NEW i \in DOMAIN bindings, bindings[i].domain = d
          PROVE  BindingOf(d)' = BindingOf(d)
      <3>1. i # k
        BY <1>6, <2>2
      <3> QED BY <1>1, <1>2, <2>2, <3>1 DEF Finds
    <2> QED BY <2>1, <2>2
  <1> QED BY <1>4, <1>5, <1>6 DEF Rebound

LEMMA InsertRebinds ==
    ASSUME OrderInv, OrderInv', NEW b \in Binding, Position(b.domain) = {}, bindings' = Insert(b)
    PROVE  Rebound(b) /\ BindingOf(b.domain) = << >>
  <1>1. Finds /\ Finds'
    BY OrderFinds, PTL
  <1>2. Adds(bindings', b)
    BY InsertKeepsOrder DEF OrderInv
  <1>3. b.domain \in Domains
    BY DEF Binding
  <1>4. BindingOf(b.domain)' = b
    BY <1>1, <1>2, <1>3 DEF Finds, Adds
  <1>5. BindingOf(b.domain) = << >>
    BY DEF BindingOf
  <1>6. ASSUME NEW d \in Domains \ {b.domain} PROVE BindingOf(d)' = BindingOf(d)
    <2>1. CASE \A i \in DOMAIN bindings : bindings[i].domain # d
      <3>1. \A j \in DOMAIN bindings' : bindings'[j].domain # d
        BY <1>2, <1>6, <2>1 DEF Adds
      <3> QED BY <1>1, <2>1, <3>1 DEF Finds
    <2>2. ASSUME NEW i \in DOMAIN bindings, bindings[i].domain = d
          PROVE  BindingOf(d)' = BindingOf(d)
      <3>1. PICK j \in DOMAIN bindings' : bindings'[j] = bindings[i]
        BY <1>2 DEF Adds
      <3> QED BY <1>1, <2>2, <3>1 DEF Finds
    <2> QED BY <2>1, <2>2
  <1> QED BY <1>4, <1>5, <1>6 DEF Rebound

-----------------------------------------------------------------------------
(* The parts of the invariant.                                             *)

\* The part of the invariant that every change of the bindings disturbs.
BoundsInv ==
    /\ ops \in 0..MaxOps /\ failures \in 0..MaxFailures /\ msg_cat_cntr \in 0..ops
    /\ \A i \in DOMAIN bindings :
           /\ bindings[i].codeset_cntr <= ops
           /\ (bindings[i].codeset_cntr = 0) = (bindings[i].codeset = NoCodeset)

EnvironmentInv ==
    /\ env \in Envs /\ cwd \in Dirs /\ now \in seen
    /\ current_domain \in Domains

LoadedPart ==
    [decided : BOOLEAN, codeset_cntr : Nat, conv : Codesets \cup {NoConv},
     conv_tab : {Null, NoMemory, Allocated}, texts : [MsgIds -> Codesets \cup {NoConv}]]

\* What is converted in a catalog is in the codeset of its converter, and in
\* its table.
TextsInv ==
    /\ loaded \in [Files -> LoadedPart] /\ asked \in [Files -> Codesets \cup {NoCodeset}]
    /\ \A f \in Files :
           /\ loaded[f].conv_tab = NoMemory => failures > 0
           /\ loaded[f].conv_tab # Allocated => loaded[f].texts = NoTexts
           /\ \A m \in MsgIds :
                  loaded[f].texts[m] # NoConv =>
                      /\ loaded[f].texts[m] = loaded[f].conv
                      /\ <<f, m, loaded[f].conv>> \notin CannotConvert

FileOf(f, d) == \E x \in DOMAIN Chain : x[3] = d /\ f \in ToSet(Chain[x])

\* A catalog that has the counter of its domain's binding has the converter
\* that the binding asks for, or OUTPUT_CHARSET asked for when the catalog was
\* loaded; and its counter is never ahead.
ConverterInv ==
    \A f \in Files : \A d \in Domains :
        FileOf(f, d) /\ loaded[f].decided =>
            /\ loaded[f].codeset_cntr <= Counter(BindingOf(d))
            /\ loaded[f].codeset_cntr = Counter(BindingOf(d)) =>
                   loaded[f].conv = Converter(f, BindingOf(d), asked[f])

\* What is known and not outdated is what a search would find.
KnownInv ==
    \A k \in DOMAIN known :
        /\ known[k].counter \in 0..msg_cat_cntr
        /\ known[k].file \in Files /\ Variants[known[k].file][k[1]] > 0
        /\ loaded[known[k].file].decided
        /\ known[k].codeset \in Codesets \cup {NoCodeset}
        /\ known[k].counter = msg_cat_cntr =>
               \E e \in seen : /\ known[k].file = Source(k, e)
                               /\ known[k].codeset \in RightCodesets(k, known[k].file)

\* The languages that the search has passed have no translation.
Passed(n) ==
    LET list == guess_category_value(env, categoryname)
    IN  /\ n \in 0..Len(list) /\ locales = SubSeq(list, n + 1, Len(list))
        /\ \A i \in 1..n : /\ list[i] \notin {"C", "POSIX"}
                           /\ \/ Secure /\ list[i] \in PathNames
                              \/ With(dirname, list[i], domain, categoryname, call.msgid) = {}

CallInv ==
    /\ at \in {"idle", "known", "locale", "convert", "untranslated", "answered"}
    /\ at # "idle" => call \in Calls
    /\ at \in {"locale", "convert"} => dirname = PlaceOf(binding, cwd) /\ dirname # NoDir
    /\ at = "locale" => \E n \in Nat : Passed(n)
    /\ at = "convert" => /\ found \in Files /\ FileOf(found, domain) /\ Variants[found][call.msgid] > 0
                         /\ found = Source(key, now) /\ loaded[found].decided
    /\ at = "untranslated" => Source(key, now) = NoFile
    /\ at = "answered" =>
           /\ AnswersAreCurrent
           /\ answer.file # NoFile => answer.variant < Variants[answer.file][answer.msgid]

Inv == OrderInv /\ BoundsInv /\ EnvironmentInv /\ TextsInv /\ ConverterInv /\ KnownInv /\ CallInv

-----------------------------------------------------------------------------
(* What depends on the bindings alone, and what on more failures.          *)

LEMMA SameBinding ==
    ASSUME bindings' = bindings
    PROVE  \A d : BindingOf(d)' = BindingOf(d)
  BY DEF BindingOf, Position

LEMMA SameSource ==
    ASSUME bindings' = bindings
    PROVE  \A k, e : Source(k, e)' = Source(k, e)
  <1> SUFFICES ASSUME NEW k, NEW e PROVE Source(k, e)' = Source(k, e)
    OBVIOUS
  <1>1. BindingOf(k[2])' = BindingOf(k[2])
    BY SameBinding
  <1> QED BY <1>1 DEF Source

LEMMA MoreCodesets ==
    ASSUME bindings' = bindings, failures > 0 => failures' > 0, NEW f, asked'[f] = asked[f]
    PROVE  \A k : RightCodesets(k, f) \subseteq RightCodesets(k, f)'
  <1> SUFFICES ASSUME NEW k PROVE RightCodesets(k, f) \subseteq RightCodesets(k, f)'
    OBVIOUS
  <1>1. BindingOf(k[2])' = BindingOf(k[2])
    BY SameBinding
  <1> QED BY <1>1 DEF RightCodesets

LEMMA TextsKept ==
    ASSUME TextsInv, loaded' = loaded, asked' = asked, failures > 0 => failures' > 0
    PROVE  TextsInv'
  BY DEF TextsInv

LEMMA ConverterKept ==
    ASSUME ConverterInv, loaded' = loaded, asked' = asked, bindings' = bindings
    PROVE  ConverterInv'
  <1>1. \A d : BindingOf(d)' = BindingOf(d)
    BY SameBinding
  <1> QED BY <1>1 DEF ConverterInv

\* Two bindings that ask for the same codeset, whatever the environment says.
SameOutcharset(b, c) == \A o : Outcharset(b, o) = Outcharset(c, o)

\* A binding gets another codeset only with a greater counter.
LEMMA ConverterRebound ==
    ASSUME ConverterInv, loaded' = loaded, asked' = asked, TextsInv, NEW b \in Binding, Rebound(b),
           Counter(BindingOf(b.domain)) \in Nat, Counter(b) \in Nat,
           \/ Counter(b) > Counter(BindingOf(b.domain))
           \/ /\ Counter(b) = Counter(BindingOf(b.domain))
              /\ SameOutcharset(b, BindingOf(b.domain))
    PROVE  ConverterInv'
  <1> SUFFICES ASSUME NEW f \in Files, NEW d \in Domains, FileOf(f, d), loaded[f].decided
               PROVE  /\ loaded[f].codeset_cntr <= Counter(BindingOf(d)')
                      /\ loaded[f].codeset_cntr = Counter(BindingOf(d)') =>
                             loaded[f].conv = Converter(f, BindingOf(d)', asked[f])
    BY DEF ConverterInv
  <1>1. /\ loaded[f].codeset_cntr <= Counter(BindingOf(d))
        /\ loaded[f].codeset_cntr = Counter(BindingOf(d)) =>
               loaded[f].conv = Converter(f, BindingOf(d), asked[f])
    BY DEF ConverterInv
  <1>2. CASE d # b.domain
    BY <1>1, <1>2 DEF Rebound
  <1>3. CASE d = b.domain
    <2>1. BindingOf(d)' = b
      BY <1>3 DEF Rebound
    <2>2. loaded[f].codeset_cntr \in Nat
      BY DEF TextsInv, LoadedPart
    <2>3. PICK o \in Nat, c \in Nat, x \in Nat :
              o = Counter(BindingOf(d)) /\ c = Counter(b) /\ x = loaded[f].codeset_cntr
      BY <1>3, <2>2
    <2>4. x <= o /\ (c > o \/ c = o) /\ (x = o => loaded[f].conv = Converter(f, BindingOf(d), asked[f]))
      BY <1>1, <1>3, <2>3
    <2>5. x <= c
      BY <2>3, <2>4
    <2>6. x = c => x = o /\ c = o
      BY <2>3, <2>4
    <2>7. c = o => Converter(f, b, asked[f]) = Converter(f, BindingOf(d), asked[f])
      <3>1. c = o => Outcharset(b, asked[f]) = Outcharset(BindingOf(d), asked[f])
        BY <1>3, <2>3 DEF SameOutcharset
      <3> QED BY <3>1 DEF Converter
    <2> QED BY <2>1, <2>3, <2>4, <2>5, <2>6, <2>7
  <1> QED BY <1>2, <1>3

\* A catalog that is loaded stays so, and OUTPUT_CHARSET is not read again.
LoadedStay == \A f \in Files : loaded[f].decided => loaded'[f].decided /\ asked'[f] = asked[f]

LEMMA KnownKept ==
    ASSUME KnownInv, known' = known, bindings' = bindings, msg_cat_cntr' = msg_cat_cntr,
           seen \subseteq seen', failures > 0 => failures' > 0, LoadedStay
    PROVE  KnownInv'
  <1>1. \A k, e : Source(k, e)' = Source(k, e)
    BY SameSource
  <1> SUFFICES ASSUME NEW k \in DOMAIN known, known[k].counter = msg_cat_cntr
               PROVE  \E e \in seen' : /\ known[k].file = Source(k, e)'
                                       /\ known[k].codeset \in RightCodesets(k, known[k].file)'
    BY DEF KnownInv, LoadedStay
  <1>2. RightCodesets(k, known[k].file) \subseteq RightCodesets(k, known[k].file)'
    <2>1. PICK f : f = known[k].file
      OBVIOUS
    <2>2. asked'[f] = asked[f]
      BY <2>1 DEF KnownInv, LoadedStay
    <2>3. \A j : RightCodesets(j, f) \subseteq RightCodesets(j, f)'
      BY <2>2, MoreCodesets
    <2> QED BY <2>1, <2>3
  <1>3. PICK e \in seen : /\ known[k].file = Source(k, e)
                          /\ known[k].codeset \in RightCodesets(k, known[k].file)
    BY DEF KnownInv
  <1> QED BY <1>1, <1>2, <1>3

\* When the counter counts on, nothing that is known is current.
LEMMA KnownFlushed ==
    ASSUME KnownInv, known' = known, loaded' = loaded, msg_cat_cntr \in Nat,
           msg_cat_cntr' = msg_cat_cntr + 1
    PROVE  KnownInv'
  <1> SUFFICES ASSUME NEW k \in DOMAIN known
               PROVE  /\ known[k].counter \in 0..(msg_cat_cntr + 1)
                      /\ known[k].counter # msg_cat_cntr + 1
                      /\ known[k].file \in Files /\ Variants[known[k].file][k[1]] > 0
                      /\ loaded[known[k].file].decided
                      /\ known[k].codeset \in Codesets \cup {NoCodeset}
    BY DEF KnownInv
  <1>1. /\ known[k].counter \in 0..msg_cat_cntr /\ loaded[known[k].file].decided
        /\ known[k].file \in Files /\ Variants[known[k].file][k[1]] > 0
        /\ known[k].codeset \in Codesets \cup {NoCodeset}
    BY DEF KnownInv
  <1> QED BY <1>1

LEMMA IdleCall ==
    ASSUME at' = "idle"
    PROVE  CallInv'
  BY DEF CallInv

-----------------------------------------------------------------------------
(* A step between two calls.                                               *)

\* The bounds of the counters, and of the counter of each binding.
LEMMA CounterOf ==
    ASSUME OrderInv
    PROVE  \A d \in Domains : Counter(BindingOf(d)) \in Nat
  <1>1. Finds /\ \A j \in DOMAIN bindings : bindings[j] \in Binding
    BY OrderFinds, LenProperties, ElementOfSeq, ZenonT(30) DEF OrderInv
  <1> SUFFICES ASSUME NEW d \in Domains PROVE Counter(BindingOf(d)) \in Nat
    OBVIOUS
  <1>2. CASE \A i \in DOMAIN bindings : bindings[i].domain # d
    BY <1>1, <1>2 DEF Finds, Counter
  <1>3. ASSUME NEW i \in DOMAIN bindings, bindings[i].domain = d
        PROVE  Counter(BindingOf(d)) \in Nat
    <2>1. BindingOf(d) = bindings[i]
      BY <1>1, <1>3 DEF Finds
    <2>2. bindings[i].codeset_cntr \in Nat
      BY <1>1 DEF Binding
    <2> QED BY <2>1, <2>2 DEF Counter
  <1> QED BY <1>2, <1>3

\* A call that changes nothing, or fails.
LEMMA NothingBound ==
    ASSUME Inv, ops' = ops + 1, ops < MaxOps, at' = "idle",
           Asked \/ Refused,
           UNCHANGED <<env, cwd, current_domain, known, loaded, asked>>
    PROVE  Inv'
  <1>1. /\ bindings' = bindings /\ msg_cat_cntr' = msg_cat_cntr /\ seen' = seen
        /\ failures' = failures \/ (failures < MaxFailures /\ failures' = failures + 1)
    BY DEF Asked, Refused, Fail
  <1>2. ops \in Nat /\ failures \in Nat /\ failures \in 0..MaxFailures /\ msg_cat_cntr \in 0..ops
    BY DEF Inv, BoundsInv
  <1>3. failures' \in 0..MaxFailures /\ (failures > 0 => failures' > 0)
    BY <1>1, <1>2, EnvironmentAssumption
  <1>4. BoundsInv'
    <2>1. ops' \in 0..MaxOps /\ msg_cat_cntr' \in 0..ops'
      BY <1>1, <1>2, EnvironmentAssumption
    <2>2. ASSUME NEW i \in DOMAIN bindings
          PROVE  /\ bindings[i].codeset_cntr <= ops + 1
                 /\ (bindings[i].codeset_cntr = 0) = (bindings[i].codeset = NoCodeset)
      <3>1. /\ bindings[i].codeset_cntr <= ops
            /\ (bindings[i].codeset_cntr = 0) = (bindings[i].codeset = NoCodeset)
        BY DEF Inv, BoundsInv
      <3>2. bindings[i].codeset_cntr \in Nat
        <4>1. bindings[i] \in Binding
          BY LenProperties, ElementOfSeq, ZenonT(30) DEF Inv, OrderInv
        <4> QED BY <4>1 DEF Binding
      <3> QED BY <1>2, <3>1, <3>2
    <2> QED BY <1>1, <1>3, <2>1, <2>2 DEF BoundsInv
  <1>5. OrderInv'
    BY <1>1 DEF Inv, OrderInv, BindingsInOrder
  <1>6. EnvironmentInv'
    BY <1>1 DEF Inv, EnvironmentInv, now
  <1>7. TextsInv' /\ ConverterInv' /\ KnownInv' /\ CallInv'
    BY <1>1, <1>3, TextsKept, ConverterKept, KnownKept, IdleCall DEF Inv, LoadedStay
  <1> QED BY <1>4, <1>5, <1>6, <1>7 DEF Inv

\* The bindings are changed: b is one of them from then on.
LEMMA NewBinding ==
    ASSUME Inv, ops' = ops + 1, ops < MaxOps, at' = "idle", OrderInv',
           NEW b \in Binding, Rebound(b),
           Counter(b) > Counter(BindingOf(b.domain))
               \/ /\ Counter(b) = Counter(BindingOf(b.domain))
                  /\ SameOutcharset(b, BindingOf(b.domain)),
           b.codeset_cntr <= ops + 1, (b.codeset_cntr = 0) = (b.codeset = NoCodeset),
           \A i \in DOMAIN bindings' : bindings'[i] = b \/ \E j \in DOMAIN bindings : bindings'[i] = bindings[j],
           msg_cat_cntr' = msg_cat_cntr + 1, seen' = {now}, failures' = failures,
           UNCHANGED <<env, cwd, current_domain, known, loaded, asked>>
    PROVE  Inv'
  <1>1. ops \in Nat /\ failures \in 0..MaxFailures /\ msg_cat_cntr \in 0..ops
    BY DEF Inv, BoundsInv
  <1>2. BoundsInv'
    <2>1. ops' \in 0..MaxOps /\ msg_cat_cntr' \in 0..ops'
      BY <1>1, EnvironmentAssumption
    <2>2. ASSUME NEW i \in DOMAIN bindings
          PROVE  /\ bindings[i].codeset_cntr <= ops + 1
                 /\ (bindings[i].codeset_cntr = 0) = (bindings[i].codeset = NoCodeset)
      <3>1. /\ bindings[i].codeset_cntr <= ops
            /\ (bindings[i].codeset_cntr = 0) = (bindings[i].codeset = NoCodeset)
        BY DEF Inv, BoundsInv
      <3>2. bindings[i].codeset_cntr \in Nat
        <4>1. bindings[i] \in Binding
          BY LenProperties, ElementOfSeq, ZenonT(30) DEF Inv, OrderInv
        <4> QED BY <4>1 DEF Binding
      <3> QED BY <1>1, <3>1, <3>2
    <2>3. ASSUME NEW i \in DOMAIN bindings'
          PROVE  /\ bindings'[i].codeset_cntr <= ops + 1
                 /\ (bindings'[i].codeset_cntr = 0) = (bindings'[i].codeset = NoCodeset)
      BY <2>2
    <2> QED BY <1>1, <2>1, <2>3 DEF BoundsInv
  <1>3. EnvironmentInv'
    BY DEF Inv, EnvironmentInv, now
  <1>4. TextsInv' /\ KnownInv' /\ CallInv'
    <2>1. msg_cat_cntr \in Nat
      BY <1>1
    <2> QED BY <2>1, TextsKept, KnownFlushed, IdleCall DEF Inv
  <1>5. ConverterInv'
    <2>1. b.domain \in Domains /\ b.codeset_cntr \in Nat
      BY DEF Binding
    <2>2. Counter(BindingOf(b.domain)) \in Nat
      BY <2>1, CounterOf DEF Inv
    <2>3. Counter(b) \in Nat
      BY <2>1 DEF Counter
    <2> QED BY <2>2, <2>3, ConverterRebound DEF Inv
  <1> QED BY <1>2, <1>3, <1>4, <1>5 DEF Inv

\* What takes the place of a binding: its counter is greater, or it has the
\* same counter and codeset.
Follows(b, old) ==
    \/ Counter(b) > Counter(old)
    \/ Counter(b) = Counter(old) /\ SameOutcharset(b, old)

Rebinds(b) ==
    /\ b \in Binding
    /\ b.codeset_cntr <= ops + 1 /\ (b.codeset_cntr = 0) = (b.codeset = NoCodeset)
    /\ \/ \E k \in DOMAIN bindings : /\ b.domain = bindings[k].domain /\ Follows(b, bindings[k])
                                     /\ bindings' = [bindings EXCEPT ![k] = b]
       \/ Position(b.domain) = {} /\ Follows(b, << >>) /\ bindings' = Insert(b)
    /\ Flush /\ failures' = failures

LEMMA RebindsKeeps ==
    ASSUME Inv, NEW b, Rebinds(b), ops' = ops + 1, ops < MaxOps, at' = "idle",
           UNCHANGED <<env, cwd, current_domain, known, loaded, asked>>
    PROVE  Inv'
  <1>1. /\ b \in Binding /\ b.codeset_cntr <= ops + 1
        /\ (b.codeset_cntr = 0) = (b.codeset = NoCodeset)
        /\ msg_cat_cntr' = msg_cat_cntr + 1 /\ seen' = {now} /\ failures' = failures
    BY DEF Rebinds, Flush
  <1>2. OrderInv
    BY DEF Inv
  <1>3. ASSUME NEW k \in DOMAIN bindings, b.domain = bindings[k].domain, Follows(b, bindings[k]),
               bindings' = [bindings EXCEPT ![k] = b]
        PROVE  Inv'
    <2>1. OrderInv'
      BY <1>1, <1>2, <1>3, ChangeKeepsOrder DEF OrderInv
    <2>2. Rebound(b) /\ BindingOf(b.domain) = bindings[k]
      BY <1>1, <1>2, <1>3, <2>1, ChangeRebinds
    <2>3. \A i \in DOMAIN bindings' : bindings'[i] = b \/ \E j \in DOMAIN bindings : bindings'[i] = bindings[j]
      BY <1>3
    <2> QED BY <1>1, <1>3, <2>1, <2>2, <2>3, NewBinding DEF Follows
  <1>4. ASSUME Position(b.domain) = {}, Follows(b, << >>), bindings' = Insert(b)
        PROVE  Inv'
    <2>1. OrderInv' /\ Adds(bindings', b)
      BY <1>1, <1>2, <1>4, InsertKeepsOrder DEF OrderInv, BindingsInOrder
    <2>2. Rebound(b) /\ BindingOf(b.domain) = << >>
      BY <1>1, <1>2, <1>4, <2>1, InsertRebinds
    <2>3. \A i \in DOMAIN bindings' : bindings'[i] = b \/ \E j \in DOMAIN bindings : bindings'[i] = bindings[j]
      BY <2>1 DEF Adds
    <2> QED BY <1>1, <1>4, <2>1, <2>2, <2>3, NewBinding DEF Follows
  <1> QED BY <1>3, <1>4 DEF Rebinds

LEMMA IsRecord ==
    ASSUME NEW b \in Binding
    PROVE  b # << >> /\ Counter(b) = b.codeset_cntr
  <1>1. b # << >>
    <2>1. DOMAIN b = {"domain", "dirname", "codeset", "codeset_cntr"} /\ DOMAIN << >> = {}
      BY DEF Binding
    <2> QED BY <2>1
  <1> QED BY <1>1 DEF Counter

\* A binding with another directory, and one with another codeset.
WithDir(b, dir) == [domain |-> b.domain, dirname |-> dir, codeset |-> b.codeset,
                    codeset_cntr |-> b.codeset_cntr]
WithCodeset(b, c) == [domain |-> b.domain, dirname |-> b.dirname, codeset |-> c,
                      codeset_cntr |-> b.codeset_cntr + 1]

LEMMA DirFollows ==
    ASSUME NEW b \in Binding, NEW dir \in Absolute \cup Relative \cup {DefaultDir}
    PROVE  /\ WithDir(b, dir) \in Binding /\ Follows(WithDir(b, dir), b)
           /\ [b EXCEPT !.dirname = dir] = WithDir(b, dir)
  <1>1. WithDir(b, dir) \in Binding /\ [b EXCEPT !.dirname = dir] = WithDir(b, dir)
    BY DEF Binding, WithDir
  <1>2. /\ b # << >> /\ WithDir(b, dir) # << >>
        /\ WithDir(b, dir).codeset = b.codeset /\ WithDir(b, dir).codeset_cntr = b.codeset_cntr
    BY <1>1, IsRecord DEF WithDir
  <1> HIDE DEF WithDir
  <1>3. Counter(WithDir(b, dir)) = Counter(b) /\ SameOutcharset(WithDir(b, dir), b)
    BY <1>2 DEF Counter, Outcharset, SameOutcharset
  <1> QED BY <1>1, <1>3 DEF Follows

LEMMA CodesetFollows ==
    ASSUME NEW b \in Binding, NEW c \in Codesets
    PROVE  /\ WithCodeset(b, c) \in Binding /\ Follows(WithCodeset(b, c), b)
           /\ [b EXCEPT !.codeset = c, !.codeset_cntr = @ + 1] = WithCodeset(b, c)
  <1>1. PICK n \in Nat : n = b.codeset_cntr
    BY DEF Binding
  <1>2. [b EXCEPT !.codeset = c, !.codeset_cntr = @ + 1] = WithCodeset(b, c)
    <2> DEFINE mid == [b EXCEPT !.codeset = c]
    <2>1. mid = [domain |-> b.domain, dirname |-> b.dirname, codeset |-> c, codeset_cntr |-> n]
      BY <1>1 DEF Binding
    <2>2. [b EXCEPT !.codeset = c, !.codeset_cntr = @ + 1] = [mid EXCEPT !.codeset_cntr = n + 1]
      BY <1>1, <2>1
    <2> HIDE DEF mid
    <2>3. [mid EXCEPT !.codeset_cntr = n + 1]
             = [domain |-> b.domain, dirname |-> b.dirname, codeset |-> c, codeset_cntr |-> n + 1]
      BY <2>1
    <2> QED BY <1>1, <2>2, <2>3 DEF WithCodeset
  <1>3. WithCodeset(b, c) \in Binding /\ WithCodeset(b, c).codeset_cntr = n + 1
    BY <1>1 DEF Binding, WithCodeset
  <1> HIDE DEF WithCodeset
  <1>4. Counter(WithCodeset(b, c)) = n + 1 /\ Counter(b) = n
    BY <1>1, <1>3, IsRecord
  <1> QED BY <1>2, <1>3, <1>4 DEF Follows

LEMMA BindTextDomainKeeps ==
    ASSUME Inv, NEW d \in Domains \cup {NoDomain},
           NEW dir \in Absolute \cup Relative \cup {DefaultDir, NoDir},
           BindTextDomain(d, dir)
    PROVE  Inv'
  <1>1. /\ ops' = ops + 1 /\ ops < MaxOps /\ at' = "idle"
        /\ UNCHANGED <<env, cwd, current_domain, known, loaded, asked>>
    BY DEF BindTextDomain, Operation, catalogs
  <1>2. \A j \in DOMAIN bindings : bindings[j] \in Binding
    BY LenProperties, ElementOfSeq, ZenonT(30) DEF Inv, OrderInv
  <1>3. CASE Asked \/ Refused
    BY <1>1, <1>3, NothingBound
  <1>4. ASSUME NEW i \in Position(d), dir # NoDir, Bind([bindings EXCEPT ![i].dirname = dir])
        PROVE  Inv'
    <2> DEFINE b == WithDir(bindings[i], dir)
    <2>1. i \in DOMAIN bindings
      BY DEF Position
    <2>2. /\ b \in Binding /\ Follows(b, bindings[i])
          /\ bindings' = [bindings EXCEPT ![i] = b]
      BY <1>2, <1>4, <2>1, DirFollows DEF Bind
    <2>3. /\ b.domain = bindings[i].domain /\ b.codeset = bindings[i].codeset
          /\ b.codeset_cntr = bindings[i].codeset_cntr
      BY DEF WithDir
    <2> HIDE DEF b
    <2>4. b.codeset_cntr <= ops + 1 /\ (b.codeset_cntr = 0) = (b.codeset = NoCodeset)
      <3>1. /\ bindings[i].codeset_cntr <= ops /\ ops \in Nat
            /\ (bindings[i].codeset_cntr = 0) = (bindings[i].codeset = NoCodeset)
        BY <2>1 DEF Inv, BoundsInv
      <3>2. b.codeset_cntr \in Nat
        BY <2>2 DEF Binding
      <3>3. b.codeset_cntr <= ops + 1
        BY <2>3, <3>1, <3>2
      <3> QED BY <2>3, <3>1, <3>3
    <2>5. Rebinds(b)
      BY <1>4, <2>1, <2>2, <2>3, <2>4, Zenon DEF Rebinds, Bind
    <2> QED BY <1>1, <2>5, RebindsKeeps
  <1>5. ASSUME d # NoDomain, dir # NoDir, Position(d) = {},
               Bind(Insert([New(d) EXCEPT !.dirname = dir]))
        PROVE  Inv'
    <2> DEFINE b == [New(d) EXCEPT !.dirname = dir]
    <2>1. /\ b \in Binding /\ b.domain = d /\ b.codeset = NoCodeset /\ b.codeset_cntr = 0
      BY <1>5 DEF New, Binding
    <2> HIDE DEF b
    <2>2. bindings' = Insert(b) /\ Flush /\ failures' = failures
      BY <1>5 DEF b, Bind
    <2>3. Follows(b, << >>)
      <3>1. b # << >> /\ Counter(b) = 0 /\ Counter(<< >>) = 0
        BY <2>1, IsRecord DEF Counter
      <3>2. SameOutcharset(b, << >>)
        BY <2>1 DEF Outcharset, SameOutcharset
      <3> QED BY <3>1, <3>2 DEF Follows
    <2>4. b.codeset_cntr <= ops + 1 /\ (b.codeset_cntr = 0) = (b.codeset = NoCodeset)
      <3>1. ops \in Nat
        BY DEF Inv, BoundsInv
      <3> QED BY <2>1, <3>1
    <2>5. Rebinds(b)
      BY <1>5, <2>1, <2>2, <2>3, <2>4 DEF Rebinds
    <2> QED BY <1>1, <2>5, RebindsKeeps
  <1> QED BY <1>3, <1>4, <1>5 DEF BindTextDomain

LEMMA BindTextDomainCodesetKeeps ==
    ASSUME Inv, NEW d \in Domains \cup {NoDomain}, NEW c \in Codesets \cup {NoCodeset},
           BindTextDomainCodeset(d, c)
    PROVE  Inv'
  <1>1. /\ ops' = ops + 1 /\ ops < MaxOps /\ at' = "idle"
        /\ UNCHANGED <<env, cwd, current_domain, known, loaded, asked>>
    BY DEF BindTextDomainCodeset, Operation, catalogs
  <1>2. \A j \in DOMAIN bindings : bindings[j] \in Binding
    BY LenProperties, ElementOfSeq, ZenonT(30) DEF Inv, OrderInv
  <1>3. CASE Asked \/ Refused
    BY <1>1, <1>3, NothingBound
  <1>4. ASSUME NEW i \in Position(d), c # NoCodeset,
               Bind([bindings EXCEPT ![i].codeset = c, ![i].codeset_cntr = @ + 1])
        PROVE  Inv'
    <2> DEFINE b == WithCodeset(bindings[i], c)
    <2>1. i \in DOMAIN bindings /\ bindings[i] \in Binding /\ c \in Codesets
      BY <1>2, <1>4 DEF Position
    <2>2. /\ b \in Binding /\ Follows(b, bindings[i])
          /\ [bindings[i] EXCEPT !.codeset = c, !.codeset_cntr = @ + 1] = b
      BY <2>1, CodesetFollows
    <2>3. bindings' = [bindings EXCEPT ![i] = b]
      BY <1>4, <2>1, <2>2 DEF Bind, Binding
    <2>4. /\ b.domain = bindings[i].domain /\ b.codeset = c
          /\ b.codeset_cntr = bindings[i].codeset_cntr + 1
      BY DEF WithCodeset
    <2> HIDE DEF b
    <2>5. b.codeset_cntr <= ops + 1 /\ b.codeset_cntr # 0
      <3>1. PICK n \in Nat : n = bindings[i].codeset_cntr
        BY <2>1 DEF Binding
      <3>2. n <= ops /\ ops \in Nat
        BY <2>1, <3>1 DEF Inv, BoundsInv
      <3> QED BY <2>4, <3>1, <3>2
    <2>6. Rebinds(b)
      BY <1>4, <2>1, <2>2, <2>3, <2>4, <2>5, Zenon DEF Rebinds, Bind
    <2> QED BY <1>1, <2>6, RebindsKeeps
  <1>5. ASSUME d # NoDomain, c # NoCodeset, Position(d) = {},
               Bind(Insert([New(d) EXCEPT !.codeset = c, !.codeset_cntr = 1]))
        PROVE  Inv'
    <2> DEFINE b == [New(d) EXCEPT !.codeset = c, !.codeset_cntr = 1]
    <2>1. /\ b \in Binding /\ b.domain = d /\ b.codeset = c /\ b.codeset_cntr = 1
      BY <1>5 DEF New, Binding
    <2> HIDE DEF b
    <2>2. bindings' = Insert(b) /\ Flush /\ failures' = failures
      BY <1>5 DEF b, Bind
    <2>3. Follows(b, << >>)
      <3>1. Counter(b) = 1 /\ Counter(<< >>) = 0
        BY <2>1, IsRecord DEF Counter
      <3> QED BY <3>1 DEF Follows
    <2>4. b.codeset_cntr <= ops + 1 /\ b.codeset_cntr # 0
      <3>1. ops \in Nat
        BY DEF Inv, BoundsInv
      <3> QED BY <2>1, <3>1
    <2>5. Rebinds(b)
      BY <1>5, <2>1, <2>2, <2>3, <2>4 DEF Rebinds
    <2> QED BY <1>1, <2>5, RebindsKeeps
  <1> QED BY <1>3, <1>4, <1>5 DEF BindTextDomainCodeset

\* What a step between two calls leaves alone.
LEMMA Unbounded ==
    ASSUME Inv, ops' \in 0..MaxOps, ops' >= ops, failures' \in 0..MaxFailures,
           msg_cat_cntr' \in 0..ops', bindings' = bindings
    PROVE  OrderInv' /\ BoundsInv'
  <1>1. OrderInv'
    BY DEF Inv, OrderInv, BindingsInOrder
  <1>2. ASSUME NEW i \in DOMAIN bindings
        PROVE  /\ bindings[i].codeset_cntr <= ops'
               /\ (bindings[i].codeset_cntr = 0) = (bindings[i].codeset = NoCodeset)
    <2>1. /\ bindings[i].codeset_cntr <= ops /\ ops \in Nat
          /\ (bindings[i].codeset_cntr = 0) = (bindings[i].codeset = NoCodeset)
      BY DEF Inv, BoundsInv
    <2>2. bindings[i] \in Binding
      BY LenProperties, ElementOfSeq, ZenonT(30) DEF Inv, OrderInv
    <2>3. PICK n \in Nat : n = bindings[i].codeset_cntr
      BY <2>2 DEF Binding
    <2>4. n <= ops'
      BY <2>1, <2>3
    <2> QED BY <2>1, <2>3, <2>4
  <1>3. BoundsInv'
    BY <1>2 DEF BoundsInv
  <1> QED BY <1>1, <1>3

LEMMA TextDomainKeeps ==
    ASSUME Inv, NEW d \in Domains \cup {NoDomain}, TextDomain(d)
    PROVE  Inv'
  <1>1. /\ ops' = ops + 1 /\ ops < MaxOps /\ at' = "idle"
        /\ UNCHANGED <<env, cwd, bindings, known, loaded, asked>>
    BY DEF TextDomain, Operation, catalogs
  <1>2. ops \in Nat /\ failures \in 0..MaxFailures /\ msg_cat_cntr \in 0..ops
    BY DEF Inv, BoundsInv
  <1>3. ops' \in 0..MaxOps /\ ops' >= ops
    BY <1>1, <1>2, EnvironmentAssumption
  <1>4. CASE Flush /\ failures' = failures /\ current_domain' \in Domains
    <2>1. msg_cat_cntr' = msg_cat_cntr + 1 /\ seen' = {now}
      BY <1>4 DEF Flush
    <2>2. msg_cat_cntr \in Nat /\ msg_cat_cntr' \in 0..ops'
      BY <1>1, <1>2, <2>1
    <2>3. OrderInv' /\ BoundsInv'
      BY <1>1, <1>2, <1>3, <1>4, <2>2, Unbounded
    <2>4. EnvironmentInv'
      BY <1>1, <1>4, <2>1 DEF Inv, EnvironmentInv, now
    <2>5. TextsInv' /\ ConverterInv' /\ KnownInv' /\ CallInv'
      BY <1>1, <1>4, <2>1, <2>2, TextsKept, ConverterKept, KnownFlushed, IdleCall DEF Inv
    <2> QED BY <2>3, <2>4, <2>5 DEF Inv
  <1>5. CASE Fail /\ UNCHANGED <<current_domain, msg_cat_cntr, seen>>
    <2>1. failures' \in 0..MaxFailures /\ failures' > 0
      BY <1>2, <1>5, EnvironmentAssumption DEF Fail
    <2>2. msg_cat_cntr' \in 0..ops'
      BY <1>1, <1>2, <1>5
    <2>3. OrderInv' /\ BoundsInv'
      BY <1>1, <1>3, <2>1, <2>2, Unbounded
    <2>4. EnvironmentInv'
      BY <1>1, <1>5 DEF Inv, EnvironmentInv, now
    <2>5. TextsInv' /\ ConverterInv' /\ KnownInv' /\ CallInv'
      BY <1>1, <1>5, <2>1, TextsKept, ConverterKept, KnownKept, IdleCall DEF Inv, LoadedStay
    <2> QED BY <2>3, <2>4, <2>5 DEF Inv
  <1> QED BY <1>4, <1>5, DomainsAssumption DEF TextDomain

LEMMA ChangeKeeps == ASSUME Inv, Change PROVE Inv'
  <1>1. /\ ops' = ops + 1 /\ ops < MaxOps /\ at' = "idle"
        /\ UNCHANGED <<bindings, current_domain, msg_cat_cntr, known, loaded, asked, failures>>
        /\ seen' = seen \cup {now'} /\ env' \in Envs /\ cwd' \in Dirs
    BY DEF Change, Operation, Inv, EnvironmentInv, catalogs
  <1>2. ops \in Nat /\ failures \in 0..MaxFailures /\ msg_cat_cntr \in 0..ops
    BY DEF Inv, BoundsInv
  <1>3. ops' \in 0..MaxOps /\ ops' >= ops /\ msg_cat_cntr' \in 0..ops'
    BY <1>1, <1>2, EnvironmentAssumption
  <1>4. OrderInv' /\ BoundsInv'
    BY <1>1, <1>2, <1>3, Unbounded
  <1>5. EnvironmentInv'
    BY <1>1 DEF Inv, EnvironmentInv
  <1>6. TextsInv' /\ ConverterInv' /\ KnownInv' /\ CallInv'
    BY <1>1, TextsKept, ConverterKept, KnownKept, IdleCall DEF Inv, LoadedStay
  <1> QED BY <1>4, <1>5, <1>6 DEF Inv

-----------------------------------------------------------------------------
(* The steps of a call.                                                    *)

\* What most of them leave alone.
Searching ==
    UNCHANGED <<env, cwd, seen, bindings, current_domain, msg_cat_cntr, known, loaded, asked,
                failures>>

LEMMA SearchKeeps ==
    ASSUME Inv, Searching, ops' \in 0..MaxOps, ops' >= ops
    PROVE  OrderInv' /\ BoundsInv' /\ EnvironmentInv' /\ TextsInv' /\ ConverterInv' /\ KnownInv'
  <1>1. UNCHANGED <<env, cwd, seen, bindings, current_domain, msg_cat_cntr, known, loaded, asked,
                failures>>
    BY DEF Searching
  <1>2. ops \in Nat /\ failures \in 0..MaxFailures /\ msg_cat_cntr \in 0..ops
    BY DEF Inv, BoundsInv
  <1>3. msg_cat_cntr' \in 0..ops'
    BY <1>1, <1>2
  <1>4. OrderInv' /\ BoundsInv'
    BY <1>1, <1>2, <1>3, Unbounded
  <1>5. EnvironmentInv'
    BY <1>1 DEF Inv, EnvironmentInv, now
  <1>6. TextsInv' /\ ConverterInv' /\ KnownInv'
    BY <1>1, TextsKept, ConverterKept, KnownKept DEF Inv, LoadedStay
  <1> QED BY <1>4, <1>5, <1>6

LEMMA DcigettextKeeps == ASSUME Inv, dcigettext PROVE Inv'
  <1>1. /\ ops' = ops + 1 /\ ops < MaxOps /\ at' = "known" /\ call' \in Calls
        /\ Searching
    BY DEF dcigettext, Operation, program, catalogs, Searching
  <1>2. ops \in Nat
    BY DEF Inv, BoundsInv
  <1>3. ops' \in 0..MaxOps /\ ops' >= ops
    BY <1>1, <1>2, EnvironmentAssumption
  <1>4. CallInv'
    BY <1>1 DEF CallInv
  <1> QED BY <1>1, <1>3, <1>4, SearchKeeps DEF Inv

\* The call itself stays the same, and so does what a search for it finds.
LEMMA SameCall ==
    ASSUME UNCHANGED <<env, cwd, bindings, current_domain, call>>
    PROVE  /\ domain' = domain /\ categoryname' = categoryname /\ key' = key /\ now' = now
           /\ binding' = binding
           /\ Source(key, now)' = Source(key, now)
  <1>1. domain' = domain /\ categoryname' = categoryname /\ now' = now
    BY DEF domain, categoryname, now
  <1>2. key' = key
    BY <1>1 DEF key
  <1>3. binding' = binding
    BY <1>1, SameBinding DEF binding
  <1>4. Source(key, now)' = Source(key, now)
    BY <1>1, <1>2, SameSource
  <1> QED BY <1>1, <1>2, <1>3, <1>4

LEMMA MoreAnswers ==
    ASSUME UNCHANGED <<bindings, current_domain, call, asked>>, failures > 0 => failures' > 0
    PROVE  \A e : RightAnswers(e) \subseteq RightAnswers(e)'
  <1> SUFFICES ASSUME NEW e PROVE RightAnswers(e) \subseteq RightAnswers(e)'
    OBVIOUS
  <1>1. key' = key
    BY DEF key, domain
  <1>2. Source(key, e)' = Source(key, e)
    BY <1>1, SameSource
  <1>3. \A f : \A k : RightCodesets(k, f) \subseteq RightCodesets(k, f)'
    BY MoreCodesets
  <1>4. RightCodesets(key, Source(key, e)) \subseteq RightCodesets(key, Source(key, e))'
    BY <1>1, <1>2, <1>3
  <1> QED BY <1>2, <1>4 DEF RightAnswers

-----------------------------------------------------------------------------
(* The search.                                                             *)

Names == LocaleNames \cup {"C", "POSIX"}

LEMMA ListType ==
    ASSUME NEW e \in Envs, NEW c, c # "OUTPUT_CHARSET"
    PROVE  guess_category_value(e, c) \in Seq(Names)
  <1>1. \A v \in DOMAIN e : v # "OUTPUT_CHARSET" => e[v] \in Seq(Names)
    BY EnvironmentAssumption DEF Names
  <1>2. _nl_locale_name_posix(e, c) = << >> \/ _nl_locale_name_posix(e, c) \in Seq(Names)
    <2> DEFINE variables == <<"LC_ALL", c, "LANG">>
               set == {i \in 1..3 : variables[i] \in DOMAIN e /\ e[variables[i]] # << >>}
    <2>1. _nl_locale_name_posix(e, c) = IF set = {} THEN << >> ELSE e[variables[Min(set)]]
      BY DEF _nl_locale_name_posix
    <2>2. ASSUME set # {} PROVE e[variables[Min(set)]] \in Seq(Names)
      <3>1. set \in SUBSET Nat
        OBVIOUS
      <3>2. \A i \in set : variables[i] \in DOMAIN e /\ variables[i] # "OUTPUT_CHARSET"
        OBVIOUS
      <3> HIDE DEF set, variables
      <3>3. Min(set) \in set
        BY <2>2, <3>1, FirstGreater
      <3> QED BY <1>1, <3>2, <3>3
    <2> QED BY <2>1, <2>2
  <1>3. _nl_locale_name_default \in Seq(Names)
    BY DEF _nl_locale_name_default, Names
  <1> QED BY <1>1, <1>2, <1>3 DEF guess_category_value

\* Every catalog that a search may come to is one, of the domain that is
\* searched.
LEMMA FirstType ==
    ASSUME NEW place \in Places, NEW l \in LocaleNames, NEW d \in Domains, NEW c \in Calls,
           NEW m \in MsgIds, With(place, l, d, category_to_name(c.category), m) # {}
    PROVE  LET f == First(place, l, d, category_to_name(c.category), m)
           IN  f \in Files /\ FileOf(f, d) /\ Variants[f][m] > 0
  <1> DEFINE x == <<place, l, d, category_to_name(c.category)>>
             set == With(place, l, d, category_to_name(c.category), m)
  <1>1. x \in DOMAIN Chain /\ x[3] = d /\ Chain[x] \in Seq(Files)
    BY CatalogsAssumption
  <1>2. /\ set = {i \in DOMAIN Chain[x] : Variants[Chain[x][i]][m] > 0}
        /\ First(place, l, d, category_to_name(c.category), m) = Chain[x][Min(set)]
    BY DEF With, First
  <1> HIDE DEF set, x
  <1>3. DOMAIN Chain[x] \subseteq Nat
    BY <1>1, LenProperties
  <1>4. Min(set) \in set
    <2>1. set \in SUBSET Nat /\ set # {}
      BY <1>2, <1>3 DEF set
    <2> QED BY <2>1, FirstGreater
  <1>5. /\ Min(set) \in DOMAIN Chain[x] /\ Variants[Chain[x][Min(set)]][m] > 0
    BY <1>2, <1>4
  <1>6. Chain[x][Min(set)] \in Files
    BY <1>1, <1>5, ElementOfSeq, LenProperties
  <1>7. FileOf(Chain[x][Min(set)], d)
    BY <1>1, <1>5 DEF FileOf, ToSet
  <1> QED BY <1>2, <1>5, <1>6, <1>7

\* A catalog is of one domain.
LEMMA OneDomain ==
    ASSUME NEW f, NEW d, NEW e, FileOf(f, d), FileOf(f, e)
    PROVE  d = e
  <1>1. PICK x \in DOMAIN Chain : x[3] = d /\ f \in ToSet(Chain[x])
    BY DEF FileOf
  <1>2. PICK y \in DOMAIN Chain : y[3] = e /\ f \in ToSet(Chain[y])
    BY DEF FileOf
  <1>3. ToSet(Chain[x]) \cap ToSet(Chain[y]) # {}
    BY <1>1, <1>2
  <1> QED BY <1>1, <1>2, <1>3, CatalogsAssumption

\* What the call that is being answered is about.
LEMMA CallType ==
    ASSUME Inv, at # "idle"
    PROVE  /\ call \in Calls /\ call.msgid \in MsgIds /\ domain \in Domains
           /\ categoryname = category_to_name(call.category)
           /\ key = <<call.msgid, domain, call.category>>
           /\ guess_category_value(env, categoryname) \in Seq(Names)
           /\ dirname = PlaceOf(binding, cwd) /\ dirname # NoDir => dirname \in Places
  <1>1. call \in Calls /\ env \in Envs /\ cwd \in Dirs /\ current_domain \in Domains /\ OrderInv
    BY DEF Inv, CallInv, EnvironmentInv
  <1>2. call.msgid \in MsgIds /\ domain \in Domains
    BY <1>1, EnvironmentAssumption DEF domain
  <1>3. guess_category_value(env, categoryname) \in Seq(Names)
    BY <1>1, ListType DEF categoryname, category_to_name
  <1>4. ASSUME dirname = PlaceOf(binding, cwd), dirname # NoDir PROVE dirname \in Places
    <2>1. CASE binding = << >>
      BY <1>4, <2>1 DEF PlaceOf, Places
    <2>2. CASE binding # << >>
      <3>1. Finds /\ \A j \in DOMAIN bindings : bindings[j] \in Binding
        BY <1>1, OrderFinds, LenProperties, ElementOfSeq, ZenonT(30) DEF OrderInv
      <3>2. PICK i \in DOMAIN bindings : bindings[i].domain = domain
        BY <1>2, <2>2, <3>1 DEF Finds, binding
      <3>3. binding = bindings[i] /\ bindings[i] \in Binding
        BY <1>2, <3>1, <3>2 DEF Finds, binding
      <3>4. binding.dirname \in Absolute \cup Relative \cup {DefaultDir}
        BY <3>3 DEF Binding
      <3> QED BY <1>1, <1>4, <2>2, <3>4 DEF PlaceOf, Places
    <2> QED BY <2>1, <2>2
  <1> QED BY <1>1, <1>2, <1>3, <1>4 DEF categoryname, key

\* The place in the list of languages that a search comes to.
Useful(place, list, i) ==
    /\ \A j \in 1..i : list[j] \notin {"C", "POSIX"}
    /\ ~(Secure /\ list[i] \in PathNames)
    /\ With(place, list[i], domain, categoryname, call.msgid) # {}

LEMMA SourceIs ==
    LET list == guess_category_value(env, categoryname)
        useful == {i \in DOMAIN list : Useful(PlaceOf(binding, cwd), list, i)}
    IN  Source(key, now) =
            IF PlaceOf(binding, cwd) = NoDir \/ useful = {} THEN NoFile
            ELSE First(PlaceOf(binding, cwd), list[Min(useful)], domain, categoryname, call.msgid)
  BY DEF Source, key, now, binding, categoryname, Useful

\* What every step of the search leaves alone; all but the look into the
\* catalogs of a locale leave the catalogs alone, too.
Fixed == UNCHANGED <<env, cwd, seen, bindings, current_domain, msg_cat_cntr, known, failures, call, ops>>
Quiet == Searching /\ UNCHANGED <<call, ops>>

LEMMA QuietKeeps ==
    ASSUME Inv, Quiet, CallInv' PROVE Inv'
  <1>1. ops \in 0..MaxOps
    BY DEF Inv, BoundsInv
  <1>2. ops' \in 0..MaxOps /\ ops' >= ops /\ Searching
    BY <1>1 DEF Quiet
  <1> QED BY <1>2, SearchKeeps DEF Inv

LEMMA FixedCall ==
    ASSUME Fixed
    PROVE  /\ domain' = domain /\ categoryname' = categoryname /\ key' = key /\ now' = now
           /\ binding' = binding /\ call' = call /\ cwd' = cwd /\ env' = env /\ seen' = seen
           /\ Source(key, now)' = Source(key, now)
  <1>1. UNCHANGED <<env, cwd, seen, bindings, current_domain, call>>
    BY DEF Fixed
  <1> QED BY <1>1, SameCall

LEMMA QuietCall ==
    ASSUME Inv, Quiet
    PROVE  /\ domain' = domain /\ categoryname' = categoryname /\ key' = key /\ now' = now
           /\ binding' = binding /\ call' = call /\ cwd' = cwd /\ env' = env /\ seen' = seen
           /\ Source(key, now)' = Source(key, now)
           /\ \A e : RightAnswers(e) \subseteq RightAnswers(e)'
  <1>1. UNCHANGED <<env, cwd, seen, bindings, current_domain, call, asked, failures>>
    BY DEF Quiet, Searching
  <1> QED BY <1>1, SameCall, MoreAnswers

\* A catalog that has the message is answered with a variant that it has.
LEMMA VariantInBounds ==
    ASSUME NEW f \in Files, NEW m \in MsgIds, NEW c, NEW plural, NEW n, Variants[f][m] > 0
    PROVE  LET t == Translation(f, m, c, plural, n)
           IN  t.variant < Variants[t.file][t.msgid]
  BY CatalogsAssumption DEF Translation, Variant

LEMMA RightTranslation ==
    \A e, f, c : Source(key, e) = f /\ f # NoFile /\ c \in RightCodesets(key, f) =>
        Translation(f, call.msgid, c, call.plural, call.n) \in RightAnswers(e)
  BY DEF RightAnswers

LEMMA KnownKeeps == ASSUME Inv, Known PROVE Inv'
  <1>1. /\ at = "known" /\ key \in DOMAIN known /\ known[key].counter = msg_cat_cntr
        /\ answer' = Translation(known[key].file, call.msgid, known[key].codeset, call.plural, call.n)
        /\ at' = "answered" /\ Quiet
    BY DEF Known, IsKnown, Quiet, Searching, program, catalogs
  <1> DEFINE f == known[key].file
             c == known[key].codeset
  <1>2. /\ f \in Files /\ Variants[f][key[1]] > 0
        /\ \E e \in seen : f = Source(key, e) /\ c \in RightCodesets(key, f)
    BY <1>1 DEF Inv, KnownInv
  <1>3. answer' = Translation(f, call.msgid, c, call.plural, call.n)
    BY <1>1
  <1>4. /\ call \in Calls /\ call.msgid \in MsgIds /\ key[1] = call.msgid
    BY <1>1, CallType
  <1> HIDE DEF f, c
  <1>5. f # NoFile
    BY <1>2, CatalogsAssumption
  <1>6. \E e \in seen : answer' \in RightAnswers(e)
    BY <1>2, <1>3, <1>5, RightTranslation
  <1>7. AnswersAreCurrent'
    BY <1>1, <1>6, QuietCall DEF AnswersAreCurrent
  <1>8. answer'.variant < Variants[answer'.file][answer'.msgid]
    BY <1>2, <1>3, <1>4, VariantInBounds
  <1>9. CallInv'
    BY <1>1, <1>4, <1>7, <1>8, QuietCall DEF CallInv
  <1> QED BY <1>1, <1>9, QuietKeeps

LEMMA UntranslateKeeps == ASSUME Inv, Untranslate PROVE Inv'
  <1>1. /\ at = "untranslated" /\ at' = "answered" /\ Quiet
        /\ answer' = Untranslated(call.msgid, call.plural, call.n)
    BY DEF Untranslate, Quiet, Searching, program, catalogs
  <1>2. Source(key, now) = NoFile /\ now \in seen /\ call \in Calls
    BY <1>1 DEF Inv, CallInv, EnvironmentInv
  <1>3. answer' \in RightAnswers(now)
    BY <1>1, <1>2 DEF RightAnswers
  <1>4. AnswersAreCurrent'
    BY <1>1, <1>2, <1>3, QuietCall DEF AnswersAreCurrent
  <1>5. answer'.file = NoFile
    BY <1>1 DEF Untranslated
  <1>6. CallInv'
    BY <1>1, <1>2, <1>4, <1>5, QuietCall DEF CallInv
  <1> QED BY <1>1, <1>6, QuietKeeps

LEMMA ReturnKeeps == ASSUME Inv, Return PROVE Inv'
  <1>1. at' = "idle" /\ Searching /\ ops' = ops
    BY DEF Return, Searching, program, catalogs
  <1>2. ops \in 0..MaxOps
    BY DEF Inv, BoundsInv
  <1>3. ops' \in 0..MaxOps /\ ops' >= ops
    BY <1>1, <1>2
  <1> QED BY <1>1, <1>3, SearchKeeps, IdleCall DEF Inv

LEMMA FindBindingKeeps == ASSUME Inv, FindBinding PROVE Inv'
  <1> DEFINE list == guess_category_value(env, categoryname)
  <1>1. /\ at = "known" /\ dirname' = PlaceOf(binding, cwd) /\ locales' = list
        /\ at' = IF dirname' = NoDir THEN "untranslated" ELSE "locale"
        /\ Quiet
    BY DEF FindBinding, Quiet, Searching, program, catalogs
  <1>2. call \in Calls /\ list \in Seq(Names)
    BY <1>1, CallType
  <1>3. CASE dirname' = NoDir
    <2>1. Source(key, now) = NoFile
      BY <1>1, <1>3, SourceIs
    <2>2. at' = "untranslated" /\ Source(key, now)' = NoFile
      BY <1>1, <1>3, <2>1, QuietCall
    <2> QED BY <1>1, <1>2, <2>2, QuietCall, QuietKeeps DEF CallInv
  <1>4. CASE dirname' # NoDir
    <2>1. Passed(0)'
      <3>1. guess_category_value(env, categoryname)' = list
        BY <1>1, QuietCall
      <3> HIDE DEF list
      <3>2. Len(list) \in Nat /\ SubSeq(list, 0 + 1, Len(list)) = list
        BY <1>2, LenProperties, SubSeqProperties
      <3>3. 0 \in 0..Len(list) /\ 1..0 = {}
        BY <3>2
      <3> QED BY <1>1, <3>1, <3>2, <3>3 DEF Passed
    <2>2. (\E n \in Nat : Passed(n))'
      BY <2>1
    <2>3. at' = "locale" /\ dirname' = PlaceOf(binding, cwd)'
      BY <1>1, <1>4, QuietCall DEF PlaceOf
    <2> QED BY <1>1, <1>2, <1>4, <2>2, <2>3, QuietCall, QuietKeeps DEF CallInv
  <1> QED BY <1>3, <1>4

\* One more of the list is passed.
LEMMA NextPassed ==
    ASSUME Inv, at = "locale", NEW n \in Nat, Passed(n), locales # << >>,
           Head(locales) \notin {"C", "POSIX"},
           \/ Secure /\ Head(locales) \in PathNames
           \/ With(dirname, Head(locales), domain, categoryname, call.msgid) = {},
           Fixed, locales' = Tail(locales), dirname' = dirname
    PROVE  (\E k \in Nat : Passed(k))'
  <1> DEFINE list == guess_category_value(env, categoryname)
  <1>1. list \in Seq(Names) /\ Len(list) \in Nat
    BY CallType, LenProperties
  <1>2. guess_category_value(env, categoryname)' = list
    BY FixedCall
  <1>3. /\ n \in 0..Len(list) /\ locales = SubSeq(list, n + 1, Len(list))
        /\ \A i \in 1..n : /\ list[i] \notin {"C", "POSIX"}
                           /\ \/ Secure /\ list[i] \in PathNames
                              \/ With(dirname, list[i], domain, categoryname, call.msgid) = {}
    BY DEF Passed
  <1> HIDE DEF list
  <1>4. n + 1 \in 1..Len(list) /\ Head(locales) = list[n + 1]
        /\ Tail(locales) = SubSeq(list, n + 2, Len(list))
    BY <1>1, <1>3
  <1>5. /\ n + 1 \in 0..Len(list) /\ n + 1 \in Nat /\ (n + 1) + 1 = n + 2
        /\ \A i \in 1..(n + 1) : i = n + 1 \/ i \in 1..n
    BY <1>1, <1>3, <1>4
  <1>6. \A i \in 1..(n + 1) :
            /\ list[i] \notin {"C", "POSIX"}
            /\ \/ Secure /\ list[i] \in PathNames
               \/ With(dirname, list[i], domain, categoryname, call.msgid) = {}
    BY <1>3, <1>4, <1>5
  <1>7. Passed(n + 1)'
    <2>1. \A i \in 1..(n + 1) :
            /\ list[i] \notin {"C", "POSIX"}
            /\ \/ Secure /\ list[i] \in PathNames
               \/ With(dirname', list[i], domain', categoryname', call'.msgid) = {}
      BY <1>6, FixedCall
    <2> QED BY <1>2, <1>4, <1>5, <2>1 DEF Passed, With
  <1>8. PICK k \in Nat : k = n + 1
    BY <1>5
  <1> QED BY <1>7, <1>8

LEMMA LocaleCall ==
    ASSUME Inv, at = "locale"
    PROVE  /\ call \in Calls /\ dirname = PlaceOf(binding, cwd) /\ dirname # NoDir
           /\ dirname \in Places /\ \E n \in Nat : Passed(n)
  BY CallType DEF Inv, CallInv

LEMMA SkipLocaleKeeps == ASSUME Inv, SkipLocale PROVE Inv'
  <1>1. /\ at = "locale" /\ Secure /\ NextLocale \in PathNames
        /\ locales' = Tail(locales) /\ dirname' = dirname /\ at' = "locale" /\ Quiet
    BY DEF SkipLocale, Quiet, Searching, program, catalogs
  <1>2. locales # << >> /\ Head(locales) \in PathNames /\ Head(locales) \notin {"C", "POSIX"}
    BY <1>1, EnvironmentAssumption DEF NextLocale
  <1>3. (\E n \in Nat : Passed(n))'
    BY <1>1, <1>2, LocaleCall, NextPassed DEF Quiet, Searching, Fixed
  <1>4. dirname' = PlaceOf(binding, cwd)' /\ dirname' # NoDir /\ call' \in Calls
    BY <1>1, LocaleCall, QuietCall
  <1>5. CallInv'
    BY <1>1, <1>3, <1>4 DEF CallInv
  <1> QED BY <1>1, <1>5, QuietKeeps

\* What a catalog has when its converter is made.
LEMMA InitConv ==
    ASSUME OrderInv, env \in Envs, domain \in Domains, NEW f \in Files
    PROVE  LET x == _nl_init_domain_conv(f, binding)
           IN  /\ x \in LoadedPart /\ x.decided /\ x.codeset_cntr = Counter(binding)
               /\ x.conv = Converter(f, binding, OutputCharset(env))
               /\ x.conv_tab = Null /\ x.texts = NoTexts
               /\ OutputCharset(env) \in Codesets \cup {NoCodeset}
  <1> DEFINE b == binding
             o == OutputCharset(env)
  <1>1. Counter(b) \in Nat
    BY CounterOf DEF binding
  <1>2. o \in Codesets \cup {NoCodeset}
    BY EnvironmentAssumption DEF OutputCharset
  <1>3. Outcharset(b, o) \in Codesets
    <2>1. CASE b # << >> /\ b.codeset # NoCodeset
      <3>1. Finds /\ \A j \in DOMAIN bindings : bindings[j] \in Binding
        BY OrderFinds, LenProperties, ElementOfSeq, ZenonT(30) DEF OrderInv
      <3>2. PICK i \in DOMAIN bindings : b = bindings[i]
        BY <2>1, <3>1 DEF Finds, binding
      <3>3. b.codeset \in Codesets \cup {NoCodeset}
        BY <3>1, <3>2 DEF Binding
      <3> HIDE DEF b, o
      <3> QED BY <2>1, <3>3 DEF Outcharset
    <2>2. CASE ~(b # << >> /\ b.codeset # NoCodeset)
      <3> HIDE DEF b, o
      <3> QED BY <1>2, <2>2, CatalogsAssumption DEF Outcharset
    <2> QED BY <2>1, <2>2
  <1> HIDE DEF o
  <1>4. Converter(f, b, o) \in Codesets \cup {NoConv}
    BY <1>3 DEF Converter
  <1>5. NoTexts \in [MsgIds -> Codesets \cup {NoConv}]
    BY DEF NoTexts
  <1> QED BY <1>1, <1>2, <1>4, <1>5 DEF _nl_init_domain_conv, LoadedPart, o

\* Looking into catalogs of the domain keeps the invariant, but for the call.
LEMMA LoadKeeps ==
    ASSUME Inv, Fixed, at # "idle", NEW files, Load(files),
           \A f \in files : f \in Files /\ FileOf(f, domain)
    PROVE  /\ OrderInv' /\ BoundsInv' /\ EnvironmentInv' /\ TextsInv' /\ ConverterInv' /\ KnownInv'
           /\ \A f \in files : loaded'[f].decided
  <1>1. UNCHANGED <<env, cwd, seen, bindings, current_domain, msg_cat_cntr, known, failures, call, ops>>
    BY DEF Fixed
  <1>2. /\ OrderInv /\ TextsInv /\ ConverterInv /\ KnownInv /\ env \in Envs /\ domain \in Domains
        /\ ops \in 0..MaxOps /\ ops \in Nat
        /\ failures \in 0..MaxFailures /\ msg_cat_cntr \in 0..ops
    BY CallType DEF Inv, BoundsInv, EnvironmentInv
  <1>3. OrderInv' /\ BoundsInv'
    BY <1>1, <1>2, Unbounded
  <1>4. EnvironmentInv'
    BY <1>1 DEF Inv, EnvironmentInv, now
  <1>5. /\ loaded \in [Files -> LoadedPart] /\ asked \in [Files -> Codesets \cup {NoCodeset}]
    BY <1>2 DEF TextsInv
  <1> DEFINE new == {f \in files : ~loaded[f].decided}
             x(f) == _nl_init_domain_conv(f, binding)
  <1>6. /\ loaded' = [f \in Files |-> IF f \in new THEN x(f) ELSE loaded[f]]
        /\ asked' = [f \in Files |-> IF f \in new THEN OutputCharset(env) ELSE asked[f]]
    BY DEF Load
  <1>7. /\ \A f \in Files \ new : loaded'[f] = loaded[f] /\ asked'[f] = asked[f]
        /\ \A f \in new : /\ f \in Files /\ FileOf(f, domain) /\ ~loaded[f].decided
                          /\ loaded'[f] = x(f) /\ asked'[f] = OutputCharset(env)
    BY <1>6
  <1>8. \A f \in new :
            /\ x(f) \in LoadedPart /\ x(f).decided /\ x(f).codeset_cntr = Counter(binding)
            /\ x(f).conv = Converter(f, binding, OutputCharset(env))
            /\ x(f).conv_tab = Null /\ x(f).texts = NoTexts
            /\ OutputCharset(env) \in Codesets \cup {NoCodeset}
    BY <1>2, <1>7, InitConv
  <1>9. \A f \in files : loaded'[f].decided
    BY <1>7, <1>8
  <1>10. LoadedStay
    BY <1>7 DEF LoadedStay
  <1>11. loaded' \in [Files -> LoadedPart] /\ asked' \in [Files -> Codesets \cup {NoCodeset}]
    BY <1>5, <1>6, <1>7, <1>8
  <1> HIDE DEF new, x
  <1>12. TextsInv'
    <2>1. ASSUME NEW f \in Files
          PROVE  /\ loaded'[f].conv_tab = NoMemory => failures > 0
                 /\ loaded'[f].conv_tab # Allocated => loaded'[f].texts = NoTexts
                 /\ \A m \in MsgIds :
                        loaded'[f].texts[m] # NoConv =>
                            /\ loaded'[f].texts[m] = loaded'[f].conv
                            /\ <<f, m, loaded'[f].conv>> \notin CannotConvert
      <3>1. CASE f \in new
        <4>1. PICK y : y = loaded'[f]
          OBVIOUS
        <4>2. y.conv_tab = Null /\ y.texts = NoTexts
          BY <1>7, <1>8, <3>1, <4>1
        <4>3. \A m \in MsgIds : NoTexts[m] = NoConv
          BY DEF NoTexts
        <4>4. Null # NoMemory
          BY DEF Null, NoMemory
        <4> QED BY <4>1, <4>2, <4>3, <4>4
      <3>2. CASE f \notin new
        BY <1>2, <1>7, <3>2 DEF TextsInv
      <3> QED BY <3>1, <3>2
    <2> QED BY <1>1, <1>11, <2>1 DEF TextsInv
  <1>13. ConverterInv'
    <2>1. \A d : BindingOf(d)' = BindingOf(d)
      BY <1>1, SameBinding
    <2> SUFFICES ASSUME NEW f \in Files, NEW d \in Domains, FileOf(f, d), loaded'[f].decided
                 PROVE  /\ loaded'[f].codeset_cntr <= Counter(BindingOf(d))
                        /\ loaded'[f].codeset_cntr = Counter(BindingOf(d)) =>
                               loaded'[f].conv = Converter(f, BindingOf(d), asked'[f])
      BY <2>1 DEF ConverterInv
    <2>2. CASE f \in new
      <3>1. d = domain
        BY <1>7, <2>2, OneDomain
      <3>2. /\ loaded'[f].codeset_cntr = Counter(BindingOf(d))
            /\ loaded'[f].conv = Converter(f, BindingOf(d), asked'[f])
        BY <1>7, <1>8, <2>2, <3>1 DEF binding
      <3>3. Counter(BindingOf(d)) \in Nat
        BY <1>2, CounterOf
      <3> QED BY <3>2, <3>3
    <2>3. CASE f \notin new
      <3>1. loaded'[f] = loaded[f] /\ asked'[f] = asked[f]
        BY <1>7, <2>3
      <3> QED BY <1>2, <3>1 DEF ConverterInv
    <2> QED BY <2>2, <2>3
  <1>14. KnownInv'
    BY <1>1, <1>2, <1>10, KnownKept
  <1> QED BY <1>3, <1>4, <1>9, <1>12, <1>13, <1>14

\* What is looked into at a locale are catalogs of the domain.
LEMMA VisitedType ==
    ASSUME Inv, at = "locale", NextLocale \in LocaleNames,
           NEW f \in Visited(dirname, NextLocale, domain, categoryname, call.msgid)
    PROVE  f \in Files /\ FileOf(f, domain)
  <1>1. /\ call \in Calls /\ dirname \in Places /\ domain \in Domains
        /\ categoryname = category_to_name(call.category)
    BY LocaleCall, CallType
  <1> DEFINE x == <<dirname, NextLocale, domain, categoryname>>
  <1>2. x \in DOMAIN Chain /\ x[3] = domain /\ Chain[x] \in Seq(Files)
    BY <1>1, CatalogsAssumption
  <1>3. PICK i \in DOMAIN Chain[x] : f = Chain[x][i]
    BY DEF Visited
  <1> HIDE DEF x
  <1>4. f \in Files
    BY <1>2, <1>3, ElementOfSeq, LenProperties
  <1>5. FileOf(f, domain)
    BY <1>2, <1>3 DEF FileOf, ToSet
  <1> QED BY <1>4, <1>5

\* The next name is one of a locale that messages may be translated for.
LEMMA NextLocaleType ==
    ASSUME Inv, at = "locale", NextLocale \notin {"C", "POSIX"}
    PROVE  locales # << >> /\ Head(locales) = NextLocale /\ NextLocale \in LocaleNames
  <1> DEFINE list == guess_category_value(env, categoryname)
  <1>1. locales # << >> /\ Head(locales) = NextLocale
    BY DEF NextLocale
  <1>2. list \in Seq(Names) /\ Len(list) \in Nat
    BY CallType, LenProperties
  <1>3. PICK n \in Nat : n \in 0..Len(list) /\ locales = SubSeq(list, n + 1, Len(list))
    BY LocaleCall DEF Passed
  <1> HIDE DEF list
  <1>4. n + 1 \in 1..Len(list) /\ list[n + 1] = NextLocale
    BY <1>1, <1>2, <1>3
  <1>5. NextLocale \in Names
    BY <1>2, <1>4, ElementOfSeq
  <1> QED BY <1>1, <1>5 DEF Names

LEMMA NotInLocaleKeeps == ASSUME Inv, NotInLocale PROVE Inv'
  <1> DEFINE files == Visited(dirname, NextLocale, domain, categoryname, call.msgid)
  <1>1. /\ at = "locale" /\ NextLocale \notin {"C", "POSIX"}
        /\ With(dirname, NextLocale, domain, categoryname, call.msgid) = {} /\ Load(files)
        /\ locales' = Tail(locales) /\ dirname' = dirname /\ at' = "locale" /\ Fixed
    BY DEF NotInLocale, Fixed, program
  <1>2. locales # << >> /\ Head(locales) = NextLocale /\ NextLocale \in LocaleNames
    BY <1>1, NextLocaleType
  <1>3. (\E n \in Nat : Passed(n))'
    BY <1>1, <1>2, LocaleCall, NextPassed
  <1>4. dirname' = PlaceOf(binding, cwd)' /\ dirname' # NoDir /\ call' \in Calls
    BY <1>1, LocaleCall, FixedCall
  <1>5. CallInv'
    BY <1>1, <1>3, <1>4 DEF CallInv
  <1>6. \A f \in files : f \in Files /\ FileOf(f, domain)
    BY <1>1, <1>2, VisitedType
  <1> HIDE DEF files
  <1>7. /\ OrderInv' /\ BoundsInv' /\ EnvironmentInv' /\ TextsInv' /\ ConverterInv' /\ KnownInv'
    BY <1>1, <1>6, LoadKeeps
  <1> QED BY <1>5, <1>7 DEF Inv

LEMMA StopAtCKeeps == ASSUME Inv, StopAtC PROVE Inv'
  <1> DEFINE list == guess_category_value(env, categoryname)
             useful == {i \in DOMAIN list : Useful(dirname, list, i)}
  <1>1. at = "locale" /\ NextLocale \in {"C", "POSIX"} /\ at' = "untranslated" /\ Quiet
    BY DEF StopAtC, Quiet, Searching, program, catalogs
  <1>2. /\ dirname = PlaceOf(binding, cwd) /\ call \in Calls
        /\ list \in Seq(Names) /\ Len(list) \in Nat /\ DOMAIN list = 1..Len(list)
    BY <1>1, LocaleCall, CallType, LenProperties
  <1>3. PICK n \in Nat : Passed(n)
    BY <1>1, LocaleCall
  <1>4. /\ n \in 0..Len(list) /\ locales = SubSeq(list, n + 1, Len(list))
        /\ \A i \in 1..n : \/ Secure /\ list[i] \in PathNames
                           \/ With(dirname, list[i], domain, categoryname, call.msgid) = {}
    BY <1>3 DEF Passed
  <1>5. \A i \in DOMAIN list : ~Useful(dirname, list, i)
    <2> SUFFICES ASSUME NEW i \in DOMAIN list, Useful(dirname, list, i) PROVE FALSE
      OBVIOUS
    <2>1. /\ \A j \in 1..i : list[j] \notin {"C", "POSIX"}
          /\ ~(Secure /\ list[i] \in PathNames)
          /\ With(dirname, list[i], domain, categoryname, call.msgid) # {}
      BY DEF Useful
    <2> HIDE DEF list
    <2>2. i \notin 1..n
      BY <1>4, <2>1
    <2>3. i \in 1..Len(list) /\ n + 1 \in 1..i /\ n + 1 <= Len(list)
      BY <1>2, <1>4, <2>2
    <2>4. locales # << >> /\ Head(locales) = list[n + 1]
      <3>1. PICK l \in Nat : l = Len(list)
        BY <1>2
      <3>2. PICK k \in Nat : k = n + 1 /\ k \in 1..l
        <4>1. n + 1 \in Nat /\ n + 1 \in 1..l
          BY <2>3, <3>1
        <4> QED BY <4>1
      <3>3. /\ locales = SubSeq(list, k, l)
            /\ \A j \in k..l : list[j] \in Names
        BY <1>2, <1>4, <3>1, <3>2
      <3>4. /\ Len(locales) = IF k <= l THEN l - k + 1 ELSE 0
            /\ \A j \in 1..(l - k + 1) : locales[j] = list[k + j - 1]
        BY <3>2, <3>3, SubSeqProperties
      <3>5. 1 \in 1..(l - k + 1) /\ k + 1 - 1 = k /\ k <= l /\ l - k + 1 # 0
        BY <3>2
      <3>6. Len(locales) # 0 /\ locales[1] = list[k]
        BY <3>4, <3>5
      <3>7. locales # << >>
        BY <3>6
      <3> QED BY <3>2, <3>6, <3>7
    <2> QED BY <1>1, <2>1, <2>3, <2>4 DEF NextLocale
  <1>6. Source(key, now) = NoFile
    <2>1. useful = {}
      BY <1>5
    <2> QED BY <1>2, <2>1, SourceIs
  <1>7. Source(key, now)' = NoFile /\ call' \in Calls
    BY <1>1, <1>2, <1>6, QuietCall
  <1>8. CallInv'
    BY <1>1, <1>7 DEF CallInv
  <1> QED BY <1>1, <1>8, QuietKeeps

LEMMA InLocaleKeeps == ASSUME Inv, InLocale PROVE Inv'
  <1> DEFINE list == guess_category_value(env, categoryname)
             useful == {i \in DOMAIN list : Useful(dirname, list, i)}
             files == Visited(dirname, NextLocale, domain, categoryname, call.msgid)
  <1>1. /\ at = "locale" /\ NextLocale \notin {"C", "POSIX"} /\ ~(Secure /\ NextLocale \in PathNames)
        /\ With(dirname, NextLocale, domain, categoryname, call.msgid) # {}
        /\ Load(files) /\ at' = "convert" /\ Fixed /\ dirname' = dirname /\ locales' = locales
    BY DEF InLocale, Fixed, program
  <1>2. /\ dirname = PlaceOf(binding, cwd) /\ dirname # NoDir /\ dirname \in Places
        /\ call \in Calls /\ call.msgid \in MsgIds /\ domain \in Domains
        /\ categoryname = category_to_name(call.category)
        /\ list \in Seq(Names) /\ Len(list) \in Nat /\ DOMAIN list = 1..Len(list)
    BY <1>1, LocaleCall, CallType, LenProperties
  <1>3. PICK n \in Nat : Passed(n)
    BY <1>1, LocaleCall
  <1>4. /\ n \in 0..Len(list) /\ locales = SubSeq(list, n + 1, Len(list))
        /\ \A i \in 1..n : /\ list[i] \notin {"C", "POSIX"}
                           /\ \/ Secure /\ list[i] \in PathNames
                              \/ With(dirname, list[i], domain, categoryname, call.msgid) = {}
    BY <1>3 DEF Passed
  <1>5. locales # << >> /\ Head(locales) = NextLocale /\ NextLocale \in LocaleNames
    BY <1>1, NextLocaleType
  <1>6. n + 1 \in DOMAIN list /\ list[n + 1] = NextLocale
    <2> HIDE DEF list
    <2> QED BY <1>2, <1>4, <1>5
  <1>7. Useful(dirname, list, n + 1) /\ \A i \in 1..n : ~Useful(dirname, list, i)
    <2>1. \A i \in 1..(n + 1) : i = n + 1 \/ i \in 1..n
      OBVIOUS
    <2> QED BY <1>1, <1>4, <1>6, <2>1 DEF Useful
  <1>8. Min(useful) = n + 1
    <2>1. useful \in SUBSET Nat /\ n + 1 \in useful
      BY <1>2, <1>6, <1>7
    <2>2. \A i \in useful : i \notin 1..n /\ i \in 1..Len(list)
      BY <1>2, <1>7
    <2> HIDE DEF useful
    <2>3. PICK m \in Nat : m = Min(useful) /\ m \in useful /\ \A i \in useful : m <= i
      BY <2>1, FirstGreater
    <2>4. m <= n + 1 /\ m \notin 1..n /\ m >= 1
      BY <2>1, <2>2, <2>3
    <2> QED BY <2>3, <2>4
  <1>9. Source(key, now) = First(dirname, NextLocale, domain, categoryname, call.msgid)
    <2>1. useful # {}
      BY <1>6, <1>7
    <2> QED BY <1>2, <1>6, <1>8, <2>1, SourceIs
  <1>10. found = Source(key, now)
    BY <1>5, <1>9 DEF found
  <1>11. found \in Files /\ FileOf(found, domain) /\ Variants[found][call.msgid] > 0
    BY <1>1, <1>2, <1>5, <1>9, <1>10, FirstType
  <1>12. found' = found
    BY <1>1, FixedCall DEF found
  <1>13. found \in files
    <2> DEFINE x == <<dirname, NextLocale, domain, categoryname>>
               set == With(dirname, NextLocale, domain, categoryname, call.msgid)
    <2>1. x \in DOMAIN Chain /\ Chain[x] \in Seq(Files)
      BY <1>2, <1>5, CatalogsAssumption
    <2>2. /\ set = {i \in DOMAIN Chain[x] : Variants[Chain[x][i]][call.msgid] > 0} /\ set # {}
          /\ found = Chain[x][Min(set)]
          /\ files = {Chain[x][i] : i \in {j \in DOMAIN Chain[x] : \A w \in set : j <= w}}
      BY <1>1, <1>9, <1>10 DEF With, First, Visited
    <2> HIDE DEF x, set, files
    <2>3. DOMAIN Chain[x] \subseteq Nat
      BY <2>1, LenProperties
    <2>4. Min(set) \in set /\ \A w \in set : Min(set) <= w
      BY <2>2, <2>3, FirstGreater
    <2>5. Min(set) \in DOMAIN Chain[x]
      BY <2>2, <2>4
    <2> QED BY <2>2, <2>4, <2>5
  <1>14. /\ OrderInv' /\ BoundsInv' /\ EnvironmentInv' /\ TextsInv' /\ ConverterInv' /\ KnownInv'
         /\ loaded'[found].decided
    <2>1. \A f \in files : f \in Files /\ FileOf(f, domain)
      BY <1>1, <1>5, VisitedType
    <2> HIDE DEF files
    <2> QED BY <1>1, <1>13, <2>1, LoadKeeps
  <1>15. CallInv'
    <2>1. found' \in Files /\ FileOf(found, domain)' /\ Variants[found'][call'.msgid] > 0
      BY <1>1, <1>11, <1>12, FixedCall
    <2>2. found' = Source(key, now)' /\ call' \in Calls /\ dirname' = PlaceOf(binding, cwd)' /\ dirname' # NoDir
      BY <1>1, <1>2, <1>10, <1>12, FixedCall
    <2>3. loaded'[found'].decided
      BY <1>12, <1>14
    <2> QED BY <1>1, <2>1, <2>2, <2>3 DEF CallInv
  <1> QED BY <1>14, <1>15 DEF Inv

-----------------------------------------------------------------------------
(* The conversion.                                                         *)

\* A binding that counts has a codeset: what OUTPUT_CHARSET says does not matter.
LEMMA BoundCodeset ==
    ASSUME OrderInv, BoundsInv, NEW d \in Domains, Counter(BindingOf(d)) > 0
    PROVE  BindingOf(d) # << >> /\ BindingOf(d).codeset # NoCodeset
  <1>1. Finds
    BY OrderFinds
  <1>2. BindingOf(d) # << >>
    BY DEF Counter
  <1>3. PICK i \in DOMAIN bindings : BindingOf(d) = bindings[i]
    BY <1>1, <1>2 DEF Finds
  <1>4. bindings[i].codeset_cntr > 0 /\ bindings[i].codeset_cntr # 0
    <2>1. PICK c : c = bindings[i].codeset_cntr
      OBVIOUS
    <2>2. Counter(BindingOf(d)) = c
      BY <1>2, <1>3, <2>1 DEF Counter
    <2> QED BY <2>1, <2>2
  <1>5. bindings[i].codeset # NoCodeset
    BY <1>4 DEF BoundsInv
  <1> QED BY <1>2, <1>3, <1>5

\* The codeset dependent part of a catalog f is that of the binding.
Decided(x, f) ==
    /\ x \in LoadedPart /\ x.decided /\ x.codeset_cntr = Counter(binding)
    /\ x.conv = Converter(f, binding, asked[f])
    /\ x.conv_tab # Allocated => x.texts = NoTexts
    /\ \A m \in MsgIds : x.texts[m] # NoConv =>
           x.texts[m] = x.conv /\ <<f, m, x.conv>> \notin CannotConvert

LEMMA CurrentDecided ==
    ASSUME Inv, at = "convert"
    PROVE  Decided(Current(found), found) /\ (Current(found).conv_tab = NoMemory => failures > 0)
  <1> DEFINE f == found
             b == binding
  <1>1. /\ f \in Files /\ FileOf(f, domain) /\ loaded[f].decided
        /\ OrderInv /\ TextsInv /\ ConverterInv /\ domain \in Domains /\ env \in Envs
    BY CallType DEF Inv, CallInv, EnvironmentInv
  <1>2. /\ loaded[f] \in LoadedPart /\ loaded[f].codeset_cntr \in Nat /\ Counter(b) \in Nat
        /\ loaded[f].codeset_cntr <= Counter(b)
        /\ loaded[f].codeset_cntr = Counter(b) => loaded[f].conv = Converter(f, b, asked[f])
    BY <1>1, CounterOf DEF TextsInv, LoadedPart, ConverterInv, binding
  <1>3. CASE loaded[f].codeset_cntr # Counter(b)
    <2> DEFINE x == _nl_init_domain_conv(f, b)
    <2>1. Current(f) = x
      BY <1>3 DEF Current
    <2>2. /\ x \in LoadedPart /\ x.decided /\ x.codeset_cntr = Counter(b)
          /\ x.conv = Converter(f, b, OutputCharset(env))
          /\ x.conv_tab # NoMemory /\ x.texts = NoTexts /\ \A m \in MsgIds : x.texts[m] = NoConv
      BY <1>1, InitConv DEF NoTexts, NoMemory, Null
    <2>3. \A o, u : Outcharset(b, o) = Outcharset(b, u)
      <3>1. Counter(b) > 0
        BY <1>2, <1>3
      <3>2. BindingOf(domain) # << >> /\ BindingOf(domain).codeset # NoCodeset
        BY <1>1, <3>1, BoundCodeset DEF binding, Inv
      <3>3. b # << >> /\ b.codeset # NoCodeset
        BY <3>2 DEF binding
      <3> HIDE DEF b
      <3> QED BY <3>3 DEF Outcharset
    <2>4. x.conv = Converter(f, b, asked[f])
      <3> HIDE DEF f, b, x
      <3>1. Outcharset(b, OutputCharset(env)) = Outcharset(b, asked[f])
        BY <2>3
      <3> QED BY <2>2, <3>1 DEF Converter
    <2> QED BY <2>1, <2>2, <2>4 DEF Decided
  <1>4. CASE loaded[f].codeset_cntr = Counter(b)
    <2>1. Current(f) = loaded[f]
      BY <1>4 DEF Current
    <2>2. /\ loaded[f].conv_tab = NoMemory => failures > 0
          /\ loaded[f].conv_tab # Allocated => loaded[f].texts = NoTexts
          /\ \A m \in MsgIds : loaded[f].texts[m] # NoConv =>
                 /\ loaded[f].texts[m] = loaded[f].conv
                 /\ <<f, m, loaded[f].conv>> \notin CannotConvert
      BY <1>1 DEF TextsInv
    <2> QED BY <1>1, <1>2, <1>4, <2>1, <2>2 DEF Decided
  <1> QED BY <1>3, <1>4

\* What becomes of it when its table or one of its texts is made.
Remade(x, tab, texts) ==
    [decided |-> x.decided, codeset_cntr |-> x.codeset_cntr, conv |-> x.conv,
     conv_tab |-> tab, texts |-> texts]

LEMMA RemadeDecided ==
    ASSUME NEW f, NEW x, Decided(x, f), NEW tab \in {Null, NoMemory, Allocated},
           NEW texts \in [MsgIds -> Codesets \cup {NoConv}], tab # Allocated => texts = NoTexts,
           \A m \in MsgIds : texts[m] # NoConv =>
               texts[m] = x.conv /\ <<f, m, x.conv>> \notin CannotConvert
    PROVE  /\ Decided(Remade(x, tab, texts), f)
           /\ Remade(x, tab, texts).conv = x.conv /\ Remade(x, tab, texts).conv_tab = tab
           /\ Remade(x, tab, texts).texts = texts
  BY DEF Decided, Remade, LoadedPart

LEMMA RightHere ==
    ASSUME NEW f
    PROVE  RightCodesets(key, f) =
               (IF Converter(f, binding, asked[f]) = NoConv
                   \/ <<f, call.msgid, Converter(f, binding, asked[f])>> \in CannotConvert
                THEN {Charset[f]} ELSE {Converter(f, binding, asked[f])})
               \cup (IF failures > 0 THEN {Charset[f]} ELSE {})
  BY DEF RightCodesets, key, binding

LEMMA ConvertedRight ==
    ASSUME NEW f, NEW x, Decided(x, f), x.conv_tab = NoMemory => failures > 0,
           call.msgid \in MsgIds
    PROVE  LET y == Converted(x, f, call.msgid)
           IN  /\ Decided(y, f) /\ (y.conv_tab = NoMemory => failures > 0)
               /\ CodesetOf(y, f, call.msgid) \in RightCodesets(key, f)
  <1> DEFINE m == call.msgid
  <1>1. /\ x \in LoadedPart /\ x.conv = Converter(f, binding, asked[f])
        /\ x.texts \in [MsgIds -> Codesets \cup {NoConv}] /\ x.conv \in Codesets \cup {NoConv}
        /\ \A n \in MsgIds : x.texts[n] # NoConv =>
               x.texts[n] = x.conv /\ <<f, n, x.conv>> \notin CannotConvert
    BY DEF Decided, LoadedPart
  <1>2. CASE ~MayConvert(x)
    <2>1. Converted(x, f, m) = x /\ CodesetOf(x, f, m) = Charset[f]
      BY <1>2 DEF Converted, CodesetOf
    <2>2. Charset[f] \in RightCodesets(key, f)
      BY <1>1, <1>2, RightHere DEF MayConvert
    <2> QED BY <2>1, <2>2
  <1>3. CASE MayConvert(x)
    <2> DEFINE new == IF x.texts[m] = NoConv /\ <<f, m, x.conv>> \notin CannotConvert
                      THEN x.conv ELSE x.texts[m]
               texts == [x.texts EXCEPT ![m] = new]
    <2>1. Converted(x, f, m) = Remade(x, Allocated, texts)
      <3>1. Converted(x, f, m) = [x EXCEPT !.conv_tab = Allocated, !.texts = texts]
        <4>1. x.conv_tab \in {Null, Allocated}
          BY <1>1, <1>3 DEF MayConvert, LoadedPart
        <4>2. (IF x.conv_tab = Null THEN Allocated ELSE x.conv_tab) = Allocated
          BY <4>1
        <4> QED BY <1>1, <1>3, <4>2 DEF Converted, LoadedPart
      <3> HIDE DEF texts
      <3> QED BY <1>1, <3>1 DEF Remade, LoadedPart
    <2>2. /\ texts \in [MsgIds -> Codesets \cup {NoConv}] /\ texts[m] = new
          /\ \A n \in MsgIds : texts[n] # NoConv =>
                 texts[n] = x.conv /\ <<f, n, x.conv>> \notin CannotConvert
      BY <1>1
    <2> HIDE DEF texts
    <2>3. /\ Decided(Remade(x, Allocated, texts), f)
          /\ Remade(x, Allocated, texts).conv = x.conv
          /\ Remade(x, Allocated, texts).conv_tab = Allocated
          /\ Remade(x, Allocated, texts).texts = texts
      BY <2>2, RemadeDecided
    <2>4. CodesetOf(Remade(x, Allocated, texts), f, m) = IF new # NoConv THEN new ELSE Charset[f]
      BY <1>3, <2>2, <2>3 DEF CodesetOf, MayConvert, NoMemory, Allocated
    <2>5. x.conv # NoConv
      BY <1>3 DEF MayConvert
    <2>6. CASE <<f, m, x.conv>> \in CannotConvert
      <3>1. new = NoConv
        BY <1>1, <2>6
      <3> QED BY <1>1, <2>1, <2>3, <2>4, <2>6, <3>1, RightHere DEF NoMemory, Allocated
    <2>7. CASE <<f, m, x.conv>> \notin CannotConvert
      <3>1. new = x.conv
        BY <1>1, <2>7
      <3>2. CodesetOf(Remade(x, Allocated, texts), f, m) = x.conv
        BY <2>4, <2>5, <3>1
      <3>3. x.conv \in RightCodesets(key, f)
        BY <1>1, <2>5, <2>7, RightHere
      <3> QED BY <2>1, <2>3, <3>2, <3>3 DEF NoMemory, Allocated
    <2> QED BY <2>6, <2>7
  <1> QED BY <1>2, <1>3

LEMMA UnconvertedPart ==
    ASSUME NEW f, NEW x, Decided(x, f), call.msgid \in MsgIds,
           NEW y \in Unconverted(x, call.msgid)
    PROVE  Decided(y, f) /\ CodesetOf(y, f, call.msgid) = Charset[f]
  <1> DEFINE m == call.msgid
  <1>1. x.texts[m] = NoConv
    BY DEF Unconverted
  <1>2. PICK tab \in {Null, NoMemory, Allocated} :
            y = [x EXCEPT !.conv_tab = tab] /\ (tab # Allocated => x.texts = NoTexts)
    <2>1. MayConvert(x) /\ x \in LoadedPart /\ (x.conv_tab # Allocated => x.texts = NoTexts)
      BY DEF Unconverted, Decided
    <2>2. x.conv_tab \in {Null, Allocated}
      BY <2>1 DEF MayConvert, LoadedPart
    <2>3. (IF x.conv_tab = Null THEN Allocated ELSE x.conv_tab) = Allocated
      BY <2>2
    <2>4. CASE y = [x EXCEPT !.conv_tab = NoMemory] /\ x.conv_tab = Null
      BY <2>1, <2>4 DEF Null, Allocated
    <2>5. CASE y = [x EXCEPT !.conv_tab = Allocated]
      BY <2>5
    <2>6. \/ y = [x EXCEPT !.conv_tab = NoMemory] /\ x.conv_tab = Null
          \/ y = [x EXCEPT !.conv_tab = IF x.conv_tab = Null THEN Allocated ELSE x.conv_tab]
      BY DEF Unconverted
    <2> QED BY <2>3, <2>4, <2>5, <2>6
  <1>3. /\ x \in LoadedPart /\ x.texts \in [MsgIds -> Codesets \cup {NoConv}]
        /\ \A n \in MsgIds : x.texts[n] # NoConv =>
               x.texts[n] = x.conv /\ <<f, n, x.conv>> \notin CannotConvert
    BY DEF Decided, LoadedPart
  <1>4. y = Remade(x, tab, x.texts)
    BY <1>2, <1>3 DEF Remade, LoadedPart
  <1>5. Decided(y, f) /\ y.texts = x.texts
    BY <1>2, <1>3, <1>4, RemadeDecided
  <1> QED BY <1>1, <1>5 DEF CodesetOf

\* A translation is kept only with what a search would find.
Keeps(f, c) == [counter |-> msg_cat_cntr, file |-> f, codeset |-> c]

LEMMA ConvertKeeps == ASSUME Inv, Convert PROVE Inv'
  <1>0. PICK m, f : m = call.msgid /\ f = found
    OBVIOUS
  <1>1. at = "convert" /\ at' = "answered"
        /\ UNCHANGED <<env, cwd, seen, bindings, current_domain, msg_cat_cntr, asked, call, ops>>
    BY DEF Convert, program
  <1>2. PICK x \in {Converted(Current(f), f, m)} \cup Unconverted(Current(f), m) :
            /\ IF x = Converted(Current(f), f, m) THEN UNCHANGED failures ELSE Fail
            /\ loaded' = [loaded EXCEPT ![f] = x]
            /\ answer' = Translation(f, m, CodesetOf(x, f, m), call.plural, call.n)
            /\ known' \in {Remember(Keeps(f, CodesetOf(x, f, m)))}
                          \cup (IF key \in DOMAIN known THEN {} ELSE {known})
    BY <1>0, Zenon DEF Convert, Keeps
  <1>c. PICK c : c = CodesetOf(x, f, m)
    OBVIOUS
  <1>3. /\ f \in Files /\ FileOf(f, domain) /\ Variants[f][m] > 0 /\ f = Source(key, now)
        /\ call \in Calls /\ m \in MsgIds /\ domain \in Domains /\ key[1] = m /\ now \in seen
        /\ f # NoFile
    BY <1>0, <1>1, CallType, CatalogsAssumption DEF Inv, CallInv, EnvironmentInv
  <1>4. /\ ops \in 0..MaxOps /\ failures \in 0..MaxFailures /\ msg_cat_cntr \in 0..ops
        /\ OrderInv /\ TextsInv /\ ConverterInv /\ KnownInv
    BY DEF Inv, BoundsInv
  <1>5. /\ failures' \in 0..MaxFailures /\ (failures > 0 => failures' > 0)
        /\ x # Converted(Current(f), f, m) => failures' > 0
    BY <1>2, <1>4, EnvironmentAssumption DEF Fail
  <1>6. Decided(Current(f), f) /\ (Current(f).conv_tab = NoMemory => failures > 0)
    BY <1>0, <1>1, CurrentDecided
  <1>7. /\ domain' = domain /\ key' = key /\ now' = now /\ binding' = binding
        /\ Source(key, now)' = Source(key, now)
    BY <1>1, SameCall
  <1>8. \A g : \A k : RightCodesets(k, g) \subseteq RightCodesets(k, g)'
    BY <1>1, <1>5, MoreCodesets
  <1>9. /\ Decided(x, f) /\ (x.conv_tab = NoMemory => failures' > 0)
        /\ c \in RightCodesets(key, f)'
    <2>1. CASE x = Converted(Current(f), f, m)
      <3>1. /\ Decided(x, f) /\ (x.conv_tab = NoMemory => failures > 0)
            /\ c \in RightCodesets(key, f)
        BY <1>0, <1>c, <1>3, <1>6, <2>1, ConvertedRight
      <3>2. c \in RightCodesets(key, f)'
        BY <1>7, <1>8, <3>1
      <3> QED BY <1>5, <3>1, <3>2
    <2>2. CASE x # Converted(Current(f), f, m)
      <3>1. Decided(x, f) /\ c = Charset[f]
        BY <1>0, <1>c, <1>2, <1>3, <1>6, <2>2, UnconvertedPart
      <3>2. Charset[f] \in RightCodesets(key, f)'
        BY <1>5, <2>2 DEF RightCodesets
      <3> QED BY <1>5, <2>2, <3>1, <3>2
    <2> QED BY <2>1, <2>2
  <1>10. TextsInv'
    <2>1. /\ x \in LoadedPart /\ (x.conv_tab # Allocated => x.texts = NoTexts)
          /\ \A n \in MsgIds : x.texts[n] # NoConv =>
                 x.texts[n] = x.conv /\ <<f, n, x.conv>> \notin CannotConvert
      BY <1>9 DEF Decided
    <2>2. /\ loaded \in [Files -> LoadedPart] /\ asked \in [Files -> Codesets \cup {NoCodeset}]
          /\ \A g \in Files :
                 /\ loaded[g].conv_tab = NoMemory => failures > 0
                 /\ loaded[g].conv_tab # Allocated => loaded[g].texts = NoTexts
                 /\ \A n \in MsgIds : loaded[g].texts[n] # NoConv =>
                        /\ loaded[g].texts[n] = loaded[g].conv
                        /\ <<g, n, loaded[g].conv>> \notin CannotConvert
      BY <1>4 DEF TextsInv
    <2>3. /\ loaded' \in [Files -> LoadedPart] /\ loaded'[f] = x
          /\ \A g \in Files \ {f} : loaded'[g] = loaded[g]
      BY <1>2, <1>3, <2>1, <2>2
    <2>4. ASSUME NEW g \in Files
          PROVE  /\ loaded'[g].conv_tab = NoMemory => failures' > 0
                 /\ loaded'[g].conv_tab # Allocated => loaded'[g].texts = NoTexts
                 /\ \A n \in MsgIds : loaded'[g].texts[n] # NoConv =>
                        /\ loaded'[g].texts[n] = loaded'[g].conv
                        /\ <<g, n, loaded'[g].conv>> \notin CannotConvert
      <3>1. CASE g = f
        BY <1>9, <2>1, <2>3, <3>1
      <3>2. CASE g # f
        BY <1>5, <2>2, <2>3, <3>2
      <3> QED BY <3>1, <3>2
    <2> QED BY <1>1, <2>2, <2>3, <2>4 DEF TextsInv
  <1>11. ConverterInv'
    <2>1. \A d : BindingOf(d)' = BindingOf(d)
      BY <1>1, SameBinding
    <2>2. loaded \in [Files -> LoadedPart]
      BY <1>4 DEF TextsInv
    <2> SUFFICES ASSUME NEW g \in Files, NEW d \in Domains, FileOf(g, d), loaded'[g].decided
                 PROVE  /\ loaded'[g].codeset_cntr <= Counter(BindingOf(d))
                        /\ loaded'[g].codeset_cntr = Counter(BindingOf(d)) =>
                               loaded'[g].conv = Converter(g, BindingOf(d), asked[g])
      BY <1>1, <2>1 DEF ConverterInv
    <2>3. CASE g = f
      <3>1. d = domain
        BY <1>3, <2>3, OneDomain
      <3>2. loaded'[g] = x
        BY <1>2, <1>3, <2>2, <2>3
      <3>3. x.codeset_cntr = Counter(BindingOf(d)) /\ x.conv = Converter(f, BindingOf(d), asked[f])
        BY <1>9, <3>1 DEF Decided, binding
      <3>4. Counter(BindingOf(d)) \in Nat
        BY <1>4, CounterOf
      <3> QED BY <2>3, <3>2, <3>3, <3>4
    <2>4. CASE g # f
      <3>1. loaded'[g] = loaded[g]
        BY <1>2, <1>3, <2>2, <2>4
      <3> QED BY <1>4, <3>1 DEF ConverterInv
    <2> QED BY <2>3, <2>4
  <1>s. LoadedStay /\ loaded'[f].decided
    <2>1. loaded'[f] = x /\ x.decided /\ \A g \in Files \ {f} : loaded'[g] = loaded[g]
      BY <1>2, <1>3, <1>4, <1>9 DEF TextsInv, Decided
    <2> QED BY <1>1, <2>1 DEF LoadedStay
  <1>12. KnownInv'
    <2>1. CASE known' = known
      BY <1>1, <1>4, <1>5, <1>s, <2>1, KnownKept
    <2>2. CASE known' = Remember(Keeps(f, c))
      <3>1. /\ DOMAIN known' = DOMAIN known \cup {key} /\ known'[key] = Keeps(f, c)
            /\ \A k \in DOMAIN known \ {key} : known'[k] = known[k]
        BY <2>2 DEF Remember
      <3>2. ASSUME NEW k \in DOMAIN known'
            PROVE  /\ known'[k].counter \in 0..msg_cat_cntr
                   /\ known'[k].file \in Files /\ Variants[known'[k].file][k[1]] > 0
                   /\ loaded'[known'[k].file].decided
                   /\ known'[k].codeset \in Codesets \cup {NoCodeset}
                   /\ known'[k].counter = msg_cat_cntr =>
                          \E e \in seen : \E g : /\ g = known'[k].file /\ g = Source(k, e)
                                                 /\ known'[k].codeset \in RightCodesets(k, g)'
        <4>1. CASE k = key
          <5>1. /\ known'[k].counter = msg_cat_cntr /\ known'[k].file = f /\ known'[k].codeset = c
            BY <3>1, <4>1 DEF Keeps
          <5>2. c \in Codesets \cup {NoCodeset}
            <6>1. Converter(f, binding, asked[f]) \in Codesets \cup {NoConv}
              BY <1>9 DEF Decided, LoadedPart
            <6>2. Charset[f] \in Codesets \cup {NoCodeset}
              BY <1>3, CatalogsAssumption
            <6>3. RightCodesets(key, f)' \subseteq {Charset[f]} \cup ({Converter(f, binding, asked[f])} \ {NoConv})
              <7>1. PICK d : d = domain
                OBVIOUS
              <7>2. key[2] = d /\ BindingOf(d) = binding
                BY <7>1 DEF binding, key
              <7>3. BindingOf(d)' = binding /\ key'[2] = d
                BY <1>1, <1>7, <7>2, SameBinding
              <7> QED BY <1>1, <7>3 DEF RightCodesets
            <6> QED BY <1>9, <6>1, <6>2, <6>3
          <5>3. c \in RightCodesets(k, f)' /\ f = Source(k, now)
            BY <1>3, <1>7, <1>9, <4>1
          <5> QED BY <1>3, <1>4, <1>s, <4>1, <5>1, <5>2, <5>3
        <4>2. CASE k # key
          <5>1. k \in DOMAIN known /\ known'[k] = known[k]
            BY <3>1, <4>2
          <5>2. /\ known[k].counter \in 0..msg_cat_cntr
                /\ known[k].file \in Files /\ Variants[known[k].file][k[1]] > 0
                /\ loaded'[known[k].file].decided
                /\ known[k].codeset \in Codesets \cup {NoCodeset}
                /\ known[k].counter = msg_cat_cntr =>
                       \E e \in seen : /\ known[k].file = Source(k, e)
                                       /\ known[k].codeset \in RightCodesets(k, known[k].file)
            BY <1>4, <1>s, <5>1 DEF KnownInv, LoadedStay
          <5>3. PICK g : g = known[k].file
            OBVIOUS
          <5>4. RightCodesets(k, g) \subseteq RightCodesets(k, g)'
            BY <1>8
          <5> QED BY <5>1, <5>2, <5>3, <5>4
        <4> QED BY <4>1, <4>2
      <3>3. \A k, e : Source(k, e)' = Source(k, e)
        BY <1>1, SameSource
      <3> QED BY <1>1, <3>2, <3>3 DEF KnownInv
    <2> QED BY <1>2, <1>c, <2>1, <2>2
  <1>13. CallInv'
    <2>1. answer' = Translation(f, m, c, call.plural, call.n)
      BY <1>2, <1>c
    <2>2. answer' \in RightAnswers(now)'
      <3>1. Source(key, now)' = f /\ call' = call
        BY <1>1, <1>3, <1>7
      <3>2. Translation(f, call'.msgid, c, call'.plural, call'.n) \in RightAnswers(now)'
        BY <1>3, <1>9, <3>1 DEF RightAnswers
      <3> QED BY <1>0, <2>1, <3>1, <3>2
    <2>3. AnswersAreCurrent'
      BY <1>1, <1>3, <1>7, <2>2 DEF AnswersAreCurrent
    <2>4. answer'.variant < Variants[answer'.file][answer'.msgid]
      BY <1>3, <2>1, VariantInBounds
    <2> QED BY <1>1, <1>3, <2>3, <2>4 DEF CallInv
  <1>14. OrderInv' /\ BoundsInv'
    <2>1. ops' \in 0..MaxOps /\ ops' >= ops /\ msg_cat_cntr' \in 0..ops' /\ bindings' = bindings
      BY <1>1, <1>4
    <2> QED BY <1>5, <2>1, Unbounded
  <1>15. EnvironmentInv'
    BY <1>1 DEF Inv, EnvironmentInv, now
  <1> QED BY <1>10, <1>11, <1>12, <1>13, <1>14, <1>15 DEF Inv

-----------------------------------------------------------------------------
(* The invariant holds from the beginning, and every step keeps it.        *)

LEMMA InitInv == ASSUME Init PROVE Inv
  <1>1. /\ env \in Envs /\ cwd \in Dirs /\ bindings = << >> /\ current_domain = Messages
        /\ msg_cat_cntr = 0 /\ known = << >> /\ loaded = [f \in Files |-> Unloaded]
        /\ asked = [f \in Files |-> NoCodeset]
        /\ seen = {now} /\ ops = 0 /\ failures = 0 /\ at = "idle"
    BY DEF Init
  <1>2. OrderInv
    BY <1>1, EmptySeq DEF OrderInv, BindingsInOrder
  <1>3. BoundsInv
    BY <1>1, EnvironmentAssumption DEF BoundsInv
  <1>4. EnvironmentInv
    BY <1>1, DomainsAssumption DEF EnvironmentInv
  <1>5. Unloaded \in LoadedPart /\ Unloaded.conv_tab # NoMemory /\ ~Unloaded.decided
        /\ Unloaded.texts = NoTexts /\ \A m \in MsgIds : Unloaded.texts[m] = NoConv
    BY DEF Unloaded, LoadedPart, NoTexts, NoConv, Null, NoMemory, Allocated
  <1>6. TextsInv /\ ConverterInv
    BY <1>1, <1>5 DEF TextsInv, ConverterInv
  <1>7. KnownInv
    BY <1>1 DEF KnownInv
  <1>8. CallInv
    BY <1>1 DEF CallInv
  <1> QED BY <1>2, <1>3, <1>4, <1>6, <1>7, <1>8 DEF Inv

LEMMA AnsweringKeeps == ASSUME Inv, Answering PROVE Inv'
  BY KnownKeeps, FindBindingKeeps, SkipLocaleKeeps, StopAtCKeeps, NotInLocaleKeeps, InLocaleKeeps,
     UntranslateKeeps, ConvertKeeps, ReturnKeeps DEF Answering

LEMMA NothingKeeps == ASSUME Inv, UNCHANGED vars PROVE Inv'
  <1>1. /\ UNCHANGED <<env, cwd, seen, bindings, current_domain, msg_cat_cntr, known, loaded, asked>>
        /\ UNCHANGED <<call, dirname, locales, answer, ops, failures, at>>
    BY DEF vars, program, catalogs
  <1>2. Searching /\ ops' \in 0..MaxOps /\ ops' >= ops
    BY <1>1 DEF Searching, Inv, BoundsInv
  <1>3. CallInv'
    <2>1. /\ domain' = domain /\ categoryname' = categoryname /\ key' = key /\ now' = now
          /\ binding' = binding /\ Source(key, now)' = Source(key, now)
      BY <1>1, SameCall
    <2>2. found' = found
      BY <1>1, <2>1 DEF found
    <2>3. \A n \in Nat : Passed(n) => Passed(n)'
      BY <1>1, <2>1 DEF Passed
    <2>4. AnswersAreCurrent => AnswersAreCurrent'
      <3>1. \A e : RightAnswers(e) \subseteq RightAnswers(e)'
        BY <1>1, MoreAnswers
      <3> QED BY <1>1, <3>1 DEF AnswersAreCurrent
    <2> QED BY <1>1, <2>1, <2>2, <2>3, <2>4 DEF Inv, CallInv
  <1> QED BY <1>2, <1>3, SearchKeeps DEF Inv

LEMMA NextInv == Inv /\ [Next]_vars => Inv'
  <1> SUFFICES ASSUME Inv, [Next]_vars PROVE Inv'
    OBVIOUS
  <1>1. CASE dcigettext
    BY <1>1, DcigettextKeeps
  <1>2. CASE Answering
    BY <1>2, AnsweringKeeps
  <1>3. ASSUME NEW d \in Domains \cup {NoDomain}, TextDomain(d)
        PROVE  Inv'
    BY <1>3, TextDomainKeeps
  <1>4. ASSUME NEW d \in Domains \cup {NoDomain},
               NEW dir \in Absolute \cup Relative \cup {DefaultDir, NoDir}, BindTextDomain(d, dir)
        PROVE  Inv'
    BY <1>4, BindTextDomainKeeps
  <1>5. ASSUME NEW d \in Domains \cup {NoDomain}, NEW c \in Codesets \cup {NoCodeset},
               BindTextDomainCodeset(d, c)
        PROVE  Inv'
    BY <1>5, BindTextDomainCodesetKeeps
  <1>6. CASE Change
    BY <1>6, ChangeKeeps
  <1>7. CASE UNCHANGED vars
    BY <1>7, NothingKeeps
  <1> QED BY <1>1, <1>2, <1>3, <1>4, <1>5, <1>6, <1>7 DEF Next

LEMMA InvTypeOK == ASSUME Inv PROVE TypeOK
  <1>1. /\ OrderInv /\ BoundsInv /\ EnvironmentInv /\ TextsInv /\ KnownInv /\ CallInv
    BY DEF Inv
  <1>2. ops \in 0..MaxOps /\ msg_cat_cntr \in 0..ops /\ failures \in 0..MaxFailures
    BY <1>1 DEF BoundsInv
  <1>3. ASSUME NEW i \in DOMAIN bindings
        PROVE  /\ bindings[i].domain \in Domains
               /\ bindings[i].dirname \in Absolute \cup Relative \cup {DefaultDir}
               /\ bindings[i].codeset \in Codesets \cup {NoCodeset}
               /\ bindings[i].codeset_cntr \in 0..MaxOps
               /\ (bindings[i].codeset_cntr = 0) = (bindings[i].codeset = NoCodeset)
    <2>1. bindings[i] \in Binding
      BY <1>1, LenProperties, ElementOfSeq DEF OrderInv
    <2>2. /\ bindings[i].codeset_cntr <= ops
          /\ (bindings[i].codeset_cntr = 0) = (bindings[i].codeset = NoCodeset)
      BY <1>1 DEF BoundsInv
    <2>3. bindings[i].codeset_cntr \in Nat
      BY <2>1 DEF Binding
    <2>4. bindings[i].codeset_cntr \in 0..MaxOps
      BY <1>2, <2>2, <2>3, EnvironmentAssumption
    <2> QED BY <2>1, <2>2, <2>4 DEF Binding
  <1>4. ASSUME NEW f \in Files
        PROVE  /\ loaded[f].conv \in Codesets \cup {NoConv}
               /\ loaded[f].conv_tab \in {Null, NoMemory, Allocated}
               /\ \A m \in MsgIds : loaded[f].texts[m] \in {NoConv, loaded[f].conv}
               /\ loaded[f].conv_tab # Allocated => loaded[f].texts = NoTexts
               /\ asked[f] \in Codesets \cup {NoCodeset}
    <2>1. loaded[f] \in LoadedPart
      BY <1>1 DEF TextsInv
    <2> QED BY <1>1, <2>1 DEF TextsInv, LoadedPart
  <1>5. msg_cat_cntr \in 0..MaxOps
    BY <1>2, EnvironmentAssumption
  <1>6. env \in Envs /\ cwd \in Dirs /\ current_domain \in Domains
    BY <1>1 DEF EnvironmentInv
  <1>7. \A k \in DOMAIN known :
            /\ known[k].counter \in 0..msg_cat_cntr
            /\ known[k].file \in Files /\ Variants[known[k].file][k[1]] > 0
            /\ known[k].codeset \in Codesets \cup {NoCodeset}
    BY <1>1 DEF KnownInv
  <1>8. /\ at \in {"idle", "known", "locale", "convert", "untranslated", "answered"}
        /\ at = "answered" /\ answer.file # NoFile =>
               answer.variant < Variants[answer.file][answer.msgid]
    BY <1>1 DEF CallInv
  <1> QED BY <1>2, <1>3, <1>4, <1>5, <1>6, <1>7, <1>8 DEF TypeOK

\* The types of what the library keeps, and the bounds of its counters: the
\* counter of a binding is 0 until its codeset is set, no translation is known
\* from a later time than now, and no answer is a variant that the catalog does
\* not have (dcigettext.c:489-500, 1051-1058; bindtextdom.c:185-205).
THEOREM TypeCorrect == Spec => []TypeOK
  <1>1. Init => Inv
    BY InitInv
  <1>2. Inv => TypeOK
    BY InvTypeOK
  <1> QED BY <1>1, <1>2, NextInv, PTL DEF Spec

\* However many domains there are and whatever their order, in whichever order
\* they are bound: the list of bindings stays in the strict order of the names
\* (bindtextdom.c:298-314), so that the walks that stop at the first greater
\* name find each domain, and none is bound twice (bindtextdom.c:116-128).
THEOREM BindingsStayInOrder == Spec => []BindingsInOrder
  <1>1. Init => Inv
    BY InitInv
  <1>2. Inv => BindingsInOrder
    BY DEF Inv, OrderInv
  <1> QED BY <1>1, <1>2, NextInv, PTL DEF Spec

\* Whatever is known, loaded or converted: an answer is the translation that the
\* bindings, the default domain and an environment since the last change of these
\* ask for (dcigettext.c:489-500, 829-838, 870-1014; bindtextdom.c:334-336;
\* textdomain.c:122-132).  It is in the codeset of the binding; without one, in
\* that of OUTPUT_CHARSET at the time the catalog was loaded, and never of a
\* later one, or in the locale's (loadmsgcat.c:826-842).
THEOREM AnswersStayCurrent == Spec => []AnswersAreCurrent
  <1>1. Init => Inv
    BY InitInv
  <1>2. Inv => AnswersAreCurrent
    BY DEF Inv, CallInv, AnswersAreCurrent
  <1> QED BY <1>1, <1>2, NextInv, PTL DEF Spec
=============================================================================
