-------------------------- MODULE LocaleFilesProofs --------------------------
(***************************************************************************)
(* Theorems about the search for a catalog: the aliases (LocaleAlias), the *)
(* parts and the files of a locale name, and the list of the files that    *)
(* were ever looked for (LocaleFiles), with their proofs.                  *)
(***************************************************************************)
EXTENDS LocaleFiles, DataLemmas

-----------------------------------------------------------------------------
(* The aliases.                                                            *)

Names == DOMAIN Fold
Aliases == Names \X Names

\* What is in the table was a line of two words of a file that was opened.
AliasLines ==
    \A i \in DOMAIN map : \E k \in 1..alias_path - 1 : \E j \in DOMAIN Path[k] :
        Len(Path[k][j]) = 2 /\ Path[k][j] = map[i]

\* The table is in order whenever nothing has been added to it since it was
\* last sorted, unless memory ran out.
AliasOrder == ~torn /\ (alias_at # "read" \/ added = 0) => Sorted(map)

\* While nothing has been added, what was not found is still not there.
AliasUnknown ==
    ~torn /\ alias_at \in {"files", "read"} /\ added = 0 =>
        \A i \in DOMAIN map : Fold[map[i][1]] # Fold[name]

\* A name is looked for until there is a value for it.
AliasLooking == alias_at # "idle" => name # NoAlias /\ value = NoAlias

AliasInv ==
    /\ AliasTypeOK /\ AliasLines /\ AliasOrder
    /\ AliasUnknown /\ AliasLooking /\ AliasIsFound

LEMMA AliasStart == ASSUME AliasInit PROVE AliasInv
  <1>1. /\ map \in Seq(Aliases) /\ Len(map) = 0 /\ DOMAIN map = {}
    BY DEF AliasInit
  <1>2. Len(Path) \in Nat
    BY PathAssumption, LenProperties
  <1>3. AliasTypeOK
    <2>1. map \in Seq((DOMAIN Fold) \X (DOMAIN Fold))
      BY <1>1 DEF Aliases, Names
    <2>2. alias_path \in 1..Len(Path) + 1 /\ line \in Nat \ {0} /\ added \in 0..Len(map)
      BY <1>1, <1>2 DEF AliasInit
    <2>3. maxmap \in Nat /\ pool_max \in Nat /\ Len(map) <= maxmap /\ Len(map) <= pool_max
      BY <1>1 DEF AliasInit
    <2> QED BY <2>1, <2>2, <2>3 DEF AliasInit, AliasTypeOK
  <1>4. Sorted(map)
    BY <1>1 DEF Sorted
  <1>5. AliasLines /\ AliasOrder /\ AliasUnknown /\ AliasLooking /\ AliasIsFound
    BY <1>1, <1>4 DEF AliasInit, AliasLines, AliasOrder, AliasUnknown, AliasLooking, AliasIsFound
  <1> QED BY <1>3, <1>5 DEF AliasInv

\* A line of two words is an alias and its value.
LEMMA LineIsAlias ==
    ASSUME NEW k \in DOMAIN Path, NEW j \in DOMAIN Path[k], Len(Path[k][j]) = 2
    PROVE  Path[k][j] \in Aliases
  <1>1. Path[k] \in Seq(Seq(Names))
    BY PathAssumption, ElementOfSeq, LenProperties DEF Names
  <1>2. Path[k][j] \in Seq(Names)
    BY <1>1, ElementOfSeq, LenProperties
  <1> DEFINE w == Path[k][j]
  <1>3. w \in Seq(Names) /\ Len(w) = 2
    BY <1>2
  <1> HIDE DEF w
  <1>4. w[1] \in Names /\ w[2] \in Names /\ w = <<w[1], w[2]>>
    BY <1>3
  <1> QED BY <1>4 DEF Aliases, w

\* Sorting keeps the entries and puts them in order.
LEMMA SortedTable ==
    ASSUME NEW table \in Seq(Aliases), NEW t \in qsort(table)
    PROVE  /\ t \in Seq(Aliases) /\ Len(t) = Len(table) /\ Sorted(t)
           /\ \A i \in DOMAIN t : \E j \in DOMAIN table : t[i] = table[j]
  <1>1. PICK n \in Nat : n = Len(table) /\ DOMAIN table = 1..n
    BY LenProperties
  <1>2. PICK p \in [DOMAIN table -> DOMAIN table] :
           /\ \A i \in DOMAIN table : i > 1 =>
                 alias_compare(table[p[i - 1]][1], table[p[i]][1]) <= 0
           /\ t = [i \in DOMAIN table |-> table[p[i]]]
    BY DEF qsort
  <1>3. \A i \in 1..n : table[i] \in Aliases
    BY <1>1
  <1>4. \A i \in 1..n : p[i] \in 1..n
    BY <1>1, <1>2
  <1>5. t = [i \in 1..n |-> table[p[i]]]
    BY <1>1, <1>2
  <1>6. t \in Seq(Aliases) /\ Len(t) = n /\ DOMAIN t = 1..n
    BY <1>3, <1>4, <1>5
  <1>7. \A i \in 1..n : t[i] = table[p[i]]
    BY <1>5
  <1>8. Sorted(t)
    <2> SUFFICES ASSUME NEW i \in 2..n PROVE alias_compare(t[i - 1][1], t[i][1]) <= 0
      BY <1>6 DEF Sorted
    <2>1. i \in 1..n /\ i - 1 \in 1..n /\ i > 1
      BY <1>1
    <2> QED BY <1>1, <1>2, <1>7, <2>1
  <1> QED BY <1>1, <1>4, <1>6, <1>7, <1>8

LEMMA AliasStays == ASSUME AliasInv, UNCHANGED alias_vars PROVE AliasInv'
  <1> QED BY DEF alias_vars, room, lookup, AliasInv, AliasTypeOK, AliasLines, AliasOrder, Sorted,
               alias_compare, AliasUnknown, AliasLooking, AliasIsFound

LEMMA AliasAsked ==
    ASSUME AliasInv, NEW n \in Names, ExpandAlias(n) PROVE AliasInv'
  <1>1. NoAlias \notin Names
    BY PathAssumption DEF Names
  <1>2. /\ alias_at = "idle" /\ name' = n /\ value' = NoAlias /\ alias_at' = "search"
        /\ map' = map /\ maxmap' = maxmap /\ pool_max' = pool_max
        /\ alias_path' = alias_path /\ line' = line /\ added' = added /\ torn' = torn
    BY DEF ExpandAlias, room
  <1>3. AliasTypeOK'
    BY <1>1, <1>2 DEF AliasInv, AliasTypeOK, Names
  <1>4. AliasLines' /\ AliasOrder'
    BY <1>2 DEF AliasInv, AliasLines, AliasOrder, Sorted, alias_compare
  <1>5. AliasUnknown' /\ AliasLooking' /\ AliasIsFound'
    BY <1>1, <1>2 DEF AliasUnknown, AliasLooking, AliasIsFound
  <1> QED BY <1>3, <1>4, <1>5 DEF AliasInv

LEMMA AliasSearched == ASSUME AliasInv, Search PROVE AliasInv'
  <1>1. NoAlias \notin Names /\ Fold \in [Names -> Int]
    BY PathAssumption DEF Names
  <1>2. PICK v \in bsearch(name) : value' = v /\ alias_at' = IF v = NoAlias THEN "files" ELSE "idle"
    BY DEF Search
  <1>3. /\ alias_at = "search" /\ added' = 0 /\ map' = map /\ maxmap' = maxmap
        /\ pool_max' = pool_max /\ alias_path' = alias_path /\ line' = line
        /\ name' = name /\ torn' = torn
    BY DEF Search, room
  <1>4. name \in Names /\ name # NoAlias
    BY <1>3 DEF AliasInv, AliasTypeOK, AliasLooking, Names
  <1>5. \A i \in DOMAIN map : map[i] \in Aliases /\ map[i][1] \in Names /\ map[i][2] \in Names
    <2>1. map \in Seq(Aliases)
      BY DEF AliasInv, AliasTypeOK, Aliases, Names
    <2>2. \A i \in DOMAIN map : map[i] \in Aliases
      BY <2>1, ElementOfSeq, LenProperties
    <2> QED BY <2>2 DEF Aliases
  <1>6. Len(map) \in Nat
    BY LenProperties DEF AliasInv, AliasTypeOK
  <1>7. torn \/ Sorted(map)
    BY <1>3 DEF AliasInv, AliasOrder
  <1>8. CASE v = NoAlias
    <2>1. torn \/ \A i \in DOMAIN map : Fold[map[i][1]] # Fold[name]
      <3> SUFFICES ASSUME ~torn, NEW i \in DOMAIN map, Fold[map[i][1]] = Fold[name] PROVE FALSE
        OBVIOUS
      <3>1. alias_compare(map[i][1], name) = 0
        BY <1>1, <1>4, <1>5 DEF alias_compare
      <3>2. v \in {map[l][2] : l \in {h \in DOMAIN map : alias_compare(map[h][1], name) = 0}}
        BY <1>2, <1>7, <3>1 DEF bsearch
      <3> QED BY <1>1, <1>5, <1>8, <3>2
    <2>2. AliasTypeOK'
      BY <1>2, <1>3, <1>6, <1>8 DEF AliasInv, AliasTypeOK
    <2>3. AliasLines' /\ AliasOrder'
      BY <1>3, <1>7 DEF AliasInv, AliasLines, AliasOrder, Sorted, alias_compare
    <2>4. AliasUnknown' /\ AliasLooking' /\ AliasIsFound'
      BY <1>2, <1>3, <1>4, <1>8, <2>1 DEF AliasUnknown, AliasLooking, AliasIsFound
    <2> QED BY <2>2, <2>3, <2>4 DEF AliasInv
  <1>9. CASE v # NoAlias
    <2>1. PICK i \in DOMAIN map : alias_compare(map[i][1], name) = 0 /\ v = map[i][2]
      BY <1>2, <1>9 DEF bsearch
    <2>2. Fold[map[i][1]] = Fold[name]
      <3>1. Fold[map[i][1]] \in Int /\ Fold[name] \in Int
        BY <1>1, <1>4, <1>5
      <3> QED BY <2>1, <3>1 DEF alias_compare
    <2>3. PICK k \in 1..alias_path - 1 : \E j \in DOMAIN Path[k] :
              Len(Path[k][j]) = 2 /\ Path[k][j] = map[i]
      BY DEF AliasInv, AliasLines
    <2>4. PICK j \in DOMAIN Path[k] : Len(Path[k][j]) = 2 /\ Path[k][j] = map[i]
      BY <2>3
    <2>5. AliasTypeOK'
      BY <1>2, <1>3, <1>5, <1>6, <1>9, <2>1 DEF AliasInv, AliasTypeOK, Names
    <2>6. AliasLines' /\ AliasOrder'
      BY <1>3, <1>7 DEF AliasInv, AliasLines, AliasOrder, Sorted, alias_compare
    <2>7. AliasUnknown' /\ AliasLooking'
      BY <1>2, <1>9 DEF AliasUnknown, AliasLooking
    <2>8. AliasIsFound'
      <3>1. /\ alias_path' = alias_path /\ value' = v /\ name' = name /\ v # NoAlias
            /\ Fold[Path[k][j][1]] = Fold[name] /\ Path[k][j][2] = v
        BY <1>2, <1>3, <1>9, <2>1, <2>2, <2>4
      <3> QED BY <2>4, <3>1 DEF AliasIsFound
    <2> QED BY <2>5, <2>6, <2>7, <2>8 DEF AliasInv
  <1> QED BY <1>8, <1>9

LEMMA AliasFileOpened == ASSUME AliasInv, OpenFile PROVE AliasInv'
  <1>1. /\ alias_at = "files" /\ added = 0 /\ alias_path <= Len(Path)
        /\ alias_path' = alias_path + 1 /\ line' = 1 /\ alias_at' = "read"
        /\ map' = map /\ maxmap' = maxmap /\ pool_max' = pool_max
        /\ added' = added /\ name' = name /\ value' = value /\ torn' = torn
    BY DEF OpenFile, room, lookup
  <1>2. Len(Path) \in Nat /\ alias_path \in 1..Len(Path) + 1 /\ Len(map) \in Nat
    BY PathAssumption, LenProperties DEF AliasInv, AliasTypeOK
  <1>3. AliasTypeOK'
    BY <1>1, <1>2 DEF AliasInv, AliasTypeOK
  <1>4. \A k \in 1..alias_path - 1 : k \in 1..alias_path' - 1
    BY <1>1, <1>2
  <1>5. AliasLines'
    BY <1>1, <1>4 DEF AliasInv, AliasLines
  <1>6. AliasOrder'
    BY <1>1 DEF AliasInv, AliasOrder, Sorted, alias_compare
  <1>7. AliasUnknown' /\ AliasLooking' /\ AliasIsFound'
    BY <1>1 DEF AliasInv, AliasUnknown, AliasLooking, AliasIsFound
  <1> QED BY <1>3, <1>5, <1>6, <1>7 DEF AliasInv

LEMMA AliasFilesDone == ASSUME AliasInv, FilesDone PROVE AliasInv'
  <1>1. /\ alias_at = "files" /\ (added # 0 \/ alias_path > Len(Path))
        /\ alias_at' = IF added # 0 THEN "search" ELSE "idle"
        /\ alias_path' = alias_path /\ line' = line
        /\ map' = map /\ maxmap' = maxmap /\ pool_max' = pool_max
        /\ added' = added /\ name' = name /\ value' = value /\ torn' = torn
    BY DEF FilesDone, room, lookup
  <1>2. AliasTypeOK'
    BY <1>1 DEF AliasInv, AliasTypeOK
  <1>3. AliasLines' /\ AliasOrder'
    BY <1>1 DEF AliasInv, AliasLines, AliasOrder, Sorted, alias_compare
  <1>4. AliasUnknown' /\ AliasLooking'
    BY <1>1 DEF AliasInv, AliasUnknown, AliasLooking
  <1>5. AliasIsFound'
    BY <1>1 DEF AliasInv, AliasUnknown, AliasLooking, AliasIsFound
  <1> QED BY <1>2, <1>3, <1>4, <1>5 DEF AliasInv

\* The size of the table when there is one entry more in it.
LEMMA TableGrows ==
    ASSUME NEW n \in Nat, NEW max \in Nat, n <= max
    PROVE  LET new == IF n < max THEN max ELSE NewSize(max) IN new \in Nat /\ n + 1 <= new
  BY StepsAssumption DEF NewSize

LEMMA PoolGrows ==
    ASSUME NEW n \in Nat, NEW max \in Nat, n <= max
    PROVE  LET new == IF n < max THEN max ELSE max + PoolStep IN new \in Nat /\ n + 1 <= new
  BY StepsAssumption

\* The file that is open is one of the path.
LEMMA OpenIsOfPath ==
    ASSUME AliasTypeOK, alias_at = "read"
    PROVE  alias_path - 1 \in DOMAIN Path /\ Len(file) \in Nat /\ DOMAIN file = 1..Len(file)
  <1>1. Len(Path) \in Nat /\ DOMAIN Path = 1..Len(Path)
    BY PathAssumption, LenProperties
  <1>2. alias_path \in 1..Len(Path) + 1 /\ alias_path > 1
    BY DEF AliasTypeOK
  <1>3. alias_path - 1 \in DOMAIN Path
    BY <1>1, <1>2
  <1>4. file \in Seq(Seq(Names))
    BY <1>1, <1>3, PathAssumption, ElementOfSeq DEF file, Names
  <1> QED BY <1>3, <1>4, LenProperties

LEMMA AliasLineRead == ASSUME AliasInv, ReadLine PROVE AliasInv'
  <1>1. /\ alias_at = "read" /\ line <= Len(file)
        /\ line' = line + 1 + Rest(file[line])
        /\ alias_path' = alias_path /\ name' = name /\ value' = value /\ torn' = torn
        /\ alias_at' = alias_at
    BY DEF ReadLine, lookup
  <1>2. /\ alias_path - 1 \in DOMAIN Path /\ Len(file) \in Nat /\ DOMAIN file = 1..Len(file)
        /\ line \in DOMAIN file
    <2>1. line \in Nat \ {0}
      BY DEF AliasInv, AliasTypeOK
    <2> QED BY <1>1, <2>1, OpenIsOfPath DEF AliasInv
  <1>3. line' \in Nat \ {0}
    BY <1>1, <1>2 DEF AliasInv, AliasTypeOK, Rest
  <1>4. map \in Seq(Aliases) /\ Len(map) \in Nat /\ DOMAIN map = 1..Len(map) /\ added \in 0..Len(map)
    BY LenProperties DEF AliasInv, AliasTypeOK, Aliases, Names
  <1>5. CASE Len(file[line]) # 2
    <2>1. map' = map /\ maxmap' = maxmap /\ pool_max' = pool_max /\ added' = added
      BY <1>5 DEF ReadLine, room
    <2>2. AliasTypeOK'
      BY <1>1, <1>3, <2>1 DEF AliasInv, AliasTypeOK
    <2>3. AliasLines' /\ AliasOrder'
      BY <1>1, <2>1 DEF AliasInv, AliasLines, AliasOrder, Sorted, alias_compare
    <2>4. AliasUnknown' /\ AliasLooking' /\ AliasIsFound'
      BY <1>1, <2>1 DEF AliasInv, AliasUnknown, AliasLooking, AliasIsFound
    <2> QED BY <2>2, <2>3, <2>4 DEF AliasInv
  <1>6. CASE Len(file[line]) = 2
    <2>1. /\ map' = Append(map, file[line])
          /\ maxmap' = IF Len(map) < maxmap THEN maxmap ELSE NewSize(maxmap)
          /\ pool_max' = IF Len(map) < pool_max THEN pool_max ELSE pool_max + PoolStep
          /\ added' = added + 1
      BY <1>6 DEF ReadLine
    <2>2. file[line] \in Aliases
      BY <1>2, <1>6, LineIsAlias DEF file
    <2>3. PICK w : w = file[line]
      OBVIOUS
    <2>4. /\ map' \in Seq(Aliases) /\ Len(map') = Len(map) + 1 /\ DOMAIN map' = 1..(Len(map) + 1)
          /\ \A i \in 1..Len(map) : map'[i] = map[i]
          /\ map'[Len(map) + 1] = w
      BY <1>4, <2>1, <2>2, <2>3
    <2>5. maxmap' \in Nat /\ Len(map) + 1 <= maxmap' /\ pool_max' \in Nat /\ Len(map) + 1 <= pool_max'
      BY <1>4, <2>1, TableGrows, PoolGrows DEF AliasInv, AliasTypeOK
    <2>6. added' \in 0..Len(map') /\ added' # 0
      BY <1>4, <2>1, <2>4
    <2>7. AliasTypeOK'
      BY <1>1, <1>3, <2>4, <2>5, <2>6 DEF AliasInv, AliasTypeOK, Aliases, Names
    <2>8. AliasLines'
      <3> SUFFICES ASSUME NEW i \in DOMAIN map'
                   PROVE  \E k \in 1..alias_path - 1 : \E j \in DOMAIN Path[k] :
                              Len(Path[k][j]) = 2 /\ Path[k][j] = map'[i]
        BY <1>1 DEF AliasLines
      <3>1. CASE i \in 1..Len(map)
        BY <1>4, <2>4, <3>1 DEF AliasInv, AliasLines
      <3>2. CASE i = Len(map) + 1
        <4>1. alias_path - 1 \in 1..alias_path - 1
          BY <1>1 DEF AliasInv, AliasTypeOK
        <4> QED BY <1>2, <1>6, <2>3, <2>4, <3>2, <4>1 DEF file
      <3> QED BY <1>4, <2>4, <3>1, <3>2
    <2>9. AliasOrder' /\ AliasUnknown' /\ AliasLooking' /\ AliasIsFound'
      BY <1>1, <2>6 DEF AliasInv, AliasOrder, AliasUnknown, AliasLooking, AliasIsFound
    <2> QED BY <2>7, <2>8, <2>9 DEF AliasInv
  <1> QED BY <1>5, <1>6

LEMMA AliasLineLost == ASSUME AliasInv, NoMemoryForLine PROVE AliasInv'
  <1>1. /\ alias_at = "read" /\ torn' = TRUE /\ alias_at' = "files"
        /\ map' = map /\ pool_max' = pool_max /\ alias_path' = alias_path /\ line' = line
        /\ added' = added /\ name' = name /\ value' = value
        /\ maxmap' = maxmap \/ maxmap' = IF Len(map) < maxmap THEN maxmap ELSE NewSize(maxmap)
    BY DEF NoMemoryForLine, lookup
  <1>2. maxmap' \in Nat /\ Len(map) <= maxmap'
    <2>1. Len(map) \in Nat /\ maxmap \in Nat /\ Len(map) <= maxmap
      BY LenProperties DEF AliasInv, AliasTypeOK
    <2> QED BY <1>1, <2>1, TableGrows
  <1>3. AliasTypeOK'
    BY <1>1, <1>2 DEF AliasInv, AliasTypeOK
  <1>4. AliasLines'
    BY <1>1 DEF AliasInv, AliasLines
  <1>5. AliasOrder' /\ AliasUnknown' /\ AliasLooking' /\ AliasIsFound'
    BY <1>1 DEF AliasInv, AliasOrder, AliasUnknown, AliasLooking, AliasIsFound
  <1> QED BY <1>3, <1>4, <1>5 DEF AliasInv

LEMMA AliasFileEnds == ASSUME AliasInv, EndOfFile PROVE AliasInv'
  <1>1. /\ alias_at = "read" /\ alias_at' = "files"
        /\ map' \in IF added > 0 THEN qsort(map) ELSE {map}
        /\ maxmap' = maxmap /\ pool_max' = pool_max /\ alias_path' = alias_path /\ line' = line
        /\ added' = added /\ name' = name /\ value' = value /\ torn' = torn
    BY DEF EndOfFile, room, lookup
  <1>2. map \in Seq(Aliases) /\ added \in Nat
    BY LenProperties DEF AliasInv, AliasTypeOK, Aliases, Names
  <1>3. /\ map' \in Seq(Aliases) /\ Len(map') = Len(map)
        /\ \A i \in DOMAIN map' : \E j \in DOMAIN map : map'[i] = map[j]
        /\ added > 0 => Sorted(map')
    <2>1. CASE added > 0
      <3>1. PICK t : t = map'
        OBVIOUS
      <3>2. t \in qsort(map)
        BY <1>1, <2>1, <3>1
      <3>3. /\ t \in Seq(Aliases) /\ Len(t) = Len(map) /\ Sorted(t)
            /\ \A i \in DOMAIN t : \E j \in DOMAIN map : t[i] = map[j]
        BY <1>2, <3>2, SortedTable
      <3> QED BY <3>1, <3>3
    <2>2. CASE ~(added > 0)
      BY <1>1, <1>2, <2>2
    <2> QED BY <2>1, <2>2
  <1>4. AliasTypeOK'
    BY <1>1, <1>3 DEF AliasInv, AliasTypeOK, Aliases, Names
  <1>5. AliasLines'
    <2>1. \A i \in DOMAIN map' : \E k \in 1..alias_path - 1 : \E j \in DOMAIN Path[k] :
              Len(Path[k][j]) = 2 /\ Path[k][j] = map'[i]
      BY <1>3 DEF AliasInv, AliasLines
    <2> QED BY <1>1, <2>1 DEF AliasLines
  <1>6. AliasOrder'
    <2>1. CASE added > 0
      BY <1>3, <2>1 DEF AliasOrder, Sorted, alias_compare
    <2>2. CASE added = 0
      BY <1>1, <2>2 DEF AliasInv, AliasOrder, Sorted, alias_compare
    <2> QED BY <1>2, <2>1, <2>2
  <1>7. AliasUnknown'
    <2>1. CASE added > 0
      BY <1>1, <1>2, <2>1 DEF AliasUnknown
    <2>2. CASE added = 0
      BY <1>1, <2>2 DEF AliasInv, AliasUnknown
    <2> QED BY <1>2, <2>1, <2>2
  <1>8. AliasLooking' /\ AliasIsFound'
    BY <1>1 DEF AliasInv, AliasLooking, AliasIsFound
  <1> QED BY <1>4, <1>5, <1>6, <1>7, <1>8 DEF AliasInv

LEMMA AliasStep == ASSUME AliasInv, AliasNext PROVE AliasInv'
  BY AliasSearched, AliasFileOpened, AliasFilesDone, AliasLineRead, AliasLineLost, AliasFileEnds
     DEF AliasNext

-----------------------------------------------------------------------------
(* The names of the files.                                                 *)

Tokens == DOMAIN Rank
Text == Seq(Tokens)
Bit == DOMAIN Weight

LocaleName ==
    [mask : SUBSET Bit, language : Text, territory : Text, codeset : Text,
     normalized_codeset : Text, modifier : Text, special : Text, sponsor : Text, revision : Text]

LEMMA LeastOf ==
    ASSUME NEW S \in SUBSET Nat, S # {}
    PROVE  Min(S) \in S /\ \A k \in S : Min(S) <= k
  <1>1. PICK n \in S : \A k \in S : n <= k
    BY LeastNumber
  <1> QED BY <1>1 DEF Min

\* A piece of a text from its first token, and from the tokens after it.
LEMMA Cut ==
    ASSUME NEW n \in Text, NEW i \in 1..Len(n) + 1
    PROVE  /\ SubSeq(n, 1, i - 1) \in Text /\ Len(SubSeq(n, 1, i - 1)) = i - 1
           /\ SubSeq(n, i, Len(n)) \in Text
  <1>1. Len(n) \in Nat
    BY LenProperties
  <1>2. 1 \in 1..Len(n) + 1 /\ i - 1 \in 1 - 1..Len(n) /\ Len(n) \in i - 1..Len(n)
    BY <1>1
  <1>3. SubSeq(n, 1, i - 1) \in Text /\ Len(SubSeq(n, 1, i - 1)) = (i - 1) - 1 + 1
    BY <1>2, SubSeqProperties DEF Text
  <1>4. SubSeq(n, i, Len(n)) \in Text
    BY <1>2, SubSeqProperties DEF Text
  <1>5. (i - 1) - 1 + 1 = i - 1
    BY <1>1
  <1> QED BY <1>3, <1>4, <1>5

LEMMA UpToIsText ==
    ASSUME NEW n \in Text, NEW separators
    PROVE  UpTo(n, separators) \in Text /\ Len(UpTo(n, separators)) \in 0..Len(n)
  <1> DEFINE ends == {j \in DOMAIN n : n[j] \in separators}
  <1>1. Len(n) \in Nat /\ DOMAIN n = 1..Len(n)
    BY LenProperties DEF Text
  <1>2. CASE ends = {}
    <2>1. UpTo(n, separators) = n
      BY <1>2 DEF UpTo
    <2> QED BY <1>1, <2>1
  <1>3. CASE ends # {}
    <2>1. Min(ends) \in ends
      <3>1. ends \in SUBSET Nat
        BY <1>1
      <3> QED BY <1>3, <3>1, LeastOf
    <2>2. PICK i \in 1..Len(n) + 1 : i = Min(ends)
      <3>1. PICK m : m = Min(ends)
        OBVIOUS
      <3>2. m \in ends
        BY <2>1, <3>1
      <3>3. m \in 1..Len(n)
        BY <1>1, <3>2
      <3>4. m \in 1..Len(n) + 1
        BY <1>1, <3>3
      <3> QED BY <3>1, <3>4
    <2>3. UpTo(n, separators) = SubSeq(n, 1, i - 1)
      BY <1>3, <2>2 DEF UpTo
    <2>4. SubSeq(n, 1, i - 1) \in Text /\ Len(SubSeq(n, 1, i - 1)) = i - 1
      BY Cut
    <2>5. i - 1 \in 0..Len(n)
      BY <1>1
    <2> QED BY <2>3, <2>4, <2>5
  <1> QED BY <1>2, <1>3

LEMMA NormalIsText ==
    ASSUME NEW codeset \in Text PROVE _nl_normalize_codeset(codeset) \in Text
  <1> DEFINE pieces == [i \in DOMAIN codeset |->
                           IF codeset[i] \in Alphas \cup Digits THEN <<codeset[i]>> ELSE << >>]
             kept == FlattenSeq(pieces)
             small == [i \in DOMAIN kept |-> IF kept[i] \in Alphas THEN Lower[kept[i]] ELSE kept[i]]
  <1>1. kept \in Seq(Tokens)
    <2>1. PICK n \in Nat : n = Len(codeset) /\ DOMAIN codeset = 1..n
      BY LenProperties DEF Text
    <2>2. \A i \in 1..n : codeset[i] \in Tokens
      BY <2>1 DEF Text
    <2>3. \A i \in 1..n : <<codeset[i]>> \in Seq(Tokens) /\ << >> \in Seq(Tokens)
      BY <2>2
    <2>4. pieces \in [1..n -> Seq(Tokens)]
      BY <2>1, <2>3
    <2> HIDE DEF pieces
    <2>5. pieces \in Seq(Seq(Tokens))
      BY <2>4
    <2> QED BY <2>5, FlattenType
  <1> HIDE DEF kept
  <1>2. small \in Seq(Tokens)
    <2>1. PICK n \in Nat : n = Len(kept) /\ DOMAIN kept = 1..n
      BY <1>1, LenProperties
    <2>2. \A i \in 1..n : kept[i] \in Tokens
      BY <1>1, <2>1
    <2>3. \A c \in Alphas : Lower[c] \in Tokens
      BY NamesAssumption DEF Tokens
    <2>4. small \in [1..n -> Tokens]
      BY <2>1, <2>2, <2>3
    <2> HIDE DEF small
    <2> QED BY <2>4
  <1>3. <<"iso">> \o small \in Seq(Tokens)
    <2>1. "iso" \in Tokens
      BY NamesAssumption DEF Tokens
    <2>2. <<"iso">> \in Seq(Tokens)
      BY <2>1
    <2> HIDE DEF small
    <2> QED BY <1>2, <2>2, ConcatProperties
  <1>4. _nl_normalize_codeset(codeset) = IF \E i \in DOMAIN kept : kept[i] \in Alphas
                                         THEN small ELSE <<"iso">> \o small
    BY DEF _nl_normalize_codeset, kept, pieces
  <1> HIDE DEF small
  <1> QED BY <1>2, <1>3, <1>4 DEF Text

\* What is known of a name while it is taken apart.
Exploding == [name : LocaleName, rest : Text, xpg : BOOLEAN]

Fields == {"territory", "codeset", "modifier", "special", "sponsor", "revision"}

LEMMA PartsType ==
    /\ Len(Parts) = 7 /\ DOMAIN Parts = 1..7
    /\ \A k \in 1..7 : /\ Parts[k].field \in Fields /\ Parts[k].bits \in SUBSET Bit
                       /\ Parts[k].xpg \in BOOLEAN
  <1>1. Len(Parts) = 7 /\ DOMAIN Parts = 1..7
    BY DEF Parts
  <1> DEFINE Typed(p) == p.field \in Fields /\ p.bits \in SUBSET Bit /\ p.xpg \in BOOLEAN
  <1>2. /\ Typed(Parts[1]) /\ Typed(Parts[2]) /\ Typed(Parts[3]) /\ Typed(Parts[4])
        /\ Typed(Parts[5]) /\ Typed(Parts[6]) /\ Typed(Parts[7])
    BY DEF Parts, Part, Fields, Bit, Weight
  <1> HIDE DEF Typed
  <1>3. \A k \in 1..7 : Typed(Parts[k])
    <2>1. \A k \in 1..7 : k = 1 \/ k = 2 \/ k = 3 \/ k = 4 \/ k = 5 \/ k = 6 \/ k = 7
      OBVIOUS
    <2> QED BY <1>2, <2>1
  <1> QED BY <1>1, <1>3 DEF Typed

LEMMA NameField ==
    ASSUME NEW x \in LocaleName, NEW f \in Fields, NEW text \in Text, NEW bits \in SUBSET Bit
    PROVE  [x EXCEPT ![f] = text, !.mask = @ \cup bits] \in LocaleName
  <1>1. CASE f = "territory" BY <1>1 DEF LocaleName
  <1>2. CASE f = "codeset" BY <1>2 DEF LocaleName
  <1>3. CASE f = "modifier" BY <1>3 DEF LocaleName
  <1>4. CASE f = "special" BY <1>4 DEF LocaleName
  <1>5. CASE f = "sponsor" BY <1>5 DEF LocaleName
  <1>6. CASE f = "revision" BY <1>6 DEF LocaleName
  <1> QED BY <1>1, <1>2, <1>3, <1>4, <1>5, <1>6 DEF Fields

LEMMA PartTaken ==
    ASSUME NEW x \in Exploding, NEW k \in 1..7
    PROVE  TakePart(x, Parts[k]) \in Exploding
  <1> DEFINE p    == Parts[k]
             text == UpTo(Tail(x.rest), p.ends)
  <1>1. p.field \in Fields /\ p.bits \in SUBSET Bit /\ p.xpg \in BOOLEAN
    BY PartsType
  <1> HIDE DEF p
  <1>2. x.name \in LocaleName /\ x.rest \in Text /\ x.xpg \in BOOLEAN
    BY DEF Exploding
  <1>3. CASE x.rest = << >> \/ p.begin # x.rest[1]
    <2>1. TakePart(x, p) = x
      BY <1>3 DEF TakePart
    <2> QED BY <2>1 DEF p
  <1>4. CASE ~(x.rest = << >> \/ p.begin # x.rest[1])
    <2>1. Tail(x.rest) \in Text /\ Len(x.rest) \in Nat \ {0} /\ Len(Tail(x.rest)) = Len(x.rest) - 1
      BY <1>2, <1>4 DEF Text
    <2>2. text \in Text /\ Len(text) \in 0..Len(x.rest) - 1
      BY <2>1, UpToIsText
    <2>3. Len(text) + 2 \in 1..Len(x.rest) + 1
      BY <2>1, <2>2
    <2>4. SubSeq(x.rest, Len(text) + 2, Len(x.rest)) \in Text
      <3>1. PICK i \in 1..Len(x.rest) + 1 : i = Len(text) + 2
        BY <2>3
      <3> QED BY <1>2, <3>1, Cut
    <2>5. TakePart(x, p) =
            [name |-> [x.name EXCEPT ![p.field] = text, !.mask = @ \cup p.bits],
             rest |-> SubSeq(x.rest, Len(text) + 2, Len(x.rest)),
             xpg  |-> x.xpg \/ p.xpg]
      BY <1>4 DEF TakePart
    <2> HIDE DEF text
    <2>6. [x.name EXCEPT ![p.field] = text, !.mask = @ \cup p.bits] \in LocaleName
      BY <1>1, <1>2, <2>2, NameField
    <2>7. (x.xpg \/ p.xpg) \in BOOLEAN
      BY <1>1, <1>2
    <2>8. TakePart(x, p) \in Exploding
      <3>1. PICK a \in LocaleName : a = [x.name EXCEPT ![p.field] = text, !.mask = @ \cup p.bits]
        BY <2>6
      <3>2. PICK r \in Text : r = SubSeq(x.rest, Len(text) + 2, Len(x.rest))
        BY <2>4
      <3>3. PICK g \in BOOLEAN : g = (x.xpg \/ p.xpg)
        BY <2>7
      <3>4. TakePart(x, p) = [name |-> a, rest |-> r, xpg |-> g]
        BY <2>5, <3>1, <3>2, <3>3
      <3> QED BY <3>4 DEF Exploding
    <2> QED BY <2>8 DEF p
  <1> QED BY <1>3, <1>4

\* All the parts, one after the other.
LEMMA PartsTaken ==
    ASSUME NEW base \in Exploding
    PROVE  FoldLeft(TakePart, base, Parts) \in Exploding
  <1> DEFINE n == 7
             A == Exploding
             Rec(g) == g = [t \in SUBSET (1..n) |->
                               IF t = {} THEN base ELSE TakePart(g[t \ {Max(t)}], Parts[Max(t)])]
  <1>1. base \in A /\ \A r \in A, k \in 1..n : TakePart(r, Parts[k]) \in A
    BY PartTaken
  <1> HIDE DEF A
  <1>2. n \in Nat
    OBVIOUS
  <1> HIDE DEF n
  <1>3. \E g : Rec(g)
    <2> DEFINE h == [q \in A \X (1..n) |-> TakePart(q[1], Parts[q[2]])]
    <2>1. h \in [A \X (1..n) -> A]
      BY <1>1
    <2>2. \A r \in A, k \in 1..n : h[<<r, k>>] = TakePart(r, Parts[k])
      OBVIOUS
    <2> HIDE DEF h
    <2>3. PICK g : Folds(A, n, base, h, g)
      BY <1>1, <1>2, <2>1, FoldExists
    <2>4. /\ g \in [SUBSET (1..n) -> A]
          /\ \A t \in SUBSET (1..n) :
                 g[t] = IF t = {} THEN base ELSE h[<<g[t \ {Max(t)}], Max(t)>>]
      BY <2>3 DEF Folds
    <2>5. ASSUME NEW t \in SUBSET (1..n), t # {}
          PROVE  g[t] = TakePart(g[t \ {Max(t)}], Parts[Max(t)])
      <3>1. Max(t) \in 1..n
        BY <1>2, <2>5, GreatestNumber
      <3>2. g[t \ {Max(t)}] \in A
        BY <2>4
      <3> QED BY <2>2, <2>4, <2>5, <3>1, <3>2
    <2>6. \A t \in SUBSET (1..n) :
              g[t] = IF t = {} THEN base ELSE TakePart(g[t \ {Max(t)}], Parts[Max(t)])
      BY <2>4, <2>5
    <2>7. g = [t \in SUBSET (1..n) |-> g[t]]
      BY <2>4
    <2>8. Rec(g)
      BY <2>6, <2>7, Zenon
    <2> HIDE DEF Rec
    <2> QED BY <2>8
  <1> DEFINE g == CHOOSE g : Rec(g)
  <1>4. Rec(g)
    BY <1>3
  <1>5. FoldLeft(TakePart, base, Parts) = g[1..n]
    <2>1. DOMAIN Parts = 1..n
      BY PartsType DEF n
    <2> QED BY <2>1, Zenon DEF FoldLeft, MapThenFoldSet, Max
  <1> HIDE DEF g
  <1>6. \A t \in SUBSET (1..n) :
            g[t] = IF t = {} THEN base ELSE TakePart(g[t \ {Max(t)}], Parts[Max(t)])
    BY <1>4, Zenon
  <1> HIDE DEF Rec
  <1> DEFINE T == {k \in Nat : k <= n => g[1..k] \in A}
  <1>7. 0 \in T
    <2>1. {} \in SUBSET (1..n) /\ 1..0 = {}
      OBVIOUS
    <2>2. g[1..0] = base
      BY <1>6, <2>1
    <2> QED BY <1>1, <2>2
  <1>8. ASSUME NEW k \in Nat, k >= 0, k \in T PROVE k + 1 \in T
    <2> SUFFICES ASSUME k + 1 <= n PROVE g[1..(k + 1)] \in A
      OBVIOUS
    <2>1. g[1..k] \in A
      BY <1>2, <1>8
    <2>2. PICK m \in 1..n : m = k + 1
      BY <1>2
    <2>3. /\ 1..m \in SUBSET (1..n) /\ 1..m # {}
          /\ Max(1..m) = m /\ (1..m) \ {m} = 1..(m - 1)
      BY <1>2, MaxOfFirst
    <2>4. m - 1 = k
      BY <2>2
    <2>5. g[1..m] = TakePart(g[1..k], Parts[m])
      BY <1>6, <2>3, <2>4
    <2> QED BY <1>1, <2>1, <2>2, <2>5
  <1> HIDE DEF T
  <1>9. n \in T
    BY <1>2, <1>7, <1>8, SetInduction
  <1> QED BY <1>5, <1>9 DEF T, A

LEMMA WholeType ==
    ASSUME NEW n \in Text PROVE Whole(n) \in LocaleName
  <1>1. << >> \in Text /\ {} \in SUBSET Bit
    BY DEF Text
  <1> QED BY <1>1 DEF Whole, LocaleName

LEMMA ExplodedType ==
    ASSUME NEW n \in Text PROVE _nl_explode_name(n) \in LocaleName
  <1> DEFINE first    == _nl_find_language(n)
             language == IF first = << >> THEN n ELSE first
             rest     == SubSeq(n, Len(language) + 1, Len(n))
             base     == [name |-> Whole(language), rest |-> rest, xpg |-> FALSE]
             x        == FoldLeft(TakePart, base, Parts)
             name_    == [x.name EXCEPT !.mask = @ \ Empty(x)]
  <1>1. language \in Text /\ Len(language) \in 0..Len(n)
    <2>1. first \in Text /\ Len(first) \in 0..Len(n)
      BY UpToIsText DEF _nl_find_language
    <2>2. Len(n) \in 0..Len(n)
      BY LenProperties DEF Text
    <2> HIDE DEF first
    <2> QED BY <2>1, <2>2
  <1> HIDE DEF language, first
  <1>2. rest \in Text
    <2>1. Len(n) \in Nat
      BY LenProperties DEF Text
    <2>2. PICK i \in 1..Len(n) + 1 : i = Len(language) + 1
      BY <1>1, <2>1
    <2> QED BY <2>2, Cut
  <1>3. base \in Exploding
    BY <1>1, <1>2, WholeType DEF Exploding
  <1> HIDE DEF base
  <1>4. x \in Exploding
    BY <1>3, PartsTaken
  <1>5. _nl_explode_name(n) = Normalized(name_)
    BY DEF _nl_explode_name, base, language, first
  <1> HIDE DEF x
  <1>6. x.name \in LocaleName
    BY <1>4 DEF Exploding
  <1>7. name_ \in LocaleName
    <2>1. PICK a \in LocaleName : a = x.name
      BY <1>6
    <2>2. [a EXCEPT !.mask = @ \ Empty(x)] \in LocaleName
      BY DEF LocaleName
    <2> QED BY <2>1, <2>2
  <1> HIDE DEF name_
  <1>8. name_.codeset \in Text
    BY <1>7 DEF LocaleName
  <1>9. PICK normal \in Text : normal = _nl_normalize_codeset(name_.codeset)
    BY <1>8, NormalIsText
  <1>10. PICK bits \in SUBSET Bit :
             bits = IF name_.codeset \in {<< >>, normal} THEN {} ELSE {"XPG_NORM_CODESET"}
    BY DEF Bit, Weight
  <1>11. Normalized(name_) = [name_ EXCEPT !.normalized_codeset = normal, !.mask = @ \cup bits]
    BY <1>9, <1>10 DEF Normalized
  <1>12. Normalized(name_) \in LocaleName
    BY <1>7, <1>11 DEF LocaleName
  <1> QED BY <1>5, <1>12

\* The parts of a name put together again are a text that is not empty.
LEMMA FileNameIsText ==
    ASSUME NEW x \in LocaleName, NEW mask
    PROVE  abs_filename(x, mask) \in Text /\ abs_filename(x, mask) # << >>
  <1> DEFINE dir == IF x.language # << >> /\ x.language[1] = "/" THEN << >> ELSE <<"dir", "/">>
             territory  == IF "TERRITORY" \in mask THEN <<"_">> \o x.territory ELSE << >>
             codeset    == IF "XPG_CODESET" \in mask THEN <<".">> \o x.codeset ELSE << >>
             normalized == IF "XPG_NORM_CODESET" \in mask THEN <<".">> \o x.normalized_codeset ELSE << >>
             modifier   == IF "CEN_AUDIENCE" \in mask THEN <<"+">> \o x.modifier
                           ELSE IF "XPG_MODIFIER" \in mask THEN <<"@">> \o x.modifier ELSE << >>
             special    == IF "CEN_SPECIAL" \in mask THEN <<"+">> \o x.special ELSE << >>
             comma      == IF mask \cap {"CEN_SPONSOR", "CEN_REVISION"} # {} THEN <<",">> ELSE << >>
             sponsor    == IF "CEN_SPONSOR" \in mask THEN x.sponsor ELSE << >>
             revision   == IF "CEN_REVISION" \in mask THEN <<"_">> \o x.revision ELSE << >>
  <1>1. /\ <<"_">> \in Text /\ <<".">> \in Text /\ <<"+">> \in Text /\ <<"@">> \in Text
        /\ <<",">> \in Text /\ <<"dir", "/">> \in Text /\ <<"/", "end">> \in Text /\ << >> \in Text
    <2>1. {"/", "_", ".", "@", "+", ",", "iso", "dir", "end"} \subseteq Tokens
      BY NamesAssumption DEF Tokens
    <2>2. \A t, u \in Tokens : <<t>> \in Text /\ <<t, u>> \in Text
      BY DEF Text
    <2>3. << >> \in Text
      BY DEF Text
    <2> QED BY <2>1, <2>2, <2>3
  <1>2. /\ x.language \in Text /\ x.territory \in Text /\ x.codeset \in Text
        /\ x.normalized_codeset \in Text /\ x.modifier \in Text /\ x.special \in Text
        /\ x.sponsor \in Text /\ x.revision \in Text
    BY DEF LocaleName
  <1>3. \A s, t \in Text : s \o t \in Text
    BY ConcatProperties DEF Text
  <1>4. /\ dir \in Text /\ territory \in Text /\ codeset \in Text /\ normalized \in Text
        /\ modifier \in Text /\ special \in Text /\ comma \in Text /\ sponsor \in Text
        /\ revision \in Text
    BY <1>1, <1>2, <1>3, Zenon
  <1>5. abs_filename(x, mask) =
          dir \o x.language \o territory \o codeset \o normalized \o modifier \o special
          \o comma \o sponsor \o revision \o <<"/", "end">>
    BY Zenon DEF abs_filename
  <1> HIDE DEF dir, territory, codeset, normalized, modifier, special, comma, sponsor, revision
  <1>6. PICK s \in Text : abs_filename(x, mask) = s \o <<"/", "end">>
    <2>1. dir \o x.language \in Text
      BY <1>2, <1>3, <1>4
    <2>2. dir \o x.language \o territory \in Text
      BY <1>3, <1>4, <2>1
    <2>3. dir \o x.language \o territory \o codeset \in Text
      BY <1>3, <1>4, <2>2
    <2>4. dir \o x.language \o territory \o codeset \o normalized \in Text
      BY <1>3, <1>4, <2>3
    <2>5. dir \o x.language \o territory \o codeset \o normalized \o modifier \in Text
      BY <1>3, <1>4, <2>4
    <2>6. dir \o x.language \o territory \o codeset \o normalized \o modifier \o special \in Text
      BY <1>3, <1>4, <2>5
    <2>7. dir \o x.language \o territory \o codeset \o normalized \o modifier \o special
            \o comma \in Text
      BY <1>3, <1>4, <2>6
    <2>8. dir \o x.language \o territory \o codeset \o normalized \o modifier \o special
            \o comma \o sponsor \in Text
      BY <1>3, <1>4, <2>7
    <2>9. dir \o x.language \o territory \o codeset \o normalized \o modifier \o special
            \o comma \o sponsor \o revision \in Text
      BY <1>3, <1>4, <2>8
    <2> QED BY <1>5, <2>9
  <1>7. s \o <<"/", "end">> \in Text
    BY <1>1, <1>3
  <1>8. s \o <<"/", "end">> # << >>
    <2>1. PICK e : e \in Text /\ Len(e) = 2 /\ e = <<"/", "end">>
      BY <1>1
    <2>2. Len(s \o e) = Len(s) + 2 /\ Len(s) \in Nat
      BY <2>1, ConcatProperties, LenProperties DEF Text
    <2>3. Len(s \o e) # 0
      BY <2>2
    <2>4. s \o e # << >>
      BY <2>3
    <2> QED BY <2>1, <2>4
  <1> QED BY <1>6, <1>7, <1>8

LEMMA PartsAreNames ==
    /\ \A n \in Locales : Spelling[n] \in Text
    /\ \A n \in Locales : Exploded[n] \in AllParts /\ Whole(Spelling[n]) \in AllParts
    /\ AllParts \subseteq LocaleName
  <1>1. \A n \in Locales : Spelling[n] \in Text
    BY NamesAssumption DEF Locales, Text, Tokens
  <1>2. \A n \in Locales : Exploded[n] \in LocaleName
    BY <1>1, ExplodedType DEF Exploded
  <1>3. \A n \in Locales : Whole(Spelling[n]) \in LocaleName
    BY <1>1, WholeType
  <1> QED BY <1>1, <1>2, <1>3, Zenon DEF AllParts

\* Every file is named by a text that is not empty, and there are finitely
\* many of them.
LEMMA FilesAreTexts ==
    /\ \A x \in AllParts : \A m \in SUBSET x.mask : FileName[x][m] \in AllFiles
    /\ \A f \in AllFiles : f \in Text /\ f # << >>
  <1>1. \A x \in AllParts : \A m \in SUBSET x.mask : FileName[x][m] = abs_filename(x, m)
    BY DEF FileName
  <1>2. \A x \in AllParts : \A m \in SUBSET x.mask : FileName[x][m] \in AllFiles
    <2> SUFFICES ASSUME NEW x \in AllParts, NEW m \in SUBSET x.mask
                 PROVE  FileName[x][m] \in AllFiles
      OBVIOUS
    <2> DEFINE files(y) == {FileName[y][l] : l \in SUBSET y.mask}
    <2>1. FileName[x][m] \in files(x)
      OBVIOUS
    <2>2. AllFiles = UNION {files(y) : y \in AllParts}
      BY DEF AllFiles
    <2> HIDE DEF files
    <2> QED BY <2>1, <2>2
  <1>3. ASSUME NEW f \in AllFiles PROVE f \in Text /\ f # << >>
    <2>1. PICK x \in AllParts : f \in {FileName[x][m] : m \in SUBSET x.mask}
      BY DEF AllFiles
    <2>2. PICK m \in SUBSET x.mask : f = FileName[x][m]
      BY <2>1
    <2>3. x \in LocaleName
      BY PartsAreNames
    <2> QED BY <1>1, <2>2, <2>3, FileNameIsText
  <1> QED BY <1>2, <1>3

LEMMA FilesAreFinite == IsFiniteSet(AllFiles)
  <1>1. IsFiniteSet(AllParts)
    <2>1. IsFiniteSet(Locales)
      BY NamesAssumption DEF Locales
    <2> DEFINE exploded == {Exploded[n] : n \in Locales}
               whole    == {Whole(Spelling[n]) : n \in Locales}
               e        == [n \in Locales |-> Exploded[n]]
               w        == [n \in Locales |-> Whole(Spelling[n])]
    <2>2. e \in Surjection(Locales, exploded) /\ w \in Surjection(Locales, whole)
      BY DEF Surjection
    <2>3. IsFiniteSet(exploded) /\ IsFiniteSet(whole)
      BY <2>1, <2>2, FS_Surjection
    <2>4. AllParts = exploded \cup whole
      BY DEF AllParts
    <2> QED BY <2>3, <2>4, FS_Union
  <1>2. IsFiniteSet(SUBSET Bit)
    <2>1. Bit = {"CEN_REVISION", "CEN_SPONSOR", "CEN_SPECIAL", "XPG_NORM_CODESET",
                 "XPG_CODESET", "TERRITORY", "CEN_AUDIENCE", "XPG_MODIFIER"}
      BY DEF Bit, Weight
    <2>2. IsFiniteSet({}) /\ \A S : \A x : IsFiniteSet(S) => IsFiniteSet(S \cup {x})
      BY FS_EmptySet, FS_AddElement
    <2>3. Bit = ((((((({} \cup {"CEN_REVISION"}) \cup {"CEN_SPONSOR"}) \cup {"CEN_SPECIAL"})
                   \cup {"XPG_NORM_CODESET"}) \cup {"XPG_CODESET"}) \cup {"TERRITORY"})
                 \cup {"CEN_AUDIENCE"}) \cup {"XPG_MODIFIER"}
      BY <2>1
    <2>4. IsFiniteSet(Bit)
      BY <2>2, <2>3, Zenon
    <2> QED BY <2>4, FS_SUBSET
  <1> DEFINE pairs == {q \in AllParts \X SUBSET Bit : q[2] \in SUBSET q[1].mask}
             name_ == [q \in pairs |-> FileName[q[1]][q[2]]]
  <1>3. IsFiniteSet(pairs)
    <2>1. IsFiniteSet(AllParts \X SUBSET Bit)
      BY <1>1, <1>2, FS_Product
    <2>2. pairs \in SUBSET (AllParts \X SUBSET Bit)
      OBVIOUS
    <2> QED BY <2>1, <2>2, FS_Subset
  <1>4. name_ \in Surjection(pairs, AllFiles)
    <2>1. \A q \in pairs : q[1] \in AllParts /\ q[2] \in SUBSET q[1].mask
      OBVIOUS
    <2>2. name_ \in [pairs -> AllFiles]
      BY <2>1, FilesAreTexts
    <2>3. ASSUME NEW f \in AllFiles PROVE \E q \in pairs : name_[q] = f
      <3>1. PICK x \in AllParts : f \in {FileName[x][m] : m \in SUBSET x.mask}
        BY DEF AllFiles
      <3>2. PICK m \in SUBSET x.mask : f = FileName[x][m]
        BY <3>1
      <3>3. x.mask \in SUBSET Bit
        BY PartsAreNames DEF LocaleName
      <3>4. <<x, m>> \in pairs
        BY <3>3
      <3>5. name_[<<x, m>>] = f
        BY <3>2, <3>4
      <3> QED BY <3>4, <3>5
    <2> HIDE DEF name_, pairs
    <2> QED BY <2>2, <2>3, Zenon DEF Surjection
  <1> HIDE DEF name_, pairs
  <1> QED BY <1>3, <1>4, FS_Surjection

\* A mask is a number below 256, and of some masks one has the greatest.
LEMMA MaskValue == ASSUME NEW mask PROVE Value(mask) \in 0..255
  <1> DEFINE b(x) == IF x \in mask THEN Weight[x] ELSE 0
  <1>1. /\ b("CEN_REVISION") \in 0..1 /\ b("CEN_SPONSOR") \in 0..2 /\ b("CEN_SPECIAL") \in 0..4
        /\ b("XPG_NORM_CODESET") \in 0..8 /\ b("XPG_CODESET") \in 0..16 /\ b("TERRITORY") \in 0..32
        /\ b("CEN_AUDIENCE") \in 0..64 /\ b("XPG_MODIFIER") \in 0..128
    BY DEF Weight
  <1>2. Value(mask) = b("CEN_REVISION") + b("CEN_SPONSOR") + b("CEN_SPECIAL")
                      + b("XPG_NORM_CODESET") + b("XPG_CODESET") + b("TERRITORY")
                      + b("CEN_AUDIENCE") + b("XPG_MODIFIER")
    BY Zenon DEF Value
  <1> HIDE DEF b
  <1>3. PICK a1 \in 0..1, a2 \in 0..2, a3 \in 0..4, a4 \in 0..8,
             a5 \in 0..16, a6 \in 0..32, a7 \in 0..64, a8 \in 0..128 :
            /\ a1 = b("CEN_REVISION") /\ a2 = b("CEN_SPONSOR") /\ a3 = b("CEN_SPECIAL")
            /\ a4 = b("XPG_NORM_CODESET") /\ a5 = b("XPG_CODESET") /\ a6 = b("TERRITORY")
            /\ a7 = b("CEN_AUDIENCE") /\ a8 = b("XPG_MODIFIER")
    BY <1>1
  <1>4. Value(mask) = a1 + a2 + a3 + a4 + a5 + a6 + a7 + a8
    BY <1>2, <1>3
  <1>5. a1 + a2 + a3 + a4 + a5 + a6 + a7 + a8 \in 0..255
    OBVIOUS
  <1> QED BY <1>4, <1>5

LEMMA NextIsThere == ASSUME NEW masks, masks # {} PROVE NextDown(masks) \in masks
  <1> DEFINE below == {255 - Value(m) : m \in masks}
  <1>1. below \in SUBSET Nat /\ below # {}
    <2>1. \A m \in masks : 255 - Value(m) \in Nat
      <3> SUFFICES ASSUME NEW m \in masks PROVE 255 - Value(m) \in Nat
        OBVIOUS
      <3>1. Value(m) \in 0..255
        BY MaskValue
      <3> QED BY <3>1
    <2> QED BY <2>1
  <1>2. PICK v \in below : \A k \in below : v <= k
    BY <1>1, LeastNumber
  <1>3. PICK m \in masks : v = 255 - Value(m)
    BY <1>2
  <1>4. ASSUME NEW o \in masks PROVE Value(o) <= Value(m)
    <2>1. Value(o) \in 0..255 /\ Value(m) \in 0..255
      BY MaskValue
    <2>2. 255 - Value(o) \in below
      OBVIOUS
    <2>3. PICK x \in 0..255, y \in 0..255 : x = Value(o) /\ y = Value(m)
      BY <2>1
    <2>4. 255 - y <= 255 - x
      BY <1>2, <1>3, <2>2, <2>3
    <2> QED BY <2>3, <2>4
  <1> QED BY <1>4 DEF NextDown

-----------------------------------------------------------------------------
(* The order of strcmp.                                                    *)

\* a is less than b, and i is the first place where they differ.
LessAt(a, b, i) ==
    /\ i \in 1..Len(b) /\ Len(a) >= i - 1
    /\ \A j \in 1..i - 1 : a[j] = b[j]
    /\ Len(a) = i - 1 \/ Rank[a[i]] < Rank[b[i]]

LEMMA SamePrefix ==
    ASSUME NEW a \in Text, NEW b \in Text, NEW k \in Nat, k <= Len(a), k <= Len(b)
    PROVE  SubSeq(a, 1, k) = SubSeq(b, 1, k) <=> \A j \in 1..k : a[j] = b[j]
  <1>1. 1 \in 1..Len(a) + 1 /\ k \in 1 - 1..Len(a) /\ 1 \in 1..Len(b) + 1 /\ k \in 1 - 1..Len(b)
    BY LenProperties DEF Text
  <1>2. /\ SubSeq(a, 1, k) \in Seq(Tokens) /\ Len(SubSeq(a, 1, k)) = k - 1 + 1
        /\ \A i \in 1..k - 1 + 1 : SubSeq(a, 1, k)[i] = a[1 + i - 1]
    BY <1>1, SubSeqProperties DEF Text
  <1>3. /\ SubSeq(b, 1, k) \in Seq(Tokens) /\ Len(SubSeq(b, 1, k)) = k - 1 + 1
        /\ \A i \in 1..k - 1 + 1 : SubSeq(b, 1, k)[i] = b[1 + i - 1]
    BY <1>1, SubSeqProperties DEF Text
  <1>4. k - 1 + 1 = k /\ \A i \in 1..k : 1 + i - 1 = i
    OBVIOUS
  <1>5. \A i \in 1..k : SubSeq(a, 1, k)[i] = a[i] /\ SubSeq(b, 1, k)[i] = b[i]
    BY <1>2, <1>3, <1>4
  <1>6. (\A j \in 1..k : SubSeq(a, 1, k)[j] = SubSeq(b, 1, k)[j])
            => SubSeq(a, 1, k) = SubSeq(b, 1, k)
    BY <1>2, <1>3, <1>4, SeqEqual
  <1> QED BY <1>5, <1>6

LEMMA BeforeIsLess ==
    ASSUME NEW a \in Text, NEW b \in Text
    PROVE  Before(a, b) <=> \E i \in 1..Len(b) : LessAt(a, b, i)
  <1>1. Len(a) \in Nat /\ Len(b) \in Nat
    BY LenProperties DEF Text
  <1>2. ASSUME NEW i \in 1..Len(b)
        PROVE  (/\ Len(a) >= i - 1 /\ SubSeq(a, 1, i - 1) = SubSeq(b, 1, i - 1)
                /\ Len(a) = i - 1 \/ Rank[a[i]] < Rank[b[i]]) <=> LessAt(a, b, i)
    <2>1. CASE Len(a) < i - 1
      BY <1>1, <2>1 DEF LessAt
    <2>2. CASE Len(a) >= i - 1
      <3>1. i - 1 \in Nat /\ i - 1 <= Len(a) /\ i - 1 <= Len(b)
        BY <1>1, <2>2
      <3>2. SubSeq(a, 1, i - 1) = SubSeq(b, 1, i - 1) <=> \A j \in 1..i - 1 : a[j] = b[j]
        BY <3>1, SamePrefix
      <3> QED BY <2>2, <3>2, Zenon DEF LessAt
    <2> QED BY <1>1, <2>1, <2>2
  <1> QED BY <1>2, Zenon DEF Before

LEMMA RankOrder ==
    /\ \A t \in Tokens : Rank[t] \in Nat
    /\ \A t, u \in Tokens : t # u => Rank[t] # Rank[u]
  BY RankAssumption DEF Tokens

LEMMA NotBeforeItself ==
    ASSUME NEW a \in Text PROVE ~Before(a, a)
  <1> SUFFICES ASSUME NEW i \in 1..Len(a), LessAt(a, a, i) PROVE FALSE
    BY BeforeIsLess
  <1>1. Len(a) \in Nat /\ a[i] \in Tokens
    BY LenProperties, ElementOfSeq DEF Text
  <1>2. Rank[a[i]] \in Nat
    BY <1>1, RankOrder
  <1> QED BY <1>1, <1>2 DEF LessAt

LEMMA BeforeTransitive ==
    ASSUME NEW a \in Text, NEW b \in Text, NEW c \in Text, Before(a, b), Before(b, c)
    PROVE  Before(a, c)
  <1>1. PICK i \in 1..Len(b) : LessAt(a, b, i)
    BY BeforeIsLess
  <1>2. PICK k \in 1..Len(c) : LessAt(b, c, k)
    BY BeforeIsLess
  <1>3. /\ Len(a) \in Nat /\ Len(b) \in Nat /\ Len(c) \in Nat
        /\ \A j \in 1..Len(a) : Rank[a[j]] \in Nat
        /\ \A j \in 1..Len(b) : Rank[b[j]] \in Nat
        /\ \A j \in 1..Len(c) : Rank[c[j]] \in Nat
    BY LenProperties, ElementOfSeq, RankOrder DEF Text
  <1>4. /\ i \in 1..Len(b) /\ Len(a) >= i - 1 /\ (\A j \in 1..i - 1 : a[j] = b[j])
        /\ Len(a) = i - 1 \/ Rank[a[i]] < Rank[b[i]]
    BY <1>1 DEF LessAt
  <1>5. /\ k \in 1..Len(c) /\ Len(b) >= k - 1 /\ (\A j \in 1..k - 1 : b[j] = c[j])
        /\ Len(b) = k - 1 \/ Rank[b[k]] < Rank[c[k]]
    BY <1>2 DEF LessAt
  <1>6. CASE i < k
    <2>1. b[i] = c[i] /\ i \in 1..Len(c) /\ \A j \in 1..i - 1 : a[j] = c[j]
      BY <1>3, <1>4, <1>5, <1>6
    <2>2. LessAt(a, c, i)
      BY <1>4, <2>1 DEF LessAt
    <2> QED BY <2>1, <2>2, BeforeIsLess
  <1>7. CASE i = k
    <2>1. \A j \in 1..i - 1 : a[j] = c[j]
      BY <1>3, <1>4, <1>5, <1>7
    <2>2. Len(a) = i - 1 \/ Rank[a[i]] < Rank[c[i]]
      <3> SUFFICES ASSUME Len(a) # i - 1 PROVE Rank[a[i]] < Rank[c[i]]
        OBVIOUS
      <3>1. i \in 1..Len(a) /\ i \in 1..Len(b) /\ i \in 1..Len(c) /\ Len(b) # k - 1
        BY <1>3, <1>4, <1>5, <1>7
      <3>2. Rank[a[i]] < Rank[b[i]] /\ Rank[b[i]] < Rank[c[i]]
        BY <1>4, <1>5, <1>7, <3>1
      <3>3. Rank[a[i]] \in Nat /\ Rank[b[i]] \in Nat /\ Rank[c[i]] \in Nat
        BY <1>3, <3>1
      <3> QED BY <3>2, <3>3
    <2>3. LessAt(a, c, k)
      BY <1>4, <1>5, <1>7, <2>1, <2>2 DEF LessAt
    <2> QED BY <2>3, BeforeIsLess
  <1>8. CASE i > k
    <2>1. /\ \A j \in 1..k - 1 : a[j] = c[j]
          /\ a[k] = b[k] /\ k \in 1..Len(a) /\ k \in 1..Len(b)
      BY <1>3, <1>4, <1>5, <1>8
    <2>2. Rank[a[k]] < Rank[c[k]] /\ Len(a) >= k - 1
      <3>1. Len(b) # k - 1
        BY <1>3, <2>1
      <3> QED BY <1>3, <1>5, <2>1, <3>1
    <2>3. LessAt(a, c, k)
      BY <1>5, <2>1, <2>2 DEF LessAt
    <2> QED BY <2>3, BeforeIsLess
  <1> QED BY <1>3, <1>4, <1>5, <1>6, <1>7, <1>8

\* Of two names one is less: at the first place where they differ, or where
\* the shorter one ends.
LEMMA BeforeTotal ==
    ASSUME NEW a \in Text, NEW b \in Text, a # b PROVE Before(a, b) \/ Before(b, a)
  <1>1. /\ Len(a) \in Nat /\ Len(b) \in Nat
        /\ \A j \in 1..Len(a) : a[j] \in Tokens
        /\ \A j \in 1..Len(b) : b[j] \in Tokens
    BY LenProperties, ElementOfSeq DEF Text
  <1> DEFINE differ == {j \in 1..Len(a) : j <= Len(b) /\ a[j] # b[j]}
  <1>2. CASE differ # {}
    <2>1. differ \in SUBSET Nat
      BY <1>1
    <2>2. PICK i \in differ : \A j \in differ : i <= j
      BY <1>2, <2>1, LeastNumber
    <2>3. i \in 1..Len(a) /\ i \in 1..Len(b) /\ a[i] # b[i]
      BY <1>1, <2>2
    <2>4. \A j \in 1..i - 1 : a[j] = b[j]
      <3> SUFFICES ASSUME NEW j \in 1..i - 1, a[j] # b[j] PROVE FALSE
        OBVIOUS
      <3>1. j \in differ /\ j < i
        BY <1>1, <2>3
      <3> QED BY <2>2, <2>3, <3>1
    <2>5. Rank[a[i]] \in Nat /\ Rank[b[i]] \in Nat /\ Rank[a[i]] # Rank[b[i]]
      BY <1>1, <2>3, RankOrder
    <2>6. LessAt(a, b, i) \/ LessAt(b, a, i)
      BY <1>1, <2>3, <2>4, <2>5 DEF LessAt
    <2> QED BY <2>3, <2>6, BeforeIsLess
  <1>3. CASE differ = {}
    <2>1. \A j \in 1..Len(a) : j <= Len(b) => a[j] = b[j]
      BY <1>3
    <2>2. Len(a) # Len(b)
      <3> SUFFICES ASSUME Len(a) = Len(b) PROVE FALSE
        OBVIOUS
      <3>1. \A j \in 1..Len(a) : a[j] = b[j]
        BY <1>1, <2>1
      <3> QED BY <3>1, SeqEqual DEF Text
    <2>3. CASE Len(a) < Len(b)
      <3>1. LessAt(a, b, Len(a) + 1) /\ Len(a) + 1 \in 1..Len(b)
        BY <1>1, <2>1, <2>3 DEF LessAt
      <3> QED BY <3>1, BeforeIsLess
    <2>4. CASE Len(b) < Len(a)
      <3>1. LessAt(b, a, Len(b) + 1) /\ Len(b) + 1 \in 1..Len(a)
        BY <1>1, <2>1, <2>4 DEF LessAt
      <3> QED BY <3>1, BeforeIsLess
    <2> QED BY <1>1, <2>2, <2>3, <2>4
  <1> QED BY <1>2, <1>3

\* The place of a file among all of them is in that order.
LEMMA Places ==
    /\ \A f \in AllFiles : Place[f] \in Nat
    /\ \A f, g \in AllFiles : f # g => Place[f] # Place[g]
  <1> DEFINE less(f) == {g \in AllFiles : Before(g, f)}
  <1>1. \A f \in AllFiles : IsFiniteSet(less(f)) /\ Cardinality(less(f)) \in Nat
    <2> SUFFICES ASSUME NEW f \in AllFiles
                 PROVE  IsFiniteSet(less(f)) /\ Cardinality(less(f)) \in Nat
      OBVIOUS
    <2>1. less(f) \in SUBSET AllFiles
      OBVIOUS
    <2> HIDE DEF less
    <2>2. IsFiniteSet(less(f))
      BY <2>1, FilesAreFinite, FS_Subset
    <2> QED BY <2>2, FS_CardinalityType
  <1>2. \A f \in AllFiles : Place[f] = Cardinality(less(f))
    BY DEF Place
  <1>3. ASSUME NEW f \in AllFiles, NEW g \in AllFiles, Before(f, g) PROVE Place[f] # Place[g]
    <2>1. f \in Text /\ g \in Text
      BY FilesAreTexts
    <2>2. less(f) \in SUBSET less(g)
      <3> SUFFICES ASSUME NEW h \in AllFiles, Before(h, f) PROVE Before(h, g)
        OBVIOUS
      <3>1. h \in Text
        BY FilesAreTexts
      <3> QED BY <1>3, <2>1, <3>1, BeforeTransitive
    <2>3. f \in less(g) /\ f \notin less(f)
      BY <1>3, <2>1, NotBeforeItself
    <2> HIDE DEF less
    <2>4. Cardinality(less(f)) # Cardinality(less(g))
      BY <1>1, <2>2, <2>3, FS_Subset
    <2> QED BY <1>2, <2>4
  <1>4. ASSUME NEW f \in AllFiles, NEW g \in AllFiles, f # g PROVE Before(f, g) \/ Before(g, f)
    BY <1>4, FilesAreTexts, BeforeTotal
  <1> QED BY <1>1, <1>2, <1>3, <1>4

-----------------------------------------------------------------------------
(* The list of the files.                                                  *)

Files == Seq(AllFiles)

\* A sequence with an element put into it.
LEMMA Inserted ==
    ASSUME NEW S, NEW s \in Seq(S), NEW e \in S, NEW i \in 1..Len(s) + 1
    PROVE  /\ InsertAt(s, i, e) \in Seq(S) /\ Len(InsertAt(s, i, e)) = Len(s) + 1
           /\ \A j \in 1..i - 1 : InsertAt(s, i, e)[j] = s[j]
           /\ InsertAt(s, i, e)[i] = e
           /\ \A j \in i + 1..Len(s) + 1 : InsertAt(s, i, e)[j] = s[j - 1]
  <1> DEFINE left  == SubSeq(s, 1, i - 1)
             right == SubSeq(s, i, Len(s))
             new   == (left \o <<e>>) \o right
  <1>1. PICK n \in Nat : n = Len(s) /\ i \in 1..n + 1 /\ \A j \in 1..n : s[j] \in S
    BY LenProperties
  <1>2. /\ left \in Seq(S) /\ Len(left) = i - 1 /\ \A j \in 1..i - 1 : left[j] = s[j]
    <2>1. 1 \in Int /\ i - 1 \in Int /\ \A j \in 1..i - 1 : s[j] \in S
      BY <1>1
    <2>2. /\ left \in Seq(S) /\ Len(left) = IF 1 <= i - 1 THEN i - 1 - 1 + 1 ELSE 0
          /\ \A j \in 1..i - 1 - 1 + 1 : left[j] = s[1 + j - 1]
      BY <2>1, SubSeqProperties
    <2> HIDE DEF left
    <2>3. \A j \in 1..i - 1 : 1 + j - 1 = j /\ j \in 1..i - 1 - 1 + 1
      BY <1>1
    <2> QED BY <1>1, <2>2, <2>3
  <1>3. /\ right \in Seq(S) /\ Len(right) = n - i + 1
        /\ \A j \in 1..n - i + 1 : right[j] = s[i + j - 1]
    <2>1. i \in Int /\ Len(s) \in Int /\ \A j \in i..Len(s) : s[j] \in S
      BY <1>1
    <2>2. /\ right \in Seq(S) /\ Len(right) = IF i <= Len(s) THEN Len(s) - i + 1 ELSE 0
          /\ \A j \in 1..Len(s) - i + 1 : right[j] = s[i + j - 1]
      BY <2>1, SubSeqProperties
    <2> HIDE DEF right
    <2> QED BY <1>1, <2>2
  <1>4. InsertAt(s, i, e) = new
    BY DEF InsertAt
  <1> HIDE DEF left, right
  <1>5. <<e>> \in Seq(S) /\ Len(<<e>>) = 1 /\ <<e>>[1] = e
    OBVIOUS
  <1>6. /\ left \o <<e>> \in Seq(S) /\ Len(left \o <<e>>) = i
        /\ \A j \in 1..i - 1 : (left \o <<e>>)[j] = s[j]
        /\ (left \o <<e>>)[i] = e
    BY <1>1, <1>2, <1>5
  <1> DEFINE first == left \o <<e>>
  <1> HIDE DEF first
  <1>7. /\ first \o right \in Seq(S) /\ Len(first \o right) = n + 1
        /\ \A j \in 1..i : (first \o right)[j] = first[j]
        /\ \A j \in i + 1..n + 1 : (first \o right)[j] = right[j - i]
    <2>1. first \in Seq(S) /\ Len(first) = i
      BY <1>6 DEF first
    <2> QED BY <1>1, <1>3, <2>1
  <1>8. \A j \in i + 1..n + 1 : right[j - i] = s[j - 1]
    <2> SUFFICES ASSUME NEW j \in i + 1..n + 1 PROVE right[j - i] = s[j - 1]
      OBVIOUS
    <2>1. j - i \in 1..n - i + 1 /\ i + (j - i) - 1 = j - 1
      BY <1>1
    <2> QED BY <1>3, <2>1
  <1>9. new = first \o right
    BY DEF first
  <1>10. /\ \A j \in 1..i - 1 : first[j] = s[j]
         /\ first[i] = e /\ i \in 1..i /\ \A j \in 1..i - 1 : j \in 1..i
    BY <1>1, <1>6 DEF first
  <1> HIDE DEF new
  <1> QED BY <1>1, <1>4, <1>7, <1>8, <1>9, <1>10

\* The walk stops at the first lesser name, or at the end.
LEMMA Stops ==
    ASSUME list \in Files, NEW f \in AllFiles
    PROVE  /\ Stop(f) \in 1..Len(list) + 1
           /\ \A i \in 1..Stop(f) - 1 : Place[f] <= Place[list[i]]
           /\ Stop(f) <= Len(list) => Place[list[Stop(f)]] < Place[f]
  <1> DEFINE lesser == {i \in DOMAIN list : Place[list[i]] < Place[f]}
             S      == lesser \cup {Len(list) + 1}
  <1>1. Len(list) \in Nat /\ DOMAIN list = 1..Len(list) /\ \A i \in 1..Len(list) : list[i] \in AllFiles
    BY LenProperties, ElementOfSeq DEF Files
  <1>2. S \in SUBSET Nat /\ S # {}
    BY <1>1
  <1>3. PICK s : s = Stop(f)
    OBVIOUS
  <1>4. s = Min(S)
    BY <1>3 DEF Stop
  <1>5. s \in S /\ \A k \in S : s <= k
    BY <1>2, <1>4, LeastOf
  <1>6. s \in 1..Len(list) + 1
    BY <1>1, <1>5
  <1>7. \A i \in 1..s - 1 : Place[f] <= Place[list[i]]
    <2> SUFFICES ASSUME NEW i \in 1..s - 1, ~(Place[f] <= Place[list[i]]) PROVE FALSE
      OBVIOUS
    <2>1. i \in DOMAIN list /\ i < s
      BY <1>1, <1>6
    <2>2. Place[f] \in Nat /\ Place[list[i]] \in Nat
      BY <1>1, <2>1, Places
    <2>3. i \in S
      BY <2>1, <2>2
    <2> QED BY <1>1, <1>5, <1>6, <2>1, <2>3
  <1>8. s <= Len(list) => Place[list[s]] < Place[f]
    BY <1>1, <1>5, <1>6
  <1> QED BY <1>3, <1>6, <1>7, <1>8

\* The names in the list go down.
LEMMA ListGoesDown ==
    ASSUME list \in Files, ListInOrder, NEW i \in 1..Len(list), NEW k \in 1..Len(list), i <= k
    PROVE  Place[list[k]] <= Place[list[i]]
  <1>1. Len(list) \in Nat /\ \A n \in 1..Len(list) : Place[list[n]] \in Nat
    BY LenProperties, ElementOfSeq, Places DEF Files
  <1> DEFINE T == {n \in Nat : n \in i..Len(list) => Place[list[n]] <= Place[list[i]]}
  <1>2. i \in T
    BY <1>1
  <1>3. ASSUME NEW n \in Nat, n >= i, n \in T PROVE n + 1 \in T
    <2> SUFFICES ASSUME n + 1 \in i..Len(list) PROVE Place[list[n + 1]] <= Place[list[i]]
      OBVIOUS
    <2>1. n \in i..Len(list) /\ n \in 1..Len(list) /\ n + 1 \in 2..Len(list) /\ n + 1 \in 1..Len(list)
          /\ n + 1 - 1 = n
      BY <1>1, <1>3
    <2>2. Place[list[n + 1]] < Place[list[n]]
      BY <2>1 DEF ListInOrder
    <2>3. Place[list[n]] <= Place[list[i]]
      BY <1>3, <2>1
    <2> QED BY <1>1, <2>1, <2>2, <2>3
  <1> HIDE DEF T
  <1>4. k \in T
    <2>1. i \in Nat /\ k \in Nat /\ k >= i
      BY <1>1
    <2> QED BY <1>2, <1>3, <2>1, SetInduction
  <1>5. k \in i..Len(list)
    BY <1>1
  <1> QED BY <1>4, <1>5 DEF T

\* The walk finds a name if, and only if, it is in the list.
LEMMA KnownIsListed ==
    ASSUME list \in Files, ListInOrder, NEW f \in AllFiles
    PROVE  Known(f) <=> f \in ToSet(list)
  <1>1. Len(list) \in Nat /\ DOMAIN list = 1..Len(list) /\ \A n \in 1..Len(list) : Place[list[n]] \in Nat
    BY LenProperties, ElementOfSeq, Places DEF Files
  <1>2. PICK s \in 1..Len(list) + 1 : s = Stop(f) /\ (s <= Len(list) => Place[list[s]] < Place[f])
    BY Stops
  <1>3. ASSUME NEW i \in 1..Len(list), list[i] = f PROVE i < s
    <2> SUFFICES ASSUME s <= i PROVE FALSE
      BY <1>1, <1>2
    <2>1. s \in 1..Len(list) /\ s <= Len(list)
      BY <1>1, <1>2
    <2>2. Place[list[i]] <= Place[list[s]]
      BY <2>1, ListGoesDown
    <2> QED BY <1>1, <1>2, <1>3, <2>1, <2>2
  <1> QED BY <1>1, <1>2, <1>3 DEF Known, ToSet

\* A name that is not known is put between a greater and a lesser one.
LEMMA ListStaysInOrder ==
    ASSUME list \in Files, ListInOrder, NEW f \in AllFiles, ~Known(f),
           NEW new, new = InsertAt(list, Stop(f), f)
    PROVE  /\ new \in Files /\ ToSet(new) = ToSet(list) \cup {f}
           /\ \A i \in 2..Len(new) : Place[new[i]] < Place[new[i - 1]]
  <1>1. PICK n \in Nat : n = Len(list) /\ DOMAIN list = 1..n
    BY LenProperties DEF Files
  <1>2. PICK s \in 1..n + 1 : /\ s = Stop(f) /\ \A i \in 1..s - 1 : Place[f] <= Place[list[i]]
                              /\ s <= n => Place[list[s]] < Place[f]
    BY <1>1, Stops
  <1>3. /\ new \in Seq(AllFiles) /\ Len(new) = n + 1
        /\ \A j \in 1..s - 1 : new[j] = list[j]
        /\ new[s] = f
        /\ \A j \in s + 1..n + 1 : new[j] = list[j - 1]
    <2>1. list \in Seq(AllFiles) /\ s \in 1..Len(list) + 1
      BY <1>1 DEF Files
    <2>2. /\ InsertAt(list, s, f) \in Seq(AllFiles) /\ Len(InsertAt(list, s, f)) = Len(list) + 1
          /\ \A j \in 1..s - 1 : InsertAt(list, s, f)[j] = list[j]
          /\ InsertAt(list, s, f)[s] = f
          /\ \A j \in s + 1..Len(list) + 1 : InsertAt(list, s, f)[j] = list[j - 1]
      BY <2>1, Inserted
    <2>3. new = InsertAt(list, s, f)
      BY <1>2
    <2> QED BY <1>1, <2>2, <2>3
  <1>4. DOMAIN new = 1..n + 1
    BY <1>3
  <1>5. f \notin ToSet(list)
    BY KnownIsListed
  <1>6. \A i \in 1..n : list[i] \in AllFiles /\ list[i] # f /\ Place[list[i]] \in Nat
    <2>1. \A i \in 1..n : list[i] \in AllFiles
      BY <1>1, ElementOfSeq DEF Files
    <2> QED BY <1>1, <1>5, <2>1, Places DEF ToSet
  <1>7. \A i \in 1..s - 1 : Place[f] < Place[list[i]]
    <2> SUFFICES ASSUME NEW i \in 1..s - 1 PROVE Place[f] < Place[list[i]]
      OBVIOUS
    <2>1. i \in 1..n
      BY <1>2
    <2>2. Place[f] # Place[list[i]] /\ Place[f] \in Nat
      BY <1>6, <2>1, Places
    <2> QED BY <1>2, <1>6, <2>1, <2>2
  <1>8. ToSet(new) = ToSet(list) \cup {f}
    <2>1. ASSUME NEW j \in 1..n + 1 PROVE new[j] \in ToSet(list) \cup {f}
      <3>1. CASE j \in 1..s - 1
        <4>1. j \in 1..n
          BY <1>2, <3>1
        <4> QED BY <1>1, <1>3, <3>1, <4>1 DEF ToSet
      <3>2. CASE j = s
        BY <1>3, <3>2
      <3>3. CASE j \in s + 1..n + 1
        <4>1. j - 1 \in 1..n
          BY <1>2, <3>3
        <4> QED BY <1>1, <1>3, <3>3, <4>1 DEF ToSet
      <3> QED BY <1>2, <3>1, <3>2, <3>3
    <2>2. ASSUME NEW i \in 1..n PROVE \E j \in 1..n + 1 : new[j] = list[i]
      <3>1. CASE i < s
        <4>1. i \in 1..s - 1 /\ i \in 1..n + 1
          BY <1>2, <3>1
        <4> QED BY <1>3, <4>1
      <3>2. CASE i >= s
        <4>1. i + 1 \in s + 1..n + 1 /\ i + 1 - 1 = i /\ i + 1 \in 1..n + 1
          BY <1>2, <3>2
        <4> QED BY <1>3, <4>1
      <3> QED BY <1>2, <3>1, <3>2
    <2>3. s \in 1..n + 1 /\ f = new[s]
      BY <1>3
    <2>4. ToSet(new) = {new[j] : j \in 1..n + 1} /\ ToSet(list) = {list[i] : i \in 1..n}
      BY <1>1, <1>4 DEF ToSet
    <2>5. ToSet(new) \subseteq ToSet(list) \cup {f}
      BY <2>1, <2>4
    <2>6. f \in ToSet(new)
      BY <2>3, <2>4
    <2>7. ToSet(list) \subseteq ToSet(new)
      BY <2>2, <2>4
    <2> QED BY <2>5, <2>6, <2>7
  <1>9. ASSUME NEW i \in 2..n + 1 PROVE Place[new[i]] < Place[new[i - 1]]
    <2>1. CASE i < s
      <3>1. /\ i \in 1..s - 1 /\ i - 1 \in 1..s - 1 /\ i \in 2..n
        BY <1>2, <2>1
      <3>2. Place[list[i]] < Place[list[i - 1]]
        BY <1>1, <3>1 DEF ListInOrder
      <3> QED BY <1>3, <3>1, <3>2
    <2>2. CASE i = s
      <3>1. i - 1 \in 1..s - 1
        BY <2>2
      <3> QED BY <1>3, <1>7, <2>2, <3>1
    <2>3. CASE i = s + 1
      <3>1. i \in s + 1..n + 1 /\ i - 1 = s /\ s <= n
        BY <1>2, <2>3
      <3>2. new[i] = list[s] /\ new[i - 1] = f
        BY <1>3, <3>1
      <3> QED BY <1>2, <3>1, <3>2
    <2>4. CASE i > s + 1
      <3>1. i \in s + 1..n + 1 /\ i - 1 \in s + 1..n + 1 /\ i - 1 \in 2..n
        BY <1>2, <2>4
      <3>2. Place[list[i - 1]] < Place[list[i - 1 - 1]]
        BY <1>1, <3>1 DEF ListInOrder
      <3>3. new[i] = list[i - 1] /\ new[i - 1] = list[i - 1 - 1]
        BY <1>3, <3>1
      <3> QED BY <3>2, <3>3
    <2> QED BY <1>2, <2>1, <2>2, <2>3, <2>4
  <1> QED BY <1>3, <1>8, <1>9 DEF Files

-----------------------------------------------------------------------------
(* The search.                                                             *)

Entries(files) ==
    [decided : BOOLEAN, data : files \cup {NoFile}, successor : Seq(files \cup {NoFile})]

\* The calls that make the entries of a name taken apart.
CallsOf(x) ==
    [mask : SUBSET x.mask, file : AllFiles, made : BOOLEAN, todo : SUBSET (SUBSET x.mask)]

\* There is an entry for each name in the list, which inherits from others
\* in it.
ListInv ==
    /\ list \in Files /\ ListInOrder
    /\ DOMAIN entry = ToSet(list)
    /\ entry \in [DOMAIN entry -> Entries(DOMAIN entry)]
    /\ \A f \in DOMAIN entry : entry[f].data \in {NoFile, f}

\* The calls are for names that leave out parts of the one that is made.
CallInv ==
    /\ stack \in Seq(CallsOf(parts))
    /\ (stack = << >>) = (found_at # "make")
    /\ \A k \in DOMAIN stack : stack[k].made => stack[k].file \in DOMAIN entry
    /\ found_at = "make" => parts \in {Exploded[n] : n \in Locales}
    /\ found_at = "start" => parts \in {Whole(Spelling[n]) : n \in Locales}

AskInv ==
    /\ domain \in (DOMAIN entry) \cup {NoFile}
    /\ locale \in Locales \cup {NoAlias} /\ value \in Locales \cup {NoAlias}
    /\ found_at \in {"start", "alias"} => locale \in Locales
    /\ fresh \in BOOLEAN /\ calls \in 0..MaxCalls /\ failures \in 0..MaxFailures
    /\ found_at \in {"idle", "start", "alias", "make", "load", "found"}

IInv == AliasInv /\ ListInv /\ CallInv /\ AskInv

\* What was decided of an entry stays.
Kept ==
    \A f \in DOMAIN entry : entry[f].decided =>
        f \in DOMAIN entry' /\ entry'[f].decided /\ entry'[f].data = entry[f].data

LEMMA InvIsTyped == ASSUME IInv PROVE TypeOK
  <1>1. \A f \in DOMAIN entry : entry[f] \in Entries(DOMAIN entry)
    BY DEF IInv, ListInv
  <1>2. ASSUME NEW f \in DOMAIN entry
        PROVE  /\ entry[f].decided \in BOOLEAN
               /\ ToSet(entry[f].successor) \subseteq (DOMAIN entry) \cup {NoFile}
    <2>1. entry[f].decided \in BOOLEAN /\ entry[f].successor \in Seq((DOMAIN entry) \cup {NoFile})
      BY <1>1 DEF Entries
    <2>2. \A i \in DOMAIN entry[f].successor : entry[f].successor[i] \in (DOMAIN entry) \cup {NoFile}
      BY <2>1, ElementOfSeq, LenProperties
    <2> QED BY <2>1, <2>2 DEF ToSet
  <1> QED BY <1>2 DEF IInv, AliasInv, ListInv, CallInv, AskInv, TypeOK

LEMMA Starts == ASSUME Init PROVE IInv
  <1>1. AliasInv
    BY AliasStart DEF Init
  <1>2. ListInv
    <2>1. list \in Files /\ Len(list) = 0 /\ DOMAIN list = {}
      BY DEF Init, Files
    <2>2. ListInOrder /\ ToSet(list) = {}
      BY <2>1 DEF ListInOrder, ToSet
    <2>3. DOMAIN entry = {}
      BY DEF Init
    <2>4. entry \in [DOMAIN entry -> Entries(DOMAIN entry)]
      <3>1. entry = [f \in {} |-> entry[f]]
        BY DEF Init
      <3> QED BY <2>3, <3>1
    <2> QED BY <2>1, <2>2, <2>3, <2>4 DEF ListInv
  <1>3. CallInv
    <2>1. stack \in Seq(CallsOf(parts)) /\ DOMAIN stack = {} /\ stack = << >> /\ found_at = "idle"
      BY DEF Init
    <2> QED BY <2>1 DEF CallInv
  <1>4. AskInv
    <2>1. 0 \in 0..MaxCalls /\ 0 \in 0..MaxFailures
      <3>1. MaxCalls \in Nat /\ MaxFailures \in Nat
        BY Zenon, NamesAssumption
      <3> QED BY <3>1
    <2> QED BY <2>1 DEF Init, AliasInit, AskInv
  <1> QED BY <1>1, <1>2, <1>3, <1>4 DEF IInv

\* What stays if the list does.
LEMMA ListStays == ASSUME ListInv, UNCHANGED l10n PROVE ListInv' /\ Kept
  <1>1. list' = list /\ entry' = entry
    BY DEF l10n
  <1> QED BY <1>1 DEF ListInv, ListInOrder, ToSet, Kept

\* The value of an alias is the name of a locale.
LEMMA ValueIsLocale ==
    ASSUME AliasInv, value \in Locales \cup {NoAlias}, AliasNext
    PROVE  value' \in Locales \cup {NoAlias}
  <1>1. CASE Search
    <2>1. value' \in bsearch(name)
      BY <1>1 DEF Search
    <2>2. \A i \in DOMAIN map : map[i][2] \in Locales
      <3> SUFFICES ASSUME NEW i \in DOMAIN map PROVE map[i][2] \in Locales
        OBVIOUS
      <3>1. PICK k \in 1..alias_path - 1 : \E j \in DOMAIN Path[k] :
                Len(Path[k][j]) = 2 /\ Path[k][j] = map[i]
        BY DEF AliasInv, AliasLines
      <3>2. k \in DOMAIN Path
        <4>1. Len(Path) \in Nat /\ DOMAIN Path = 1..Len(Path)
          BY PathAssumption, LenProperties
        <4>2. alias_path \in 1..Len(Path) + 1
          BY DEF AliasInv, AliasTypeOK
        <4> QED BY <4>1, <4>2
      <3> QED BY <3>1, <3>2, NamesAssumption DEF Locales
    <2> QED BY <2>1, <2>2 DEF bsearch
  <1>2. CASE OpenFile \/ FilesDone \/ ReadLine \/ NoMemoryForLine \/ EndOfFile
    BY <1>2 DEF OpenFile, FilesDone, ReadLine, NoMemoryForLine, EndOfFile, lookup
  <1> QED BY <1>1, <1>2 DEF AliasNext

LEMMA PartsKnown ==
    ASSUME CallInv, found_at \in {"make", "start"} PROVE parts \in AllParts
  BY PartsAreNames DEF CallInv

\* A new call is for a name with some parts left out.
LEMMA NewCall ==
    ASSUME NEW x \in AllParts, NEW m \in SUBSET x.mask
    PROVE  Call(x, m) \in CallsOf(x) /\ ~Call(x, m).made
  <1>1. FileName[x][m] \in AllFiles
    BY FilesAreTexts
  <1>2. << >> \in Seq(SUBSET x.mask)
    OBVIOUS
  <1> QED BY <1>1, <1>2 DEF Call, CallsOf

\* All the elements of t are elements of s, as far as they are made.
MadeIn(t, s) ==
    \A k \in DOMAIN t : t[k].made => \E l \in DOMAIN s : s[l].made /\ s[l].file = t[k].file

LEMMA LoopKeeps ==
    ASSUME parts \in AllParts, NEW s \in Seq(CallsOf(parts)), s # << >>
    PROVE  Loop(s) \in Seq(CallsOf(parts)) /\ Loop(s) # << >> /\ MadeIn(Loop(s), s)
  <1> DEFINE C == CallsOf(parts)
             c == Last(s)
             front == Front(s)
  <1>1. PICK n \in Nat \ {0} : n = Len(s) /\ DOMAIN s = 1..n /\ \A i \in 1..n : s[i] \in C
    <2>1. Len(s) \in Nat /\ DOMAIN s = 1..Len(s) /\ Len(s) # 0 /\ \A i \in 1..Len(s) : s[i] \in C
      BY LenProperties, ElementOfSeq, EmptySeq
    <2> QED BY <2>1
  <1>2. c \in C /\ c = s[n] /\ n \in 1..n
    BY <1>1 DEF Last
  <1>3. CASE c.todo = {}
    <2>1. Loop(s) = s
      BY <1>3 DEF Loop
    <2> QED BY <2>1 DEF MadeIn
  <1>4. CASE c.todo # {}
    <2>1. c.todo \in SUBSET (SUBSET parts.mask)
      BY <1>2 DEF CallsOf
    <2>2. PICK m \in SUBSET parts.mask : m = NextDown(c.todo)
      BY <1>4, <2>1, NextIsThere
    <2>3. PICK d \in C : d = [c EXCEPT !.todo = @ \ {m}] /\ d.made = c.made /\ d.file = c.file
      <3>1. PICK t \in SUBSET (SUBSET parts.mask) : t = c.todo \ {m}
        BY <2>1
      <3>2. PICK a : a = c
        OBVIOUS
      <3>3. /\ [a EXCEPT !.todo = t] \in C
            /\ [a EXCEPT !.todo = t].made = a.made /\ [a EXCEPT !.todo = t].file = a.file
        BY <1>2, <3>2 DEF CallsOf
      <3>4. [c EXCEPT !.todo = @ \ {m}] = [a EXCEPT !.todo = t]
        BY <3>1, <3>2
      <3> QED BY <3>2, <3>3, <3>4
    <2>4. PICK e \in C : e = Call(parts, m) /\ ~e.made
      BY <2>2, NewCall
    <2> HIDE DEF C
    <2>5. /\ front \in Seq(C) /\ Len(front) = n - 1 /\ \A i \in 1..n - 1 : front[i] = s[i]
      <3>1. 1 \in Int /\ n - 1 \in Int /\ \A i \in 1..n - 1 : s[i] \in C
        BY <1>1
      <3>2. front = SubSeq(s, 1, n - 1)
        BY <1>1 DEF Front
      <3>3. /\ SubSeq(s, 1, n - 1) \in Seq(C)
            /\ Len(SubSeq(s, 1, n - 1)) = IF 1 <= n - 1 THEN n - 1 - 1 + 1 ELSE 0
            /\ \A i \in 1..n - 1 - 1 + 1 : SubSeq(s, 1, n - 1)[i] = s[1 + i - 1]
        BY <3>1, SubSeqProperties
      <3>4. n - 1 - 1 + 1 = n - 1 /\ (~(1 <= n - 1) => n - 1 = 0) /\ \A i \in 1..n - 1 : 1 + i - 1 = i
        BY <1>1
      <3> QED BY <3>2, <3>3, <3>4
    <2> HIDE DEF front
    <2>6. PICK t : t = Append(front, d) \o <<e>>
      OBVIOUS
    <2>7. /\ t \in Seq(C) /\ Len(t) = n + 1
          /\ \A i \in 1..n - 1 : t[i] = s[i]
          /\ t[n] = d /\ t[n + 1] = e
      <3>1. /\ Append(front, d) \in Seq(C) /\ Len(Append(front, d)) = n
            /\ \A i \in 1..n - 1 : Append(front, d)[i] = s[i]
            /\ Append(front, d)[n] = d
        BY <2>5, AppendProperties
      <3>2. PICK r \in Seq(C) : /\ r = Append(front, d) /\ Len(r) = n
                                /\ \A i \in 1..n - 1 : r[i] = s[i]
                                /\ r[n] = d
        BY <3>1
      <3>3. <<e>> \in Seq(C) /\ Len(<<e>>) = 1 /\ <<e>>[1] = e
        OBVIOUS
      <3>4. PICK u \in Seq(C) : u = <<e>> /\ Len(u) = 1 /\ u[1] = e
        BY <3>3
      <3>5. t = r \o u
        BY <2>6, <3>2, <3>4
      <3>6. /\ r \o u \in Seq(C) /\ Len(r \o u) = n + 1
            /\ \A i \in 1..n : (r \o u)[i] = r[i]
            /\ (r \o u)[n + 1] = u[1]
        BY <1>1, <3>2, <3>4, ConcatProperties
      <3> QED BY <1>1, <3>2, <3>4, <3>5, <3>6
    <2>8. Loop(s) = t
      BY <1>4, <2>2, <2>3, <2>4, <2>6 DEF Loop, front
    <2>9. t # << >>
      BY <2>7
    <2>10. MadeIn(t, s)
      <3> SUFFICES ASSUME NEW k \in 1..n + 1, t[k].made
                   PROVE  \E l \in 1..n : s[l].made /\ s[l].file = t[k].file
        BY <1>1, <2>7 DEF MadeIn
      <3>1. CASE k \in 1..n - 1
        BY <2>7, <3>1
      <3>2. CASE k = n
        BY <1>2, <2>3, <2>7, <3>2
      <3>3. CASE k = n + 1
        BY <2>4, <2>7, <3>3
      <3> QED BY <3>1, <3>2, <3>3
    <2> QED BY <2>7, <2>8, <2>9, <2>10 DEF C
  <1> QED BY <1>3, <1>4

\* The state of a call that returns.
Returns(f) ==
    /\ Return(f)
    /\ list' = list /\ parts' = parts /\ fresh' = fresh
    /\ locale' = locale /\ calls' = calls
    /\ UNCHANGED alias_vars

LEMMA Returned ==
    ASSUME IInv, found_at = "make", NEW f \in (DOMAIN entry) \cup {NoFile}, Returns(f),
           failures' \in 0..MaxFailures
    PROVE  IInv' /\ Kept
  <1> DEFINE n      == Len(stack)
             caller == stack[n - 1].file
  <1>1. /\ list' = list /\ parts' = parts /\ fresh' = fresh /\ locale' = locale /\ calls' = calls
        /\ value' = value /\ AliasInv'
    BY AliasStays DEF Returns, IInv, alias_vars, lookup
  <1>2. /\ stack \in Seq(CallsOf(parts)) /\ stack # << >> /\ parts \in AllParts
        /\ parts \in {Exploded[l] : l \in Locales}
    BY PartsKnown DEF IInv, CallInv
  <1>3. n \in Nat \ {0} /\ DOMAIN stack = 1..n
    BY <1>2, EmptySeq, LenProperties
  <1>4. CASE n > 1
    <2>1. /\ stack' = Loop(Front(stack))
          /\ entry' = [entry EXCEPT ![caller].successor = Append(@, f)]
          /\ domain' = domain /\ found_at' = found_at
      BY <1>4 DEF Returns, Return
    <2>2. PICK s : s = Front(stack)
      OBVIOUS
    <2>3. /\ s \in Seq(CallsOf(parts)) /\ Len(s) = n - 1 /\ \A i \in 1..n - 1 : s[i] = stack[i]
      <3>1. 1 \in Int /\ n - 1 \in Int /\ \A i \in 1..n - 1 : stack[i] \in CallsOf(parts)
        BY <1>2, <1>3, ElementOfSeq
      <3>2. s = SubSeq(stack, 1, n - 1)
        BY <2>2 DEF Front
      <3>3. /\ SubSeq(stack, 1, n - 1) \in Seq(CallsOf(parts))
            /\ Len(SubSeq(stack, 1, n - 1)) = IF 1 <= n - 1 THEN n - 1 - 1 + 1 ELSE 0
            /\ \A i \in 1..n - 1 - 1 + 1 : SubSeq(stack, 1, n - 1)[i] = stack[1 + i - 1]
        BY <3>1, SubSeqProperties
      <3>4. n - 1 - 1 + 1 = n - 1 /\ 1 <= n - 1 /\ \A i \in 1..n - 1 : 1 + i - 1 = i
        BY <1>3, <1>4
      <3> QED BY <3>2, <3>3, <3>4
    <2>4. s # << >> /\ DOMAIN s = 1..n - 1
      BY <1>3, <1>4, <2>3
    <2>5. PICK t : t = Loop(s) /\ t \in Seq(CallsOf(parts)) /\ t # << >> /\ MadeIn(t, s)
      BY <1>2, <2>3, <2>4, LoopKeeps
    <2>6. stack' = t
      BY <2>1, <2>2, <2>5
    <2>7. entry' \in [DOMAIN entry -> Entries(DOMAIN entry)] /\ DOMAIN entry' = DOMAIN entry
          /\ \A g \in DOMAIN entry : entry'[g].decided = entry[g].decided /\ entry'[g].data = entry[g].data
      <3>1. PICK D : D = DOMAIN entry
        OBVIOUS
      <3>2. entry \in [D -> Entries(D)] /\ f \in D \cup {NoFile}
        BY <3>1 DEF IInv, ListInv
      <3>3. \A e \in Entries(D) : /\ [e EXCEPT !.successor = Append(@, f)] \in Entries(D)
                                  /\ [e EXCEPT !.successor = Append(@, f)].decided = e.decided
                                  /\ [e EXCEPT !.successor = Append(@, f)].data = e.data
        <4> SUFFICES ASSUME NEW e \in Entries(D)
                     PROVE  /\ [e EXCEPT !.successor = Append(@, f)] \in Entries(D)
                            /\ [e EXCEPT !.successor = Append(@, f)].decided = e.decided
                            /\ [e EXCEPT !.successor = Append(@, f)].data = e.data
          OBVIOUS
        <4>1. e.successor \in Seq(D \cup {NoFile})
          BY DEF Entries
        <4>2. PICK a \in Seq(D \cup {NoFile}) : a = Append(e.successor, f)
          BY <3>2, <4>1, AppendProperties
        <4>3. /\ [e EXCEPT !.successor = a] \in Entries(D)
              /\ [e EXCEPT !.successor = a].decided = e.decided
              /\ [e EXCEPT !.successor = a].data = e.data
          BY DEF Entries
        <4> QED BY <4>2, <4>3
      <3>4. \A g \in D : entry'[g] = IF g = caller THEN [entry[g] EXCEPT !.successor = Append(@, f)]
                                     ELSE entry[g]
        BY <2>1, <3>2
      <3>5. entry' = [g \in D |-> entry'[g]]
        BY <2>1, <3>2
      <3>6. \A g \in D : entry'[g] \in Entries(D)
        BY <3>2, <3>3, <3>4
      <3>7. \A g \in D : entry'[g].decided = entry[g].decided /\ entry'[g].data = entry[g].data
        BY <3>2, <3>3, <3>4
      <3> QED BY <3>1, <3>5, <3>6, <3>7
    <2>8. ListInv' /\ Kept
      <3>1. \A g \in DOMAIN entry' : entry'[g].data \in {NoFile, g}
        BY <2>7 DEF IInv, ListInv
      <3>2. list' \in Files /\ DOMAIN entry' = ToSet(list') /\ ListInOrder'
        BY <1>1, <2>7 DEF IInv, ListInv, ListInOrder, ToSet
      <3>3. entry' \in [DOMAIN entry' -> Entries(DOMAIN entry')]
        BY <2>7
      <3> QED BY <2>7, <3>1, <3>2, <3>3 DEF ListInv, Kept
    <2>9. CallInv'
      <3>1. \A k \in DOMAIN t : t[k].made => t[k].file \in DOMAIN entry
        <4> SUFFICES ASSUME NEW k \in DOMAIN t, t[k].made PROVE t[k].file \in DOMAIN entry
          OBVIOUS
        <4>1. PICK l \in 1..n - 1 : s[l].made /\ s[l].file = t[k].file
          BY <2>4, <2>5 DEF MadeIn
        <4>2. l \in DOMAIN stack /\ s[l] = stack[l]
          BY <1>3, <2>3
        <4> QED BY <4>1, <4>2 DEF IInv, CallInv
      <3> QED BY <1>1, <1>2, <2>1, <2>5, <2>6, <2>7, <3>1 DEF CallInv
    <2>10. AskInv'
      BY <1>1, <2>1, <2>7 DEF IInv, AskInv
    <2> QED BY <1>1, <2>8, <2>9, <2>10 DEF IInv
  <1>5. CASE ~(n > 1)
    <2>1. /\ stack' = << >> /\ entry' = entry /\ domain' = f
          /\ found_at' = IF f = NoFile THEN "found" ELSE "load"
      BY <1>5 DEF Returns, Return
    <2>2. ListInv' /\ Kept
      BY <1>1, <2>1, ListStays DEF IInv, l10n
    <2>3. CallInv'
      <3>1. << >> \in Seq(CallsOf(parts)) /\ DOMAIN << >> = {}
        OBVIOUS
      <3>2. found_at' # "make" /\ found_at' # "start"
        BY <2>1
      <3> QED BY <1>1, <2>1, <3>1, <3>2 DEF CallInv
    <2>4. AskInv'
      BY <1>1, <2>1 DEF IInv, AskInv
    <2> QED BY <1>1, <2>2, <2>3, <2>4 DEF IInv
  <1> QED BY <1>4, <1>5

\* The call at the top of the stack.
LEMMA TopCall ==
    ASSUME IInv, found_at = "make"
    PROVE  /\ top \in CallsOf(parts) /\ top.file \in AllFiles /\ top.mask \in SUBSET parts.mask
           /\ Len(stack) \in Nat \ {0} /\ DOMAIN stack = 1..Len(stack) /\ top = stack[Len(stack)]
           /\ top.made => top.file \in DOMAIN entry
  <1>1. stack \in Seq(CallsOf(parts)) /\ stack # << >>
    BY DEF IInv, CallInv
  <1>2. Len(stack) \in Nat \ {0} /\ DOMAIN stack = 1..Len(stack) /\ top = stack[Len(stack)]
    BY <1>1, EmptySeq, LenProperties DEF top, Last
  <1>3. top \in CallsOf(parts)
    BY <1>1, <1>2, ElementOfSeq
  <1>4. top.made => top.file \in DOMAIN entry
    BY <1>2 DEF IInv, CallInv
  <1> QED BY <1>2, <1>3, <1>4 DEF CallsOf

LEMMA MakeFails == ASSUME IInv, MakeNoMemory PROVE IInv' /\ Kept
  <1>1. failures' \in 0..MaxFailures
    <2>1. failures \in 0..MaxFailures /\ failures < MaxFailures /\ failures' = failures + 1
      BY DEF MakeNoMemory, Fail, IInv, AskInv
    <2>2. MaxFailures \in Nat
      BY Zenon, NamesAssumption
    <2> QED BY <2>1, <2>2
  <1>2. Returns(NoFile) /\ found_at = "make"
    BY DEF MakeNoMemory, Returns, asked
  <1> QED BY <1>1, <1>2, Returned

LEMMA MakeFinds == ASSUME IInv, MakeFound PROVE IInv' /\ Kept
  <1>1. found_at = "make" /\ Known(top.file) /\ Returns(top.file) /\ failures' = failures
    BY DEF MakeFound, Returns, asked
  <1>2. top.file \in DOMAIN entry
    <2>1. top.file \in AllFiles
      BY <1>1, TopCall
    <2> QED BY <1>1, <2>1, KnownIsListed DEF IInv, ListInv
  <1>3. failures' \in 0..MaxFailures
    BY <1>1 DEF IInv, AskInv
  <1> QED BY <1>1, <1>2, <1>3, Returned

LEMMA MakeEnds == ASSUME IInv, MakeDone PROVE IInv' /\ Kept
  <1>1. found_at = "make" /\ top.made /\ Returns(top.file) /\ failures' = failures
    BY DEF MakeDone, Returns, asked
  <1>2. top.file \in DOMAIN entry
    BY <1>1, TopCall
  <1>3. failures' \in 0..MaxFailures
    BY <1>1 DEF IInv, AskInv
  <1> QED BY <1>1, <1>2, <1>3, Returned

LEMMA MakeAdds == ASSUME IInv, MakeNew PROVE IInv' /\ Kept
  <1> DEFINE f == top.file
             called == [top EXCEPT !.made = TRUE, !.todo = Dominated(top.mask)]
             s == Append(Front(stack), called)
             D == DOMAIN entry
             n == Len(stack)
  <1>1. /\ found_at = "make" /\ ~Known(f)
        /\ list' = InsertAt(list, Stop(f), f)
        /\ entry' = [g \in D \cup {f} |-> IF g = f THEN NewEntry(top.mask) ELSE entry[g]]
        /\ stack' = Loop(s)
        /\ fresh' = (fresh \/ n = 1)
        /\ domain' = domain /\ parts' = parts /\ found_at' = found_at /\ locale' = locale
        /\ calls' = calls /\ failures' = failures /\ UNCHANGED alias_vars
    BY DEF MakeNew, asked
  <1>2. AliasInv' /\ value' = value
    BY <1>1, AliasStays DEF IInv, alias_vars, lookup
  <1>3. /\ top \in CallsOf(parts) /\ f \in AllFiles /\ top.mask \in SUBSET parts.mask
        /\ n \in Nat \ {0} /\ DOMAIN stack = 1..n
    BY <1>1, TopCall
  <1>4. /\ stack \in Seq(CallsOf(parts)) /\ parts \in AllParts
        /\ parts \in {Exploded[l] : l \in Locales}
    BY <1>1, PartsKnown DEF IInv, CallInv
  <1>5. f \notin D
    BY <1>1, <1>3, KnownIsListed DEF IInv, ListInv
  <1>6. /\ list' \in Files /\ ToSet(list') = ToSet(list) \cup {f} /\ ListInOrder'
    <2>1. PICK new : new = InsertAt(list, Stop(f), f)
      OBVIOUS
    <2>2. /\ new \in Files /\ ToSet(new) = ToSet(list) \cup {f}
          /\ \A i \in 2..Len(new) : Place[new[i]] < Place[new[i - 1]]
      BY <1>1, <1>3, <2>1, ListStaysInOrder DEF IInv, ListInv
    <2>3. list' = new
      BY <1>1, <2>1
    <2> QED BY <2>2, <2>3 DEF ListInOrder
  <1>7. DOMAIN entry' = D \cup {f} /\ \A g \in D : g \in DOMAIN entry' /\ entry'[g] = entry[g]
    BY <1>1, <1>5
  <1>8. entry'[f] = NewEntry(top.mask)
    BY <1>1
  <1>9. ListInv'
    <2>1. PICK E : E = D \cup {f}
      OBVIOUS
    <2>2. \A e \in Entries(D) : e \in Entries(E)
      BY <2>1 DEF Entries
    <2>3. NewEntry(top.mask) \in Entries(E) /\ NewEntry(top.mask).data = NoFile
      BY DEF NewEntry, Entries
    <2>4. \A g \in D : entry[g] \in Entries(D) /\ entry[g].data \in {NoFile, g}
      BY DEF IInv, ListInv
    <2>5. \A g \in E : entry'[g] \in Entries(E) /\ entry'[g].data \in {NoFile, g}
      BY <1>7, <1>8, <2>1, <2>2, <2>3, <2>4
    <2>6. entry' = [g \in E |-> entry'[g]]
      BY <1>1, <2>1
    <2>7. entry' \in [E -> Entries(E)] /\ DOMAIN entry' = E
      BY <2>5, <2>6
    <2>8. E = ToSet(list')
      BY <1>6, <2>1 DEF IInv, ListInv
    <2> QED BY <1>6, <2>5, <2>7, <2>8 DEF ListInv
  <1>10. Kept
    BY <1>7 DEF Kept
  <1>11. called \in CallsOf(parts) /\ called.file = f
    <2>3. PICK todo \in SUBSET (SUBSET parts.mask) : todo = Dominated(top.mask)
      BY <1>3 DEF Dominated
    <2>4. PICK c \in CallsOf(parts) : c = top
      BY <1>3
    <2>5. /\ [c EXCEPT !.made = TRUE, !.todo = todo] \in CallsOf(parts)
          /\ [c EXCEPT !.made = TRUE, !.todo = todo].file = c.file
      BY DEF CallsOf
    <2>6. called = [c EXCEPT !.made = TRUE, !.todo = todo]
      BY <2>3, <2>4
    <2> QED BY <2>4, <2>5, <2>6
  <1> HIDE DEF called
  <1>12. /\ s \in Seq(CallsOf(parts)) /\ Len(s) = n /\ DOMAIN s = 1..n /\ s # << >>
         /\ \A i \in 1..n - 1 : s[i] = stack[i]
         /\ s[n] = called
    <2> DEFINE front == Front(stack)
    <2>1. front \in Seq(CallsOf(parts)) /\ Len(front) = n - 1 /\ \A i \in 1..n - 1 : front[i] = stack[i]
      <3>1. 1 \in Int /\ n - 1 \in Int /\ \A i \in 1..n - 1 : stack[i] \in CallsOf(parts)
        BY <1>3, <1>4, ElementOfSeq
      <3>2. front = SubSeq(stack, 1, n - 1)
        BY DEF Front
      <3>3. /\ SubSeq(stack, 1, n - 1) \in Seq(CallsOf(parts))
            /\ Len(SubSeq(stack, 1, n - 1)) = IF 1 <= n - 1 THEN n - 1 - 1 + 1 ELSE 0
            /\ \A i \in 1..n - 1 - 1 + 1 : SubSeq(stack, 1, n - 1)[i] = stack[1 + i - 1]
        BY <3>1, SubSeqProperties
      <3>4. n - 1 - 1 + 1 = n - 1 /\ (~(1 <= n - 1) => n - 1 = 0) /\ \A i \in 1..n - 1 : 1 + i - 1 = i
        BY <1>3
      <3> QED BY <3>2, <3>3, <3>4
    <2> HIDE DEF front
    <2>2. /\ Append(front, called) \in Seq(CallsOf(parts)) /\ Append(front, called) # << >>
          /\ Len(Append(front, called)) = n - 1 + 1
          /\ \A i \in 1..n - 1 : Append(front, called)[i] = front[i]
          /\ Append(front, called)[n - 1 + 1] = called
      BY <1>11, <2>1, AppendProperties
    <2>3. s = Append(front, called) /\ n - 1 + 1 = n
      BY <1>3 DEF front
    <2>4. DOMAIN s = 1..Len(s)
      BY <2>2, <2>3, LenProperties
    <2> QED BY <2>1, <2>2, <2>3, <2>4
  <1> HIDE DEF s
  <1>13. PICK t : t = Loop(s) /\ t \in Seq(CallsOf(parts)) /\ t # << >> /\ MadeIn(t, s)
    BY <1>4, <1>12, LoopKeeps
  <1>14. CallInv'
    <2>1. \A k \in DOMAIN t : t[k].made => t[k].file \in D \cup {f}
      <3> SUFFICES ASSUME NEW k \in DOMAIN t, t[k].made PROVE t[k].file \in D \cup {f}
        OBVIOUS
      <3>1. PICK l \in 1..n : s[l].made /\ s[l].file = t[k].file
        BY <1>12, <1>13 DEF MadeIn
      <3>2. CASE l = n
        BY <1>11, <1>12, <3>1, <3>2
      <3>3. CASE l # n
        <4>1. l \in 1..n - 1 /\ l \in DOMAIN stack
          <5>1. \A q \in Nat \ {0} : \A j \in 1..q : j # q => j \in 1..q - 1
            OBVIOUS
          <5> QED BY <1>3, <3>3, <5>1
        <4> QED BY <1>12, <3>1, <4>1 DEF IInv, CallInv
      <3> QED BY <3>2, <3>3
    <2>2. stack' = t
      BY <1>1, <1>13
    <2> QED BY <1>1, <1>4, <1>7, <1>13, <2>1, <2>2 DEF CallInv
  <1>15. AskInv'
    BY <1>1, <1>2, <1>7 DEF IInv, AskInv
  <1> QED BY <1>2, <1>9, <1>10, <1>14, <1>15 DEF IInv

\* A step that is none of the list's, and leaves the calls and the aliases.
LEMMA CallsStay ==
    ASSUME CallInv, DOMAIN entry' = DOMAIN entry, stack' = stack, parts' = parts,
           found_at # "make", found_at' \notin {"make", "start"}
    PROVE  CallInv'
  <1>1. stack = << >>
    BY DEF CallInv
  <1> QED BY <1>1 DEF CallInv

LEMMA FindAsks == ASSUME IInv, FindDomain PROVE IInv' /\ Kept
  <1>1. PICK n \in Locales : parts' = Whole(Spelling[n]) /\ locale' = n
    BY DEF FindDomain
  <1>2. /\ found_at = "idle" /\ calls < MaxCalls /\ calls' = calls + 1 /\ domain' = NoFile
        /\ fresh' = FALSE /\ found_at' = "start" /\ stack' = stack /\ failures' = failures
        /\ UNCHANGED l10n /\ entry' = entry /\ UNCHANGED alias_vars /\ value' = value
    BY DEF FindDomain, l10n, alias_vars, lookup
  <1>3. AliasInv' /\ ListInv' /\ Kept
    BY <1>2, AliasStays, ListStays DEF IInv
  <1>4. CallInv'
    <2>1. stack' = << >> /\ << >> \in Seq(CallsOf(parts')) /\ DOMAIN << >> = {}
      BY <1>2 DEF IInv, CallInv
    <2> QED BY <1>1, <1>2, <2>1 DEF CallInv
  <1>5. AskInv'
    <2>1. calls' \in 0..MaxCalls
      <3>1. MaxCalls \in Nat
        BY Zenon, NamesAssumption
      <3> QED BY <1>2, <3>1 DEF IInv, AskInv
    <2> QED BY <1>1, <1>2, <2>1 DEF IInv, AskInv
  <1> QED BY <1>3, <1>4, <1>5 DEF IInv

LEMMA FindFinds == ASSUME IInv, FindKnown PROVE IInv' /\ Kept
  <1>1. /\ found_at = "start" /\ Known(FileName[parts][{}]) /\ domain' = FileName[parts][{}]
        /\ found_at' = "load" /\ stack' = stack /\ parts' = parts /\ locale' = locale
        /\ calls' = calls /\ fresh' = fresh /\ failures' = failures
        /\ UNCHANGED l10n /\ entry' = entry /\ UNCHANGED alias_vars /\ value' = value
    BY DEF FindKnown, l10n, asked, alias_vars, lookup
  <1>2. AliasInv' /\ ListInv' /\ Kept
    BY <1>1, AliasStays, ListStays DEF IInv
  <1>3. CallInv'
    BY <1>1, CallsStay DEF IInv
  <1>4. FileName[parts][{}] \in DOMAIN entry
    <2>1. parts \in AllParts
      BY <1>1, PartsKnown DEF IInv
    <2>2. FileName[parts][{}] \in AllFiles
      BY <2>1, FilesAreTexts
    <2> QED BY <1>1, <2>2, KnownIsListed DEF IInv, ListInv
  <1>5. AskInv'
    BY <1>1, <1>4 DEF IInv, AskInv
  <1> QED BY <1>2, <1>3, <1>5 DEF IInv

LEMMA FindExpands == ASSUME IInv, FindUnknown PROVE IInv' /\ Kept
  <1>1. /\ found_at = "start" /\ ExpandAlias(locale)
        /\ found_at' = "alias" /\ stack' = stack /\ parts' = parts /\ locale' = locale
        /\ domain' = domain /\ calls' = calls /\ fresh' = fresh
        /\ UNCHANGED l10n /\ entry' = entry
    BY DEF FindUnknown, l10n, asked
  <1>2. failures' \in 0..MaxFailures
    <2>1. failures' = failures \/ (failures < MaxFailures /\ failures' = failures + 1)
      BY DEF FindUnknown, Fail
    <2>2. MaxFailures \in Nat /\ failures \in 0..MaxFailures
      BY Zenon, NamesAssumption DEF IInv, AskInv
    <2> QED BY <2>1, <2>2
  <1>3. locale \in Locales /\ locale \in Names
    <2>1. Locales \subseteq Names
      BY NamesAssumption DEF Locales, Names
    <2> QED BY <1>1, <2>1 DEF IInv, AskInv
  <1>4. AliasInv'
    BY <1>1, <1>3, AliasAsked DEF IInv
  <1>5. ListInv' /\ Kept /\ CallInv'
    BY <1>1, ListStays, CallsStay DEF IInv
  <1>6. AskInv'
    <2>1. value' = NoAlias
      BY <1>1 DEF ExpandAlias
    <2> QED BY <1>1, <1>2, <1>3, <2>1 DEF IInv, AskInv
  <1> QED BY <1>4, <1>5, <1>6 DEF IInv

LEMMA FindAliases == ASSUME IInv, Alias PROVE IInv' /\ Kept
  <1>1. /\ found_at = "alias" /\ AliasNext
        /\ found_at' = "alias" /\ stack' = stack /\ parts' = parts /\ locale' = locale
        /\ domain' = domain /\ calls' = calls /\ fresh' = fresh
        /\ UNCHANGED l10n /\ entry' = entry
    BY DEF Alias, l10n, asked
  <1>2. failures' \in 0..MaxFailures
    <2>1. (failures' = failures \/ failures' = failures + 1) /\ failures' <= MaxFailures
      BY DEF Alias
    <2>2. MaxFailures \in Nat /\ failures \in 0..MaxFailures
      BY Zenon, NamesAssumption DEF IInv, AskInv
    <2> QED BY <2>1, <2>2
  <1>3. AliasInv'
    BY <1>1, AliasStep DEF IInv
  <1>4. ListInv' /\ Kept /\ CallInv'
    BY <1>1, ListStays, CallsStay DEF IInv
  <1>5. AskInv'
    <2>1. value' \in Locales \cup {NoAlias}
      BY <1>1, ValueIsLocale DEF IInv, AskInv
    <2> QED BY <1>1, <1>2, <2>1 DEF IInv, AskInv
  <1> QED BY <1>3, <1>4, <1>5 DEF IInv

LEMMA FindTakesApart == ASSUME IInv, FindParts PROVE IInv' /\ Kept
  <1>1. /\ found_at = "alias" /\ domain' = domain /\ locale' = locale /\ calls' = calls
        /\ fresh' = fresh /\ UNCHANGED l10n /\ entry' = entry /\ UNCHANGED alias_vars
        /\ value' = value
    BY DEF FindParts, l10n, asked, alias_vars, lookup
  <1>2. AliasInv' /\ ListInv' /\ Kept
    BY <1>1, AliasStays, ListStays DEF IInv
  <1>3. CASE /\ parts' = Exploded[IF value = NoAlias THEN locale ELSE value]
             /\ stack' = <<Call(parts', parts'.mask)>>
             /\ found_at' = "make" /\ failures' = failures
    <2>1. PICK n \in Locales : n = IF value = NoAlias THEN locale ELSE value
      BY <1>1 DEF IInv, AskInv
    <2>2. PICK x \in AllParts : x = Exploded[n] /\ parts' = x
      BY <1>3, <2>1, PartsAreNames
    <2>3. PICK c \in CallsOf(x) : c = Call(x, x.mask) /\ ~c.made
      BY NewCall
    <2>4. stack' = <<c>>
      BY <1>3, <2>2, <2>3
    <2>5. <<c>> \in Seq(CallsOf(x)) /\ <<c>> # << >> /\ DOMAIN <<c>> = {1} /\ <<c>>[1] = c
      OBVIOUS
    <2>6. CallInv'
      BY <1>3, <2>2, <2>3, <2>4, <2>5 DEF CallInv
    <2>7. AskInv'
      BY <1>1, <1>3 DEF IInv, AskInv
    <2> QED BY <1>2, <2>6, <2>7 DEF IInv
  <1>4. CASE Fail /\ found_at' = "found" /\ UNCHANGED <<parts, stack>>
    <2>1. CallInv'
      BY <1>1, <1>4, CallsStay DEF IInv
    <2>2. failures' \in 0..MaxFailures
      <3>1. MaxFailures \in Nat
        BY Zenon, NamesAssumption
      <3> QED BY <1>4, <3>1 DEF Fail, IInv, AskInv
    <2>3. AskInv'
      BY <1>1, <1>4, <2>2 DEF IInv, AskInv
    <2> QED BY <1>2, <2>1, <2>3 DEF IInv
  <1> QED BY <1>3, <1>4 DEF FindParts

LEMMA FindLoads == ASSUME IInv, Load PROVE IInv' /\ Kept
  <1>1. /\ found_at = "load" /\ found_at' = "load" /\ stack' = stack /\ parts' = parts
        /\ locale' = locale /\ domain' = domain /\ calls' = calls /\ fresh' = fresh
        /\ list' = list /\ UNCHANGED alias_vars /\ value' = value
    BY DEF Load, asked, alias_vars, lookup
  <1>2. PICK f : /\ ~HasData(f) /\ Undecided(f)
                 /\ \/ /\ entry' = [entry EXCEPT ![f].decided = TRUE,
                                                 ![f].data = IF f \in catalogs THEN f ELSE NoFile]
                       /\ failures' = failures
                    \/ Fail /\ entry' = [entry EXCEPT ![f].decided = TRUE]
    BY DEF Load, NextInChain
  <1>3. failures' \in 0..MaxFailures
    <2>1. MaxFailures \in Nat
      BY Zenon, NamesAssumption
    <2> QED BY <1>2, <2>1 DEF Fail, IInv, AskInv
  <1>4. PICK D : D = DOMAIN entry
    OBVIOUS
  <1>5. entry \in [D -> Entries(D)] /\ \A g \in D : entry[g].data \in {NoFile, g}
    BY <1>4 DEF IInv, ListInv
  <1>6. PICK e \in {[entry[f] EXCEPT !.decided = TRUE, !.data = IF f \in catalogs THEN f ELSE NoFile],
                    [entry[f] EXCEPT !.decided = TRUE]} : entry' = [entry EXCEPT ![f] = e]
    <2>1. [entry EXCEPT ![f].decided = TRUE, ![f].data = IF f \in catalogs THEN f ELSE NoFile]
            = [entry EXCEPT ![f] = [entry[f] EXCEPT !.decided = TRUE,
                                                    !.data = IF f \in catalogs THEN f ELSE NoFile]]
      BY <1>5
    <2>2. [entry EXCEPT ![f].decided = TRUE] = [entry EXCEPT ![f] = [entry[f] EXCEPT !.decided = TRUE]]
      BY <1>5
    <2> QED BY <1>2, <2>1, <2>2
  <1>7. f \in D => e \in Entries(D) /\ e.data \in {NoFile, f}
    <2> SUFFICES ASSUME f \in D PROVE e \in Entries(D) /\ e.data \in {NoFile, f}
      OBVIOUS
    <2>1. PICK a \in Entries(D) : a = entry[f] /\ a.data \in {NoFile, f}
      BY <1>5
    <2>2. PICK d \in {NoFile, f} : d = IF f \in catalogs THEN f ELSE NoFile
      OBVIOUS
    <2>3. e = [a EXCEPT !.decided = TRUE, !.data = d] \/ e = [a EXCEPT !.decided = TRUE]
      BY <1>6, <2>1, <2>2
    <2> QED BY <2>1, <2>2, <2>3 DEF Entries
  <1>8. /\ entry' \in [D -> Entries(D)] /\ DOMAIN entry' = D
        /\ \A g \in D : entry'[g].data \in {NoFile, g}
    BY <1>5, <1>6, <1>7
  <1>9. Kept
    <2>1. \A g \in D : g # f => entry'[g] = entry[g]
      BY <1>5, <1>6
    <2>2. ~entry[f].decided
      BY <1>2 DEF Undecided
    <2> QED BY <1>4, <1>8, <2>1, <2>2 DEF Kept
  <1>10. ListInv'
    <2>1. list' \in Files /\ DOMAIN entry' = ToSet(list') /\ ListInOrder'
      BY <1>1, <1>4, <1>8 DEF IInv, ListInv, ListInOrder, ToSet
    <2> QED BY <1>8, <2>1 DEF ListInv
  <1>11. CallInv' /\ AliasInv'
    BY <1>1, <1>4, <1>8, CallsStay, AliasStays DEF IInv
  <1>12. AskInv'
    BY <1>1, <1>3, <1>4, <1>8 DEF IInv, AskInv
  <1> QED BY <1>9, <1>10, <1>11, <1>12 DEF IInv

LEMMA FindEnds == ASSUME IInv, Loaded \/ Answer PROVE IInv' /\ Kept
  <1>1. /\ found_at \in {"load", "found"} /\ found_at' \in {"found", "idle"}
        /\ domain' = domain /\ locale' = locale /\ calls' = calls /\ stack' = stack
        /\ parts' = parts /\ fresh' = fresh /\ failures' = failures
        /\ UNCHANGED l10n /\ entry' = entry /\ UNCHANGED alias_vars /\ value' = value
    BY DEF Loaded, Answer, l10n, asked, alias_vars, lookup
  <1>2. AliasInv' /\ ListInv' /\ Kept
    BY <1>1, AliasStays, ListStays DEF IInv
  <1>3. CallInv'
    BY <1>1, CallsStay DEF IInv
  <1>4. AskInv'
    BY <1>1 DEF IInv, AskInv
  <1> QED BY <1>2, <1>3, <1>4 DEF IInv

LEMMA Steps == ASSUME IInv, Next PROVE IInv' /\ Kept
  BY MakeFails, MakeFinds, MakeAdds, MakeEnds, FindAsks, FindFinds, FindExpands, FindAliases,
     FindTakesApart, FindLoads, FindEnds DEF Next, Make, Find

LEMMA NothingHappens == ASSUME IInv, UNCHANGED vars PROVE IInv'
  <1>1. /\ UNCHANGED alias_vars /\ UNCHANGED l10n /\ entry' = entry /\ stack' = stack
        /\ domain' = domain /\ parts' = parts /\ found_at' = found_at /\ locale' = locale
        /\ calls' = calls /\ fresh' = fresh /\ failures' = failures /\ value' = value
    BY DEF vars, l10n, asked, alias_vars, lookup
  <1>2. AliasInv' /\ ListInv'
    BY <1>1, AliasStays, ListStays DEF IInv
  <1>3. CallInv' /\ AskInv'
    BY <1>1 DEF IInv, CallInv, AskInv
  <1> QED BY <1>2, <1>3 DEF IInv

-----------------------------------------------------------------------------
(* The theorems.                                                           *)

\* The inductive invariant.
THEOREM Invariance == Spec => []IInv
  <1>1. Init => IInv
    BY Starts
  <1>2. IInv /\ [Next]_vars => IInv'
    BY Steps, NothingHappens
  <1> QED BY <1>1, <1>2, PTL DEF Spec

\* The state of a search keeps its types: an entry for each name in the list,
\* which inherits only from entries in it (l10nflist.c:269-358), and a table
\* of aliases that has room for all of its entries (localealias.c:300-330).
THEOREM TypeCorrect == Spec => []TypeOK
  <1>1. IInv => TypeOK
    BY InvIsTyped
  <1> QED BY <1>1, Invariance, PTL

\* A name stays without an alias only when every file has been read and none
\* of what was kept is for it, and its value is one that a file gives it
\* (localealias.c:165-205).
THEOREM AliasesAreFound == Spec => []AliasIsFound
  <1>1. IInv => AliasIsFound
    BY DEF IInv, AliasInv
  <1> QED BY <1>1, Invariance, PTL

\* The entries that recursive calls insert leave the list in strictly
\* decreasing order, so that a walk finds what is in it
\* (l10nflist.c:269-287, 317-318).
THEOREM ListStaysOrdered == Spec => []ListInOrder
  <1>1. IInv => ListInOrder
    BY DEF IInv, ListInv
  <1> QED BY <1>1, Invariance, PTL

\* What was decided of an entry stays, whatever else is searched for: no
\* catalog is looked for twice (finddomain.c:96-110, 151-163).
THEOREM CatalogsLoadOnce == Spec => LoadedOnce
  <1> DEFINE Decided ==
          \A f \in DOMAIN entry : entry[f].decided =>
              f \in DOMAIN entry' /\ entry'[f].decided /\ entry'[f].data = entry[f].data
  <1>1. IInv /\ [Next]_vars => [Decided]_vars
    BY Steps DEF Kept
  <1>2. Spec => [][Decided]_vars
    BY <1>1, Invariance, PTL DEF Spec
  <1> QED BY <1>2 DEF LoadedOnce
=============================================================================
