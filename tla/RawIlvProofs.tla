---------------------------- MODULE RawIlvProofs ----------------------------
(***************************************************************************)
(* Theorems about rawilv, for every set of command lines: about its        *)
(* options (IlvOptions), what the loops are entered with, and about the    *)
(* interleaving loop that goes on from there (Interleave), for every       *)
(* buffer size, set of streams and commands.                               *)
(***************************************************************************)
EXTENDS IlvOptions, Interleave, DataLemmas

-----------------------------------------------------------------------------
(* The command line: lemmas on the array of sizes.                         *)

\* ensure_enough_space makes the array no shorter than what is wanted of it.
LEMMA NewAllocIsEnough ==
    ASSUME NEW old \in Nat, NEW wanted \in Nat
    PROVE  NewAlloc(old, wanted) \in Nat /\ wanted <= NewAlloc(old, wanted)
  BY DEF NewAlloc, MaxOf

\* The command line is one of those given.
LineIsGiven == \E c \in CommandLines : options = c.options /\ files = c.files

LEMMA LineType ==
    ASSUME LineIsGiven
    PROVE  /\ Len(options) \in Nat /\ DOMAIN options = 1..Len(options)
           /\ \A k \in DOMAIN options : options[k].key = "s" => options[k].arg \in Seq(Nat)
           /\ Len(files) \in Nat
  BY CommandLinesAssumption DEF LineIsGiven

LEMMA FilesType ==
    ASSUME LineIsGiven, OptionsTypeOK
    PROVE  Len(noa_files) \in Nat
  <1>1. Len(<< >>) = 0 /\ Len(<<"-">>) = 1
    OBVIOUS
  <1> QED BY <1>1, LineType DEF OptionsTypeOK

\* A size that is stored is positive and within the array.
LEMMA StoreType ==
    ASSUME OptionsTypeOK, SizesStore
    PROVE  /\ items' \in Seq(Nat) /\ count' \in Nat /\ count' > 0
           /\ block_sizes' \in Seq(Nat \ {0})
           /\ alloc' \in Nat /\ Len(block_sizes') <= alloc'
  <1>1. /\ items \in Seq(Nat) /\ items # << >> /\ Head(items) > 0
        /\ items' = Tail(items) /\ count \in Nat /\ count' = count + 1
        /\ block_sizes \in Seq(Nat \ {0}) /\ alloc \in Nat
        /\ block_sizes' = Append(block_sizes, Head(items))
        /\ alloc' = NewAlloc(alloc, Len(block_sizes) + 1)
    BY DEF OptionsTypeOK, SizesStore
  <1>2. Tail(items) \in Seq(Nat) /\ Head(items) \in Nat
    BY <1>1, HeadTailProperties
  <1>3. /\ block_sizes' \in Seq(Nat \ {0})
        /\ Len(block_sizes') = Len(block_sizes) + 1
    BY <1>1, <1>2, AppendProperties
  <1>4. Len(block_sizes) + 1 \in Nat
    BY <1>1, LenProperties
  <1>5. alloc' \in Nat /\ Len(block_sizes) + 1 <= alloc'
    BY <1>1, <1>4, NewAllocIsEnough
  <1> QED BY <1>1, <1>2, <1>3, <1>5

\* What PadSizes makes of the array when there is room: the sizes that were
\* given come first, and there is one for each file.
LEMMA PaddedSizes ==
    ASSUME NEW s \in Seq(Nat \ {0}), NEW n \in Nat, Len(s) < n,
           NEW value, value = IF Len(s) < 1 THEN 1 ELSE s[Len(s)]
    PROVE  /\ s \o [i \in 1..(n - Len(s)) |-> value] \in Seq(Nat \ {0})
           /\ Len(s \o [i \in 1..(n - Len(s)) |-> value]) = n
  <1> DEFINE rest == [i \in 1..(n - Len(s)) |-> value]
  <1>1. Len(s) \in Nat
    BY LenProperties
  <1>2. value \in Nat \ {0}
    BY <1>1
  <1>3. n - Len(s) \in Nat
    BY <1>1
  <1>4. rest \in Seq(Nat \ {0}) /\ Len(rest) = n - Len(s)
    BY <1>2, <1>3, IsASeq
  <1> HIDE DEF rest
  <1>5. s \o rest \in Seq(Nat \ {0}) /\ Len(s \o rest) = Len(s) + Len(rest)
    BY <1>4, ConcatProperties
  <1>6. Len(s \o rest) = n
    BY <1>1, <1>4, <1>5
  <1> QED BY <1>5, <1>6 DEF rest

\* What PadSizes does with it.
LEMMA PadType ==
    ASSUME LineIsGiven, OptionsTypeOK, PadSizes
    PROVE  /\ block_sizes' \in Seq(Nat \ {0})
           /\ alloc' \in Nat /\ Len(block_sizes') <= alloc'
           /\ errno' \in {errno, "ENOMEM"}
           /\ parse_at' \in {"main", "usage"}
           /\ parse_at' = "main" /\ errno' # "ENOMEM" => Len(block_sizes') = Len(noa_files)
  <1> DEFINE stored == Len(block_sizes)
             n     == Len(noa_files)
             value == IF stored < 1 THEN 1 ELSE block_sizes[stored]
  <1>1. /\ block_sizes \in Seq(Nat \ {0}) /\ stored \in Nat /\ n \in Nat
        /\ alloc \in Nat /\ stored <= alloc
    BY FilesType, LenProperties DEF OptionsTypeOK
  <1>2. CASE stored = n /\ parse_at' = "main" /\ UNCHANGED <<block_sizes, alloc, errno>>
    BY <1>1, <1>2
  <1>3. CASE stored > n /\ parse_at' = "usage" /\ UNCHANGED <<block_sizes, alloc, errno>>
    BY <1>1, <1>3
  <1>4. CASE /\ stored < n
             /\ alloc' = NewAlloc(alloc, n)
             /\ block_sizes' = block_sizes \o [i \in 1..(n - stored) |-> value]
             /\ parse_at' = "main" /\ UNCHANGED errno
    <2>1. block_sizes' \in Seq(Nat \ {0}) /\ Len(block_sizes') = n
      BY <1>1, <1>4, PaddedSizes
    <2>2. alloc' \in Nat /\ n <= alloc'
      BY <1>1, <1>4, NewAllocIsEnough
    <2> QED BY <1>4, <2>1, <2>2
  <1>5. CASE stored < n /\ n > alloc /\ NoMemory /\ UNCHANGED <<block_sizes, alloc>>
    BY <1>1, <1>5 DEF NoMemory, GiveUp
  <1> QED BY <1>2, <1>3, <1>4, <1>5 DEF PadSizes

-----------------------------------------------------------------------------
(* The command line: why main may go on half-way.                          *)

Excused == errno = "ENOMEM" \/ \E k \in Given("s") : options[k].arg = << >>

\* Ready: the list of sizes fits the files, or there is an excuse.
HalfWayInv ==
    /\ parse_at = "sizes" =>
           /\ next <= Len(options) /\ option.key = "s"
           /\ count = 0 => items = option.arg
    /\ parse_at = "end" => noa_files # << >>
    /\ parse_at = "main" =>
           Excused \/ (noa_files # << >> /\ Len(block_sizes) = Len(noa_files))
    /\ parse_at \in {"assertion", "null_sizes"} => Excused

IInv == LineIsGiven /\ OptionsTypeOK /\ HalfWayInv

LEMMA InitIInv == OptionsInit => IInv
  <1> SUFFICES ASSUME OptionsInit PROVE IInv
    OBVIOUS
  <1>1. LineIsGiven
    BY DEF OptionsInit, LineIsGiven
  <1>2. Len(options) \in Nat
    BY <1>1, LineType
  <1>3. << >> \in Seq(Nat) /\ << >> \in Seq(Nat \ {0}) /\ Len(<< >>) = 0
    BY EmptySeq
  <1>4. input_file \in BOOLEAN /\ output_file \in BOOLEAN
    BY Zenon DEF OptionsInit
  <1>5. OptionsTypeOK
    BY <1>2, <1>3, <1>4 DEF OptionsInit, OptionsTypeOK
  <1>6. HalfWayInv
    BY DEF OptionsInit, HalfWayInv
  <1> QED BY <1>1, <1>5, <1>6 DEF IInv

\* The excuse stays as long as errno does.
LEMMA ExcuseStays ==
    ASSUME Excused, UNCHANGED commandLine, errno' \in {errno, "ENOMEM"}
    PROVE  Excused'
  BY DEF Excused, Given, commandLine

LEMMA NextIInv == IInv /\ [OptionsNext]_option_vars => IInv'
  <1> SUFFICES ASSUME IInv, [OptionsNext]_option_vars PROVE IInv'
    OBVIOUS
  <1> USE DEF IInv
  <1>0. UNCHANGED commandLine
    BY DEF OptionsNext, SizesBegin, SizesStore, SizesNoMemory, SizesInvalid, SizesEnd, SetOutput,
           SetInput, StoreFiles, PadSizes, OpenFails, EnterLoop, OptionsEnded, option_vars
  <1>1. /\ LineIsGiven' /\ options' = options /\ files' = files
        /\ Len(options) \in Nat /\ next \in 1..(Len(options) + 1)
    BY <1>0, LineType DEF LineIsGiven, commandLine, OptionsTypeOK
  <1>2. CASE SizesBegin
    <2>1. next \in DOMAIN options
      BY <1>1, <1>2, LineType DEF SizesBegin
    <2>2. option.arg \in Seq(Nat)
      BY <1>2, <2>1, LineType DEF SizesBegin, option
    <2>3. OptionsTypeOK'
      BY <1>1, <1>2, <2>2 DEF SizesBegin, OptionsTypeOK
    <2>4. HalfWayInv'
      BY <1>1, <1>2 DEF SizesBegin, HalfWayInv, option
    <2> QED BY <1>1, <2>3, <2>4
  <1>3. CASE SizesStore
    <2>1. OptionsTypeOK'
      BY <1>1, <1>3, StoreType DEF SizesStore, OptionsTypeOK
    <2>2. HalfWayInv'
      BY <1>1, <1>3, StoreType DEF SizesStore, HalfWayInv, option
    <2> QED BY <1>1, <2>1, <2>2
  <1>4. CASE SizesNoMemory
    <2>1. OptionsTypeOK'
      BY <1>1, <1>4 DEF SizesNoMemory, GiveUp, OptionsTypeOK
    <2>2. HalfWayInv'
      BY <1>4 DEF SizesNoMemory, GiveUp, HalfWayInv, Excused
    <2> QED BY <1>1, <2>1, <2>2
  <1>5. CASE SizesInvalid
    <2>1. OptionsTypeOK'
      BY <1>1, <1>5 DEF SizesInvalid, OptionsTypeOK, OptionsExits
    <2>2. HalfWayInv'
      BY <1>5 DEF SizesInvalid, HalfWayInv
    <2> QED BY <1>1, <2>1, <2>2
  <1>6. CASE SizesEnd
    <2>1. next <= Len(options) /\ option.key = "s" /\ next \in DOMAIN options
      BY <1>1, <1>6, LineType DEF SizesEnd, HalfWayInv
    <2>2. parse_at' \in {"options", "usage", "main"}
      BY <1>6 DEF SizesEnd
    <2>3. OptionsTypeOK'
      BY <1>1, <1>6, <2>1, <2>2 DEF SizesEnd, OptionsTypeOK, OptionsExits
    <2>4. ASSUME parse_at' = "main" PROVE Excused'
      <3>1. count = 0
        BY <1>6, <2>4 DEF SizesEnd, OptionsTypeOK
      <3>2. option.arg = << >>
        BY <1>6, <3>1 DEF SizesEnd, HalfWayInv
      <3>3. Excused
        BY <2>1, <3>2 DEF Excused, Given, option
      <3> QED BY <1>0, <1>6, <3>3, ExcuseStays DEF SizesEnd
    <2>5. HalfWayInv'
      BY <2>2, <2>4 DEF HalfWayInv
    <2> QED BY <1>1, <2>3, <2>5
  <1>7. CASE SetOutput
    <2>1. input_file' \in BOOLEAN /\ output_file' \in BOOLEAN
      BY <1>7, Zenon DEF SetOutput, OptionsTypeOK
    <2>2. next' \in {next, next + 1} /\ parse_at' \in {"options", "usage"} /\ next <= Len(options)
      BY <1>7 DEF SetOutput
    <2>3. UNCHANGED <<items, count, block_sizes, alloc, noa_files, errno>>
      BY <1>7 DEF SetOutput
    <2>4. OptionsTypeOK'
      BY <1>1, <2>1, <2>2, <2>3 DEF OptionsTypeOK, OptionsExits
    <2>5. HalfWayInv'
      BY <2>2 DEF HalfWayInv
    <2> QED BY <1>1, <2>4, <2>5
  <1>8. CASE SetInput
    <2>1. input_file' \in BOOLEAN /\ output_file' \in BOOLEAN
      BY <1>8, Zenon DEF SetInput, OptionsTypeOK
    <2>2. next' \in {next, next + 1} /\ parse_at' \in {"options", "usage"} /\ next <= Len(options)
      BY <1>8 DEF SetInput
    <2>3. UNCHANGED <<items, count, block_sizes, alloc, noa_files, errno>>
      BY <1>8 DEF SetInput
    <2>4. OptionsTypeOK'
      BY <1>1, <2>1, <2>2, <2>3 DEF OptionsTypeOK, OptionsExits
    <2>5. HalfWayInv'
      BY <2>2 DEF HalfWayInv
    <2> QED BY <1>1, <2>4, <2>5
  <1>9. CASE StoreFiles
    <2>1. OptionsTypeOK'
      BY <1>1, <1>9 DEF StoreFiles, NoMemory, GiveUp, OptionsTypeOK
    <2>2. HalfWayInv'
      BY <1>9 DEF StoreFiles, NoMemory, GiveUp, HalfWayInv, Excused
    <2> QED BY <1>1, <2>1, <2>2
  <1>10. CASE PadSizes
    <2>1. UNCHANGED <<next, items, count, noa_files, input_file, output_file>>
      BY <1>10 DEF PadSizes
    <2>2. noa_files # << >>
      BY <1>10 DEF PadSizes, HalfWayInv
    <2>3. OptionsTypeOK'
      BY <1>1, <1>10, <2>1, PadType DEF OptionsTypeOK, OptionsExits
    <2>4. HalfWayInv'
      BY <1>10, <2>1, <2>2, PadType DEF HalfWayInv, Excused
    <2> QED BY <1>1, <2>3, <2>4
  <1>11. CASE OpenFails
    <2>1. OptionsTypeOK'
      BY <1>1, <1>11 DEF OpenFails, OptionsTypeOK, OptionsExits
    <2>2. HalfWayInv'
      BY <1>11 DEF OpenFails, HalfWayInv
    <2> QED BY <1>1, <2>1, <2>2
  <1>12. CASE EnterLoop
    <2>1. /\ parse_at = "main" /\ parse_at' \in OptionsExits
          /\ parse_at' \in {"assertion", "null_sizes"} =>
                 Len(block_sizes) # Len(noa_files) \/ noa_files = << >>
      BY <1>12 DEF EnterLoop, OptionsExits
    <2>2. OptionsTypeOK'
      BY <1>1, <1>12, <2>1 DEF EnterLoop, OptionsTypeOK
    <2>3. ASSUME parse_at' \in {"assertion", "null_sizes"} PROVE Excused'
      BY <1>0, <1>12, <2>1, <2>3, ExcuseStays DEF EnterLoop, HalfWayInv
    <2>4. HalfWayInv'
      BY <2>1, <2>3 DEF HalfWayInv, OptionsExits
    <2> QED BY <1>1, <2>2, <2>4
  <1>13. CASE UNCHANGED option_vars
    <2>1. OptionsTypeOK'
      BY <1>1, <1>13 DEF option_vars, OptionsTypeOK
    <2>2. HalfWayInv'
      BY <1>1, <1>13 DEF option_vars, HalfWayInv, Excused, Given, option
    <2> QED BY <1>1, <2>1, <2>2
  <1> QED
    BY <1>2, <1>3, <1>4, <1>5, <1>6, <1>7, <1>8, <1>9, <1>10, <1>11, <1>12, <1>13
    DEF OptionsNext, OptionsEnded

\* For every command line, however its options are ordered: the state stays
\* well formed, no size is stored past the end of the array, and nothing but
\* the want of memory or an empty list makes main go on half-way.
THEOREM InvariantHolds == OptionsSpec => []IInv
  BY InitIInv, NextIInv, PTL DEF OptionsSpec

\* The array of sizes always has room for what is in it, and all that is in it
\* is positive (rawilv.c:67-100, useutil.c:34-50).
THEOREM OptionsTypeCorrect == OptionsSpec => []OptionsTypeOK
  <1>1. IInv => OptionsTypeOK
    BY DEF IInv
  <1> QED BY <1>1, InvariantHolds, PTL

\* An assertion fails, or the loops are entered without sizes, only after
\* memory has run out or an empty --block-sizes was given (rawilv.c:180-184,
\* 300).
THEOREM HalfWayOnlyWithExcuse == OptionsSpec => []StopsHalfWay
  <1>1. IInv => StopsHalfWay
    BY DEF IInv, HalfWayInv, Excused, StopsHalfWay
  <1> QED BY <1>1, InvariantHolds, PTL

-----------------------------------------------------------------------------
(* The command line: the sizes main goes on with.                          *)

\* The items each option adds to the list.
Added == [k \in DOMAIN options |-> IF options[k].key = "s" THEN options[k].arg ELSE << >>]

\* g[k] are the items of the first k options.
LEMMA AddedType ==
    ASSUME LineIsGiven
    PROVE  /\ Added \in Seq(Seq(Nat)) /\ Len(Added) = Len(options)
           /\ AllItems = FlattenSeq(Added)
           /\ \E g : Flattened(Added, Nat, g)
  <1>1. PICK n \in Nat : n = Len(options) /\ DOMAIN options = 1..n
    BY LineType
  <1>2. \A k \in 1..n : Added[k] \in Seq(Nat)
    BY <1>1, LineType DEF Added
  <1>3. Added = [k \in 1..n |-> Added[k]]
    BY <1>1 DEF Added
  <1>4. Added \in [1..n -> Seq(Nat)]
    BY <1>2, <1>3
  <1>5. Added \in Seq(Seq(Nat)) /\ Len(Added) = n
    BY <1>1, <1>4
  <1>6. AllItems = FlattenSeq(Added)
    BY DEF AllItems, Added
  <1> QED BY <1>1, <1>5, <1>6, FlattenPrefixes

\* The list is what the items ask for.
Padded ==
    /\ Len(noa_files) = FileCount /\ Len(block_sizes) = FileCount
    /\ \A i \in 1..FileCount :
           block_sizes[i] = IF AllItems = << >> THEN 1
                            ELSE IF i <= Len(AllItems) THEN AllItems[i]
                            ELSE Last(AllItems)

\* Option by option the list grows by its items; main is reached with the
\* whole list, or with one that does not fit the files.
ItemsStored(g) ==
    /\ parse_at = "options" => block_sizes = g[next - 1]
    /\ parse_at = "sizes" => block_sizes \o items = g[next]
    /\ parse_at = "end" => block_sizes = AllItems

SizesInv ==
    /\ \E g : Flattened(Added, Nat, g) /\ ItemsStored(g)
    /\ parse_at \in {"options", "sizes"} => noa_files = << >>
    /\ parse_at = "end" => Len(noa_files) = FileCount
    /\ parse_at = "main" => \/ noa_files = << >>
                      \/ Len(block_sizes) # Len(noa_files)
                      \/ Padded
    /\ Running => Padded

\* What the padding makes of the items.
LEMMA PaddingPads ==
    ASSUME NEW s \in Seq(Nat \ {0}), NEW n \in Nat, Len(s) < n, NEW t,
           t = s \o [i \in 1..(n - Len(s)) |-> IF Len(s) < 1 THEN 1 ELSE s[Len(s)]]
    PROVE  /\ Len(t) = n
           /\ \A i \in 1..n : t[i] = IF s = << >> THEN 1
                                     ELSE IF i <= Len(s) THEN s[i] ELSE Last(s)
  <1>1. PICK m \in Nat : m = Len(s)
    BY LenProperties
  <1>2. PICK v \in Nat \ {0} : v = IF m < 1 THEN 1 ELSE s[m]
    BY <1>1, SMTT(30)
  <1>3. PICK k \in Nat : k = n - m
    <2>1. n - m \in Nat
      BY <1>1
    <2> QED BY <2>1
  <1>4. PICK u \in Seq(Nat \ {0}) : /\ u = [i \in 1..k |-> v] /\ Len(u) = k
                                    /\ \A i \in 1..k : u[i] = v
    <2>1. [i \in 1..k |-> v] \in [1..k -> Nat \ {0}]
      OBVIOUS
    <2>2. [i \in 1..k |-> v] \in Seq(Nat \ {0}) /\ Len([i \in 1..k |-> v]) = k
      BY <2>1
    <2> QED BY <2>2
  <1>5. t = s \o u
    BY <1>1, <1>2, <1>3, <1>4
  <1>6. /\ Len(s \o u) = m + k
        /\ \A i \in 1..(m + k) : (s \o u)[i] = IF i <= m THEN s[i] ELSE u[i - m]
    BY <1>1, <1>4, ConcatProperties
  <1>7. m + k = n
    BY <1>3
  <1>8. ASSUME NEW i \in 1..n
        PROVE  t[i] = IF s = << >> THEN 1 ELSE IF i <= m THEN s[i] ELSE Last(s)
    <2>1. t[i] = IF i <= m THEN s[i] ELSE u[i - m]
      BY <1>5, <1>6, <1>7
    <2>2. ~ (i <= m) => i - m \in 1..k
      BY <1>3
    <2>3. t[i] = IF i <= m THEN s[i] ELSE v
      BY <1>4, <2>1, <2>2
    <2>4. s = << >> <=> m = 0
      BY <1>1, EmptySeq
    <2>5. Last(s) = s[m]
      BY <1>1 DEF Last
    <2> QED BY <1>2, <2>3, <2>4, <2>5
  <1> QED BY <1>1, <1>5, <1>6, <1>7, <1>8

\* The list PadSizes makes of all the items.
LEMMA PadSizesPads ==
    ASSUME IInv, PadSizes, block_sizes = AllItems, Len(noa_files) = FileCount, parse_at' = "main"
    PROVE  Len(block_sizes') # Len(noa_files') \/ Padded'
  <1>1. /\ block_sizes \in Seq(Nat \ {0}) /\ Len(block_sizes) \in Nat
        /\ Len(noa_files) \in Nat
    BY FilesType, LenProperties DEF IInv, OptionsTypeOK
  <1>2. /\ noa_files' = noa_files /\ AllItems' = AllItems /\ FileCount' = FileCount
    BY DEF PadSizes, commandLine, AllItems, FileCount
  <1>3. CASE Len(block_sizes) = Len(noa_files) /\ block_sizes' = block_sizes
    <2>1. ASSUME NEW i \in 1..FileCount
          PROVE  AllItems # << >> /\ i <= Len(AllItems)
      <3>1. 0 < Len(AllItems) /\ i <= Len(AllItems)
        BY <1>1, <1>3
      <3> QED BY <1>1, <3>1, EmptySeq
    <2> QED BY <1>2, <1>3, <2>1 DEF Padded
  <1>4. CASE Len(block_sizes) < Len(noa_files) /\ block_sizes' = block_sizes
    BY <1>1, <1>2, <1>4
  <1>5. CASE /\ Len(block_sizes) < Len(noa_files)
             /\ block_sizes' = block_sizes
                    \o [i \in 1..(Len(noa_files) - Len(block_sizes)) |->
                           IF Len(block_sizes) < 1 THEN 1
                           ELSE block_sizes[Len(block_sizes)]]
    <2>1. /\ Len(block_sizes') = Len(noa_files)
          /\ \A i \in 1..Len(noa_files) :
                 block_sizes'[i] = IF block_sizes = << >> THEN 1
                                   ELSE IF i <= Len(block_sizes) THEN block_sizes[i]
                                   ELSE Last(block_sizes)
      <3>1. PICK s, n, t :
                /\ s \in Seq(Nat \ {0}) /\ n \in Nat
                /\ s = block_sizes /\ n = Len(noa_files) /\ t = block_sizes'
        BY <1>1
      <3>2. Len(s) < n /\ t = s \o [i \in 1..(n - Len(s)) |->
                                     IF Len(s) < 1 THEN 1 ELSE s[Len(s)]]
        BY <1>5, <3>1
      <3>4. s \in Seq(Nat \ {0}) /\ n \in Nat
        BY <3>1
      <3>3. /\ Len(t) = n
            /\ \A i \in 1..n : t[i] = IF s = << >> THEN 1
                                      ELSE IF i <= Len(s) THEN s[i] ELSE Last(s)
        BY <3>2, <3>4, PaddingPads
      <3> QED BY <3>1, <3>3
    <2> QED BY <1>2, <2>1 DEF Padded
  <1> QED BY <1>3, <1>4, <1>5 DEF PadSizes

\* Storing an item moves it from the items to the list.
LEMMA StoreMoves ==
    ASSUME NEW b \in Seq(Nat), NEW t \in Seq(Nat), t # << >>
    PROVE  Append(b, Head(t)) \o Tail(t) = b \o t
  <1>1. PICK h \in Nat, u \in Seq(Nat) : h = Head(t) /\ u = Tail(t)
    BY HeadTailProperties
  <1>2. /\ Len(t) = 1 + Len(u) /\ Len(u) \in Nat
        /\ \A i \in 1..Len(u) : u[i] = t[i + 1]
        /\ t[1] = h
    BY <1>1, HeadTailProperties, LenProperties
  <1>3. PICK m \in Nat, k \in Nat : m = Len(b) /\ k = Len(u)
    BY <1>2, LenProperties
  <1>4. PICK a \in Seq(Nat) : /\ a = Append(b, h) /\ Len(a) = m + 1
                              /\ \A i \in 1..m : a[i] = b[i]
                              /\ a[m + 1] = h
    BY <1>3, AppendProperties
  <1>5. /\ a \o u \in Seq(Nat) /\ Len(a \o u) = (m + 1) + k
        /\ \A i \in 1..((m + 1) + k) : (a \o u)[i] = IF i <= m + 1 THEN a[i] ELSE u[i - (m + 1)]
    BY <1>3, <1>4, ConcatProperties
  <1>6. /\ b \o t \in Seq(Nat) /\ Len(b \o t) = (m + 1) + k
        /\ \A i \in 1..((m + 1) + k) : (b \o t)[i] = IF i <= m THEN b[i] ELSE t[i - m]
    <2>1. /\ b \o t \in Seq(Nat) /\ Len(b \o t) = Len(b) + Len(t)
          /\ \A i \in 1..(Len(b) + Len(t)) :
                 (b \o t)[i] = IF i <= Len(b) THEN b[i] ELSE t[i - Len(b)]
      BY ConcatProperties
    <2>2. Len(b) + Len(t) = (m + 1) + k
      BY <1>2, <1>3
    <2> QED BY <1>3, <2>1, <2>2
  <1>7. ASSUME NEW i \in 1..((m + 1) + k) PROVE (a \o u)[i] = (b \o t)[i]
    <2>1. CASE i <= m
      BY <1>4, <1>5, <1>6, <2>1
    <2>2. CASE i = m + 1
      BY <1>2, <1>4, <1>5, <1>6, <2>2, SMTT(30)
    <2>3. CASE i > m + 1
      <3>1. i - (m + 1) \in 1..k /\ i - m = (i - (m + 1)) + 1
            /\ ~ (i <= m + 1) /\ ~ (i <= m)
        BY <2>3
      <3>2. u[i - (m + 1)] = t[i - m]
        BY <1>2, <1>3, <3>1
      <3>3. (a \o u)[i] = u[i - (m + 1)]
        BY <1>5, <3>1
      <3>4. (b \o t)[i] = t[i - m]
        BY <1>6, <3>1
      <3> QED BY <3>2, <3>3, <3>4
    <2>4. i <= m \/ i = m + 1 \/ i > m + 1
      OBVIOUS
    <2> QED BY <2>1, <2>2, <2>3, <2>4
  <1>8. a \o u = b \o t
    <2>1. PICK x \in Seq(Nat), y \in Seq(Nat) : x = a \o u /\ y = b \o t
      BY <1>5, <1>6
    <2>2. Len(x) = Len(y) /\ \A i \in 1..Len(x) : x[i] = y[i]
      BY <1>5, <1>6, <1>7, <2>1
    <2>3. x = y
      BY <2>2, SeqEqual
    <2> QED BY <2>1, <2>3
  <1> QED BY <1>1, <1>4, <1>8

LEMMA NextSizesInv == IInv /\ SizesInv /\ [OptionsNext]_option_vars => SizesInv'
  <1> SUFFICES ASSUME IInv, SizesInv, [OptionsNext]_option_vars PROVE SizesInv'
    OBVIOUS
  <1>0. UNCHANGED commandLine
    BY DEF OptionsNext, SizesBegin, SizesStore, SizesNoMemory, SizesInvalid, SizesEnd, SetOutput,
           SetInput, StoreFiles, PadSizes, OpenFails, EnterLoop, OptionsEnded, option_vars
  <1>1. /\ options' = options /\ Added' = Added /\ AllItems' = AllItems
        /\ FileCount' = FileCount
    BY <1>0 DEF commandLine, Added, AllItems, FileCount
  <1>2. PICK n \in Nat : n = Len(options) /\ DOMAIN options = 1..n
    BY LineType DEF IInv
  <1>3. PICK g : Flattened(Added, Nat, g) /\ ItemsStored(g)
    BY DEF SizesInv
  <1>4. /\ g \in [0..n -> Seq(Nat)] /\ g[0] = << >> /\ g[n] = AllItems
        /\ \A k \in 1..n : g[k] = g[k - 1] \o Added[k]
    BY <1>2, <1>3, AddedType DEF IInv, Flattened
  <1>5. \A k \in 1..n : Added[k] = IF options[k].key = "s" THEN options[k].arg ELSE << >>
    BY <1>2 DEF Added
  <1>6. /\ block_sizes \in Seq(Nat) /\ items \in Seq(Nat) /\ next \in 1..(n + 1)
    <2>1. Seq(Nat \ {0}) \subseteq Seq(Nat)
      OBVIOUS
    <2> QED BY <1>2, <2>1 DEF IInv, OptionsTypeOK
  <1>7. Flattened(Added, Nat, g)'
    BY <1>1, <1>3 DEF Flattened
  <1>8. ASSUME ItemsStored(g)' PROVE \E h : Flattened(Added, Nat, h)' /\ ItemsStored(h)'
    BY <1>7, <1>8
  <1>9. ASSUME parse_at' \notin {"options", "sizes", "end"}
        PROVE  \E h : Flattened(Added, Nat, h)' /\ ItemsStored(h)'
    BY <1>8, <1>9 DEF ItemsStored
  <1>10. CASE SizesBegin
    <2>1. next \in 1..n /\ option.key = "s"
      BY <1>2, <1>6, <1>10 DEF SizesBegin
    <2>2. block_sizes \o items' = g[next]
      BY <1>3, <1>4, <1>5, <1>10, <2>1 DEF SizesBegin, ItemsStored, option
    <2>3. ItemsStored(g)'
      BY <1>10, <2>2 DEF SizesBegin, ItemsStored
    <2> QED BY <1>8, <1>10, <2>3 DEF SizesBegin, SizesInv, Running
  <1>11. CASE SizesStore
    <2>1. block_sizes' \o items' = block_sizes \o items
      BY <1>6, <1>11, StoreMoves DEF SizesStore
    <2>2. ItemsStored(g)'
      BY <1>3, <1>11, <2>1 DEF SizesStore, ItemsStored
    <2> QED BY <1>8, <1>11, <2>2 DEF SizesStore, SizesInv, Running
  <1>12. CASE SizesNoMemory \/ SizesInvalid
    <2>1. noa_files' = << >> /\ parse_at' \in {"main", "usage"}
      BY <1>12 DEF SizesNoMemory, SizesInvalid, GiveUp, SizesInv
    <2> QED BY <1>9, <2>1 DEF SizesInv, Running
  <1>13. CASE SizesEnd
    <2>1. noa_files' = << >> /\ parse_at' \in {"options", "main", "usage"}
      BY <1>13 DEF SizesEnd, SizesInv
    <2>2. block_sizes' = g[next' - 1]
      <3>1. block_sizes \o << >> = block_sizes
        BY <1>6, ConcatEmptySeq
      <3>2. block_sizes \o << >> = g[next]
        BY <1>3, <1>13 DEF SizesEnd, ItemsStored
      <3>3. next' - 1 = next /\ block_sizes' = block_sizes
        BY <1>6, <1>13 DEF SizesEnd
      <3> QED BY <3>1, <3>2, <3>3
    <2>3. ItemsStored(g)'
      BY <2>1, <2>2 DEF ItemsStored
    <2> QED BY <1>8, <2>1, <2>3 DEF SizesInv, Running
  <1>14. CASE SetOutput \/ SetInput
    <2>1. /\ parse_at = "options" /\ next \in 1..n /\ option.key # "s"
          /\ parse_at' = "usage" \/ (parse_at' = "options" /\ next' = next + 1)
          /\ UNCHANGED <<block_sizes, noa_files>>
      BY <1>2, <1>6, <1>14 DEF SetOutput, SetInput
    <2>2. block_sizes = g[next]
      <3>1. block_sizes = g[next - 1]
        BY <1>3, <2>1 DEF ItemsStored
      <3>2. g[next] = g[next - 1] \o << >>
        BY <1>4, <1>5, <2>1 DEF option
      <3> QED BY <1>6, <3>1, <3>2, ConcatEmptySeq
    <2>3. parse_at' = "options" => block_sizes' = g[next' - 1]
      <3>1. (next + 1) - 1 = next
        BY <1>6
      <3> QED BY <2>1, <2>2, <3>1
    <2>4. ItemsStored(g)'
      BY <2>1, <2>3 DEF ItemsStored
    <2> QED BY <1>8, <2>1, <2>4 DEF SizesInv, Running
  <1>15. CASE StoreFiles
    <2>1. parse_at = "options" /\ next = n + 1 /\ noa_files = << >>
      BY <1>2, <1>6, <1>15 DEF StoreFiles, SizesInv
    <2>2. block_sizes' = AllItems
      <3>1. (n + 1) - 1 = n
        OBVIOUS
      <3>2. block_sizes = g[n]
        BY <1>3, <2>1, <3>1 DEF ItemsStored
      <3> QED BY <1>4, <1>15, <3>2 DEF StoreFiles
    <2>3. \/ parse_at' = "end" /\ Len(noa_files') = FileCount
          \/ parse_at' = "main" /\ noa_files' = << >>
      <3>1. Len(<<"-">>) = 1
        OBVIOUS
      <3> QED BY <1>15, <2>1, <3>1 DEF StoreFiles, FileCount, NoMemory, GiveUp
    <2>4. ItemsStored(g)'
      BY <1>1, <2>2, <2>3 DEF ItemsStored
    <2> QED BY <1>1, <1>8, <2>3, <2>4 DEF SizesInv, Running
  <1>16. CASE PadSizes
    <2>1. /\ parse_at' \in {"main", "usage"} /\ parse_at = "end"
      BY <1>16, PadType DEF IInv, PadSizes
    <2>2. block_sizes = AllItems /\ Len(noa_files) = FileCount
      BY <1>3, <2>1 DEF ItemsStored, SizesInv
    <2>3. parse_at' = "main" => Len(block_sizes') # Len(noa_files') \/ Padded'
      BY <1>16, <2>2, PadSizesPads
    <2> QED BY <1>9, <2>1, <2>3 DEF SizesInv, Running
  <1>17. CASE OpenFails
    <2>1. parse_at' = "open_error"
      BY <1>17 DEF OpenFails
    <2> QED BY <1>9, <2>1 DEF SizesInv, Running
  <1>18. CASE EnterLoop
    <2>1. /\ parse_at = "main" /\ UNCHANGED <<block_sizes, noa_files>>
          /\ parse_at' \in {"assertion", "null_sizes", "interleave", "deinterleave"}
          /\ Running' => /\ Len(block_sizes) = Len(noa_files)
                         /\ ~ (block_sizes = << >> /\ noa_files = << >>)
      BY <1>18 DEF EnterLoop, Running
    <2>2. ASSUME Running' PROVE Padded
      <3>1. noa_files # << >>
        <4>1. SUFFICES ASSUME noa_files = << >> PROVE FALSE
          OBVIOUS
        <4>2. Len(block_sizes) = 0
          BY <2>1, <2>2, <4>1
        <4>3. block_sizes = << >>
          BY <1>6, <4>2, EmptySeq
        <4> QED BY <2>1, <2>2, <4>1, <4>3
      <3> QED BY <2>1, <2>2, <3>1 DEF SizesInv
    <2>3. Running' => Padded'
      BY <1>1, <2>1, <2>2 DEF Padded
    <2> QED BY <1>9, <2>1, <2>3 DEF SizesInv
  <1>19. CASE UNCHANGED option_vars
    <2>1. UNCHANGED <<next, items, block_sizes, noa_files, parse_at>>
      BY <1>19 DEF option_vars
    <2>2. ItemsStored(g)'
      BY <1>1, <1>3, <2>1 DEF ItemsStored
    <2>3. Padded' <=> Padded
      BY <1>1, <2>1 DEF Padded
    <2> QED BY <1>1, <1>8, <2>1, <2>2, <2>3 DEF SizesInv, Running
  <1> QED
    BY <1>10, <1>11, <1>12, <1>13, <1>14, <1>15, <1>16, <1>17, <1>18, <1>19
    DEF OptionsNext, OptionsEnded

LEMMA InitSizesInv == OptionsInit => SizesInv
  <1> SUFFICES ASSUME OptionsInit PROVE SizesInv
    OBVIOUS
  <1>1. PICK g : Flattened(Added, Nat, g)
    BY InitIInv, AddedType DEF IInv
  <1>2. g[0] = << >> /\ next - 1 = 0 /\ parse_at = "options" /\ block_sizes = << >>
        /\ noa_files = << >>
    BY <1>1 DEF OptionsInit, Flattened
  <1>3. ItemsStored(g)
    BY <1>2 DEF ItemsStored
  <1> QED BY <1>1, <1>2, <1>3 DEF SizesInv, Running

\* The loops are entered with the sizes that were given, the last of them or
\* 1 for the files that are left, whatever the command line and whenever
\* memory runs out: Interleave and Deinterleave start from nothing else.
THEOREM LoopsGetTheSizes == OptionsSpec => []SizesAreAsGiven
  <1>1. SizesInv => SizesAreAsGiven
    BY DEF SizesInv, SizesAreAsGiven, Padded
  <1>2. OptionsInit => IInv /\ SizesInv
    BY InitIInv, InitSizesInv
  <1>3. (IInv /\ SizesInv) /\ [OptionsNext]_option_vars => (IInv /\ SizesInv)'
    BY NextIInv, NextSizesInv
  <1> QED BY <1>1, <1>2, <1>3, PTL DEF OptionsSpec

\* What the loop of Interleave is entered with is a command as its proofs take
\* one to be: a file at the least, and for each file a positive block size
\* (rawilv.c:229-258, 318-341).
THEOREM LoopGetsACommand ==
    OptionsSpec => [](parse_at = "interleave" =>
                          /\ block_sizes \in Seq(Nat \ {0})
                          /\ Len(noa_files) > 0 /\ Len(block_sizes) = Len(noa_files))
  <1>1. IInv /\ SizesAreAsGiven =>
            (parse_at = "interleave" =>
                 /\ block_sizes \in Seq(Nat \ {0})
                 /\ Len(noa_files) > 0 /\ Len(block_sizes) = Len(noa_files))
    <2> SUFFICES ASSUME IInv, SizesAreAsGiven, parse_at = "interleave"
                 PROVE  /\ block_sizes \in Seq(Nat \ {0})
                        /\ Len(noa_files) > 0 /\ Len(block_sizes) = Len(noa_files)
      OBVIOUS
    <2>1. block_sizes \in Seq(Nat \ {0})
      BY DEF IInv, OptionsTypeOK
    <2>2. Len(noa_files) = FileCount /\ Len(block_sizes) = FileCount
      BY DEF SizesAreAsGiven, Running
    <2>3. FileCount > 0
      <3>1. Len(files) \in Nat
        BY LineType DEF IInv
      <3> QED BY <3>1 DEF FileCount
    <2> QED BY <2>1, <2>2, <2>3
  <1> QED BY <1>1, InvariantHolds, LoopsGetTheSizes, PTL

-----------------------------------------------------------------------------
(* The loop: lemmas on the operators the actions are built from.           *)

\* Every input is a stream and has a positive block size.
LEMMA SlotType ==
    ASSUME TypeOK, NEW i \in Slots
    PROVE  noas[i] \in Streams /\ sizes[i] \in Nat \ {0}
  BY DEF TypeOK, Slots

\* to_read never exceeds the space in the buffer nor the rest of the block.
LEMMA ToReadBounds ==
    ASSUME TypeOK
    PROVE  /\ to_read \in Nat /\ space \in Nat /\ available \in Nat
           /\ to_read <= rest_bytes /\ to_read <= space
           /\ file \in Streams
  BY BufferAssumption, SMTT(30) DEF TypeOK, to_read, space, available, file, Slots

\* Taking rv bytes that are there and that fit keeps the state well formed.
LEMMA TakeBytesType ==
    ASSUME TypeOK, NEW rv \in Nat, rv <= available, rv <= space, TakeBytes(rv)
    PROVE  /\ pos' \in [Streams -> Nat] /\ \A s \in Streams : pos'[s] <= len[s]
           /\ buf' \in Seq(Byte) /\ Len(buf') = Len(buf) + rv
           /\ Len(buf') <= BUF_SZ
  <1> DEFINE chunk == [j \in 1..rv |-> <<file, pos[file] + j>>]
  <1>1. file \in Streams /\ pos[file] \in Nat /\ len[file] \in Nat
    BY ToReadBounds DEF TypeOK
  <1>2. chunk \in Seq(Byte) /\ Len(chunk) = rv
    BY <1>1, IsASeq DEF Byte
  <1>3. buf' = buf \o chunk
    BY DEF TakeBytes
  <1>4. buf' \in Seq(Byte) /\ Len(buf') = Len(buf) + rv
    <2> HIDE DEF chunk
    <2> QED BY <1>2, <1>3, ConcatProperties DEF TypeOK
  <1>5. Len(buf') <= BUF_SZ
    BY <1>4, BufferAssumption DEF TypeOK, space
  <1>6. pos' \in [Streams -> Nat] /\ \A s \in Streams : pos'[s] <= len[s]
    <2>1. pos' = [pos EXCEPT ![file] = pos[file] + rv]
      BY DEF TakeBytes
    <2>2. pos[file] + rv \in Nat /\ pos[file] + rv <= len[file]
      BY <1>1 DEF available
    <2> QED BY <1>1, <2>1, <2>2 DEF TypeOK
  <1> QED BY <1>4, <1>5, <1>6

-----------------------------------------------------------------------------
(* The loop: type correctness.                                             *)

\* The inputs never change.
LEMMA InputsType ==
    ASSUME TypeOK, UNCHANGED inputs
    PROVE  /\ noas' = noas /\ sizes' = sizes /\ len' = len
           /\ noas' \in Seq(Streams) /\ Len(noas') > 0
           /\ sizes' \in Seq(Nat \ {0}) /\ Len(sizes') = Len(noas')
           /\ len' \in [Streams -> Nat]
           /\ Slots' = Slots
  BY DEF TypeOK, inputs, Slots

LEMMA InitTypeOK == Init => TypeOK
  <1> SUFFICES ASSUME Init PROVE TypeOK
    OBVIOUS
  <1>1. PICK c \in Commands : noas = c.noas /\ sizes = c.sizes
    BY DEF Init
  <1>2. /\ noas \in Seq(Streams) /\ Len(noas) > 0
        /\ sizes \in Seq(Nat \ {0}) /\ Len(sizes) = Len(noas)
    BY <1>1, CommandsAssumption
  <1>3. sizes[1] \in Nat /\ 1 \in Slots
    BY <1>2 DEF Slots
  <1>4. rest_bytes \in 0..sizes[fp] /\ fp \in Slots
    BY <1>3 DEF Init
  <1>5. buf \in Seq(Byte) /\ Len(buf) = 0 /\ out \in Seq(Byte)
    BY EmptySeq DEF Init
  <1>6. len \in [Streams -> Nat] /\ pos \in [Streams -> Nat]
        /\ (\A s \in Streams : pos[s] <= len[s])
        /\ feof \in [Streams -> BOOLEAN]
    BY StreamsAssumption DEF Init
  <1>7. pc = "advance" /\ eof_p \in BOOLEAN
    BY DEF Init
  <1> QED BY <1>2, <1>4, <1>5, <1>6, <1>7, BufferAssumption DEF TypeOK

\* What the actions that read have in common.
LEMMA ReadType ==
    ASSUME TypeOK, NEW rv \in Nat, rv <= available, rv <= space, TakeBytes(rv),
           rest_bytes' \in 0..sizes[fp], feof' \in [Streams -> BOOLEAN],
           eof_p' \in BOOLEAN,
           pc' \in {"advance", "flush", "mid_block", "read_error"}
    PROVE  TypeOK'
  <1>1. UNCHANGED <<inputs, fp, out>>
    BY DEF TakeBytes
  <1>2. fp' \in Slots' /\ rest_bytes' \in 0..sizes'[fp']
    BY <1>1, InputsType DEF TypeOK
  <1>3. out' \in Seq(Byte)
    BY <1>1 DEF TypeOK
  <1>4. /\ pos' \in [Streams -> Nat] /\ \A s \in Streams : pos'[s] <= len'[s]
        /\ buf' \in Seq(Byte) /\ Len(buf') <= BUF_SZ
    BY <1>1, InputsType, TakeBytesType
  <1>5. pc' \in {"advance", "read", "flush", "drain", "check"} \cup Exits
    BY DEF Exits
  <1> QED BY <1>1, <1>2, <1>3, <1>4, <1>5, InputsType DEF TypeOK

\* What the actions that neither read nor write have in common.
LEMMA MoveType ==
    ASSUME TypeOK, UNCHANGED <<inputs, pos, feof, eof_p, buf, out>>,
           fp' \in Slots, rest_bytes' \in 0..sizes[fp'],
           pc' \in {"advance", "read", "flush", "drain", "check"} \cup Exits
    PROVE  TypeOK'
  <1>1. fp' \in Slots' /\ rest_bytes' \in 0..sizes'[fp']
    BY InputsType
  <1>2. pos' \in [Streams -> Nat] /\ (\A s \in Streams : pos'[s] <= len'[s])
        /\ feof' \in [Streams -> BOOLEAN] /\ eof_p' \in BOOLEAN
    BY InputsType DEF TypeOK
  <1>3. buf' \in Seq(Byte) /\ Len(buf') <= BUF_SZ /\ out' \in Seq(Byte)
    BY DEF TypeOK
  <1> QED BY <1>1, <1>2, <1>3, InputsType DEF TypeOK

LEMMA NextTypeOK == TypeOK /\ [Next]_vars => TypeOK'
  <1> SUFFICES ASSUME TypeOK, [Next]_vars PROVE TypeOK'
    OBVIOUS
  <1>0. fp \in Slots /\ rest_bytes \in 0..sizes[fp] /\ Len(noas) \in Nat
        /\ pc \in {"advance", "read", "flush", "drain", "check"} \cup Exits
    BY DEF TypeOK
  <1>1. CASE StayInBlock
    BY <1>0, <1>1, MoveType DEF StayInBlock
  <1>2. ASSUME NEW i \in Slots, StartBlock(i) PROVE TypeOK'
    BY <1>2, SlotType, MoveType DEF StartBlock
  <1>3. CASE NextFile
    <2>1. fp + 1 \in Slots
      BY <1>0, <1>3 DEF NextFile, Slots
    <2> QED BY <1>2, <1>3, <2>1 DEF NextFile
  <1>4. CASE WrapAround
    <2>1. 1 \in Slots
      BY <1>0 DEF Slots
    <2> QED BY <1>2, <1>4, <2>1 DEF WrapAround
  <1>5. CASE LeaveLoop
    BY <1>0, <1>5, MoveType DEF LeaveLoop
  <1>6. CASE ReadFull
    <2>1. PICK rv \in Nat : rv = to_read
      BY ToReadBounds
    <2>2. rv <= available /\ rv <= space /\ rv <= rest_bytes
      BY <1>6, <2>1, ToReadBounds DEF ReadFull
    <2>3. TakeBytes(rv)
      BY <1>6, <2>1 DEF ReadFull, TakeBytes
    <2>4. rest_bytes' \in 0..sizes[fp]
      BY <1>0, <1>6, <2>1, <2>2, SlotType DEF ReadFull
    <2>5. pc' \in {"advance", "flush"} /\ UNCHANGED <<feof, eof_p>>
      BY <1>6 DEF ReadFull
    <2>6. feof' \in [Streams -> BOOLEAN] /\ eof_p' \in BOOLEAN
      BY <2>5 DEF TypeOK
    <2> QED BY <2>2, <2>3, <2>4, <2>5, <2>6, ReadType
  <1>7. CASE ReadError
    <2>1. PICK rv \in 0..(to_read - 1) :
            rv <= available /\ TakeBytes(rv) /\ rest_bytes' = rest_bytes - rv
      BY <1>7 DEF ReadError
    <2>2. rv \in Nat /\ rv <= space /\ rv <= rest_bytes
      BY <1>0, <2>1, ToReadBounds
    <2>3. rest_bytes' \in 0..sizes[fp]
      BY <1>0, <2>1, <2>2, SlotType
    <2>4. pc' = "read_error" /\ UNCHANGED <<feof, eof_p>>
      BY <1>7 DEF ReadError
    <2>5. feof' \in [Streams -> BOOLEAN] /\ eof_p' \in BOOLEAN
      BY <2>4 DEF TypeOK
    <2> QED BY <2>1, <2>2, <2>3, <2>4, <2>5, ReadType
  <1>8. CASE ReadEof
    <2>1. PICK rv \in Nat : rv = available
      BY ToReadBounds
    <2>2. rv <= available /\ rv <= space /\ rv <= rest_bytes
      BY <1>0, <1>8, <2>1, ToReadBounds DEF ReadEof
    <2>3. TakeBytes(rv)
      BY <1>8, <2>1 DEF ReadEof, TakeBytes
    <2>4. rest_bytes' \in 0..sizes[fp]
      BY <1>0, <1>8, <2>1, <2>2, SlotType DEF ReadEof
    <2>5. pc' \in {"advance", "mid_block"} /\ eof_p' \in BOOLEAN
          /\ feof' \in [Streams -> BOOLEAN]
      BY <1>8 DEF ReadEof, TypeOK
    <2> QED BY <2>2, <2>3, <2>4, <2>5, ReadType
  <1>9. CASE WriteOk
    <2>1. merged \in Seq(Byte)
      BY ConcatProperties DEF merged, TypeOK
    <2>2. out' \in Seq(Byte) /\ buf' \in Seq(Byte) /\ Len(buf') <= BUF_SZ
      BY <1>9, <2>1, EmptySeq, BufferAssumption DEF WriteOk
    <2>3. pc' \in {"advance", "check"} /\ UNCHANGED <<inputs, pos, feof, fp, rest_bytes, eof_p>>
      BY <1>9 DEF WriteOk
    <2> QED BY <2>2, <2>3, InputsType DEF TypeOK
  <1>10. CASE WriteFail
    <2>1. PICK k \in 0..(Len(buf) - 1) : out' = out \o SubSeq(buf, 1, k)
      BY <1>10 DEF WriteFail
    <2>2. SubSeq(buf, 1, k) \in Seq(Byte)
      BY <2>1, SubSeqProperties DEF TypeOK
    <2>3. out' \in Seq(Byte)
      BY <2>1, <2>2, ConcatProperties DEF TypeOK
    <2>4. pc' \in Exits /\ UNCHANGED <<inputs, pos, feof, fp, rest_bytes, eof_p, buf>>
      BY <1>10 DEF WriteFail, Exits
    <2> QED BY <2>3, <2>4, InputsType DEF TypeOK
  <1>11. CASE CheckInputs
    <2>1. pc' \in Exits
      BY <1>11 DEF CheckInputs, Exits
    <2> QED BY <1>0, <1>11, <2>1, MoveType DEF CheckInputs
  <1>12. CASE UNCHANGED vars
    BY <1>0, <1>12, MoveType DEF vars
  <1> QED
    BY <1>1, <1>3, <1>4, <1>5, <1>6, <1>7, <1>8, <1>9, <1>10, <1>11, <1>12
    DEF Next, Advance, Read, Write, Ended

\* The buffer never overflows, nothing is read past an input's end, and fp
\* stays within the inputs: for every buffer size and every command.
THEOREM TypeCorrect == Spec => []TypeOK
  BY InitTypeOK, NextTypeOK, PTL DEF Spec

-----------------------------------------------------------------------------
(* The assertions.  They do not follow from the type: the buffer must have *)
(* room whenever the loop reads, and eof_p must mean that an input ended.  *)

\* What holds at each place of the program.
LoopInv ==
    /\ pc \in {"advance", "read"} => Len(buf) < BUF_SZ
    /\ pc = "read" => rest_bytes > 0
    /\ \A s \in Streams : feof[s] => pos[s] = len[s]
    /\ eof_p => \E i \in Slots : feof[noas[i]]
    /\ pc \in {"drain", "check", "ok", "premature_eof"} =>
           eof_p /\ fp = Len(noas) /\ rest_bytes = 0
    /\ pc = "ok" => NotAtEof = {}
    /\ pc = "mid_block" => /\ 0 < rest_bytes /\ rest_bytes < sizes[fp]
                           /\ feof[file]

LEMMA InitLoopInv == Init => LoopInv
  BY BufferAssumption DEF Init, LoopInv

LEMMA NextLoopInv == TypeOK /\ LoopInv /\ [Next]_vars => LoopInv'
  <1> SUFFICES ASSUME TypeOK, LoopInv, [Next]_vars PROVE LoopInv'
    OBVIOUS
  <1>0. /\ Len(noas) \in Nat /\ fp \in Slots /\ file \in Streams
        /\ buf \in Seq(Byte) /\ Len(buf) \in Nat /\ Len(buf) <= BUF_SZ
        /\ rest_bytes \in Nat /\ sizes[fp] \in Nat /\ rest_bytes <= sizes[fp]
        /\ BUF_SZ \in Nat /\ BUF_SZ > 0
    BY ToReadBounds, SlotType, BufferAssumption, SMTT(30) DEF TypeOK
  <1>a. ASSUME UNCHANGED inputs PROVE Slots' = Slots /\ noas' = noas /\ sizes' = sizes
    BY <1>a DEF inputs, Slots
  <1>1. CASE StayInBlock
    BY <1>1, <1>a DEF StayInBlock, LoopInv, inputs
  <1>2. ASSUME NEW i \in Slots, StartBlock(i), pc = "advance" PROVE LoopInv'
    <2>1. rest_bytes' > 0
      BY <1>2, SlotType DEF StartBlock
    <2> QED BY <1>2, <1>a, <2>1 DEF StartBlock, LoopInv, inputs
  <1>3. CASE NextFile
    <2>1. fp + 1 \in Slots
      BY <1>0, <1>3 DEF NextFile, Slots
    <2> QED BY <1>2, <1>3, <2>1 DEF NextFile
  <1>4. CASE WrapAround
    <2>1. 1 \in Slots
      BY <1>0 DEF Slots
    <2> QED BY <1>2, <1>4, <2>1 DEF WrapAround
  <1>5. CASE LeaveLoop
    BY <1>5, <1>a DEF LeaveLoop, LoopInv, inputs
  <1>6. CASE ReadFull
    <2>1. PICK rv \in Nat : rv = to_read
      BY ToReadBounds
    <2>2. rv <= available /\ rv <= space /\ rv > 0
      BY <1>0, <1>6, <2>1, ToReadBounds DEF ReadFull, LoopInv, to_read, space
    <2>3. TakeBytes(rv)
      BY <1>6, <2>1 DEF ReadFull, TakeBytes
    <2>4. Len(buf') = Len(buf) + rv
      BY <2>2, <2>3, TakeBytesType
    <2>5. pc' = "advance" => Len(buf') < BUF_SZ
      BY <1>0, <1>6, <2>1, <2>4 DEF ReadFull, space
    <2>6. pc' \in {"advance", "flush"} /\ UNCHANGED <<inputs, feof, eof_p, fp>>
      BY <1>6, <2>3 DEF ReadFull, TakeBytes
    <2>7. ~feof[file]
      BY <1>0, <2>2 DEF LoopInv, TypeOK, available
    <2>8. \A s \in Streams : feof'[s] => pos'[s] = len'[s]
      BY <1>0, <2>3, <2>6, <2>7 DEF TakeBytes, LoopInv, TypeOK, inputs
    <2> QED BY <1>a, <2>5, <2>6, <2>8 DEF LoopInv
  <1>7. CASE ReadError
    <2>1. PICK rv \in 0..(to_read - 1) : TakeBytes(rv)
      BY <1>7 DEF ReadError
    <2>2. pc' = "read_error" /\ UNCHANGED <<inputs, feof, eof_p, fp>>
      BY <1>7, <2>1 DEF ReadError, TakeBytes
    <2>3. \A s \in Streams : feof'[s] => pos'[s] = len'[s]
      BY <1>0, <1>7, <2>1, <2>2 DEF ReadError, TakeBytes, LoopInv, TypeOK, inputs
    <2> QED BY <1>a, <2>2, <2>3 DEF LoopInv
  <1>8. CASE ReadEof
    <2>1. PICK rv \in Nat : rv = available
      BY ToReadBounds
    <2>2. rv < to_read /\ rv <= space /\ rv < rest_bytes
      BY <1>0, <1>8, <2>1, ToReadBounds DEF ReadEof
    <2>3. TakeBytes(rv) /\ UNCHANGED <<inputs, fp>>
      BY <1>8, <2>1 DEF ReadEof, TakeBytes
    <2>4. Len(buf') = Len(buf) + rv /\ Len(buf') < BUF_SZ
      BY <1>0, <2>1, <2>2, <2>3, TakeBytesType, ToReadBounds DEF space, to_read
    <2>5. pos'[file] = len[file]
      BY <1>0, <2>1, <2>3 DEF TakeBytes, TypeOK, available
    <2>6. feof' = [feof EXCEPT ![file] = TRUE]
      BY <1>8 DEF ReadEof
    <2>7. \A s \in Streams : feof'[s] => pos'[s] = len'[s]
      BY <1>0, <2>3, <2>5, <2>6 DEF TakeBytes, LoopInv, TypeOK, inputs
    <2>8. feof'[file] /\ file' = file /\ file = noas[fp]
      BY <1>0, <2>3, <2>6 DEF TypeOK, file, inputs
    <2>9. \E i \in Slots' : feof'[noas'[i]]
      BY <1>0, <1>a, <2>3, <2>8
    <2>10. \/ pc' = "advance"
           \/ pc' = "mid_block" /\ 0 < rest_bytes' /\ rest_bytes' < sizes'[fp']
      BY <1>0, <1>8, <1>a, <2>1, <2>2, <2>3 DEF ReadEof
    <2> QED BY <1>a, <2>3, <2>4, <2>7, <2>8, <2>9, <2>10 DEF LoopInv
  <1>9. CASE WriteOk
    <2>1. Len(buf') = 0
      BY <1>9 DEF WriteOk
    <2> QED BY <1>0, <1>9, <1>a, <2>1 DEF WriteOk, LoopInv, inputs
  <1>10. CASE WriteFail
    BY <1>10, <1>a DEF WriteFail, LoopInv, inputs
  <1>11. CASE CheckInputs
    <2>1. NotAtEof' = NotAtEof
      BY <1>11, <1>a DEF CheckInputs, NotAtEof
    <2> QED BY <1>11, <1>a, <2>1 DEF CheckInputs, LoopInv, inputs
  <1>12. CASE UNCHANGED vars
    BY <1>12, <1>a DEF vars, LoopInv, inputs, NotAtEof, file
  <1> QED
    BY <1>1, <1>3, <1>4, <1>5, <1>6, <1>7, <1>8, <1>9, <1>10, <1>11, <1>12
    DEF Next, Advance, Read, Write, Ended

THEOREM LoopInvariant == Spec => []LoopInv
  <1>1. Init => TypeOK /\ LoopInv
    BY InitTypeOK, InitLoopInv
  <1>2. (TypeOK /\ LoopInv) /\ [Next]_vars => (TypeOK /\ LoopInv)'
    BY NextTypeOK, NextLoopInv
  <1> QED BY <1>1, <1>2, PTL DEF Spec

\* assert (to_read > 0) and assert (last != 0) never fail, whatever the
\* block sizes are relative to the buffer.
THEOREM AssertionsNeverFail == Spec => []AssertionsHold
  <1>1. TypeOK /\ LoopInv => AssertionsHold
    <2> SUFFICES ASSUME TypeOK, LoopInv PROVE AssertionsHold
      OBVIOUS
    <2>1. pc = "read" => to_read > 0
      BY BufferAssumption DEF LoopInv, TypeOK, to_read, space
    <2>2. pc = "check" => \E i \in Slots : feof[noas[i]]
      BY DEF LoopInv
    <2> QED BY <2>1, <2>2 DEF AssertionsHold
  <1> QED BY <1>1, TypeCorrect, LoopInvariant, PTL

-----------------------------------------------------------------------------
(* Block counts.  All inputs are in the same round: there is an r such that *)
(* each has had r blocks copied, one more if its turn in the round is over, *)
(* a part more if its turn has come; one that ended did so in its turn, and *)
(* holds r blocks and less than another.                                    *)

Balanced(r, i) ==
    LET p == pos[noas[i]]
        z == sizes[i]
    IN  IF feof[noas[i]] /\ ~(i = fp /\ pc = "mid_block")
          THEN /\ eof_p /\ i <= fp /\ (i = fp => rest_bytes = 0)
               /\ r * z <= p /\ p < r * z + z
          ELSE p = r * z + (IF i < fp THEN z
                            ELSE IF i = fp THEN z - rest_bytes ELSE 0)

RoundInv == Distinct => \E r \in Nat : \A i \in Slots : Balanced(r, i)

LEMMA InitRoundInv == Init => RoundInv
  <1> SUFFICES ASSUME Init PROVE \A i \in Slots : Balanced(0, i)
    BY DEF RoundInv
  <1>1. TypeOK
    BY InitTypeOK
  <1> TAKE i \in Slots
  <1>2. noas[i] \in Streams /\ sizes[i] \in Nat /\ i \in 1..Len(noas)
    BY <1>1, SlotType DEF Slots
  <1>3. pos[noas[i]] = 0 /\ ~feof[noas[i]] /\ fp = 1 /\ rest_bytes = sizes[1]
    BY <1>2 DEF Init
  <1>4. 0 * sizes[i] = 0
    BY <1>2
  <1> QED BY <1>2, <1>3, <1>4 DEF Balanced

\* A step that moves no input and begins no block keeps the round.
LEMMA SameRound ==
    ASSUME UNCHANGED <<inputs, pos, feof, fp, rest_bytes, eof_p>>,
           pc # "mid_block", pc' # "mid_block",
           NEW r \in Nat, NEW i \in Slots, Balanced(r, i)
    PROVE  Balanced(r, i)'
  BY DEF Balanced, inputs

LEMMA NextRoundInv == TypeOK /\ LoopInv /\ RoundInv /\ [Next]_vars => RoundInv'
  <1> SUFFICES ASSUME TypeOK, LoopInv, RoundInv, [Next]_vars, Distinct'
               PROVE  \E r \in Nat : \A i \in Slots' : Balanced(r, i)'
    BY DEF RoundInv
  <1>0. UNCHANGED inputs
    BY DEF Next, Advance, StayInBlock, NextFile, WrapAround, LeaveLoop,
           StartBlock, Read, ReadFull, ReadError, ReadEof, TakeBytes, Write,
           WriteOk, WriteFail, CheckInputs, Ended, vars
  <1>a. noas' = noas /\ sizes' = sizes /\ len' = len /\ Slots' = Slots
    BY <1>0 DEF inputs, Slots
  <1>b. Distinct
    BY <1>a DEF Distinct
  <1>c. PICK r \in Nat : \A i \in Slots : Balanced(r, i)
    BY <1>b DEF RoundInv
  <1>d. /\ Len(noas) \in Nat /\ fp \in 1..Len(noas) /\ Slots = 1..Len(noas)
        /\ fp \in Slots /\ file \in Streams /\ file = noas[fp]
        /\ rest_bytes \in Nat /\ rest_bytes <= sizes[fp]
    BY SlotType, ToReadBounds DEF TypeOK, Slots, file
  <1>e. ASSUME NEW i \in Slots
        PROVE  /\ noas[i] \in Streams /\ sizes[i] \in Nat /\ sizes[i] > 0
               /\ i \in Nat /\ i >= 1 /\ i <= Len(noas)
               /\ r * sizes[i] \in Nat /\ pos[noas[i]] \in Nat
    <2>1. noas[i] \in Streams /\ sizes[i] \in Nat /\ sizes[i] > 0
      BY <1>e, SlotType
    <2>2. r * sizes[i] \in Nat
      BY <2>1, Times
    <2>3. i \in Nat /\ i >= 1 /\ i <= Len(noas)
      BY <1>d, <1>e
    <2>4. pos[noas[i]] \in Nat
      BY <2>1 DEF TypeOK
    <2> QED BY <2>1, <2>2, <2>3, <2>4
  <1>1. CASE StayInBlock
    BY <1>1, <1>a, <1>c, SameRound DEF StayInBlock
  <1>2. CASE NextFile
    <2>1. /\ fp' = fp + 1 /\ rest_bytes' = sizes[fp + 1] /\ rest_bytes = 0
          /\ UNCHANGED <<pos, feof, eof_p>> /\ pc = "advance" /\ pc' = "read"
      BY <1>2 DEF NextFile, StartBlock
    <2>2. ASSUME NEW i \in Slots PROVE Balanced(r, i)'
      <3>1. Balanced(r, i)
        BY <1>c
      <3>2. CASE feof[noas[i]]
        BY <1>a, <1>d, <1>e, <2>1, <3>1, <3>2 DEF Balanced
      <3>3. CASE ~feof[noas[i]]
        BY <1>a, <1>d, <1>e, <2>1, <3>1, <3>3 DEF Balanced
      <3> QED BY <3>2, <3>3
    <2> QED BY <1>a, <2>2
  <1>3. CASE WrapAround
    <2>1. /\ fp = Len(noas) /\ fp' = 1 /\ rest_bytes' = sizes[1] /\ ~eof_p
          /\ rest_bytes = 0 /\ UNCHANGED <<pos, feof, eof_p>>
          /\ pc = "advance" /\ pc' = "read"
      BY <1>3 DEF WrapAround, StartBlock
    <2>2. ASSUME NEW i \in Slots PROVE Balanced(r + 1, i)'
      <3>1. Balanced(r, i) /\ ~feof[noas[i]]
        BY <1>c, <2>1 DEF Balanced
      <3>2. pos[noas[i]] = r * sizes[i] + sizes[i]
        BY <1>d, <1>e, <2>1, <3>1 DEF Balanced
      <3>3. (r + 1) * sizes[i] = r * sizes[i] + sizes[i]
        BY <1>e, Times
      <3> QED BY <1>a, <1>d, <1>e, <2>1, <3>1, <3>2, <3>3, SMTT(30) DEF Balanced
    <2> QED BY <1>a, <2>2
  <1>4. CASE LeaveLoop
    BY <1>4, <1>a, <1>c, SameRound DEF LeaveLoop
  <1>5. ASSUME pc = "read" PROVE ~feof[file]
    BY <1>5, <1>c, <1>d DEF Balanced, LoopInv
  <1>6. ASSUME NEW rv \in Nat, rv <= rest_bytes, pc = "read", pc' # "mid_block",
               TakeBytes(rv), rest_bytes' = rest_bytes - rv, UNCHANGED <<feof, eof_p>>
        PROVE  \A i \in Slots : Balanced(r, i)'
    <2> TAKE i \in Slots
    <2>1. Balanced(r, i) /\ fp' = fp
      BY <1>6, <1>c DEF TakeBytes
    <2>2. CASE i = fp
      <3>1. pos'[noas[i]] = pos[noas[i]] + rv
        BY <1>6, <1>d, <2>2 DEF TakeBytes, TypeOK
      <3>2. pos[noas[i]] = r * sizes[i] + (sizes[i] - rest_bytes)
            /\ ~feof'[noas[i]]
        BY <1>5, <1>6, <1>d, <1>e, <2>1, <2>2 DEF Balanced
      <3>3. pos'[noas[i]] = r * sizes[i] + (sizes[i] - rest_bytes')
        BY <1>6, <1>d, <1>e, <2>2, <3>1, <3>2
      <3> QED BY <1>a, <1>d, <2>1, <2>2, <3>2, <3>3 DEF Balanced
    <2>3. CASE i # fp
      <3>1. pos'[noas[i]] = pos[noas[i]]
        BY <1>6, <1>b, <1>d, <1>e, <2>3 DEF TakeBytes, TypeOK, Distinct
      <3> QED BY <1>6, <1>a, <1>d, <1>e, <2>1, <2>3, <3>1 DEF Balanced
    <2> QED BY <2>2, <2>3
  <1>7. CASE ReadFull
    <2>1. PICK rv \in Nat : rv = to_read
      BY ToReadBounds
    <2>2. TakeBytes(rv) /\ rv <= rest_bytes /\ rest_bytes' = rest_bytes - rv
      BY <1>7, <2>1, ToReadBounds DEF ReadFull, TakeBytes
    <2> QED BY <1>7, <1>6, <1>a, <2>2 DEF ReadFull
  <1>8. CASE ReadError
    <2>1. PICK rv \in 0..(to_read - 1) : TakeBytes(rv) /\ rest_bytes' = rest_bytes - rv
      BY <1>8 DEF ReadError
    <2>2. rv \in Nat /\ rv <= rest_bytes
      BY <1>d, <2>1, ToReadBounds
    <2> QED BY <1>8, <1>6, <1>a, <2>1, <2>2 DEF ReadError
  <1>9. CASE ReadEof
    <2>1. PICK rv \in Nat : rv = available
      BY ToReadBounds
    <2>2. TakeBytes(rv) /\ rv < rest_bytes /\ fp' = fp
      BY <1>9, <1>d, <2>1, ToReadBounds DEF ReadEof, TakeBytes
    <2>3. feof' = [feof EXCEPT ![file] = TRUE]
      BY <1>9 DEF ReadEof
    <2>4. \/ pc' = "mid_block" /\ rest_bytes' = rest_bytes - rv /\ eof_p' = eof_p
          \/ pc' = "advance" /\ rest_bytes' = 0 /\ eof_p'
      BY <1>9, <2>1 DEF ReadEof
    <2>5. ASSUME NEW i \in Slots PROVE Balanced(r, i)'
      <3>1. Balanced(r, i) /\ pc = "read"
        BY <1>9, <1>c DEF ReadEof
      <3>2. CASE i = fp
        <4>1. pos'[noas[i]] = pos[noas[i]] + rv /\ feof'[noas[i]]
          BY <1>d, <2>2, <2>3, <3>2 DEF TakeBytes, TypeOK
        <4>2. pos[noas[i]] = r * sizes[i] + (sizes[i] - rest_bytes)
          BY <1>5, <1>d, <1>e, <3>1, <3>2 DEF Balanced
        <4>3. pos'[noas[i]] = r * sizes[i] + (sizes[i] - (rest_bytes - rv))
          <5>1. rest_bytes \in Nat /\ sizes[i] \in Nat /\ r * sizes[i] \in Nat
                /\ pos'[noas[i]] = pos[noas[i]] + rv
            BY <1>d, <1>e, <3>2, <4>1
          <5> QED BY <4>2, <5>1
        <4>4. r * sizes[i] <= pos'[noas[i]] /\ pos'[noas[i]] < r * sizes[i] + sizes[i]
          BY <1>d, <1>e, <2>2, <3>2, <4>3
        <4>5. CASE pc' = "mid_block" /\ rest_bytes' = rest_bytes - rv
          BY <1>a, <1>d, <2>2, <3>2, <4>3, <4>5 DEF Balanced
        <4>6. CASE pc' = "advance" /\ rest_bytes' = 0 /\ eof_p'
          BY <1>a, <1>d, <2>2, <3>2, <4>1, <4>4, <4>6 DEF Balanced
        <4> QED BY <2>4, <4>5, <4>6
      <3>3. CASE i # fp
        <4>1. pos'[noas[i]] = pos[noas[i]] /\ feof'[noas[i]] = feof[noas[i]]
          BY <1>b, <1>d, <1>e, <2>2, <2>3, <3>3 DEF TakeBytes, TypeOK, Distinct
        <4> QED BY <1>a, <1>d, <1>e, <2>2, <2>4, <3>1, <3>3, <4>1 DEF Balanced
      <3> QED BY <3>2, <3>3
    <2> QED BY <1>a, <2>5
  <1>10. CASE Write
    BY <1>10, <1>a, <1>c, SameRound DEF Write, WriteOk, WriteFail
  <1>11. CASE CheckInputs
    BY <1>11, <1>a, <1>c, SameRound DEF CheckInputs
  <1>12. CASE UNCHANGED vars
    BY <1>12, <1>a, <1>c DEF vars, Balanced
  <1> QED
    BY <1>1, <1>2, <1>3, <1>4, <1>7, <1>8, <1>9, <1>10, <1>11, <1>12
    DEF Next, Advance, Read, Ended

\* What holds after the inputs have been looked at.
LEMMA Verdict ==
    ASSUME TypeOK, LoopInv, RoundInv, Distinct,
           pc \in {"ok", "premature_eof"}
    PROVE  \E r \in Nat : \A i \in Slots :
               /\ i \notin NotAtEof => WholeBlocks(i) = r
               /\ i \in NotAtEof => WholeBlocks(i) > r
  <1>1. PICK r \in Nat : \A i \in Slots : Balanced(r, i)
    BY DEF RoundInv
  <1>2. ASSUME NEW i \in Slots
        PROVE  /\ i \notin NotAtEof => WholeBlocks(i) = r
               /\ i \in NotAtEof => WholeBlocks(i) > r
    <2>1. /\ noas[i] \in Streams /\ sizes[i] \in Nat \ {0}
          /\ i \in 1..Len(noas) /\ Len(noas) \in Nat
      BY SlotType DEF TypeOK, Slots
    <2>2. /\ pos[noas[i]] \in Nat /\ len[noas[i]] \in Nat
          /\ pos[noas[i]] <= len[noas[i]]
          /\ feof[noas[i]] => pos[noas[i]] = len[noas[i]]
      BY <2>1 DEF TypeOK, LoopInv
    <2>3. r * sizes[i] \in Nat /\ Balanced(r, i)
      BY <1>1, <2>1, Times
    <2>4. fp = Len(noas) /\ rest_bytes = 0
      BY DEF LoopInv
    <2>5. ASSUME feof[noas[i]] PROVE WholeBlocks(i) = r
      <3>1. r * sizes[i] <= len[noas[i]] /\ len[noas[i]] < r * sizes[i] + sizes[i]
        BY <2>2, <2>3, <2>5 DEF Balanced
      <3> QED BY <2>1, <2>2, <3>1, Quotient DEF WholeBlocks
    <2>6. ASSUME ~feof[noas[i]] PROVE WholeBlocks(i) > r
      <3>1. pos[noas[i]] = r * sizes[i] + sizes[i]
        BY <2>1, <2>3, <2>4, <2>6 DEF Balanced
      <3>2. len[noas[i]] >= r * sizes[i] + sizes[i] /\ r * sizes[i] <= len[noas[i]]
        BY <2>1, <2>2, <2>3, <3>1
      <3> QED BY <2>1, <2>2, <3>2, Quotient DEF WholeBlocks
    <2> QED BY <2>5, <2>6 DEF NotAtEof
  <1> QED BY <1>2

THEOREM RoundInvariant == Spec => [](TypeOK /\ LoopInv /\ RoundInv)
  <1>1. Init => TypeOK /\ LoopInv /\ RoundInv
    BY InitTypeOK, InitLoopInv, InitRoundInv
  <1>2. (TypeOK /\ LoopInv /\ RoundInv) /\ [Next]_vars
            => (TypeOK /\ LoopInv /\ RoundInv)'
    BY NextTypeOK, NextLoopInv, NextRoundInv
  <1> QED BY <1>1, <1>2, PTL DEF Spec

\* A success means inputs of equal numbers of whole blocks, for any number
\* of inputs, block sizes, lengths and size of the buffer.
THEOREM SuccessMeansEqualBlocks == Spec => []BlockCountsMatch
  <1>1. TypeOK /\ LoopInv /\ RoundInv => BlockCountsMatch
    <2> SUFFICES ASSUME TypeOK, LoopInv, RoundInv, pc = "ok", Distinct,
                        NEW i \in Slots, NEW j \in Slots
                 PROVE  WholeBlocks(i) = WholeBlocks(j)
      BY DEF BlockCountsMatch
    <2>1. NotAtEof = {}
      BY DEF LoopInv
    <2> QED BY <2>1, Verdict
  <1> QED BY <1>1, RoundInvariant, PTL

\* The complaints the program ends with are never unfounded.
THEOREM AlarmsAreNeverFalse == Spec => []AlarmsAreTrue
  <1>1. TypeOK /\ LoopInv /\ RoundInv => AlarmsAreTrue
    <2> SUFFICES ASSUME TypeOK, LoopInv, RoundInv, Distinct PROVE AlarmsAreTrue
      BY DEF AlarmsAreTrue
    <2>1. ASSUME pc = "mid_block" PROVE Ragged(fp)
      <3>0. fp \in Slots
        BY DEF TypeOK
      <3>1. PICK r \in Nat : Balanced(r, fp)
        <4>1. PICK r \in Nat : \A k \in Slots : Balanced(r, k)
          BY DEF RoundInv
        <4> QED BY <3>0, <4>1
      <3>2. /\ file = noas[fp] /\ file \in Streams /\ fp \in Nat
            /\ sizes[fp] \in Nat \ {0} /\ rest_bytes \in Nat
        BY ToReadBounds, SlotType DEF TypeOK, file, Slots
      <3>3. 0 < rest_bytes /\ rest_bytes < sizes[fp] /\ feof[file]
        BY <2>1 DEF LoopInv
      <3>4. len[file] \in Nat /\ pos[file] = len[file]
        BY <3>2, <3>3 DEF LoopInv, TypeOK
      <3>5. len[file] = r * sizes[fp] + (sizes[fp] - rest_bytes)
        BY <2>1, <3>1, <3>2, <3>4 DEF Balanced
      <3>6. r * sizes[fp] \in Nat
        BY <3>2, Times
      <3>7. /\ r * sizes[fp] < len[file]
            /\ len[file] < r * sizes[fp] + sizes[fp]
        BY <3>2, <3>3, <3>5, <3>6
      <3>8. len[file] % sizes[fp] # 0
        BY <3>2, <3>4, <3>6, <3>7, Quotient
      <3> QED BY <3>2, <3>8 DEF Ragged
    <2>2. ASSUME pc = "premature_eof", NEW i \in NotAtEof
          PROVE  /\ \E j \in Slots \ NotAtEof : WholeBlocks(j) < WholeBlocks(i)
                 /\ \A j \in Blamed : WholeBlocks(j) < WholeBlocks(i)
      <3>1. PICK r \in Nat : \A k \in Slots :
                /\ k \notin NotAtEof => WholeBlocks(k) = r
                /\ k \in NotAtEof => WholeBlocks(k) > r
        BY <2>2, Verdict
      <3>2. i \in Slots /\ r < WholeBlocks(i)
        <4>1. i \in Slots
          BY <2>2 DEF NotAtEof
        <4>2. len[noas[i]] \in Nat /\ sizes[i] \in Nat \ {0}
          BY <4>1, SlotType DEF TypeOK
        <4>3. WholeBlocks(i) \in Int
          BY <4>2 DEF WholeBlocks
        <4> QED BY <2>2, <3>1, <4>1, <4>3
      <3>3. PICK j \in Slots : feof[noas[j]]
        BY <2>2 DEF LoopInv
      <3>4. j \notin NotAtEof /\ WholeBlocks(j) < WholeBlocks(i)
        BY <3>1, <3>2, <3>3 DEF NotAtEof
      <3>5. \A k \in Blamed : WholeBlocks(k) < WholeBlocks(i)
        BY <3>1, <3>2 DEF Blamed
      <3> QED BY <3>4, <3>5
    <2> QED BY <2>1, <2>2 DEF AlarmsAreTrue
  <1> QED BY <1>1, RoundInvariant, PTL

-----------------------------------------------------------------------------
(* Conservation of the bytes.                                              *)

\* The two halves of Conserved, byte by byte.
Complete == \A s \in Streams : \A k \in 1..pos[s] :
                \E j \in 1..Len(merged) : merged[j] = <<s, k>>

Sound == \A j \in 1..Len(merged) :
             merged[j] \in Byte /\ merged[j][2] <= pos[merged[j][1]]

Ordered == \A i, j \in 1..Len(merged) :
               i < j /\ merged[i][1] = merged[j][1] => merged[i][2] < merged[j][2]

LEMMA ConservedIff ==
    TypeOK /\ pc # "write_error" => (Conserved <=> Complete /\ Sound /\ Ordered)
  <1> SUFFICES ASSUME TypeOK, pc # "write_error"
               PROVE  Conserved <=> Complete /\ Sound /\ Ordered
    OBVIOUS
  <1>1. merged \in Seq(Byte) /\ DOMAIN merged = 1..Len(merged)
    BY ConcatProperties DEF merged, TypeOK
  <1>2. \A j \in 1..Len(merged) : merged[j] \in Byte
    BY <1>1
  <1>3. \A s \in Streams : pos[s] \in Nat
    BY DEF TypeOK
  <1> DEFINE taken == UNION {{s} \X (1..pos[s]) : s \in Streams}
  <1>4. ASSUME NEW e PROVE e \in taken <=> \E s \in Streams : \E k \in 1..pos[s] : e = <<s, k>>
    OBVIOUS
  <1>5. ToSet(merged) = taken <=> Complete /\ Sound
    <2>1. ASSUME ToSet(merged) = taken PROVE Complete /\ Sound
      <3>1. Complete
        BY <1>1, <1>4, <2>1 DEF ToSet, Complete
      <3>2. ASSUME NEW j \in 1..Len(merged)
            PROVE  merged[j] \in Byte /\ merged[j][2] <= pos[merged[j][1]]
        <4>1. merged[j] \in taken
          BY <1>1, <2>1 DEF ToSet
        <4>2. PICK s \in Streams : \E k \in 1..pos[s] : merged[j] = <<s, k>>
          BY <1>4, <4>1
        <4> QED BY <1>2, <4>2
      <3> QED BY <3>1, <3>2 DEF Sound
    <2>2. ASSUME Complete, Sound PROVE ToSet(merged) = taken
      <3>1. ASSUME NEW e \in ToSet(merged) PROVE e \in taken
        <4>1. PICK j \in 1..Len(merged) : e = merged[j]
          BY <1>1 DEF ToSet
        <4>2. e \in Streams \X (Nat \ {0}) /\ e[2] <= pos[e[1]]
          BY <2>2, <4>1 DEF Sound, Byte
        <4>3. e = <<e[1], e[2]>> /\ e[1] \in Streams /\ e[2] \in 1..pos[e[1]]
          BY <1>3, <4>2
        <4> QED BY <1>4, <4>3
      <3>2. ASSUME NEW e \in taken PROVE e \in ToSet(merged)
        <4>1. PICK s \in Streams : \E k \in 1..pos[s] : e = <<s, k>>
          BY <1>4, <3>2
        <4>2. PICK j \in 1..Len(merged) : merged[j] = e
          BY <2>2, <4>1 DEF Complete
        <4> QED BY <1>1, <4>2 DEF ToSet
      <3> QED BY <3>1, <3>2
    <2> QED BY <2>1, <2>2
  <1> QED BY <1>1, <1>5 DEF Conserved, Ordered

\* Taking the next bytes of a stream keeps the three of them.
LEMMA TakeBytesConserves ==
    ASSUME TypeOK, NEW rv \in Nat, rv <= available, rv <= space, TakeBytes(rv),
           Complete, Sound, Ordered
    PROVE  (Complete /\ Sound /\ Ordered)'
  <1> DEFINE chunk == [j \in 1..rv |-> <<file, pos[file] + j>>]
             n == Len(merged)
  <1>1. file \in Streams /\ \A s \in Streams : pos[s] \in Nat
    BY ToReadBounds DEF TypeOK
  <1>2. chunk \in Seq(Byte) /\ Len(chunk) = rv
    BY <1>1, IsASeq DEF Byte
  <1>3. merged \in Seq(Byte) /\ n \in Nat
    BY ConcatProperties DEF merged, TypeOK
  <1>4. merged' = merged \o chunk
    <2>1. buf' = buf \o chunk /\ out' = out
      BY DEF TakeBytes
    <2> HIDE DEF chunk
    <2>2. out \o (buf \o chunk) = (out \o buf) \o chunk
      <3>1. out \in Seq(Byte) /\ buf \in Seq(Byte)
        BY DEF TypeOK
      <3> QED BY <1>2, <3>1, ConcatAssociative
    <2> QED BY <2>1, <2>2 DEF merged
  <1>5. /\ Len(merged') = n + rv
        /\ \A j \in 1..n : merged'[j] = merged[j]
        /\ \A j \in (n + 1)..(n + rv) : merged'[j] = chunk[j - n]
    <2> HIDE DEF chunk
    <2> QED BY <1>2, <1>3, <1>4, ConcatProperties
  <1>6. \A j \in (n + 1)..(n + rv) : merged'[j] = <<file, pos[file] + (j - n)>>
    <2> TAKE j \in (n + 1)..(n + rv)
    <2>1. j - n \in 1..rv
      BY <1>3
    <2>2. chunk[j - n] = <<file, pos[file] + (j - n)>>
      BY <2>1
    <2> HIDE DEF chunk
    <2> QED BY <1>5, <2>2
  <1>7. pos'[file] = pos[file] + rv /\ \A s \in Streams \ {file} : pos'[s] = pos[s]
    BY <1>1 DEF TakeBytes, TypeOK
  <1>7a. \A s \in Streams : pos'[s] \in Nat
    BY <1>1, <1>7
  <1> HIDE DEF chunk, n
  <1>8. Complete'
    <2> SUFFICES ASSUME NEW s \in Streams, NEW k \in 1..pos'[s]
                 PROVE  \E j \in 1..(n + rv) : merged'[j] = <<s, k>>
      BY <1>5 DEF Complete
    <2>1. CASE k <= pos[s]
      <3>1. PICK j \in 1..n : merged[j] = <<s, k>>
        <4>1. k \in 1..pos[s]
          BY <1>1, <1>7a, <2>1
        <4> QED BY <4>1 DEF Complete, n
      <3> QED BY <1>3, <1>5, <3>1
    <2>2. CASE k > pos[s]
      <3>1. s = file
        BY <1>1, <1>7, <2>2
      <3>2. n + (k - pos[file]) \in (n + 1)..(n + rv)
        BY <1>1, <1>3, <1>7, <2>2, <3>1
      <3>3. merged'[n + (k - pos[file])] = <<file, k>>
        BY <1>1, <1>3, <1>6, <3>2, SMTT(30)
      <3> QED BY <1>3, <3>1, <3>2, <3>3
    <2> QED BY <1>1, <2>1, <2>2
  <1>9. Sound'
    <2> SUFFICES ASSUME NEW j \in 1..(n + rv)
                 PROVE  merged'[j] \in Byte /\ merged'[j][2] <= pos'[merged'[j][1]]
      BY <1>5 DEF Sound
    <2>1. CASE j \in 1..n
      <3>1. merged[j] \in Byte /\ merged[j][2] <= pos[merged[j][1]]
        BY <2>1 DEF Sound, n
      <3>2. merged[j][1] \in Streams /\ merged[j][2] \in Nat
        BY <3>1 DEF Byte
      <3>3. pos[merged[j][1]] <= pos'[merged[j][1]]
        BY <1>1, <1>7, <3>2
      <3>4. merged[j][2] <= pos'[merged[j][1]]
        BY <1>1, <1>7, <3>1, <3>2, <3>3
      <3> QED BY <1>5, <2>1, <3>1, <3>4
    <2>2. CASE j \in (n + 1)..(n + rv)
      <3>1. merged'[j] = <<file, pos[file] + (j - n)>>
        BY <1>6, <2>2
      <3>2. pos[file] + (j - n) \in Nat \ {0} /\ pos[file] + (j - n) <= pos'[file]
        BY <1>1, <1>3, <1>7, <2>2
      <3> QED BY <1>1, <3>1, <3>2 DEF Byte
    <2> QED BY <1>3, <2>1, <2>2
  <1>10. Ordered'
    <2> SUFFICES ASSUME NEW i \in 1..(n + rv), NEW j \in 1..(n + rv), i < j,
                        merged'[i][1] = merged'[j][1]
                 PROVE  merged'[i][2] < merged'[j][2]
      BY <1>5 DEF Ordered
    <2>1. CASE j \in 1..n
      <3>1. i \in 1..n
        BY <1>3, <2>1
      <3> QED BY <1>5, <2>1, <3>1 DEF Ordered, n
    <2>2. CASE i \in 1..n /\ j \in (n + 1)..(n + rv)
      <3>1. merged[i] \in Byte /\ merged[i][2] <= pos[merged[i][1]]
        BY <2>2 DEF Sound, n
      <3>2. merged[i][2] \in Nat /\ merged[i][1] = file
        BY <1>5, <1>6, <2>2, <3>1 DEF Byte
      <3>3. merged'[i] = merged[i] /\ merged'[j] = <<file, pos[file] + (j - n)>>
        BY <1>5, <1>6, <2>2
      <3>4. merged[i][2] <= pos[file] /\ pos[file] < pos[file] + (j - n)
        BY <1>1, <1>3, <2>2, <3>1, <3>2
      <3>5. merged'[j][2] = pos[file] + (j - n) /\ merged'[i][2] = merged[i][2]
        BY <3>3
      <3> QED BY <1>1, <1>3, <3>2, <3>4, <3>5
    <2>3. CASE i \in (n + 1)..(n + rv) /\ j \in (n + 1)..(n + rv)
      <3>1. merged'[i] = <<file, pos[file] + (i - n)>>
            /\ merged'[j] = <<file, pos[file] + (j - n)>>
        BY <1>6, <2>3
      <3>2. pos[file] + (i - n) < pos[file] + (j - n)
        BY <1>1, <1>3, <2>3
      <3> QED BY <3>1, <3>2
    <2> QED BY <1>3, <2>1, <2>2, <2>3
  <1> QED BY <1>8, <1>9, <1>10

LEMMA NextConserved == TypeOK /\ Conserved /\ [Next]_vars => Conserved'
  <1> SUFFICES ASSUME TypeOK, Conserved, [Next]_vars, pc' # "write_error"
               PROVE  Conserved'
    BY DEF Conserved
  <1>0. TypeOK'
    BY NextTypeOK
  <1>1. pc # "write_error"
    BY DEF Next, Advance, StayInBlock, NextFile, WrapAround, LeaveLoop, Read,
           ReadFull, ReadError, ReadEof, Write, WriteOk, WriteFail, CheckInputs,
           Ended, vars
  <1>2. Complete /\ Sound /\ Ordered
    BY <1>1, ConservedIff
  <1>3. ASSUME merged' = merged, pos' = pos PROVE Conserved'
    BY <1>1, <1>3 DEF Conserved
  <1>4. ASSUME NEW rv \in Nat, rv <= available, rv <= space, TakeBytes(rv)
        PROVE  Conserved'
    <2>1. (Complete /\ Sound /\ Ordered)'
      BY <1>2, <1>4, TakeBytesConserves
    <2>2. (TypeOK /\ pc # "write_error")' => (Conserved <=> Complete /\ Sound /\ Ordered)'
      BY ConservedIff, PTL
    <2> QED BY <1>0, <2>1, <2>2
  <1>5. CASE Advance
    BY <1>3, <1>5 DEF Advance, StayInBlock, NextFile, WrapAround, LeaveLoop,
                      StartBlock, merged
  <1>6. CASE ReadFull
    <2>1. PICK rv \in Nat : rv = to_read
      BY ToReadBounds
    <2>2. TakeBytes(rv) /\ rv <= available /\ rv <= space
      BY <1>6, <2>1, ToReadBounds DEF ReadFull, TakeBytes
    <2> QED BY <1>4, <2>2
  <1>7. CASE ReadError
    <2>1. PICK rv \in 0..(to_read - 1) : rv <= available /\ TakeBytes(rv)
      BY <1>7 DEF ReadError
    <2>2. rv \in Nat /\ rv <= space
      BY <2>1, ToReadBounds
    <2> QED BY <1>4, <2>1, <2>2
  <1>8. CASE ReadEof
    <2>1. PICK rv \in Nat : rv = available
      BY ToReadBounds
    <2>2. TakeBytes(rv) /\ rv <= available /\ rv <= space
      BY <1>8, <2>1, ToReadBounds DEF ReadEof, TakeBytes
    <2> QED BY <1>4, <2>2
  <1>9. CASE WriteOk
    <2>1. merged \in Seq(Byte)
      BY ConcatProperties DEF merged, TypeOK
    <2>2. merged' = merged
      BY <1>9, <2>1, ConcatEmptySeq DEF WriteOk, merged
    <2> QED BY <1>3, <1>9, <2>2 DEF WriteOk
  <1>10. CASE WriteFail
    BY <1>10 DEF WriteFail
  <1>11. CASE CheckInputs
    BY <1>3, <1>11 DEF CheckInputs, merged
  <1>12. CASE UNCHANGED vars
    BY <1>3, <1>12 DEF vars, merged
  <1> QED
    BY <1>5, <1>6, <1>7, <1>8, <1>9, <1>10, <1>11, <1>12
    DEF Next, Read, Write, Ended

\* Every byte that is read reaches the output once and in its stream's order,
\* for any commands ("-" given several times included), lengths and buffer.
THEOREM BytesAreConserved == Spec => []Conserved
  <1>1. Init => Conserved
    <2> SUFFICES ASSUME Init PROVE Conserved
      OBVIOUS
    <2>1. TypeOK /\ pc # "write_error"
      BY InitTypeOK DEF Init
    <2>2. merged = << >> /\ Len(merged) = 0
      BY DEF Init, merged
    <2>3. Complete /\ Sound /\ Ordered
      BY <2>2 DEF Init, Complete, Sound, Ordered
    <2> QED BY <2>1, <2>3, ConservedIff
  <1>2. (TypeOK /\ Conserved) /\ [Next]_vars => (TypeOK /\ Conserved)'
    BY NextTypeOK, NextConserved
  <1> QED BY <1>1, <1>2, InitTypeOK, PTL DEF Spec

-----------------------------------------------------------------------------
(* The order of the blocks: where in which round the output stands.        *)

\* Block i of a round begins after off[i] bytes.
Layout(off) == BlocksLaid(Len(noas), sizes, noas, off)

\* The bytes of stream s among the first m of a round.
Count(m, s) == Cardinality({j \in 1..m : Round[j] = s})

\* What a layout says.
LEMMA LayoutMeans ==
    ASSUME TypeOK, NEW off, Layout(off)
    PROVE  /\ off \in [Slots -> Nat] /\ off[1] = 0
           /\ \A i \in Slots : i # 1 => off[i] = off[i - 1] + sizes[i - 1]
           /\ Len(Round) \in Nat \ {0}
           /\ Len(Round) = off[Len(noas)] + sizes[Len(noas)]
           /\ \A i \in Slots : \A k \in 1..sizes[i] :
                  off[i] + k \in 1..Len(Round) /\ Round[off[i] + k] = noas[i]
  <1>1. PICK n \in Nat \ {0} : n = Len(noas) /\ Slots = 1..n
    BY DEF TypeOK, Slots
  <1>2. Round = FlattenSeq([i \in 1..n |-> [k \in 1..sizes[i] |-> noas[i]]])
    BY <1>1 DEF Round
  <1>3. BlocksLaid(n, sizes, noas, off)
    BY <1>1 DEF Layout
  <1>4. /\ off \in [1..n -> Nat] /\ off[1] = 0
        /\ \A i \in 2..n : off[i] = off[i - 1] + sizes[i - 1]
        /\ Len(Round) \in Nat \ {0} /\ Len(Round) = off[n] + sizes[n]
        /\ \A i \in 1..n : \A k \in 1..sizes[i] :
               off[i] + k \in 1..Len(Round) /\ Round[off[i] + k] = noas[i]
    BY <1>2, <1>3 DEF BlocksLaid
  <1> QED BY <1>1, <1>4

\* Every command has one.
LEMMA LayoutExists == TypeOK => \E off : Layout(off)
  <1> SUFFICES ASSUME TypeOK PROVE \E off : Layout(off)
    OBVIOUS
  <1>1. PICK n \in Nat \ {0} : n = Len(noas)
    BY DEF TypeOK
  <1>2. \A i \in 1..n : sizes[i] \in Nat \ {0}
    BY <1>1, SlotType DEF Slots
  <1> QED BY <1>1, <1>2, BlocksLayout DEF Layout

\* A layout is one for good: the inputs and their sizes never change.
LEMMA LayoutStays ==
    ASSUME UNCHANGED inputs
    PROVE  /\ Round' = Round
           /\ \A off : Layout(off) => Layout(off)'
           /\ \A m, s : Count(m, s)' = Count(m, s)
           /\ \A k : IdealByte(k)' = IdealByte(k)
  <1>1. noas' = noas /\ sizes' = sizes /\ Slots' = Slots
    BY DEF inputs, Slots
  <1>2. Round' = Round
    BY <1>1 DEF Round
  <1> QED BY <1>1, <1>2 DEF Layout, Count, IdealByte

\* Counting on by rv bytes that are, or are not, of stream s.
LEMMA CountOn ==
    ASSUME NEW m \in Nat, NEW rv \in Nat, NEW s
    PROVE  /\ Count(m, s) \in Nat
           /\ (\A j \in (m + 1)..(m + rv) : Round[j] = s) =>
                  Count(m + rv, s) = Count(m, s) + rv
           /\ (\A j \in (m + 1)..(m + rv) : Round[j] # s) =>
                  Count(m + rv, s) = Count(m, s)
  <1> DEFINE A == {j \in Nat : Round[j] = s}
  <1>1. \A k \in Nat : \A j \in 1..k : j \in A <=> Round[j] = s
    OBVIOUS
  <1>2. \A j \in (m + 1)..(m + rv) : j \in A <=> Round[j] = s
    OBVIOUS
  <1> HIDE DEF A
  <1>3. \A k \in Nat : {j \in 1..k : Round[j] = s} = {j \in 1..k : j \in A}
    BY <1>1
  <1>4. \A k \in Nat : Count(k, s) = Cardinality({j \in 1..k : j \in A})
    BY <1>3 DEF Count
  <1>5. Cardinality({j \in 1..m : j \in A}) \in Nat
    BY CountUpTo
  <1>6. (\A j \in (m + 1)..(m + rv) : j \in A) =>
            Cardinality({j \in 1..(m + rv) : j \in A})
                = Cardinality({j \in 1..m : j \in A}) + rv
    BY CountMore, ZenonT(30)
  <1>7. (\A j \in (m + 1)..(m + rv) : j \notin A) =>
            Cardinality({j \in 1..(m + rv) : j \in A})
                = Cardinality({j \in 1..m : j \in A})
    BY CountMore
  <1>8. m + rv \in Nat
    OBVIOUS
  <1>9. Count(m, s) = Cardinality({j \in 1..m : j \in A})
        /\ Count(m + rv, s) = Cardinality({j \in 1..(m + rv) : j \in A})
    BY <1>4, <1>8
  <1> QED BY <1>2, <1>5, <1>6, <1>7, <1>9

\* The ideal byte y of round r.
LEMMA IdealInRound ==
    ASSUME NEW r \in Nat, NEW y \in 1..Len(Round), Len(Round) \in Nat \ {0}
    PROVE  IdealByte(r * Len(Round) + y)
               = <<Round[y], r * Count(Len(Round), Round[y]) + Count(y, Round[y])>>
  <1>1. PICK n \in Nat \ {0}, x \in Nat : n = Len(Round) /\ x = y - 1 /\ x < n
    OBVIOUS
  <1>2. (r * n + x) % n = x /\ (r * n + x) \div n = r
    BY <1>1, Remainder
  <1>3. (r * n + y) - 1 = r * n + x /\ x + 1 = y
    BY <1>1, Times
  <1>4. /\ ((((r * n + y) - 1) % n) + 1) = y
        /\ ((r * n + y) - 1) \div n = r
    BY <1>2, <1>3
  <1> QED BY <1>1, <1>4 DEF IdealByte, Count

\* Bytes go through the buffer as they would directly.
LEMMA AppendedTwice ==
    ASSUME NEW s \in Seq(Byte), NEW b \in Seq(Byte), NEW c \in Seq(Byte)
    PROVE  (s \o b) \o c = s \o (b \o c)
  <1>1. \A S : \A x, y, z \in Seq(S) : (x \o y) \o z = x \o (y \o z)
    BY ConcatAssociative
  <1> QED BY <1>1

\* x bytes of round r are in the output and the buffer, and from each stream
\* as many have been taken as this makes.
Place(off, r, x) ==
    /\ x = off[fp] + (sizes[fp] - rest_bytes)
    /\ Len(merged) = r * Len(Round) + x
    /\ \A s \in Streams : pos[s] = r * Count(Len(Round), s) + Count(x, s)

StepInv ==
    ~eof_p /\ pc # "write_error" =>
        \E off : Layout(off) /\ \E r, x \in Nat : Place(off, r, x)

\* Taking the next bytes of the current input continues the interleaving.
LEMMA TakeBytesInterleaves ==
    ASSUME TypeOK, NEW off, Layout(off), NEW r \in Nat, NEW x \in Nat, Place(off, r, x),
           Interleaved, pc # "write_error", pc' # "write_error",
           NEW rv \in Nat, rv <= available, rv <= space, rv <= rest_bytes,
           TakeBytes(rv), rest_bytes' = rest_bytes - rv
    PROVE  Place(off, r, x + rv)' /\ Interleaved'
  <1>1. /\ fp \in Slots /\ file \in Streams /\ file = noas[fp] /\ rest_bytes \in Nat
        /\ rest_bytes <= sizes[fp] /\ sizes[fp] \in Nat \ {0}
        /\ UNCHANGED <<inputs, fp>>
    BY ToReadBounds, SlotType, SMTT(30) DEF TypeOK, file, TakeBytes
  <1>2. PICK z \in Nat \ {0}, o \in Nat, n \in Nat \ {0} :
            z = sizes[fp] /\ o = off[fp] /\ n = Len(Round)
    BY <1>1, LayoutMeans
  <1>3. x = o + (z - rest_bytes) /\ rest_bytes <= z
    BY <1>1, <1>2 DEF Place
  <1>4. ASSUME NEW d \in 1..rv PROVE x + d \in 1..n /\ Round[x + d] = file
    <2>1. (z - rest_bytes) + d \in 1..z
      BY <1>1, <1>3
    <2>2. PICK k \in 1..z : k = (z - rest_bytes) + d
      BY <2>1
    <2>3. o + k \in 1..n /\ Round[o + k] = file
      BY <1>1, <1>2, LayoutMeans
    <2>4. x + d = o + k
      BY <1>1, <1>3, <2>2
    <2> QED BY <2>3, <2>4
  <1>5. \A s : Count(n, s) \in Nat /\ Count(x, s) \in Nat
    BY CountOn
  <1>6. ASSUME NEW d \in 1..rv PROVE Count(x + d, file) = Count(x, file) + d
    <2>1. ASSUME NEW j \in (x + 1)..(x + d) PROVE Round[j] = file
      <3>1. j - x \in 1..rv /\ x + (j - x) = j
        OBVIOUS
      <3> QED BY <1>4, <3>1
    <2> QED BY <2>1, CountOn
  <1>7. PICK m \in Nat, ms \in Seq(Byte) : ms = merged /\ m = Len(merged)
    BY ConcatProperties, LenProperties DEF merged, TypeOK
  <1>8. m = r * n + x /\ r * n \in Nat
    BY <1>2, <1>7, Times DEF Place
  <1>9. PICK c \in Seq(Byte) : /\ c = [j \in 1..rv |-> <<file, pos[file] + j>>]
                               /\ Len(c) = rv
                               /\ \A j \in 1..rv : c[j] = <<file, pos[file] + j>>
    <2> DEFINE chunk == [j \in 1..rv |-> <<file, pos[file] + j>>]
    <2>1. pos[file] \in Nat
      BY <1>1 DEF TypeOK
    <2>2. \A j \in 1..rv : <<file, pos[file] + j>> \in Byte
      BY <1>1, <2>1 DEF Byte
    <2>3. chunk \in Seq(Byte) /\ Len(chunk) = rv
      BY <2>2, IsASeq
    <2>4. \A j \in 1..rv : chunk[j] = <<file, pos[file] + j>>
      OBVIOUS
    <2> HIDE DEF chunk
    <2>5. \E c \in Seq(Byte) : /\ c = chunk /\ Len(c) = rv
                               /\ \A j \in 1..rv : c[j] = <<file, pos[file] + j>>
      BY <2>3, <2>4
    <2> QED BY <2>5 DEF chunk
  <1>10. merged' = ms \o c
    <2>1. buf' = buf \o c /\ out' = out
      BY <1>9 DEF TakeBytes
    <2>2. out \in Seq(Byte) /\ buf \in Seq(Byte)
      BY DEF TypeOK
    <2>3. out \o (buf \o c) = (out \o buf) \o c
      BY <2>2, AppendedTwice, ZenonT(30)
    <2> QED BY <1>7, <2>1, <2>3 DEF merged
  <1>11. /\ Len(merged') = m + rv
         /\ \A k \in 1..(m + rv) : merged'[k] = IF k <= m THEN ms[k] ELSE c[k - m]
    BY <1>7, <1>9, <1>10, ConcatProperties
  <1>12. PICK p \in Nat : p = pos[file] /\ p = r * Count(n, file) + Count(x, file)
    BY <1>1, <1>2 DEF TypeOK, Place
  <1>13. ASSUME NEW d \in 1..rv PROVE IdealByte(m + d) = <<file, p + d>>
    <2>1. PICK y \in 1..n : y = x + d
      BY <1>4
    <2>2. Round[y] = file /\ Count(y, file) = Count(x, file) + d
      BY <1>4, <1>6, <2>1
    <2>3. IdealByte(r * n + y) = <<Round[y], r * Count(n, Round[y]) + Count(y, Round[y])>>
      BY <1>2, IdealInRound
    <2>4. m + d = r * n + y
      BY <1>8, <2>1
    <2>5. r * Count(n, file) \in Nat
      BY <1>5, Times
    <2>6. r * Count(n, file) + Count(y, file) = p + d
      BY <1>5, <1>12, <2>2, <2>5, SMTT(30)
    <2> QED BY <2>2, <2>3, <2>4, <2>6
  <1>14. \A k : IdealByte(k)' = IdealByte(k)
    BY <1>1, LayoutStays
  <1>15. ASSUME NEW k \in 1..(m + rv) PROVE merged'[k] = IdealByte(k)
    <2>1. CASE k <= m
      <3>1. k \in DOMAIN merged
        BY <1>7, <2>1, LenProperties
      <3>2. merged[k] = IdealByte(k)
        BY <3>1 DEF Interleaved
      <3> QED BY <1>7, <1>11, <2>1, <3>2
    <2>2. CASE ~ (k <= m)
      <3>1. PICK d \in 1..rv : k = m + d /\ k - m = d
        <4>1. k - m \in 1..rv /\ k = m + (k - m)
          BY <2>2
        <4> QED BY <4>1
      <3> QED BY <1>9, <1>11, <1>12, <1>13, <2>2, <3>1
    <2> QED BY <2>1, <2>2
  <1>16. Interleaved'
    <2>1. DOMAIN (merged') = 1..(m + rv)
      <3>1. merged' \in Seq(Byte)
        BY <1>10, ConcatProperties
      <3> QED BY <1>11, <3>1, LenProperties
    <2> QED BY <1>14, <1>15, <2>1 DEF Interleaved
  <1>17. ASSUME NEW s \in Streams
         PROVE  pos'[s] = r * Count(n, s) + Count(x + rv, s)
    <2>1. pos[s] = r * Count(n, s) + Count(x, s)
      BY <1>2 DEF Place
    <2>2. r * Count(n, s) \in Nat /\ Count(x, s) \in Nat
      BY <1>5, Times
    <2>3. CASE s = file
      <3>1. pos'[s] = pos[s] + rv
        BY <1>1, <2>3 DEF TakeBytes, TypeOK
      <3>2. Count(x + rv, s) = Count(x, s) + rv
        <4>1. rv = 0 => x + rv = x
          OBVIOUS
        <4> QED BY <1>6, <2>2, <2>3, <4>1
      <3> QED BY <2>1, <2>2, <3>1, <3>2
    <2>4. CASE s # file
      <3>1. pos'[s] = pos[s]
        BY <1>1, <2>4 DEF TakeBytes, TypeOK
      <3>2. ASSUME NEW j \in (x + 1)..(x + rv) PROVE Round[j] # s
        <4>1. j - x \in 1..rv /\ x + (j - x) = j
          OBVIOUS
        <4> QED BY <1>4, <2>4, <4>1
      <3>3. Count(x + rv, s) = Count(x, s)
        BY <3>2, CountOn
      <3> QED BY <2>1, <3>1, <3>3
    <2> QED BY <2>3, <2>4
  <1>18. Place(off, r, x + rv)'
    <2>1. Round' = Round /\ sizes' = sizes /\ \A k, s : Count(k, s)' = Count(k, s)
      BY <1>1, LayoutStays DEF inputs
    <2>2. x + rv = o + (z - (rest_bytes - rv))
      BY <1>1, <1>3
    <2>3. Len(merged') = r * n + (x + rv)
      BY <1>8, <1>11
    <2> QED BY <1>1, <1>2, <1>17, <2>1, <2>2, <2>3 DEF Place
  <1> QED BY <1>16, <1>18

\* All inputs hold the same number of blocks, and nothing else.
Even == /\ \A i \in Slots : ~Ragged(i)
        /\ \A i, j \in Slots : WholeBlocks(i) = WholeBlocks(j)

\* Until an input ends the output is on its way through some round; once one
\* has, nothing is added if the others hold no more than it does.
OrderInv ==
    /\ StepInv
    /\ ~eof_p => Interleaved
    /\ eof_p /\ Distinct /\ Even => Interleaved

\* When one input has ended and the others hold no more, all have ended.
LEMMA NothingMore ==
    ASSUME TypeOK, LoopInv, RoundInv, Distinct, Even, eof_p, pc = "read"
    PROVE  available = 0
  <1>1. PICK r \in Nat : \A i \in Slots : Balanced(r, i)
    BY DEF RoundInv
  <1>2. PICK j \in Slots : feof[noas[j]]
    BY DEF LoopInv
  <1>3. ASSUME NEW i \in Slots
        PROVE  /\ noas[i] \in Streams /\ sizes[i] \in Nat \ {0}
               /\ pos[noas[i]] \in Nat /\ len[noas[i]] \in Nat
               /\ r * sizes[i] \in Nat /\ Balanced(r, i)
               /\ feof[noas[i]] => pos[noas[i]] = len[noas[i]]
    <2>1. noas[i] \in Streams /\ sizes[i] \in Nat \ {0}
      BY <1>3, SlotType
    <2> QED BY <1>1, <1>3, <2>1, Times DEF TypeOK, LoopInv
  <1>4. WholeBlocks(j) = r
    <2>1. r * sizes[j] <= len[noas[j]] /\ len[noas[j]] < r * sizes[j] + sizes[j]
      BY <1>2, <1>3 DEF Balanced
    <2> QED BY <1>3, <2>1, Quotient DEF WholeBlocks
  <1>5. /\ fp \in Slots /\ file = noas[fp] /\ available \in Nat
        /\ available = len[file] - pos[file]
        /\ rest_bytes \in Nat /\ rest_bytes <= sizes[fp] /\ fp \in Nat
    BY ToReadBounds, SlotType, SMTT(30) DEF TypeOK, file, available, Slots
  <1>6. CASE feof[file]
    BY <1>3, <1>5, <1>6
  <1>7. CASE ~feof[file]
    <2>1. pos[file] = r * sizes[fp] + (sizes[fp] - rest_bytes)
      BY <1>3, <1>5, <1>7 DEF Balanced
    <2>2. len[file] \div sizes[fp] = r /\ len[file] % sizes[fp] = 0
      BY <1>4, <1>5 DEF Even, Ragged, WholeBlocks
    <2>3. PICK z \in Nat \ {0}, l \in Nat : z = sizes[fp] /\ l = len[file]
      BY <1>3, <1>5
    <2>4. l = (l \div z) * z + (l % z)
      BY <2>3, Division
    <2>5. l = r * z + 0
      BY <2>2, <2>3, <2>4
    <2> QED BY <1>3, <1>5, <2>1, <2>3, <2>5
  <1> QED BY <1>6, <1>7

\* Even and Distinct speak of the inputs only.
LEMMA EvenStays ==
    ASSUME UNCHANGED inputs
    PROVE  (Even' <=> Even) /\ (Distinct' <=> Distinct)
  <1>1. noas' = noas /\ sizes' = sizes /\ len' = len /\ Slots' = Slots
    BY DEF inputs, Slots
  <1> QED BY <1>1 DEF Even, Distinct, Ragged, WholeBlocks

\* A fread of rv bytes keeps the order, if it was not the one that met the
\* end with something in hand.
LEMMA TakeBytesOrder ==
    ASSUME TypeOK, LoopInv, RoundInv, OrderInv, pc = "read", pc' # "write_error",
           NEW rv \in Nat, rv <= available, rv <= space, rv <= rest_bytes, TakeBytes(rv),
           rest_bytes' = rest_bytes - rv \/ eof_p', eof_p => eof_p',
           eof_p' => eof_p \/ rv = 0
    PROVE  OrderInv'
  <1>1. UNCHANGED inputs /\ (Even' <=> Even) /\ (Distinct' <=> Distinct)
    BY EvenStays DEF TakeBytes
  <1>2. ASSUME rv = 0 PROVE Interleaved => Interleaved'
    <2>1. [j \in 1..rv |-> <<file, pos[file] + j>>] = << >>
      BY <1>2
    <2>2. buf' = buf \o << >> /\ out' = out
      BY <2>1 DEF TakeBytes
    <2>3. buf' = buf
      BY <2>2, ConcatEmptySeq DEF TypeOK
    <2> QED BY <1>1, <2>2, <2>3, LayoutStays DEF Interleaved, merged
  <1>3. CASE ~eof_p'
    <2>1. ~eof_p /\ Interleaved /\ rest_bytes' = rest_bytes - rv
      BY <1>3 DEF OrderInv
    <2>2. PICK off : Layout(off) /\ \E r, x \in Nat : Place(off, r, x)
      BY <2>1 DEF OrderInv, StepInv
    <2>3. PICK r \in Nat, x \in Nat : Place(off, r, x)
      BY <2>2
    <2>4. Place(off, r, x + rv)' /\ Interleaved'
      BY <2>1, <2>2, <2>3, TakeBytesInterleaves
    <2>5. Layout(off)' /\ x + rv \in Nat
      BY <1>1, <2>2, LayoutStays
    <2> QED BY <1>3, <2>4, <2>5 DEF OrderInv, StepInv
  <1>4. CASE eof_p' /\ rv = 0
    BY <1>1, <1>2, <1>4 DEF OrderInv, StepInv
  <1>5. CASE eof_p' /\ eof_p
    <2>1. ASSUME Distinct, Even PROVE Interleaved'
      <3>1. available = 0
        BY <1>5, <2>1, NothingMore
      <3> QED BY <1>2, <1>5, <2>1, <3>1 DEF OrderInv
    <2> QED BY <1>1, <1>5, <2>1 DEF OrderInv, StepInv
  <1> QED BY <1>3, <1>4, <1>5

LEMMA NextOrderInv ==
    TypeOK /\ LoopInv /\ RoundInv /\ OrderInv /\ [Next]_vars => OrderInv'
  <1> SUFFICES ASSUME TypeOK, LoopInv, RoundInv, OrderInv, [Next]_vars PROVE OrderInv'
    OBVIOUS
  <1>1. ASSUME UNCHANGED <<inputs, pos, fp, rest_bytes, eof_p>>, merged' = merged,
               pc # "write_error", pc' # "write_error"
        PROVE  OrderInv'
    <2>1. (Even' <=> Even) /\ (Distinct' <=> Distinct)
      BY <1>1, EvenStays
    <2>2. Interleaved => Interleaved'
      BY <1>1, LayoutStays DEF Interleaved
    <2>3. \A off, r, x : Place(off, r, x) => Place(off, r, x)'
      BY <1>1, LayoutStays DEF Place, inputs
    <2>4. StepInv'
      <3> SUFFICES ASSUME ~eof_p PROVE \E off : Layout(off)' /\ \E r, x \in Nat : Place(off, r, x)'
        BY <1>1 DEF StepInv
      <3>1. PICK off : Layout(off) /\ \E r, x \in Nat : Place(off, r, x)
        BY <1>1 DEF OrderInv, StepInv
      <3>2. Layout(off)'
        BY <1>1, <3>1, LayoutStays
      <3> QED BY <2>3, <3>1, <3>2
    <2> QED BY <1>1, <2>1, <2>2, <2>4 DEF OrderInv
  <1>2. CASE StayInBlock
    BY <1>1, <1>2 DEF StayInBlock, merged
  <1>3. ASSUME NEW i \in Slots, StartBlock(i), pc = "advance", rest_bytes = 0,
               i = (IF fp = Len(noas) THEN 1 ELSE fp + 1)
        PROVE  OrderInv'
    <2>1. UNCHANGED <<inputs, pos, eof_p, buf, out>> /\ pc' = "read"
          /\ fp' = i /\ rest_bytes' = sizes[i]
      BY <1>3 DEF StartBlock
    <2>2. (Even' <=> Even) /\ (Distinct' <=> Distinct)
      BY <2>1, EvenStays
    <2>3. Interleaved => Interleaved'
      BY <1>3, <2>1, LayoutStays DEF Interleaved, merged
    <2>4. StepInv'
      <3> SUFFICES ASSUME ~eof_p PROVE \E off : Layout(off)' /\ \E r, x \in Nat : Place(off, r, x)'
        BY <2>1 DEF StepInv
      <3>1. PICK off : Layout(off) /\ \E r, x \in Nat : Place(off, r, x)
        BY <1>3 DEF OrderInv, StepInv
      <3>2. PICK r \in Nat, x \in Nat : Place(off, r, x)
        BY <3>1
      <3>3. /\ fp \in Slots /\ sizes[fp] \in Nat /\ sizes[i] \in Nat
            /\ off[fp] \in Nat /\ off[i] \in Nat /\ Len(Round) \in Nat
        <4>1. fp \in Slots /\ sizes[fp] \in Nat /\ sizes[i] \in Nat
          BY <1>3, SlotType DEF TypeOK
        <4>2. off \in [Slots -> Nat] /\ Len(Round) \in Nat
          BY <3>1, LayoutMeans
        <4> QED BY <1>3, <4>1, <4>2
      <3>4. PICK z \in Nat, o \in Nat, n \in Nat, y \in Nat, w \in Nat :
                /\ z = sizes[fp] /\ o = off[fp] /\ n = Len(Round)
                /\ y = sizes[i] /\ w = off[i]
        BY <3>3
      <3>5. x = o + z /\ Len(merged) = r * n + x /\ r * n \in Nat
            /\ \A s \in Streams : pos[s] = r * Count(n, s) + Count(x, s)
        <4>1. x = o + (z - 0) /\ Len(merged) = r * n + x
              /\ \A s \in Streams : pos[s] = r * Count(n, s) + Count(x, s)
          BY <1>3, <3>2, <3>4 DEF Place
        <4>2. r * n \in Nat
          BY Times
        <4> QED BY <4>1, <4>2
      <3>6. /\ merged' = merged /\ Round' = Round /\ sizes' = sizes /\ pos' = pos
            /\ (\A k, s : Count(k, s)' = Count(k, s)) /\ Layout(off)'
        BY <2>1, <3>1, LayoutStays DEF merged, inputs
      <3>7. CASE fp # Len(noas)
        <4>1. i # 1 /\ i - 1 = fp
          BY <1>3, <3>7 DEF TypeOK, Slots
        <4>2. w = o + z
          BY <3>1, <3>4, <4>1, LayoutMeans
        <4>3. x = w + (y - y)
          BY <3>5, <4>2
        <4>4. Place(off, r, x)'
          BY <2>1, <3>4, <3>5, <3>6, <4>3 DEF Place
        <4> QED BY <3>6, <4>4
      <3>8. CASE fp = Len(noas)
        <4>1. w = 0 /\ n = o + z
          BY <1>3, <3>1, <3>4, <3>8, LayoutMeans
        <4>2. 0 = w + (y - y) /\ Len(merged) = (r + 1) * n + 0
          BY <3>5, <4>1, Times
        <4>3. ASSUME NEW s \in Streams PROVE pos[s] = (r + 1) * Count(n, s) + Count(0, s)
          <5>1. Count(0, s) = 0
            <6>1. {j \in 1..0 : Round[j] = s} = {}
              OBVIOUS
            <6> QED BY <6>1, FS_EmptySet DEF Count
          <5>2. pos[s] = r * Count(n, s) + Count(n, s)
            BY <3>5, <4>1
          <5>3. Count(n, s) \in Nat
            BY CountOn
          <5>4. (r + 1) * Count(n, s) = r * Count(n, s) + Count(n, s)
                /\ r * Count(n, s) \in Nat
            BY <5>3, Times
          <5> QED BY <5>1, <5>2, <5>3, <5>4
        <4>4. Place(off, r + 1, 0)'
          BY <2>1, <3>4, <3>6, <4>2, <4>3 DEF Place
        <4> QED BY <3>6, <4>4
      <3> QED BY <3>7, <3>8
    <2> QED BY <2>1, <2>2, <2>3, <2>4 DEF OrderInv
  <1>4. CASE NextFile
    <2>1. fp + 1 \in Slots
      BY <1>4 DEF NextFile, TypeOK, Slots
    <2> QED BY <1>3, <1>4, <2>1 DEF NextFile
  <1>5. CASE WrapAround
    <2>1. 1 \in Slots
      BY DEF TypeOK, Slots
    <2> QED BY <1>3, <1>5, <2>1 DEF WrapAround
  <1>6. CASE LeaveLoop
    BY <1>1, <1>6 DEF LeaveLoop, merged
  <1>7. CASE ReadFull
    <2>1. PICK rv \in Nat : rv = to_read
      BY ToReadBounds
    <2>2. rv <= available /\ rv <= space /\ rv <= rest_bytes
      BY <1>7, <2>1, ToReadBounds DEF ReadFull
    <2>3. TakeBytes(rv) /\ rest_bytes' = rest_bytes - rv /\ eof_p' = eof_p
          /\ pc = "read" /\ pc' # "write_error"
      BY <1>7, <2>1 DEF ReadFull, TakeBytes
    <2> QED BY <2>2, <2>3, TakeBytesOrder
  <1>8. CASE ReadError
    <2>1. PICK rv \in 0..(to_read - 1) : /\ rv <= available /\ TakeBytes(rv)
                                         /\ rest_bytes' = rest_bytes - rv
      BY <1>8 DEF ReadError
    <2>2. rv \in Nat /\ rv <= space /\ rv <= rest_bytes
      BY <2>1, ToReadBounds, SMTT(30) DEF TypeOK
    <2> QED BY <1>8, <2>1, <2>2, TakeBytesOrder DEF ReadError
  <1>9. CASE ReadEof
    <2>1. PICK rv \in Nat : rv = available
      BY ToReadBounds
    <2>2. /\ rv <= available /\ rv <= space /\ rv <= rest_bytes /\ rv < rest_bytes
          /\ TakeBytes(rv) /\ pc = "read" /\ pc' # "write_error"
      <3>1. rest_bytes \in Nat /\ to_read \in Nat /\ space \in Nat
            /\ to_read <= rest_bytes /\ to_read <= space /\ rv < to_read
        BY <1>9, <2>1, ToReadBounds, SlotType, SMTT(30) DEF ReadEof, TypeOK
      <3>2. TakeBytes(rv) /\ pc = "read" /\ pc' \in {"mid_block", "advance"}
        BY <1>9, <2>1 DEF ReadEof, TakeBytes
      <3> QED BY <2>1, <3>1, <3>2
    <2>3. \/ rv # 0 /\ rest_bytes' = rest_bytes - rv /\ eof_p' = eof_p
          \/ rv = 0 /\ eof_p'
      BY <1>9, <2>1, <2>2, ToReadBounds DEF ReadEof
    <2> QED BY <2>2, <2>3, TakeBytesOrder
  <1>10. CASE WriteOk
    <2>1. merged \in Seq(Byte)
      BY ConcatProperties DEF merged, TypeOK
    <2>2. merged' = merged
      BY <1>10, <2>1, ConcatEmptySeq DEF WriteOk, merged
    <2> QED BY <1>1, <1>10, <2>2 DEF WriteOk
  <1>11. CASE WriteFail
    <2>1. PICK k \in 0..(Len(buf) - 1) : out' = out \o SubSeq(buf, 1, k)
      BY <1>11 DEF WriteFail
    <2>2. UNCHANGED <<inputs, eof_p>> /\ pc' = "write_error" /\ pc # "write_error"
      BY <1>11 DEF WriteFail
    <2>3. PICK o \in Seq(Byte), b \in Seq(Byte) : o = out /\ b = buf
      BY DEF TypeOK
    <2>4. PICK c \in Seq(Byte) : c = SubSeq(b, 1, k) /\ Len(c) <= Len(b)
                                 /\ \A j \in 1..Len(c) : c[j] = b[j]
      <3>1. k \in Nat /\ k <= Len(b) /\ 1 \in 1..(Len(b) + 1)
        BY <2>1, <2>3, LenProperties
      <3>2. SubSeq(b, 1, k) \in Seq(Byte) /\ Len(SubSeq(b, 1, k)) = k
            /\ \A j \in 1..k : SubSeq(b, 1, k)[j] = b[j]
        BY <2>3, <3>1, SubSeqProperties
      <3> QED BY <3>1, <3>2
    <2>5. Interleaved => Interleaved'
      <3> SUFFICES ASSUME Interleaved, NEW j \in DOMAIN out'
                   PROVE  out'[j] = IdealByte(j)
        BY <2>2, LayoutStays DEF Interleaved
      <3>1. out' = o \o c /\ merged = o \o b
        BY <2>1, <2>3, <2>4 DEF merged
      <3>2. /\ o \o c \in Seq(Byte) /\ Len(o \o c) = Len(o) + Len(c)
            /\ o \o b \in Seq(Byte) /\ Len(o \o b) = Len(o) + Len(b)
            /\ Len(o) \in Nat /\ Len(b) \in Nat /\ Len(c) \in Nat
        BY ConcatProperties, LenProperties
      <3>3. j \in 1..(Len(o) + Len(c)) /\ j \in 1..(Len(o) + Len(b))
        BY <2>4, <3>1, <3>2, LenProperties
      <3>4. (o \o c)[j] = (o \o b)[j]
        <4>1. (o \o c)[j] = IF j <= Len(o) THEN o[j] ELSE c[j - Len(o)]
          BY <3>3, ConcatProperties
        <4>2. (o \o b)[j] = IF j <= Len(o) THEN o[j] ELSE b[j - Len(o)]
          BY <3>3, ConcatProperties
        <4>3. ~ (j <= Len(o)) => j - Len(o) \in 1..Len(c)
          BY <3>2, <3>3
        <4> QED BY <2>4, <4>1, <4>2, <4>3
      <3>5. j \in DOMAIN merged
        BY <3>1, <3>2, <3>3, LenProperties
      <3>6. merged[j] = IdealByte(j)
        BY <2>2, <3>5 DEF Interleaved
      <3> QED BY <3>1, <3>4, <3>6
    <2>6. (Even' <=> Even) /\ (Distinct' <=> Distinct)
      BY <2>2, EvenStays
    <2> QED BY <2>2, <2>5, <2>6 DEF OrderInv, StepInv
  <1>12. CASE CheckInputs
    BY <1>1, <1>12 DEF CheckInputs, merged
  <1>13. CASE UNCHANGED vars
    <2>1. UNCHANGED <<inputs, eof_p, out, pc>> /\ merged' = merged
      BY <1>13 DEF vars, merged
    <2>2. (Even' <=> Even) /\ (Distinct' <=> Distinct)
      BY <2>1, EvenStays
    <2>3. Interleaved => Interleaved'
      BY <2>1, LayoutStays DEF Interleaved
    <2>4. CASE pc = "write_error"
      BY <2>1, <2>2, <2>3, <2>4 DEF OrderInv, StepInv
    <2>5. CASE pc # "write_error"
      BY <1>1, <1>13, <2>1, <2>5 DEF vars
    <2> QED BY <2>4, <2>5
  <1> QED
    BY <1>2, <1>4, <1>5, <1>6, <1>7, <1>8, <1>9, <1>10, <1>11, <1>12, <1>13
    DEF Next, Advance, Read, Write, Ended

LEMMA InitOrderInv == Init => OrderInv
  <1> SUFFICES ASSUME Init PROVE OrderInv
    OBVIOUS
  <1>1. /\ TypeOK /\ fp = 1 /\ rest_bytes = sizes[1] /\ ~eof_p /\ pc = "advance"
        /\ merged = << >> /\ (\A s \in Streams : pos[s] = 0)
    BY InitTypeOK DEF Init, merged
  <1>2. Interleaved
    BY <1>1 DEF Interleaved
  <1>3. PICK off : Layout(off)
    BY <1>1, LayoutExists
  <1>4. PICK z \in Nat, n \in Nat : z = sizes[1] /\ n = Len(Round) /\ off[1] = 0
    BY <1>1, <1>3, SlotType, LayoutMeans DEF TypeOK
  <1>5. ASSUME NEW s PROVE Count(0, s) = 0 /\ 0 * Count(n, s) = 0
    <2>1. {j \in 1..0 : Round[j] = s} = {}
      OBVIOUS
    <2>2. Count(n, s) \in Nat
      BY CountOn
    <2> QED BY <2>1, <2>2, FS_EmptySet DEF Count
  <1>6. 0 = 0 + (z - z) /\ 0 = 0 * n + 0 /\ Len(<< >>) = 0
    OBVIOUS
  <1>7. Place(off, 0, 0)
    <2>1. 0 = off[fp] + (sizes[fp] - rest_bytes) /\ Len(merged) = 0 * Len(Round) + 0
      BY <1>1, <1>4, <1>6
    <2>2. ASSUME NEW s \in Streams PROVE pos[s] = 0 * Count(Len(Round), s) + Count(0, s)
      <3>1. pos[s] = 0 /\ Count(0, s) = 0 /\ 0 * Count(Len(Round), s) = 0
        BY <1>1, <1>4, <1>5
      <3> QED BY <3>1
    <2> QED BY <2>1, <2>2 DEF Place
  <1>8. StepInv
    BY <1>3, <1>7 DEF StepInv
  <1> QED BY <1>1, <1>2, <1>8 DEF OrderInv

\* The output is the interleaving asked for, block by block, for any number
\* of inputs, block sizes, lengths and size of the buffer.
THEOREM BlocksAlternate == Spec => []OutputIsInterleaving
  <1>1. TypeOK /\ LoopInv /\ RoundInv /\ OrderInv => OutputIsInterleaving
    <2> SUFFICES ASSUME TypeOK, LoopInv, RoundInv, OrderInv, pc = "ok", eof_p, Distinct,
                        \A i \in Slots : ~Ragged(i)
                 PROVE  Interleaved
      BY DEF OutputIsInterleaving, OrderInv
    <2>1. NotAtEof = {}
      BY DEF LoopInv
    <2>2. Even
      BY <2>1, Verdict DEF Even
    <2> QED BY <2>2 DEF OrderInv
  <1>2. OrderInv /\ (TypeOK /\ LoopInv /\ RoundInv) /\ [Next]_vars => OrderInv'
    BY NextOrderInv
  <1> QED BY <1>1, <1>2, InitOrderInv, RoundInvariant, PTL DEF Spec
=============================================================================
