---------------------------- MODULE LocaleAlias ----------------------------
(***************************************************************************)
(* The locale aliases of the message library (src/intl/localealias.c):     *)
(* files of "alias value" lines, read one at a time and only while a name  *)
(* is not found, into one sorted table.                                    *)
(*                                                                         *)
(* A name is a model value; Fold gives its place in the order of           *)
(* strcasecmp, equal for names that differ in case alone.  A file is the   *)
(* sequence of its lines.  A comment or an empty line has no words.        *)
(***************************************************************************)
EXTENDS Integers, Sequences, SequencesExt

CONSTANTS
    NoAlias,    \* NULL
    Path,       \* the alias files on LOCALE_ALIAS_PATH, in its order
    Fold,       \* the place of each name in the order of strcasecmp
    TableStep,  \* entries in the first table (100)
    PoolStep    \* strings that 1024 bytes of the pool are enough for

\* A line is the sequence of its first two words; what cannot be opened is
\* a file without lines.
ASSUME PathAssumption ==
    /\ Fold \in [DOMAIN Fold -> Int] /\ NoAlias \notin DOMAIN Fold
    /\ Path \in Seq(Seq(Seq(DOMAIN Fold)))
    /\ \A k \in DOMAIN Path : \A i \in DOMAIN Path[k] : Len(Path[k][i]) \in 0..2
ASSUME StepsAssumption == TableStep \in Nat \ {0} /\ PoolStep \in Nat \ {0}

VARIABLES
    map,                \* the table: a sequence of <<alias, value>>
    maxmap, pool_max,   \* entries there is room for
    alias_path,         \* index of the next file
    line,               \* of the open file
    added,
    name,               \* what is looked for
    value,              \* what was found for it, or NoAlias
    torn,               \* history: memory has run out in the middle of a file
    alias_at            \* "idle", "search", "files" or "read"

lookup == <<name, value>>
room   == <<maxmap, pool_max>>
alias_vars == <<map, room, alias_path, line, added, lookup, torn, alias_at>>

AliasInit ==
    /\ map = << >> /\ maxmap = 0 /\ pool_max = 0
    /\ alias_path = 1 /\ line = 1 /\ added = 0
    /\ name = NoAlias /\ value = NoAlias
    /\ torn = FALSE
    /\ alias_at = "idle"

alias_compare(a, b) == Fold[a] - Fold[b]

Sorted(table) == \A i \in 2..Len(table) : alias_compare(table[i - 1][1], table[i][1]) <= 0

\* What bsearch may return: any of the entries of that name; and nothing
\* when there is none, or when the table is not in order.
bsearch(n) ==
    LET found == {i \in DOMAIN map : alias_compare(map[i][1], n) = 0}
    IN  {map[i][2] : i \in found} \cup (IF found = {} \/ ~Sorted(map) THEN {NoAlias} ELSE {})

\* mutant: nothing is twice nothing.
NewSize_Doubled(max) == 2 * max
\* extend_alias_table.
NewSize(max) == IF max = 0 THEN TableStep ELSE 2 * max

\* mutant: what the file has added is left at the end.
qsort_Appended(table) == {table}
\* qsort leaves names that are the same to it in any order.
qsort(table) ==
    {[i \in DOMAIN table |-> table[p[i]]] :
         p \in {q \in [DOMAIN table -> DOMAIN table] :
                    /\ \A i, j \in DOMAIN table : i # j => q[i] # q[j]
                    /\ \A i \in DOMAIN table : i > 1 =>
                          alias_compare(table[q[i - 1]][1], table[q[i]][1]) <= 0}}

ExpandAlias(n) ==
    /\ alias_at = "idle"
    /\ name' = n /\ value' = NoAlias
    /\ alias_at' = "search"
    /\ UNCHANGED <<map, room, alias_path, line, added, torn>>

Search ==
    /\ alias_at = "search"
    /\ \E v \in bsearch(name) :
           /\ value' = v
           /\ alias_at' = IF v = NoAlias THEN "files" ELSE "idle"
    /\ added' = 0
    /\ UNCHANGED <<map, room, alias_path, line, name, torn>>

\* Perhaps we can find another alias file.
OpenFile ==
    /\ alias_at = "files" /\ added = 0 /\ alias_path <= Len(Path)
    /\ alias_path' = alias_path + 1
    /\ line' = 1
    /\ alias_at' = "read"
    /\ UNCHANGED <<map, room, added, lookup, torn>>

FilesDone ==
    /\ alias_at = "files" /\ (added # 0 \/ alias_path > Len(Path))
    /\ alias_at' = IF added # 0 THEN "search" ELSE "idle"
    /\ UNCHANGED <<map, room, alias_path, line, added, lookup, torn>>

file == Path[alias_path - 1]

\* The end of the line is looked for in a buffer that now ends after its
\* first word: what is read up to the next end of line is dropped.
Rest(words) == IF words = << >> THEN 0 ELSE 1

ReadLine ==
    /\ alias_at = "read" /\ line <= Len(file)
    /\ LET words == file[line]
       IN  /\ line' = line + 1 + Rest(words)
           /\ IF Len(words) = 2
              THEN /\ map' = Append(map, words)
                   /\ maxmap' = IF Len(map) < maxmap THEN maxmap ELSE NewSize(maxmap)
                   /\ pool_max' = IF Len(map) < pool_max THEN pool_max ELSE pool_max + PoolStep
                   /\ added' = added + 1
              ELSE UNCHANGED <<map, room, added>>
    /\ UNCHANGED <<alias_path, lookup, torn, alias_at>>

\* The table grows before the pool does.  What was added is neither sorted
\* nor taken back, and the file stays open.
NoMemoryForLine ==
    /\ alias_at = "read" /\ line <= Len(file) /\ Len(file[line]) = 2
    /\ \/ Len(map) >= maxmap /\ UNCHANGED maxmap
       \/ /\ Len(map) >= pool_max
          /\ maxmap' = IF Len(map) < maxmap THEN maxmap ELSE NewSize(maxmap)
    /\ torn' = TRUE
    /\ alias_at' = "files"
    /\ UNCHANGED <<map, pool_max, alias_path, line, added, lookup>>

EndOfFile ==
    /\ alias_at = "read" /\ line > Len(file)
    /\ map' \in IF added > 0 THEN qsort(map) ELSE {map}
    /\ alias_at' = "files"
    /\ UNCHANGED <<room, alias_path, line, added, lookup, torn>>

AliasNext ==
    \/ Search \/ OpenFile \/ FilesDone
    \/ ReadLine \/ NoMemoryForLine \/ EndOfFile

-----------------------------------------------------------------------------
(* Properties.                                                             *)

AliasTypeOK ==
    /\ map \in Seq((DOMAIN Fold) \X (DOMAIN Fold))
    /\ maxmap \in Nat /\ pool_max \in Nat /\ Len(map) <= maxmap /\ Len(map) <= pool_max
    /\ alias_path \in 1..Len(Path) + 1 /\ line \in Nat \ {0} /\ added \in 0..Len(map)
    /\ name \in DOMAIN Fold \cup {NoAlias} /\ value \in DOMAIN Fold \cup {NoAlias}
    /\ torn \in BOOLEAN
    /\ alias_at \in {"idle", "search", "files", "read"}
    /\ alias_at = "read" => alias_path > 1

\* Unless memory ran out on the way, a name stays without an alias only
\* when every file has been read, and when there is none for it in what
\* has been kept of them, whatever their order and that of their lines
\* (localealias.c:165-205): a search never misses an entry of a table that
\* several files have been merged into.
AliasIsFound ==
    alias_at = "idle" /\ name # NoAlias /\ ~torn =>
        IF value = NoAlias
        THEN alias_path > Len(Path) /\ \A i \in DOMAIN map : Fold[map[i][1]] # Fold[name]
        ELSE \E k \in 1..alias_path - 1 : \E i \in DOMAIN Path[k] :
                 Len(Path[k][i]) = 2 /\ Fold[Path[k][i][1]] = Fold[name] /\ Path[k][i][2] = value

\* "Possibly not the whole line fits into the buffer.  Ignore the rest of
\* the line." (localealias.c:346-347): nothing but the rest of the line is
\* ignored, so that every alias of a file that was read to its end is there.
EveryLineIsRead ==
    alias_at = "idle" /\ ~torn =>
        \A k \in 1..alias_path - 1 : \A i \in DOMAIN Path[k] :
            Len(Path[k][i]) = 2 => Contains(map, Path[k][i])
=============================================================================
