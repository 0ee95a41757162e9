------------------------------ MODULE Catalog ------------------------------
(***************************************************************************)
(* One catalog file: _nl_load_domain (src/intl/loadmsgcat.c), the search   *)
(* of a message in it, by its hash table or by halves (_nl_find_msg,       *)
(* src/intl/dcigettext.c), and the plural form of what was found (Plural). *)
(*                                                                         *)
(* A string is the sequence of its bytes, the NUL at its end left out; the *)
(* zeros in it are the NULs between its plural forms.  A number in the     *)
(* other byte order is written as its negative.                            *)
(***************************************************************************)
EXTENDS Plural, FiniteSetsExt

CONSTANTS
    CatalogFiles,       \* what may be in the file
    Queries,            \* the messages that are asked for, with their numbers
    PRI,                \* what inttypes.h has for each of its names
    HASHWORD, LONG,     \* how many values a hash value and an unsigned long have
    MaxQueries          \* bound: searches

ASSUME CatalogAssumption ==
    /\ HASHWORD \in Nat /\ 256 <= HASHWORD /\ HASHWORD % 16 = 0
    /\ LONG \in Nat /\ HASHWORD <= LONG
    /\ MaxQueries \in Nat

VARIABLES
    file,               \* the contents, or what cannot be read
    mem,                \* the descriptor and the memory that is held
    domain,             \* struct loaded_domain, without its plural forms
    decided,            \* of struct loaded_l10nfile
    query,              \* what is looked for
    idx, incr,          \* the place in the hash table and the step to the next
    bottom, top,        \* of the search by halves
    act, form,          \* the message that was found, and which of its variants
    i,                  \* the system dependent string that is being entered
    queries, at

load_vars == <<file, mem, domain, decided, i, queries>>
find_vars == <<query, idx, incr, bottom, top, act, form>>
cat_vars == <<load_vars, find_vars, plural_vars, at>>

None == -1
Header == [id |-> << >>, n |-> 0, from |-> "load"]
NoDomain == << >>
Nothing == [fd |-> FALSE, data |-> "none", domain |-> FALSE, malloced |-> FALSE]

Init ==
    /\ PluralInit
    /\ file \in CatalogFiles
    /\ mem = Nothing /\ domain = NoDomain /\ decided = FALSE
    /\ query = Header
    /\ idx = 0 /\ incr = 0 /\ bottom = 0 /\ top = 0 /\ act = None /\ form = 0
    /\ i = 0 /\ queries = 0
    /\ at = "idle"

Loading == UNCHANGED <<find_vars, plural_vars, queries, file>>

-----------------------------------------------------------------------------
(* Strings and hash values.                                                *)

XorOfHalves ==
    [a \in 0..15 |-> [b \in 0..15 |->
        LET bit(k) == ((a \div k) + (b \div k)) % 2 IN bit(1) + 2 * bit(2) + 4 * bit(4) + 8 * bit(8)]]

\* One more byte: the four highest bits of the word are taken out and put over
\* bits 4 to 7.
Shifted(h, c) ==
    LET hval == ((h * 16) + c) % LONG
        high == HASHWORD \div 16
        g    == (hval \div high) % 16
        half == (hval \div 16) % 16
    IN  hval + 16 * (XorOfHalves[half][g] - half) - g * high

\* The bits above the word never come down: what is left of them is dropped
\* when the value is put into an nls_uint32.
hash_string(s) == FoldLeft(Shifted, 0, s) % HASHWORD

\* What strcmp sees of a string.
CString(s) ==
    LET nuls == {k \in DOMAIN s : s[k] = 0} IN IF nuls = {} THEN s ELSE SubSeq(s, 1, Min(nuls) - 1)

Less(s, t) ==
    \/ IsStrictPrefix(s, t)
    \/ \E k \in DOMAIN s \cap DOMAIN t : s[k] < t[k] /\ SubSeq(s, 1, k - 1) = SubSeq(t, 1, k - 1)

First(h, size) == h % size
Step(h, size)  == 1 + (h % (size - 2))

\* One step further, around the end of the table.
NextPlace(x, step, size) == IF x >= size - step THEN x - (size - step) ELSE x + step

W(swap, x) == IF swap THEN -x ELSE x

\* The j-th place that is looked at for a hash value, and that the message of
\* number k is found there: no place before is empty.
Probe(h, size, j) == (First(h, size) + j * Step(h, size)) % size
FoundAt(table, h, k, j) ==
    /\ table[Probe(h, Len(table), j) + 1] = k
    /\ \A l \in 0..(j - 1) : table[Probe(h, Len(table), l) + 1] # 0

InOrder(table, swap) == [x \in DOMAIN table |-> W(swap, table[x])]

\* A file of messages has a hash table that they are all found in, or else
\* they are in order.
TablesHold(f) ==
    LET swap  == f.magic = "swapped"
        table == InOrder(f.hash_tab, swap)
        id(k) == CString(f.strings[k].orig)
    IN  /\ W(swap, f.nstrings) = Len(f.strings) /\ f.hash_size \in Int
        /\ IF W(swap, f.hash_size) > 2
           THEN /\ Len(f.hash_tab) = W(swap, f.hash_size)
                /\ f.hash_tab \in Seq(Int) /\ \A x \in DOMAIN table : table[x] \in 0..Len(f.strings)
                /\ \A k \in DOMAIN f.strings :
                       \E j \in 0..(Len(table) - 1) : FoundAt(table, hash_string(id(k)), k, j)
           ELSE \A k, l \in DOMAIN f.strings : k < l => Less(id(k), id(l))

\* Its strings are bytes, and the segments of the system dependent ones are
\* numbered.
Byte    == 0..255
Strings == [orig : Seq(Byte), trans : Seq(Byte)]
Parts   == {s \in Seq([static : Seq(Byte), ref : Nat \cup {None}]) : \A k \in 1..(Len(s) - 1) : s[k].ref # None}
Names   == {<<"I">>} \cup ({"PRI"} \X STRING \X (STRING \X Nat))

Conversions == {"d", "i", "o", "u", "x", "X"}
Sizes == ({"", "LEAST", "FAST"} \X {8, 16, 32, 64}) \cup ({"MAX", "PTR"} \X {0})

\* The forms that the translator has numbered are those that the header's
\* expression has for the numbers that are asked for.
FormsHold(h) ==
    "forms" \in DOMAIN h =>
        \A q \in Queries :
            LET index == plural_eval(h.means, q.n)
            IN  /\ h.forms[q.n] \in Nat
                /\ h.forms[q.n] = IF index >= strtoul(h.nplurals) THEN 0 ELSE index

ASSUME FilesAssumption ==
    /\ \A f \in CatalogFiles :
           /\ f.strings \in Seq(Strings) /\ f.sysdep \in Seq([orig : Parts, trans : Parts])
           /\ f.segments \in Seq([name : Names, terminated : BOOLEAN])
           /\ TablesHold(f) /\ FormsHold(f.header)
    /\ \A q \in Queries : q.id \in Seq(Byte) /\ q.from = "caller"
    /\ PRI \in [{"PRI"} \X Conversions \X Sizes -> Seq(Byte)]

-----------------------------------------------------------------------------
(* Loading.                                                                *)

\* The first search of a message loads the catalog.  Nothing is tried twice.
LoadDomain ==
    /\ at = "idle" /\ ~decided
    /\ decided' = TRUE
    /\ at' = IF file.filename THEN "open" ELSE "loaded"
    /\ UNCHANGED <<mem, domain, i>> /\ Loading

Open ==
    /\ at = "open"
    /\ IF file.exists THEN mem' = [mem EXCEPT !.fd = TRUE] /\ at' = "stat"
       ELSE UNCHANGED mem /\ at' = "loaded"
    /\ UNCHANGED <<domain, decided, i>> /\ Loading

\* A file too short for a header is no catalog.
Stat ==
    /\ at = "stat"
    /\ IF file.size = "short" THEN mem' = [mem EXCEPT !.fd = FALSE] /\ at' = "loaded"
       ELSE UNCHANGED mem /\ at' = "map"
    /\ UNCHANGED <<domain, decided, i>> /\ Loading

\* The file is mapped, or else read into memory; without memory for it, the
\* descriptor stays open.
Map ==
    /\ at = "map"
    /\ \/ mem' = [mem EXCEPT !.fd = FALSE, !.data = "mapped"] /\ at' = "magic" /\ UNCHANGED failures
       \/ mem' = [mem EXCEPT !.data = "malloced"] /\ at' = "read" /\ Fail
       \/ UNCHANGED mem /\ at' = "loaded" /\ Fail
    /\ UNCHANGED <<domain, decided, i, file, queries, find_vars, header, text, stack, yystacksize,
                   nodes, plural, nplurals, parser>>

\* Parts of the file may come, and interrupted calls; an error or an early
\* end leaves the memory allocated.
Read ==
    /\ at = "read"
    /\ \/ at' = "magic" /\ UNCHANGED failures
       \/ at' = "loaded" /\ Fail
    /\ mem' = [mem EXCEPT !.fd = FALSE]
    /\ UNCHANGED <<domain, decided, i, file, queries, find_vars, header, text, stack, yystacksize,
                   nodes, plural, nplurals, parser>>

Magic ==
    /\ at = "magic"
    /\ IF file.magic = "other" THEN mem' = [mem EXCEPT !.data = "none"] /\ at' = "loaded"
       ELSE UNCHANGED mem /\ at' = "allocate"
    /\ UNCHANGED <<domain, decided, i>> /\ Loading

Allocate ==
    /\ at = "allocate"
    /\ \/ mem' = [mem EXCEPT !.domain = TRUE] /\ at' = "revision" /\ UNCHANGED failures
       \/ UNCHANGED mem /\ at' = "loaded" /\ Fail
    /\ UNCHANGED <<domain, decided, i, file, queries, find_vars, header, text, stack, yystacksize,
                   nodes, plural, nplurals, parser>>

MustSwap == file.magic = "swapped"

\* What a file of any revision says.  A table of two places or less is none.
Tables ==
    [nstrings |-> W(MustSwap, file.nstrings), hash_size |-> W(MustSwap, file.hash_size),
     hash_tab |-> IF W(MustSwap, file.hash_size) > 2 THEN file.hash_tab ELSE << >>,
     must_swap_hash_tab |-> MustSwap, sysdep |-> << >>]

\* mutant: the file stays mapped.
Invalid_Mapped == mem' = [mem EXCEPT !.domain = FALSE] /\ domain' = NoDomain /\ at' = "loaded"
Invalid == mem' = Nothing /\ domain' = NoDomain /\ at' = "loaded"

\* <<>> stands for an unsupported name.
get_sysdep_segment_value(name) ==
    IF name \in ({"PRI"} \X Conversions \X Sizes) THEN PRI[name]
    ELSE IF name = <<"I">> THEN <<73>> ELSE << >>

SegmentValues(f) == [k \in DOMAIN f.segments |-> get_sysdep_segment_value(f.segments[k].name)]

\* A system dependent string: static parts, each but the last followed by the
\* number of a segment.
References(pair) ==
    LET refs(s) == [k \in 1..(Len(s) - 1) |-> s[k].ref] IN refs(pair.orig) \o refs(pair.trans)
Supported(f, r) == r < Len(f.segments) /\ SegmentValues(f)[r + 1] # << >>
Valid(f, pair)  == \A r \in ToSet(References(pair)) : Supported(f, r)

\* The references are looked at until one that is not supported.
OutOfRange(pair) ==
    LET refs == References(pair)
    IN  \E k \in DOMAIN refs : refs[k] >= Len(file.segments) /\ \A j \in 1..(k - 1) : Supported(file, refs[j])

Joined(f, s) ==
    FlattenSeq([k \in DOMAIN s |->
        s[k].static \o (IF k < Len(s) THEN SegmentValues(f)[s[k].ref + 1] ELSE << >>)])

InMem(f) ==
    LET valid == FlattenSeq([k \in DOMAIN f.sysdep |->
                     IF Valid(f, f.sysdep[k]) THEN <<f.sysdep[k]>> ELSE << >>])
    IN  [k \in DOMAIN valid |-> [orig |-> Joined(f, valid[k].orig), trans |-> Joined(f, valid[k].trans)]]

\* Major revisions 0 and 1 are read; minor ones from 1 on have system
\* dependent strings, and need a hash table for them.  The strings with
\* segments that are not supported are dropped.
Revision ==
    /\ at = "revision"
    /\ \/ /\ \/ file.major \notin {0, 1}
             \/ file.minor > 0 /\ Tables.hash_tab = << >>
             \/ /\ file.minor > 0 /\ file.sysdep # << >>
                /\ \/ \E k \in DOMAIN file.segments : ~file.segments[k].terminated
                   \/ \E k \in DOMAIN file.sysdep : OutOfRange(file.sysdep[k])
          /\ Invalid /\ UNCHANGED failures
       \/ /\ file.major \in {0, 1}
          /\ \/ file.minor = 0
             \/ file.minor > 0 /\ Tables.hash_tab # << >> /\ file.sysdep = << >>
          /\ domain' = Tables /\ at' = "header"
          /\ UNCHANGED <<mem, failures>>
       \/ /\ file.major \in {0, 1} /\ file.minor > 0
          /\ Tables.hash_tab # << >> /\ file.sysdep # << >>
          /\ \A k \in DOMAIN file.segments : file.segments[k].terminated
          /\ \A k \in DOMAIN file.sysdep : ~OutOfRange(file.sysdep[k])
          /\ \/ InMem(file) = << >> /\ domain' = Tables /\ at' = "header" /\ UNCHANGED <<mem, failures>>
             \/ InMem(file) # << >> /\ Invalid /\ Fail
             \/ /\ InMem(file) # << >> /\ domain' = [Tables EXCEPT !.sysdep = InMem(file)]
                /\ mem' = [mem EXCEPT !.malloced = TRUE]
                /\ at' = "augment" /\ UNCHANGED failures
    /\ UNCHANGED <<decided, i, file, queries, find_vars, header, text, stack, yystacksize,
                   nodes, plural, nplurals, parser>>

\* The hash table is copied, in the order of this machine.
Augment ==
    /\ at = "augment"
    /\ domain' = [domain EXCEPT !.hash_tab = [k \in DOMAIN @ |-> W(MustSwap, @[k])],
                                !.must_swap_hash_tab = FALSE]
    /\ at' = "enter" /\ i' = 1
    /\ UNCHANGED <<mem, decided>> /\ Loading

\* Each string is entered at the first empty place from that of its value on.
Enter ==
    /\ at = "enter" /\ i <= Len(domain.sysdep)
    /\ LET h == hash_string(CString(domain.sysdep[i].orig))
       IN  idx' = First(h, domain.hash_size) /\ incr' = Step(h, domain.hash_size)
    /\ at' = "place"
    /\ UNCHANGED <<load_vars, query, bottom, top, act, form, plural_vars>>

Occupied ==
    /\ at = "place" /\ domain.hash_tab[idx + 1] # 0
    /\ idx' = NextPlace(idx, incr, domain.hash_size)
    /\ UNCHANGED <<load_vars, query, incr, bottom, top, act, form, plural_vars, at>>

\* mutant: the messages are counted from 0.
Empty_OffByOne ==
    /\ at = "place" /\ domain.hash_tab[idx + 1] = 0
    /\ domain' = [domain EXCEPT !.hash_tab[idx + 1] = domain.nstrings + i - 1]
    /\ i' = i + 1 /\ at' = "enter"
    /\ UNCHANGED <<mem, decided, file, queries, find_vars, plural_vars>>

Empty ==
    /\ at = "place" /\ domain.hash_tab[idx + 1] = 0
    /\ domain' = [domain EXCEPT !.hash_tab[idx + 1] = domain.nstrings + i]
    /\ i' = i + 1 /\ at' = "enter"
    /\ UNCHANGED <<mem, decided, file, queries, find_vars, plural_vars>>

Entered ==
    /\ at = "enter" /\ i > Len(domain.sysdep)
    /\ at' = "header" /\ i' = 0
    /\ UNCHANGED <<mem, domain, decided>> /\ Loading

\* The entry "" is searched for like any other, for the codeset (see Gettext)
\* and the plural forms.
FindHeader ==
    /\ at = "header"
    /\ query' = Header
    /\ at' = "find"
    /\ UNCHANGED <<load_vars, idx, incr, bottom, top, act, form, plural_vars>>

ExtractPlural ==
    /\ at \in {"found", "absent"} /\ query.from = "load"
    /\ EXTRACT_PLURAL_EXPRESSION(IF at = "found" THEN file.header ELSE NoHeader)
    /\ at' = "parse"
    /\ UNCHANGED <<load_vars, find_vars>>

ParsePlural ==
    /\ at = "parse"
    /\ Parse
    /\ at' = IF parser' = "done" THEN "loaded" ELSE at
    /\ UNCHANGED <<load_vars, find_vars>>

Loaded ==
    /\ at = "loaded"
    /\ at' = "idle"
    /\ UNCHANGED <<load_vars, find_vars, plural_vars>>

-----------------------------------------------------------------------------
(* A search.                                                               *)

Query ==
    /\ at = "idle" /\ decided /\ queries < MaxQueries
    /\ query' \in Queries
    /\ queries' = queries + 1
    /\ at' = IF domain = NoDomain THEN "absent" ELSE "find"
    /\ act' = None
    /\ UNCHANGED <<file, mem, domain, decided, i, idx, incr, bottom, top, form, plural_vars>>

OrigOf(a) ==
    IF a < domain.nstrings THEN file.strings[a + 1].orig
    ELSE domain.sysdep[a - domain.nstrings + 1].orig

\* The table of places, or a search by halves.
Find ==
    /\ at = "find"
    /\ LET h == hash_string(query.id)
       IN  IF domain.hash_tab # << >>
           THEN /\ idx' = First(h, domain.hash_size) /\ incr' = Step(h, domain.hash_size)
                /\ at' = "probe" /\ UNCHANGED <<bottom, top>>
           ELSE /\ bottom' = 0 /\ top' = domain.nstrings
                /\ at' = "halve" /\ UNCHANGED <<idx, incr>>
    /\ UNCHANGED <<load_vars, query, act, form, plural_vars>>

nstr == W(domain.must_swap_hash_tab, domain.hash_tab[idx + 1])

\* A string with plural forms is longer than the message; the length of one
\* put together here counts its NUL.
Matches(a) ==
    /\ IF a < domain.nstrings THEN Len(OrigOf(a)) >= Len(query.id)
       ELSE Len(OrigOf(a)) + 1 > Len(query.id)
    /\ CString(OrigOf(a)) = query.id

ProbeEmpty ==
    /\ at = "probe" /\ nstr = 0
    /\ at' = "absent"
    /\ UNCHANGED <<load_vars, find_vars, plural_vars>>

ProbeFound ==
    /\ at = "probe" /\ nstr # 0 /\ Matches(nstr - 1)
    /\ act' = nstr - 1 /\ at' = "found"
    /\ UNCHANGED <<load_vars, query, idx, incr, bottom, top, form, plural_vars>>

ProbeNext ==
    /\ at = "probe" /\ nstr # 0 /\ ~Matches(nstr - 1)
    /\ idx' = NextPlace(idx, incr, domain.hash_size)
    /\ UNCHANGED <<load_vars, query, incr, bottom, top, act, form, plural_vars, at>>

\* mutant: the message in the middle is not passed over.
Upper_Middle(m) == m
Upper(m) == m + 1

Halve ==
    /\ at = "halve" /\ bottom < top
    /\ LET m == (bottom + top) \div 2
           s == CString(OrigOf(m))
       IN  \/ Less(query.id, s) /\ top' = m /\ UNCHANGED <<bottom, act, at>>
           \/ Less(s, query.id) /\ bottom' = Upper(m) /\ UNCHANGED <<top, act, form, at>>
           \/ s = query.id /\ act' = m /\ at' = "found" /\ UNCHANGED <<bottom, top>>
    /\ UNCHANGED <<load_vars, query, idx, incr, form, plural_vars>>

HalvesEnd ==
    /\ at = "halve" /\ bottom >= top
    /\ at' = "absent"
    /\ UNCHANGED <<load_vars, find_vars, plural_vars>>

TransOf(a) ==
    IF a < domain.nstrings THEN file.strings[a + 1].trans
    ELSE domain.sysdep[a - domain.nstrings + 1].trans

VariantsOf(a) == 1 + Cardinality({k \in DOMAIN TransOf(a) : TransOf(a)[k] = 0})

\* An index that is too great, for the header or for the message, is the first.
plural_lookup(a, n) ==
    LET index == plural_eval(plural, n)
    IN  IF index >= nplurals \/ index >= VariantsOf(a) THEN 0 ELSE index

\* The caller of the search asks for the form of a number; to find it may end
\* the program.
Answer ==
    /\ at \in {"found", "absent"} /\ query.from = "caller"
    /\ IF at = "found" /\ plural_eval(plural, query.n) = SIGFPE
       THEN at' = "killed" /\ UNCHANGED form
       ELSE at' = "answered" /\ form' = IF at = "found" THEN plural_lookup(act, query.n) ELSE 0
    /\ UNCHANGED <<load_vars, query, idx, incr, bottom, top, act, plural_vars>>

Return ==
    /\ at = "answered"
    /\ at' = "idle" /\ act' = None /\ form' = 0
    /\ UNCHANGED <<load_vars, query, idx, incr, bottom, top, plural_vars>>

Loads ==
    \/ Open \/ Stat \/ Map \/ Read \/ Magic \/ Allocate \/ Revision
    \/ Augment \/ Enter \/ Occupied \/ Empty \/ Entered
    \/ FindHeader \/ ExtractPlural \/ ParsePlural \/ Loaded

Searches == Find \/ ProbeEmpty \/ ProbeFound \/ ProbeNext \/ Halve \/ HalvesEnd \/ Answer \/ Return

Next == LoadDomain \/ Loads \/ Query \/ Searches

\* A call that was made runs to its end; nothing has to call.
Spec == Init /\ [][Next]_cat_vars /\ WF_cat_vars(Loads \/ Searches)

-----------------------------------------------------------------------------
(* Properties.                                                             *)

TypeOK ==
    /\ PluralTypeOK
    /\ mem.data \in {"none", "mapped", "malloced"}
    /\ domain # NoDomain =>
           /\ mem.domain /\ mem.data # "none" /\ domain.nstrings = Len(file.strings)
           /\ domain.sysdep # << >> => mem.malloced
           /\ at \in {"place", "probe"} => idx \in 0..(domain.hash_size - 1)
           /\ act \in {None} \cup 0..(domain.nstrings + Len(domain.sysdep) - 1)
    /\ decided \in BOOLEAN /\ queries \in 0..MaxQueries
    /\ at \in {"idle", "open", "stat", "map", "read", "magic", "allocate", "revision", "augment",
               "enter", "place", "header", "parse", "loaded", "find", "probe", "halve", "found",
               "absent", "answered", "killed"}

\* The messages of the file, whichever table they are in.
Messages ==
    [k \in DOMAIN file.strings |-> file.strings[k].orig]
    \o (IF domain.sysdep = << >> THEN << >> ELSE [k \in DOMAIN domain.sysdep |-> domain.sysdep[k].orig])

\* A message is found exactly if the file has it, whatever the byte order, the
\* revision and the tables: in the hash table as the writer of the file left
\* it, also when strings put together here have been entered since, and by
\* halves without one (loadmsgcat.c:1300-1336, dcigettext.c:742-810).  Its form
\* is the one that the translator meant, if the message has as many.
SearchIsRight ==
    at = "answered" =>
        IF domain = NoDomain THEN act = None
        ELSE LET there == {k \in DOMAIN Messages : CString(Messages[k]) = query.id}
             IN  IF act = None THEN there = {}
                 ELSE /\ act + 1 \in there
                      /\ /\ "forms" \in DOMAIN header
                        /\ plural = header.means /\ nplurals = strtoul(header.nplurals) =>
                             (header.forms[query.n] < VariantsOf(act) => form = header.forms[query.n])

\* What a refused file has taken is given back (loadmsgcat.c:936-941, 996-1005,
\* 1366-1381), but for what is lost where memory or the file itself fails, and
\* what a catalog has taken is held; a refused file is never tried again.
NothingIsKept ==
    at = "idle" /\ decided =>
        IF domain # NoDomain THEN mem.domain /\ mem.data # "none" /\ ~mem.fd
        ELSE ~mem.domain /\ ~mem.malloced /\ (failures = 0 => mem = Nothing)

\* Loading a catalog and every search in it end, unless a division by zero
\* ends the program: there is an empty place in the hash table as long as the
\* writer of the file made room for every string (loadmsgcat.c:1315-1334,
\* dcigettext.c:749-810).
CallsEnd == at # "idle" ~> at \in {"idle", "killed"}
=============================================================================
