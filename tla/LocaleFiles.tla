---------------------------- MODULE LocaleFiles ----------------------------
(***************************************************************************)
(* Where the message library looks for a catalog: the locale name taken    *)
(* apart (src/intl/explodename.c), the list of the files that were ever    *)
(* looked for and what each of them inherits from (src/intl/l10nflist.c),  *)
(* and the search through them (src/intl/finddomain.c), composed with the  *)
(* locale aliases.                                                         *)
(*                                                                         *)
(* A name is a sequence of tokens: separators, texts, and in a codeset     *)
(* single characters.  Rank gives the order of strcmp.  A mask is the set  *)
(* of its bits.  The names of all files begin with the directory of the    *)
(* binding, unless the locale is an absolute path, and end with the        *)
(* category and the domain; there is one of each.                          *)
(***************************************************************************)
EXTENDS LocaleAlias, FiniteSets, FiniteSetsExt

CONSTANTS
    Rank,           \* the order of the tokens
    Spelling,       \* the tokens of each locale name
    Alphas, Digits, \* the characters that a codeset's normal name is made of
    Lower,          \* the small letter of each of Alphas
    CatalogSets,    \* sets of the names of the catalogs that are there
    MaxCalls,       \* bound: calls of _nl_find_domain
    MaxFailures     \* bound: allocations that fail

ASSUME RankAssumption ==
    \A t, u \in DOMAIN Rank : Rank[t] \in Nat /\ (Rank[t] = Rank[u] => t = u)

\* Every name is spelled in tokens that have a rank, and so is what is put
\* between its parts.  An alias is for the name of a locale.
ASSUME NamesAssumption ==
    /\ IsFiniteSet(DOMAIN Spelling) /\ Spelling \in [DOMAIN Spelling -> Seq(DOMAIN Rank)]
    /\ {"/", "_", ".", "@", "+", ",", "iso", "dir", "end"} \subseteq DOMAIN Rank
    /\ Lower \in [Alphas -> DOMAIN Rank]
    /\ DOMAIN Spelling \subseteq DOMAIN Fold
    /\ \A k \in DOMAIN Path : \A i \in DOMAIN Path[k] :
           Len(Path[k][i]) = 2 => Path[k][i][2] \in DOMAIN Spelling
    /\ MaxCalls \in Nat /\ MaxFailures \in Nat

VARIABLES
    catalogs,   \* the catalogs that are there
    list,       \* _nl_loaded_domains: the names of the entries in it
    entry,      \* the entry of each of these names
    stack,      \* the calls of _nl_make_l10nflist that are active
    domain,     \* the entry that was found, or NoFile
    locale,     \* the name that was asked for
    parts,      \* what the locale name was taken apart into
    found_at,   \* where _nl_find_domain is
    fresh,      \* history: this call has made the entry it searches
    calls, failures

l10n == <<list, entry>>
asked == <<locale, calls>>
vars == <<catalogs, l10n, stack, domain, parts, found_at, asked, fresh, failures, alias_vars>>

NoFile == << >>     \* a null pointer
Locales == DOMAIN Spelling

Weight == [CEN_REVISION |-> 1, CEN_SPONSOR |-> 2, CEN_SPECIAL |-> 4, XPG_NORM_CODESET |-> 8,
           XPG_CODESET |-> 16, TERRITORY |-> 32, CEN_AUDIENCE |-> 64, XPG_MODIFIER |-> 128]
CEN_SPECIFIC == {"CEN_REVISION", "CEN_SPONSOR", "CEN_SPECIAL", "CEN_AUDIENCE"}
XPG_SPECIFIC == {"XPG_CODESET", "XPG_NORM_CODESET", "XPG_MODIFIER"}
BothCodesets == {"XPG_CODESET", "XPG_NORM_CODESET"}
Value(mask)  == LET Bit(b) == IF b \in mask THEN Weight[b] ELSE 0
                IN  Bit("CEN_REVISION") + Bit("CEN_SPONSOR") + Bit("CEN_SPECIAL")
                    + Bit("XPG_NORM_CODESET") + Bit("XPG_CODESET") + Bit("TERRITORY")
                    + Bit("CEN_AUDIENCE") + Bit("XPG_MODIFIER")

-----------------------------------------------------------------------------
(* The parts of a locale name.                                             *)

\* The text up to the first of the separators.
UpTo(n, separators) ==
    LET ends == {j \in DOMAIN n : n[j] \in separators}
    IN  IF ends = {} THEN n ELSE SubSeq(n, 1, Min(ends) - 1)

_nl_normalize_codeset(codeset) ==
    LET kept == FlattenSeq([i \in DOMAIN codeset |->
                   IF codeset[i] \in Alphas \cup Digits THEN <<codeset[i]>> ELSE << >>])
        name_ == [i \in DOMAIN kept |-> IF kept[i] \in Alphas THEN Lower[kept[i]] ELSE kept[i]]
    IN  IF \E i \in DOMAIN kept : kept[i] \in Alphas THEN name_ ELSE <<"iso">> \o name_

_nl_find_language(n) == UpTo(n, {"_", "@", "+", ","})

\* A name looked up as it is: all of it is the language.
Whole(n) ==
    [mask |-> {}, language |-> n, territory |-> << >>, codeset |-> << >>,
     normalized_codeset |-> << >>, modifier |-> << >>, special |-> << >>,
     sponsor |-> << >>, revision |-> << >>]

\* The parts after the language in their order, with the separator that each
\* begins with and those that it goes up to.  A codeset, and a modifier after
\* "@", are parts of an XPG name.
Part(field, bits, begin, ends, xpg) ==
    [field |-> field, bits |-> bits, begin |-> begin, ends |-> ends, xpg |-> xpg]
Parts ==
    <<Part("territory", {"TERRITORY"}, "_", {".", "@", "+", ",", "_"}, FALSE),
      Part("codeset", {"XPG_CODESET"}, ".", {"@"}, TRUE),
      Part("modifier", {"XPG_MODIFIER", "CEN_AUDIENCE"}, "@", {}, TRUE),
      Part("modifier", {"XPG_MODIFIER", "CEN_AUDIENCE"}, "+", {"+", ",", "_"}, FALSE),
      Part("special", {"CEN_SPECIAL"}, "+", {",", "_"}, FALSE),
      Part("sponsor", {"CEN_SPONSOR"}, ",", {"_"}, FALSE),
      Part("revision", {"CEN_REVISION"}, "_", {}, FALSE)>>

\* A part is there if the one before it ends with its separator.
TakePart(x, p) ==
    IF x.rest = << >> \/ p.begin # x.rest[1] THEN x
    ELSE LET text == UpTo(Tail(x.rest), p.ends)
         IN  [name |-> [x.name EXCEPT ![p.field] = text, !.mask = @ \cup p.bits],
              rest |-> SubSeq(x.rest, Len(text) + 2, Len(x.rest)),
              xpg  |-> x.xpg \/ p.xpg]

\* In an XPG name a separator without a text after it says nothing.
Empty(x) ==
    IF ~x.xpg THEN {}
    ELSE (IF x.name.territory = << >> THEN {"TERRITORY"} ELSE {})
         \cup (IF x.name.codeset = << >> THEN {"XPG_CODESET"} ELSE {})
         \cup (IF x.name.modifier = << >> THEN {"XPG_MODIFIER"} ELSE {})

\* The normal name of the codeset is a part of its own if it is another one.
Normalized(name_) ==
    LET normal == _nl_normalize_codeset(name_.codeset)
    IN  [name_ EXCEPT !.normalized_codeset = normal,
                      !.mask = @ \cup (IF name_.codeset \in {<< >>, normal} THEN {}
                                       ELSE {"XPG_NORM_CODESET"})]

\* A name without a language is all language.
_nl_explode_name(n) ==
    LET language == IF _nl_find_language(n) = << >> THEN n ELSE _nl_find_language(n)
        rest     == SubSeq(n, Len(language) + 1, Len(n))
        x == FoldLeft(TakePart, [name |-> Whole(language), rest |-> rest, xpg |-> FALSE], Parts)
    IN  Normalized([x.name EXCEPT !.mask = @ \ Empty(x)])

\* The file's name, up to the directory it is in.
abs_filename(x, mask) ==
    (IF x.language # << >> /\ x.language[1] = "/" THEN << >> ELSE <<"dir", "/">>)
    \o x.language
    \o (IF "TERRITORY" \in mask THEN <<"_">> \o x.territory ELSE << >>)
    \o (IF "XPG_CODESET" \in mask THEN <<".">> \o x.codeset ELSE << >>)
    \o (IF "XPG_NORM_CODESET" \in mask THEN <<".">> \o x.normalized_codeset ELSE << >>)
    \o (IF "CEN_AUDIENCE" \in mask THEN <<"+">> \o x.modifier
        ELSE IF "XPG_MODIFIER" \in mask THEN <<"@">> \o x.modifier ELSE << >>)
    \o (IF "CEN_SPECIAL" \in mask THEN <<"+">> \o x.special ELSE << >>)
    \o (IF mask \cap {"CEN_SPONSOR", "CEN_REVISION"} # {} THEN <<",">> ELSE << >>)
    \o (IF "CEN_SPONSOR" \in mask THEN x.sponsor ELSE << >>)
    \o (IF "CEN_REVISION" \in mask THEN <<"_">> \o x.revision ELSE << >>)
    \o <<"/", "end">>

\* What the operators above say of the names there are, worked out once.
Exploded == [n \in Locales |-> _nl_explode_name(Spelling[n])]
AllParts == {Exploded[n] : n \in Locales} \cup {Whole(Spelling[n]) : n \in Locales}
FileName == [x \in AllParts |-> [m \in SUBSET x.mask |-> abs_filename(x, m)]]
AllFiles == UNION {{FileName[x][m] : m \in SUBSET x.mask} : x \in AllParts}

\* strcmp (a, b) < 0.
Before(a, b) ==
    \E i \in 1..Len(b) :
        /\ Len(a) >= i - 1 /\ SubSeq(a, 1, i - 1) = SubSeq(b, 1, i - 1)
        /\ Len(a) = i - 1 \/ Rank[a[i]] < Rank[b[i]]
Place == [f \in AllFiles |-> Cardinality({g \in AllFiles : Before(g, f)})]

-----------------------------------------------------------------------------
(* The list of files.                                                      *)

Init ==
    /\ AliasInit
    /\ catalogs \in CatalogSets
    /\ list = << >> /\ entry = << >> /\ stack = << >>
    /\ domain = NoFile /\ parts = Whole(<< >>) /\ locale = NoAlias
    /\ calls = 0
    /\ fresh = FALSE /\ failures = 0
    /\ found_at = "idle"

\* The walk along the list ends at the name itself or at the first that is
\* less, which the name is inserted before.
Stop(f)  == Min({i \in DOMAIN list : Place[list[i]] < Place[f]} \cup {Len(list) + 1})
Known(f) == \E i \in DOMAIN list : list[i] = f /\ i < Stop(f)

Fail == failures < MaxFailures /\ failures' = failures + 1

top == Last(stack)

\* The masks that a mask inherits from: some of its parts are left out.
Dominated(mask) ==
    {m \in (SUBSET mask) \ {mask} : /\ m \cap CEN_SPECIFIC = {} \/ m \cap XPG_SPECIFIC = {}
                                   /\ ~(BothCodesets \subseteq m)}

\* mutant: the loop goes up from 0.
NextDown_Ascending(masks) == CHOOSE m \in masks : \A o \in masks : Value(m) <= Value(o)
\* The loop goes down from the mask to 0.
NextDown(masks) == CHOOSE m \in masks : \A o \in masks : Value(o) <= Value(m)

Call(x, mask) == [mask |-> mask, file |-> FileName[x][mask], made |-> FALSE, todo |-> {}]

\* The loop of the call at the top: its next recursive call, if there is one.
Loop(s) ==
    LET c == Last(s)
        m == NextDown(c.todo)
    IN  IF c.todo = {} THEN s
        ELSE Append(Front(s), [c EXCEPT !.todo = @ \ {m}]) \o <<Call(parts, m)>>

\* The call at the top of the stack returns f: to the call below it, for
\* which f is the next of its successors, or to _nl_find_domain.
Return(f) ==
    LET caller == stack[Len(stack) - 1].file
    IN  /\ stack' = IF Len(stack) > 1 THEN Loop(Front(stack)) ELSE << >>
        /\ IF Len(stack) > 1
           THEN /\ entry' = [entry EXCEPT ![caller].successor = Append(@, f)]
                /\ UNCHANGED <<domain, found_at>>
           ELSE /\ domain' = f
                /\ found_at' = IF f = NoFile THEN "found" ELSE "load"
                /\ UNCHANGED entry

\* The file's name or the entry cannot be allocated.
MakeNoMemory ==
    /\ found_at = "make" /\ ~top.made
    /\ Fail
    /\ Return(NoFile)
    /\ UNCHANGED <<catalogs, list, parts, asked, fresh, alias_vars>>

MakeFound ==
    /\ found_at = "make" /\ ~top.made
    /\ Known(top.file) /\ Return(top.file)
    /\ UNCHANGED <<catalogs, list, parts, asked, fresh, failures, alias_vars>>

\* A file of both codesets is not worth looking for.
NewEntry(mask) == [decided |-> BothCodesets \subseteq mask, data |-> NoFile, successor |-> << >>]

\* mutant: the place the walk came to is not where the entry is put.
MakeNew_AtHead ==
    /\ found_at = "make" /\ ~top.made
    /\ ~Known(top.file)
    /\ list' = <<top.file>> \o list
    /\ entry' = [f \in DOMAIN entry \cup {top.file} |->
                     IF f = top.file THEN NewEntry(top.mask) ELSE entry[f]]
    /\ stack' = Loop(Append(Front(stack), [top EXCEPT !.made = TRUE, !.todo = Dominated(top.mask)]))
    /\ fresh' = (fresh \/ Len(stack) = 1)
    /\ UNCHANGED <<catalogs, domain, parts, found_at, asked, failures, alias_vars>>

\* The entry is put where the walk has ended.
MakeNew ==
    /\ found_at = "make" /\ ~top.made
    /\ ~Known(top.file)
    /\ list' = InsertAt(list, Stop(top.file), top.file)
    /\ entry' = [f \in DOMAIN entry \cup {top.file} |->
                     IF f = top.file THEN NewEntry(top.mask) ELSE entry[f]]
    /\ stack' = Loop(Append(Front(stack), [top EXCEPT !.made = TRUE, !.todo = Dominated(top.mask)]))
    /\ fresh' = (fresh \/ Len(stack) = 1)
    /\ UNCHANGED <<catalogs, domain, parts, found_at, asked, failures, alias_vars>>

MakeDone ==
    /\ found_at = "make" /\ top.made /\ top.todo = {}
    /\ Return(top.file)
    /\ UNCHANGED <<catalogs, list, parts, asked, fresh, failures, alias_vars>>

-----------------------------------------------------------------------------
(* _nl_find_domain.                                                        *)

\* The entry and what it inherits from, as far as the first null pointer.
Chain(f) ==
    LET s    == entry[f].successor
        null == {i \in DOMAIN s : s[i] = NoFile}
    IN  <<f>> \o (IF null = {} THEN s ELSE SubSeq(s, 1, Min(null) - 1))

HasData(f) == entry[f].data # NoFile

\* The catalog that a search of the entry finds, or NoFile.
Found(f) ==
    IF f = NoFile THEN NoFile
    ELSE LET with == {i \in DOMAIN Chain(f) : HasData(Chain(f)[i])}
         IN  IF with = {} THEN NoFile ELSE Chain(f)[Min(with)]

FindDomain ==
    /\ found_at = "idle" /\ calls < MaxCalls
    /\ \E n \in Locales :
           /\ parts' = Whole(Spelling[n])
           /\ locale' = n
    /\ calls' = calls + 1
    /\ domain' = NoFile /\ fresh' = FALSE
    /\ found_at' = "start"
    /\ UNCHANGED <<catalogs, l10n, stack, failures, alias_vars>>

\* The name as it is, if there is an entry for it.
FindKnown ==
    /\ found_at = "start"
    /\ Known(FileName[parts][{}])
    /\ domain' = FileName[parts][{}]
    /\ found_at' = "load"
    /\ UNCHANGED <<catalogs, l10n, stack, parts, asked, fresh, failures, alias_vars>>

FindUnknown ==
    /\ found_at = "start"
    /\ \/ ~Known(FileName[parts][{}]) /\ UNCHANGED failures
       \/ Fail
    /\ ExpandAlias(locale)
    /\ found_at' = "alias"
    /\ UNCHANGED <<catalogs, l10n, stack, domain, parts, asked, fresh>>

Alias ==
    /\ found_at = "alias"
    /\ AliasNext
    /\ failures' = IF torn' # torn THEN failures + 1 ELSE failures
    /\ failures' <= MaxFailures
    /\ UNCHANGED <<catalogs, l10n, stack, domain, parts, found_at, asked, fresh>>

\* An alias is copied before it is taken apart; there may be no memory for
\* the copy.
FindParts ==
    /\ found_at = "alias" /\ alias_at = "idle"
    /\ \/ /\ parts' = Exploded[IF value = NoAlias THEN locale ELSE value]
          /\ stack' = <<Call(parts', parts'.mask)>>
          /\ found_at' = "make"
          /\ UNCHANGED failures
       \/ /\ value # NoAlias /\ Fail
          /\ found_at' = "found"
          /\ UNCHANGED <<parts, stack>>
    /\ UNCHANGED <<catalogs, l10n, domain, asked, fresh, alias_vars>>

\* mutant: what was decided is looked at once more.
Undecided_Again(f) == ~HasData(f)
Undecided(f) == ~entry[f].decided

\* The first of the chain that has data or was never looked for.
NextInChain == {i \in DOMAIN Chain(domain) :
                   LET c == Chain(domain)
                   IN  /\ HasData(c[i]) \/ Undecided(c[i])
                       /\ \A j \in 1..i - 1 : ~HasData(c[j]) /\ ~Undecided(c[j])}

\* _nl_load_domain.
Load ==
    /\ found_at = "load"
    /\ \E i \in NextInChain : \E f \in {Chain(domain)[i]} :
           /\ ~HasData(f)
           /\ \/ /\ entry' = [entry EXCEPT ![f].decided = TRUE,
                                           ![f].data = IF f \in catalogs THEN f ELSE NoFile]
                 /\ UNCHANGED failures
              \/ /\ f \in catalogs /\ Fail
                 /\ entry' = [entry EXCEPT ![f].decided = TRUE]
    /\ UNCHANGED <<catalogs, list, stack, domain, parts, found_at, asked, fresh, alias_vars>>

Loaded ==
    /\ found_at = "load"
    /\ \A i \in NextInChain : HasData(Chain(domain)[i])
    /\ found_at' = "found"
    /\ UNCHANGED <<catalogs, l10n, stack, domain, parts, asked, fresh, failures, alias_vars>>

\* The caller has its answer.
Answer ==
    /\ found_at = "found"
    /\ found_at' = "idle"
    /\ UNCHANGED <<catalogs, l10n, stack, domain, parts, locale, calls, fresh, failures, alias_vars>>

Make == MakeNoMemory \/ MakeFound \/ MakeNew \/ MakeDone
Find == FindKnown \/ FindUnknown \/ Alias \/ FindParts \/ Load \/ Loaded \/ Answer
Next == FindDomain \/ Make \/ Find

Spec == Init /\ [][Next]_vars

-----------------------------------------------------------------------------
(* Properties.                                                             *)

TypeOK ==
    /\ AliasTypeOK
    /\ DOMAIN entry = ToSet(list)
    /\ \A f \in DOMAIN entry :
           /\ entry[f].decided \in BOOLEAN /\ entry[f].data \in {NoFile, f}
           /\ ToSet(entry[f].successor) \subseteq (DOMAIN entry) \cup {NoFile}
    /\ domain \in (DOMAIN entry) \cup {NoFile}
    /\ \A k \in DOMAIN stack : stack[k].made => stack[k].file \in DOMAIN entry
    /\ (stack = << >>) = (found_at # "make")
    /\ locale \in Locales \cup {NoAlias}
    /\ fresh \in BOOLEAN /\ calls \in 0..MaxCalls /\ failures \in 0..MaxFailures
    /\ found_at \in {"idle", "start", "alias", "make", "load", "found"}

\* The entries that a recursive call inserts while its caller holds its own
\* place leave the list in strictly decreasing order, so that no file is
\* ever in it twice and no walk stops before the file it looks for
\* (l10nflist.c:269-287, 317-318).
ListInOrder == \A i \in 2..Len(list) : Place[list[i]] < Place[list[i - 1]]

\* One part of a name is worth more than another if it "will be stripped
\* off" later (finddomain.c:76-83); a name is preferred to another if the
\* part worth most among those they do not share is its own.
StripOrder == <<"CEN_REVISION", "CEN_SPONSOR", "CEN_SPECIAL", "XPG_NORM_CODESET", "XPG_CODESET",
                "TERRITORY", "CEN_AUDIENCE", "XPG_MODIFIER">>
Preferred(m, o) ==
    m = o \/ LET differ == {i \in DOMAIN StripOrder : (StripOrder[i] \in m) # (StripOrder[i] \in o)}
             IN  StripOrder[Max(differ)] \in m

\* The names that a locale name stands for: any of its parts left out, no
\* codeset twice, and XPG parts and CEN parts apart but in the whole name.
StandsFor(mask) ==
    {m \in SUBSET mask : /\ ~(BothCodesets \subseteq m)
                         /\ m = mask \/ m \cap CEN_SPECIFIC = {} \/ m \cap XPG_SPECIFIC = {}}

\* A search that makes its entry finds the most specific of the catalogs
\* that the name, or what it is an alias for, stands for, whichever entries
\* other names have left in the list (finddomain.c:60-83, l10nflist.c:333-358).
MostSpecific ==
    found_at = "found" /\ fresh /\ failures = 0 =>
        LET there == {m \in StandsFor(parts.mask) : FileName[parts][m] \in catalogs}
        IN  IF there = {} THEN Found(domain) = NoFile
            ELSE \E m \in there : /\ Found(domain) = FileName[parts][m]
                                  /\ \A o \in there : Preferred(m, o)

\* A catalog is looked for once: what was found, or not found, the first
\* time is kept, however many names inherit from the entry
\* (finddomain.c:96-110, 151-163).
LoadedOnce ==
    [][\A f \in DOMAIN entry : entry[f].decided =>
           f \in DOMAIN entry' /\ entry'[f].decided /\ entry'[f].data = entry[f].data]_vars
=============================================================================
