------------------------------ MODULE Gettext ------------------------------
(***************************************************************************)
(* The message library as its callers see it: dcigettext with its table of *)
(* known translations (src/intl/dcigettext.c), the bindings of domains to  *)
(* directories and codesets (src/intl/bindtextdom.c), the default domain   *)
(* (src/intl/textdomain.c), and the choice of a locale by the environment  *)
(* (src/intl/localename.c).  One thread; what changes between two calls is *)
(* what the program itself changes.                                        *)
(*                                                                         *)
(* Which catalogs a search comes to is given (Chain; see LocaleFiles), and *)
(* so is what is in them (Variants, PluralIndex; see Catalog).  A text is  *)
(* where it comes from and the codeset it is in.                           *)
(***************************************************************************)
EXTENDS Integers, Sequences, SequencesExt, FiniteSets, FiniteSetsExt, TLC

CONSTANTS
    Domains, Messages,      \* the domains; the one that is the default at first
    Place,                  \* the order of the domains' names
    NoDomain,               \* NULL, and the empty name, for a domain
    DefaultDir,             \* LOCALEDIR
    Absolute, Relative,     \* the names of the other directories
    NoDir,                  \* NULL for a directory, also one that cannot be found out
    Dirs,                   \* the program's current directories
    Codesets, NoCodeset,
    LocaleCodeset,          \* of the program's locale, which it does not change
    Envs,                   \* what the environment may say
    PathNames,              \* the locale names with a directory in them
    LocaleNames,            \* those of the locales that messages are translated for
    Secure,                 \* whether the program runs with the rights of another
    MsgIds,
    Files, NoFile,
    Chain,                  \* [place, locale, domain, category] to the catalogs with data
    Charset,                \* the codeset of each file's header, if it has one
    CanOpen,                \* pairs of codesets there is a converter for
    CannotConvert,          \* <<file, message, codeset>> that the converter fails at
    Variants,               \* how many variants of a message a file has, 0 for none
    PluralIndex,            \* of each file and number; nplurals is taken into account
    Calls,                  \* the calls of gettext and its kin
    MaxOps, MaxFailures     \* bounds: calls and changes; allocations that fail

ASSUME DomainsAssumption ==
    /\ Messages \in Domains /\ NoDomain \notin Domains
    /\ Place \in [Domains -> Nat] /\ \A d, e \in Domains : Place[d] = Place[e] => d = e

\* Where catalogs may be: the absolute directories, and the relative ones
\* below a current directory that can be found out.
Places == Absolute \cup {DefaultDir} \cup ((Dirs \ {NoDir}) \X Relative)

\* A category is known by the name of its macro.
category_to_name(c) ==
    IF c \in {"LC_COLLATE", "LC_CTYPE", "LC_MONETARY", "LC_NUMERIC", "LC_TIME", "LC_MESSAGES",
             "LC_RESPONSE", "LC_ALL"} THEN c ELSE "LC_XXX"

\* What is in a variable of the environment is a list of names, or a codeset.
ASSUME EnvironmentAssumption ==
    /\ PathNames \subseteq LocaleNames /\ LocaleNames \cap {"C", "POSIX"} = {}
    /\ \A e \in Envs : \A v \in DOMAIN e :
           e[v] \in IF v = "OUTPUT_CHARSET" THEN Codesets \cup {NoCodeset}
                    ELSE Seq(LocaleNames \cup {"C", "POSIX"})
    /\ \A c \in Calls : c.domain \in Domains \cup {NoDomain} /\ c.msgid \in MsgIds
    /\ MaxOps \in Nat /\ MaxFailures \in Nat

\* The name of a catalog's file ends with that of its domain: when no domain has
\* a directory in its name, no file is of two domains (dcigettext.c:564-572).
ASSUME CatalogsAssumption ==
    /\ NoFile \notin Files
    /\ LocaleCodeset \in Codesets /\ Charset \in [Files -> Codesets \cup {NoCodeset}]
    /\ Variants \in [Files -> [MsgIds -> Nat]]
    /\ Chain \in [Places \X LocaleNames \X Domains \X {category_to_name(c.category) : c \in Calls}
                  -> Seq(Files)]
    /\ \A x, y \in DOMAIN Chain : ToSet(Chain[x]) \cap ToSet(Chain[y]) # {} => x[3] = y[3]

VARIABLES
    env, cwd,           \* the environment
    bindings,           \* _nl_domain_bindings
    current_domain,     \* _nl_current_default_domain
    msg_cat_cntr,       \* _nl_msg_cat_cntr
    known,              \* the search tree: a function of <<msgid, domain, category>>
    loaded,             \* the codeset dependent part of each catalog
    asked,              \* history: what OUTPUT_CHARSET said when the catalog was loaded
    call,               \* the call that is being answered
    dirname, locales,   \* of the call; the languages left to try
    answer,
    seen,               \* history: environments since translations last became invalid
    ops, failures, at

program  == <<env, cwd, seen>>
catalogs == <<loaded, asked>>
vars == <<program, bindings, current_domain, msg_cat_cntr, known, catalogs, call, dirname, locales,
          answer, ops, failures, at>>

NoConv    == "none"
Null      == "null"
NoMemory  == "no memory"
Allocated == "allocated"

\* Nothing of a catalog is converted.
NoTexts  == [m \in MsgIds |-> NoConv]
Unloaded == [decided |-> FALSE, codeset_cntr |-> 0, conv |-> NoConv, conv_tab |-> Null, texts |-> NoTexts]

now == [env |-> env, cwd |-> cwd]

Init ==
    /\ env \in Envs /\ cwd \in Dirs
    /\ bindings = << >>
    /\ current_domain = Messages
    /\ msg_cat_cntr = 0
    /\ known = << >>
    /\ loaded = [f \in Files |-> Unloaded] /\ asked = [f \in Files |-> NoCodeset]
    /\ call = << >> /\ dirname = NoDir /\ locales = << >> /\ answer = << >>
    /\ seen = {now}
    /\ ops = 0 /\ failures = 0
    /\ at = "idle"

Operation == at = "idle" /\ ops < MaxOps /\ ops' = ops + 1
Fail == failures < MaxFailures /\ failures' = failures + 1

\* Every translation found so far becomes invalid.
Flush == msg_cat_cntr' = msg_cat_cntr + 1 /\ seen' = {now}

-----------------------------------------------------------------------------
(* Bindings.                                                               *)

\* The walk ends at the name itself, or at the first that is greater.
Position(d) == {i \in DOMAIN bindings : bindings[i].domain = d
                                        /\ \A j \in 1..i : Place[bindings[j].domain] <= Place[d]}

\* mutant: a new binding is put behind the first that is greater.
Insert_Behind(b) ==
    LET greater == {i \in DOMAIN bindings : Place[b.domain] < Place[bindings[i].domain]}
    IN  IF greater = {} THEN Append(bindings, b) ELSE InsertAt(bindings, Min(greater) + 1, b)
Insert(b) ==
    LET greater == {i \in DOMAIN bindings : Place[b.domain] < Place[bindings[i].domain]}
    IN  IF greater = {} THEN Append(bindings, b) ELSE InsertAt(bindings, Min(greater), b)

New(d) == [domain |-> d, dirname |-> DefaultDir, codeset |-> NoCodeset, codeset_cntr |-> 0]

\* A call that only asks, or sets what is set, changes nothing; what the calls
\* of this part return is what is set then, and is left out.
Asked == UNCHANGED <<bindings, msg_cat_cntr, seen, failures>>

\* There is no memory for a copy or a binding: nothing changes.
Refused == Fail /\ UNCHANGED <<bindings, msg_cat_cntr, seen>>

Bind(b) == bindings' = b /\ Flush /\ UNCHANGED failures

\* bindtextdomain.  Only the default directory is not copied.
BindTextDomain(d, dir) ==
    /\ Operation
    /\ \/ d = NoDomain /\ Asked
       \/ \E i \in Position(d) :
              \/ dir \in {NoDir, bindings[i].dirname} /\ Asked
              \/ /\ dir \notin {NoDir, bindings[i].dirname}
                 /\ Bind([bindings EXCEPT ![i].dirname = dir])
              \/ dir \notin {NoDir, bindings[i].dirname, DefaultDir} /\ Refused
       \/ /\ d # NoDomain /\ Position(d) = {}
          /\ \/ dir = NoDir /\ Asked
             \/ dir # NoDir /\ Bind(Insert([New(d) EXCEPT !.dirname = dir]))
             \/ dir # NoDir /\ Refused
    /\ UNCHANGED <<env, cwd, current_domain, known, catalogs, call, dirname, locales, answer, at>>

\* bind_textdomain_codeset.
BindTextDomainCodeset(d, c) ==
    /\ Operation
    /\ \/ d = NoDomain /\ Asked
       \/ \E i \in Position(d) :
              \/ c \in {NoCodeset, bindings[i].codeset} /\ Asked
              \/ /\ c \notin {NoCodeset, bindings[i].codeset}
                 /\ Bind([bindings EXCEPT ![i].codeset = c, ![i].codeset_cntr = @ + 1])
              \/ c \notin {NoCodeset, bindings[i].codeset} /\ Refused
       \/ /\ d # NoDomain /\ Position(d) = {}
          /\ \/ c = NoCodeset /\ Asked
             \/ c # NoCodeset /\ Bind(Insert([New(d) EXCEPT !.codeset = c, !.codeset_cntr = 1]))
             \/ c # NoCodeset /\ Refused
    /\ UNCHANGED <<env, cwd, current_domain, known, catalogs, call, dirname, locales, answer, at>>

\* textdomain.  The name that is set already is a way to say that the
\* environment has changed.
TextDomain(d) ==
    /\ Operation
    /\ \/ d = NoDomain /\ current_domain' = Messages /\ Flush /\ UNCHANGED failures
       \/ d # NoDomain /\ current_domain' = d /\ Flush /\ UNCHANGED failures
       \/ /\ d \notin {NoDomain, Messages, current_domain}
          /\ Fail /\ UNCHANGED <<current_domain, msg_cat_cntr, seen>>
    /\ UNCHANGED <<env, cwd, bindings, known, catalogs, call, dirname, locales, answer, at>>

\* The program changes its environment or its directory.
Change ==
    /\ Operation
    /\ \/ env' \in Envs \ {env} /\ UNCHANGED cwd
       \/ cwd' \in Dirs \ {cwd} /\ UNCHANGED env
    /\ seen' = seen \cup {now'}
    /\ UNCHANGED <<bindings, current_domain, msg_cat_cntr, known, catalogs, call, dirname, locales,
                   answer, failures, at>>

-----------------------------------------------------------------------------
(* The locale names to try.                                                *)

\* The first of LC_ALL, the category's own and LANG that is set.
_nl_locale_name_posix(e, c) ==
    LET variables == <<"LC_ALL", c, "LANG">>
        set == {i \in 1..3 : variables[i] \in DOMAIN e /\ e[variables[i]] # << >>}
    IN  IF set = {} THEN << >> ELSE e[variables[Min(set)]]

\* The system has no default but "C", and no list of languages of its own.
_nl_locale_name_default == <<"C">>

\* LANGUAGE counts unless the locale is "C".
guess_category_value(e, c) ==
    LET posix  == _nl_locale_name_posix(e, c)
        locale == IF posix = << >> THEN _nl_locale_name_default ELSE posix
    IN  IF locale # <<"C">> /\ "LANGUAGE" \in DOMAIN e /\ e["LANGUAGE"] # << >>
        THEN e["LANGUAGE"] ELSE locale

-----------------------------------------------------------------------------
(* dcigettext.                                                             *)

domain == IF call.domain = NoDomain THEN current_domain ELSE call.domain
categoryname == category_to_name(call.category)
key == <<call.msgid, domain, call.category>>
BindingOf(d) == IF Position(d) = {} THEN << >> ELSE bindings[CHOOSE i \in Position(d) : TRUE]
binding == BindingOf(domain)

\* mutant: the form is looked for among the variants, whatever their number.
Variant_Unbounded(f, m, n) == PluralIndex[f][n]
\* plural_lookup: a form the message has no variant for is the first.
Variant(f, m, n) ==
    IF PluralIndex[f][n] < Variants[f][m] THEN PluralIndex[f][n] ELSE 0

Translation(f, m, c, plural, n) ==
    [file |-> f, msgid |-> m, codeset |-> c, variant |-> IF plural THEN Variant(f, m, n) ELSE 0]

\* The Germanic plural.
Untranslated(m, plural, n) ==
    [file |-> NoFile, msgid |-> m, codeset |-> NoCodeset,
     variant |-> IF plural /\ n # 1 THEN 1 ELSE 0]

dcigettext ==
    /\ Operation
    /\ call' \in Calls
    /\ answer' = << >>
    /\ at' = "known"
    /\ UNCHANGED <<program, bindings, current_domain, msg_cat_cntr, known, catalogs, dirname, locales, failures>>

\* mutant: what was found once is found for ever.
IsKnown_ForEver == key \in DOMAIN known
IsKnown == key \in DOMAIN known /\ known[key].counter = msg_cat_cntr

Known ==
    /\ at = "known" /\ IsKnown
    /\ answer' = Translation(known[key].file, call.msgid, known[key].codeset, call.plural, call.n)
    /\ at' = "answered"
    /\ UNCHANGED <<program, bindings, current_domain, msg_cat_cntr, known, catalogs, call, dirname,
                   locales, ops, failures>>

\* The place of the catalogs: a directory, or one relative to another.
PlaceOf(b, d) ==
    IF b = << >> THEN DefaultDir
    ELSE IF b.dirname \notin Relative THEN b.dirname
    ELSE IF d = NoDir THEN NoDir ELSE <<d, b.dirname>>

FindBinding ==
    /\ at = "known" /\ ~IsKnown
    /\ dirname' = PlaceOf(binding, cwd)
    /\ locales' = guess_category_value(env, categoryname)
    /\ at' = IF dirname' = NoDir THEN "untranslated" ELSE "locale"
    /\ UNCHANGED <<program, bindings, current_domain, msg_cat_cntr, known, catalogs, call, answer,
                   ops, failures>>

\* The next of the list, a "C" after the last.
NextLocale == IF locales = << >> THEN "C" ELSE Head(locales)

\* mutant: a name with a directory in it stays the next of the list.
SkipLocale_Stays ==
    /\ at = "locale" /\ Secure /\ NextLocale \in PathNames
    /\ UNCHANGED vars
SkipLocale ==
    /\ at = "locale" /\ Secure /\ NextLocale \in PathNames
    /\ locales' = Tail(locales)
    /\ UNCHANGED <<program, bindings, current_domain, msg_cat_cntr, known, catalogs, call, dirname,
                   answer, ops, failures, at>>

StopAtC ==
    /\ at = "locale" /\ NextLocale \in {"C", "POSIX"}
    /\ at' = "untranslated"
    /\ UNCHANGED <<program, bindings, current_domain, msg_cat_cntr, known, catalogs, call, dirname,
                   locales, answer, ops, failures>>

-----------------------------------------------------------------------------
(* Catalogs, from the first that is looked into.                           *)

\* OUTPUT_CHARSET in the environment; empty is not set.
OutputCharset(e) == IF "OUTPUT_CHARSET" \in DOMAIN e THEN e["OUTPUT_CHARSET"] ELSE NoCodeset

\* The codeset that the binding asks for, or the environment, or the locale.
Outcharset(b, asks) ==
    IF b # << >> /\ b.codeset # NoCodeset THEN b.codeset
    ELSE IF asks # NoCodeset THEN asks ELSE LocaleCodeset

Counter(b) == IF b = << >> THEN 0 ELSE b.codeset_cntr

\* The converter there is from a catalog's codeset, if it says it, to that.
Converter(f, b, asks) ==
    IF Charset[f] # NoCodeset /\ <<Charset[f], Outcharset(b, asks)>> \in CanOpen
    THEN Outcharset(b, asks) ELSE NoConv

\* _nl_init_domain_conv.  The entry "" that tells the codeset is one more
\* message of the catalog; it is looked up with no converter set.
_nl_init_domain_conv(f, b) ==
    [decided |-> TRUE, codeset_cntr |-> Counter(b), conv |-> Converter(f, b, OutputCharset(env)),
     conv_tab |-> Null, texts |-> NoTexts]

\* _nl_load_domain, of those that nothing was ever looked for in.
Load(files) ==
    LET new == {f \in files : ~loaded[f].decided}
    IN  /\ loaded' = [f \in Files |-> IF f \in new THEN _nl_init_domain_conv(f, binding) ELSE loaded[f]]
        /\ asked' = [f \in Files |-> IF f \in new THEN OutputCharset(env) ELSE asked[f]]

\* Which of the catalogs of a locale name have the message; it is taken from
\* the first of them.
With(place, l, d, c, m) ==
    {i \in DOMAIN Chain[place, l, d, c] : Variants[Chain[place, l, d, c][i]][m] > 0}
First(place, l, d, c, m) == Chain[place, l, d, c][Min(With(place, l, d, c, m))]

\* Those that are looked into for it: up to the first that has it, or all.
Visited(place, l, d, c, m) ==
    {Chain[place, l, d, c][i] : i \in {j \in DOMAIN Chain[place, l, d, c] :
        \A w \in With(place, l, d, c, m) : j <= w}}

NotInLocale ==
    /\ at = "locale" /\ NextLocale \notin {"C", "POSIX"} /\ ~(Secure /\ NextLocale \in PathNames)
    /\ With(dirname, NextLocale, domain, categoryname, call.msgid) = {}
    /\ Load(Visited(dirname, NextLocale, domain, categoryname, call.msgid))
    /\ locales' = Tail(locales)
    /\ UNCHANGED <<program, bindings, current_domain, msg_cat_cntr, known, call, dirname, answer,
                   ops, failures, at>>

InLocale ==
    /\ at = "locale" /\ NextLocale \notin {"C", "POSIX"} /\ ~(Secure /\ NextLocale \in PathNames)
    /\ With(dirname, NextLocale, domain, categoryname, call.msgid) # {}
    /\ Load(Visited(dirname, NextLocale, domain, categoryname, call.msgid))
    /\ at' = "convert"
    /\ UNCHANGED <<program, bindings, current_domain, msg_cat_cntr, known, call, dirname, locales,
                   answer, ops, failures>>

Untranslate ==
    /\ at = "untranslated"
    /\ answer' = Untranslated(call.msgid, call.plural, call.n)
    /\ at' = "answered"
    /\ UNCHANGED <<program, bindings, current_domain, msg_cat_cntr, known, catalogs, call, dirname,
                   locales, ops, failures>>

-----------------------------------------------------------------------------
(* The conversion of a translation that _nl_find_msg has found.            *)

found == First(dirname, Head(locales), domain, categoryname, call.msgid)

\* The converter of a catalog is renewed when a message is next found in it.
Current(f) ==
    IF loaded[f].codeset_cntr # Counter(binding) THEN _nl_init_domain_conv(f, binding) ELSE loaded[f]

\* Without a converter, or without memory for the table, now or once before,
\* the text stays as it is in the file.
MayConvert(x) == x.conv # NoConv /\ x.conv_tab # NoMemory

\* The table is made when it is first needed.  A text that cannot be converted
\* leaves its place empty.
Converted(x, f, m) ==
    IF ~MayConvert(x) THEN x
    ELSE [x EXCEPT !.conv_tab = IF @ = Null THEN Allocated ELSE @,
                   !.texts[m] = IF @ = NoConv /\ <<f, m, x.conv>> \notin CannotConvert
                                THEN x.conv ELSE @]

\* What there may be instead when memory runs out: no table, for good, or no
\* room for the text, this time.
Unconverted(x, m) ==
    IF ~MayConvert(x) \/ x.texts[m] # NoConv THEN {}
    ELSE {[x EXCEPT !.conv_tab = IF @ = Null THEN Allocated ELSE @]}
         \cup {y \in {[x EXCEPT !.conv_tab = NoMemory]} : x.conv_tab = Null}

CodesetOf(x, f, m) == IF MayConvert(x) /\ x.texts[m] # NoConv THEN x.texts[m] ELSE Charset[f]

\* tsearch: the translation that is looked for is known.
Remember(new) == [k \in DOMAIN known \cup {key} |-> IF k = key THEN new ELSE known[k]]

Convert ==
    /\ at = "convert"
    /\ LET m == call.msgid
           f == found
       IN  \E x \in {Converted(Current(f), f, m)} \cup Unconverted(Current(f), m) :
              LET c   == CodesetOf(x, f, m)
                  new == [counter |-> msg_cat_cntr, file |-> f, codeset |-> c]
              IN  /\ IF x = Converted(Current(f), f, m) THEN UNCHANGED failures ELSE Fail
                  /\ loaded' = [loaded EXCEPT ![f] = x]
                  /\ answer' = Translation(f, m, c, call.plural, call.n)
                  /\ known' \in {Remember(new)} \cup (IF key \in DOMAIN known THEN {} ELSE {known})
    /\ at' = "answered"
    /\ UNCHANGED <<program, bindings, current_domain, msg_cat_cntr, asked, call, dirname, locales, ops>>

Return ==
    /\ at = "answered"
    /\ at' = "idle"
    /\ call' = << >> /\ dirname' = NoDir /\ locales' = << >> /\ answer' = << >>
    /\ UNCHANGED <<program, bindings, current_domain, msg_cat_cntr, known, catalogs, ops, failures>>

Answering ==
    \/ Known \/ FindBinding \/ SkipLocale \/ StopAtC \/ NotInLocale \/ InLocale
    \/ Untranslate \/ Convert \/ Return

Next ==
    \/ dcigettext \/ Answering
    \/ \E d \in Domains \cup {NoDomain} : TextDomain(d)
    \/ \E d \in Domains \cup {NoDomain} :
           \/ \E dir \in Absolute \cup Relative \cup {DefaultDir, NoDir} : BindTextDomain(d, dir)
           \/ \E c \in Codesets \cup {NoCodeset} : BindTextDomainCodeset(d, c)
    \/ Change

\* A call that was made is answered; nothing has to call.
Spec == Init /\ [][Next]_vars /\ WF_vars(Answering)

-----------------------------------------------------------------------------
(* Properties.                                                             *)

TypeOK ==
    /\ env \in Envs /\ cwd \in Dirs
    /\ \A i \in DOMAIN bindings :
           /\ bindings[i].domain \in Domains
           /\ bindings[i].dirname \in Absolute \cup Relative \cup {DefaultDir}
           /\ bindings[i].codeset \in Codesets \cup {NoCodeset}
           /\ bindings[i].codeset_cntr \in 0..MaxOps
           /\ (bindings[i].codeset_cntr = 0) = (bindings[i].codeset = NoCodeset)
    /\ current_domain \in Domains /\ msg_cat_cntr \in 0..MaxOps
    /\ \A k \in DOMAIN known :
           /\ known[k].counter \in 0..msg_cat_cntr
           /\ known[k].file \in Files /\ Variants[known[k].file][k[1]] > 0
           /\ known[k].codeset \in Codesets \cup {NoCodeset}
    /\ \A f \in Files :
           /\ loaded[f].conv \in Codesets \cup {NoConv}
           /\ loaded[f].conv_tab \in {Null, NoMemory, Allocated}
           /\ \A m \in MsgIds : loaded[f].texts[m] \in {NoConv, loaded[f].conv}
           /\ loaded[f].conv_tab # Allocated => loaded[f].texts = NoTexts
           /\ asked[f] \in Codesets \cup {NoCodeset}
    /\ at = "answered" /\ answer.file # NoFile => answer.variant < Variants[answer.file][answer.msgid]
    /\ failures \in 0..MaxFailures
    /\ at \in {"idle", "known", "locale", "convert", "untranslated", "answered"}

\* No domain is ever bound twice, and no walk along the bindings stops before
\* the one it looks for (bindtextdom.c:116-128, 298-314): a second binding of
\* a domain would be changed without anybody ever seeing it.
BindingsInOrder ==
    \A i \in 2..Len(bindings) : Place[bindings[i - 1].domain] < Place[bindings[i].domain]

\* The catalog that a library that keeps nothing but the bindings takes a
\* translation k from, in an environment e: of the first locale in the list
\* that has it, before "C" ends the list.
Source(k, e) ==
    LET name   == category_to_name(k[3])
        place  == PlaceOf(BindingOf(k[2]), e.cwd)
        list   == guess_category_value(e.env, name)
        useful == {i \in DOMAIN list :
                      /\ \A j \in 1..i : list[j] \notin {"C", "POSIX"}
                      /\ ~(Secure /\ list[i] \in PathNames)
                      /\ With(place, list[i], k[2], name, k[1]) # {}}
    IN  IF place = NoDir \/ useful = {} THEN NoFile
        ELSE First(place, list[Min(useful)], k[2], name, k[1])

\* The codesets its text may be in.  It stays as it is in the file when there
\* is no converter for it, and when memory has run out.
RightCodesets(k, f) ==
    LET c == Converter(f, BindingOf(k[2]), asked[f])
    IN  (IF c = NoConv \/ <<f, k[1], c>> \in CannotConvert THEN {Charset[f]} ELSE {c})
        \cup (IF failures > 0 THEN {Charset[f]} ELSE {})

RightAnswers(e) ==
    IF Source(key, e) = NoFile THEN {Untranslated(call.msgid, call.plural, call.n)}
    ELSE {Translation(Source(key, e), call.msgid, c, call.plural, call.n) :
             c \in RightCodesets(key, Source(key, e))}

\* An answer is the translation that the bindings, the default domain and the
\* environment ask for, whatever was known, loaded or converted before, and in
\* whichever order directories, codesets and domains were set
\* (dcigettext.c:489-500, 829-838, 870-1014; bindtextdom.c:334-336;
\* textdomain.c:122-132).  It is in the codeset of the binding; in a domain that
\* none was ever set for, in the one that OUTPUT_CHARSET asked for when the
\* catalog was loaded, or else in that of the locale (loadmsgcat.c:826-842): a
\* later OUTPUT_CHARSET never reaches a catalog that is loaded
\* (dcigettext.c:829).
\* The languages and the directory may be ones that the program has changed
\* since without a word to the library.
AnswersAreCurrent == at = "answered" => \E e \in seen : answer \in RightAnswers(e)

\* Every call is answered: the list of languages comes to its end
\* (dcigettext.c:580-692).
CallsAreAnswered == at = "known" ~> at = "idle"
=============================================================================
