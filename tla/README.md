# rawtools: models, checks and proofs

rawtools is four small C programs that work on streams of raw numbers, a
library they share, and the message library (GNU gettext's `intl/`) that is
built with them.  This directory holds TLA+ modules translated from their
source, TLC configurations that check them on small instances, and theorems
that TLAPS proves for every instance.  `rawilv.c:385` is line 385 of
`src/src/rawilv.c`; files of the message library are in `src/intl/`.

    tlc -workers 2 -config MCInterleave.cfg MCInterleave.tla
    tlapm RawIlvProofs.tla

## The system

Every program is one sequential process: `argp_parse` calls back `p_opt` for
each option, `main` opens the files and runs a loop of `fread` and `fwrite`.
They are made to be joined by pipes, and then several run at once.  What is
hard inside one of them is not concurrency.  It is loops that keep several
pointers and counters in step over buffers and blocks that do not divide one
another; ends of file that are seen one read later than they happen; errors of
one of several files or allocations, some of which are not looked at; options
whose order matters; tables that are searched, sorted and extended by functions
that trust each other; and, in the message library, what is kept of earlier
calls and must not show in later ones.

| part | state | operations | with whom | what makes it correct |
|---|---|---|---|---|
| `rawilv`, interleave (rawilv.c:341-436) | current input and block, one buffer, end-of-file indicators | read into the buffer, flush it, next block, final check | stdio streams; "-" may be several of the inputs | blocks alternate as asked for; no byte lost; unequal inputs are noticed, equal ones not complained of; the loop ends |
| `rawilv`, de-interleave (438-525) | current output and block, a buffer for each output | read into its buffer, flush it, drain all | one input; "-" may be several of the outputs | every output gets its own blocks, whole and in order |
| `rawilv`, options (67-300) | list of sizes, files, mode | `p_opt` for each option and at the end | argp; `ensure_enough_space` | the loops are entered with the sizes given, or not at all |
| table (`lib/xform.c`) | entries, coefficients, value of NaN | append, clear, sort, interpolate, apply | called by `rawxform` only | arrays never overrun; the bisection closes in; NaN, and a value within the table, is mapped as README says |
| `rawxform` (rawxform.c) | options, files, block | load table files, map blocks of numbers | argp, the table, stdio | the table is the one asked for; each number is mapped once, in its place |
| `rawmatrix` (rawmatrix.c) and `lib/parselts.c` | matrix, vector sizes, options, output buffer | parse a matrix, multiply vectors | argp, stdio, a pipe | sizes agree whatever the order of the options; no whole vector is lost |
| `rawrange` (rawrange.c) and `lib/numrange.c` | range so far | extend by a block | argp, stdio, a pipe | the range is that of all the numbers |
| locale aliases (localealias.c) | table of aliases, files not yet read | expand, read a file, sort | called by the search for catalogs | no alias that was read is missed |
| catalog search (explodename.c, l10nflist.c, finddomain.c) | list of the files ever looked for, each with what it inherits from | explode a name, make entries recursively, search | aliases; loading | the list stays in order; the most specific catalog is found; none is loaded twice |
| translation (dcigettext.c, bindtextdom.c, textdomain.c, localename.c) | bindings, default domain, known translations, converted texts, a counter | bind, set a codeset or the default domain, translate | the environment; catalogs; iconv | what is kept never shows in an answer; every call is answered |
| catalog files (loadmsgcat.c, hash-string.h, dcigettext.c) | mapped file, tables, descriptor, memory | load, enter strings, search by hash or by halves | plural forms | what is found is what the file says; a refused file leaves nothing behind |
| plural forms (plural-exp.c, plural.y, plural.c, eval-plural.h) | parser's stack, nodes | extract, parse, evaluate | called as a catalog is loaded and used | the operators bind as in C; no node is lost; the stack stays within its limit |
| `lib/useutil.c` | growing arrays, streams | grow, append, open, close | all programs | the array holds what is stored |

## The modules

| module | models | checked by | proofs |
|---|---|---|---|
| `Interleave` | rawilv.c:341-436 | `MCInterleave` | `RawIlvProofs` |
| `Deinterleave` | rawilv.c:438-525 | `MCDeinterleave` | `DeinterleaveProofs` |
| `IlvOptions` | rawilv.c:67-300, useutil.c:30-55 | `MCIlvOptions` | `RawIlvProofs` |
| `XformTable` | lib/xform.c | `MCXformTable`, `MCRawXform` | `RawXformProofs` |
| `XformClient`, extends `XformTable` | any client of xform.h | `MCXformTable` | `RawXformProofs` |
| `RawXform`, extends `XformTable` | rawxform.c | `MCRawXform` | `RawXformProofs` |
| `RawMatrix` | rawmatrix.c, lib/parselts.c | `MCPipeline` | `PipelineProofs` |
| `RawRange` | rawrange.c, lib/numrange.c, p_arg_string | `MCPipeline` | `PipelineProofs` |
| `Pipeline`, extends `RawMatrix`, with an instance of `RawRange` | the two at once, joined by a pipe | `MCPipeline` | `PipelineProofs` |
| `LocaleAlias` | localealias.c | `MCLocaleFiles` | `LocaleFilesProofs` |
| `LocaleFiles`, extends `LocaleAlias` | explodename.c, l10nflist.c, finddomain.c | `MCLocaleFiles` | `LocaleFilesProofs` |
| `Gettext` | dcigettext.c, bindtextdom.c, textdomain.c, localename.c | `MCGettext` | `GettextProofs` |
| `Plural` | plural-exp.c, plural.y, plural.c, eval-plural.h | `MCCatalog` | `CatalogProofs` |
| `Catalog`, extends `Plural` | loadmsgcat.c, hash-string.h, `_nl_find_msg`, `plural_lookup` | `MCCatalog` | `CatalogProofs` |

`DataLemmas` models nothing: it has the lemmas that the proof modules share.

`IlvOptions` ends where `Interleave` and `Deinterleave` begin:
`SizesAreAsGiven`, checked of the one, gives the `CommandsAssumption` of the
others (as many sizes as files, all positive).  `Gettext` takes as constants
what the two modules below it work out: the catalogs that a search comes to, in
their order (`Chain`, which is `LocaleFiles`), and what is in them (`Variants`,
`PluralIndex`, which is `Catalog`).

### Interleave and Deinterleave

A byte is its stream and its offset, so that a byte that is lost, repeated or
moved is visible.  `buf` is what lies from `buf` up to `bp`; `fp` is an index and
stands for `fp`, `sp`, `np` and `rest_files`, which the code moves together.  `pc`
names the places of the loop: `advance` (the `if` chain at its head), `read` (the
`fread`), `flush` (a full buffer), `drain` (the writes after the loop), `check`
(interleave only) and the ways to exit.  `fread` may return all it was asked
for, less with an error, or what is left with the end-of-file indicator set;
`fwrite` may fail after a part.  Streams given by name are distinct; "-" gives
the same stream each time (`CommandsAssumption`), with one position and one
indicator.  A byte counts as output when `fwrite` accepts it: the flush of
stdio at exit, which the program does not look at, is out of these two models
(it is in `RawMatrix`), as is a file that is both an input and the output.

### IlvOptions

One action for each case of `p_opt`; `--block-sizes` takes a step for each item,
since storing one may run out of memory.  `argp_error` ends the program;
`argp_failure` only prints, `p_opt` then returns, `argp_parse` stops, and `main`,
which ignores its result, goes on (`GiveUp`).  `errno` is a variable, because an
empty list of sizes leaves the decision to what was in it.

### XformTable and RawXform

`XformTable` has one action for each function of xform.h, with a step for each
turn of their loops (`AppendEntry`, `Bisect`); `XformClient` is a client that calls
them in any order.  Bounds and values are integers, NaN and infinities, and what
interpolation computes is an exact fraction, `<<0, 0>>` for NaN: rounding of
doubles is out of the model, comparison with NaN, division by zero and the
order of equal keys after `qsort` are in it.  Locals of a function are at rest
between calls.  The coefficient that a value from the last bound on would need
lies past the end of its array; the model reads any value of `Beyond`.

`RawXform` is the one client there is: options in order, table files after all of them,
coefficients, then block after block of every input.  A call of the library
is an action of `XformTable` in one of the program (`AppendBegin` in `AddEntry`), and the program is idle until it
returns.  Three results the code does not look at are alternatives of their
actions: of `argp_parse`, of `xform_table_append` in `load_table` and of
`xform_table_linear_interp`.  `no_memory` is a history variable that tells runs
in which memory ran out.  `fread` may return less than a block after an error
and go on; the bytes of a partial element are not modelled, nor that
`format_opts` has no terminator (rawxform.c:232: the array is scanned past its
end, and finds a null pointer or not as the memory after it has it).  `--verbose`
changes nothing and is left out.

### RawMatrix, RawRange and Pipeline

An argument of `rawmatrix` is what `-m` would make of it (its elements and what
follows them) together with the stream it would name, since the first argument
is a matrix only if no option was.  The options read the flags as they are at
that moment, which is why `--trailing-1` after `-m` does not reach the matrix
but does reach the loop.  `parse_elts_delim` may stop at each growth of its array
and then leaves its tail unset; what the caller then reads there is a choice.
`out` is what `fwrite` accepted and `sent` how much of it stdio has passed on:
it passes on everything whenever its buffer fills, and `exit` flushes the rest,
or part of it, with nobody looking.

`RawRange` reads `piped`, what its writer has sent so far, and `closed`.  A `fread`
on a pipe returns a whole block, or fewer numbers only at the end of the file or
after an error; until then it waits, which is a step that is not enabled.

`Pipeline` is `rawmatrix ... | rawrange ...`: `piped` is the sent part of `out`,
`closed` that the writer has ended, and a writer that passes on to a reader that
has ended is killed (`BrokenPipe`).  The room in a pipe is not modelled: a
writer that waits for room is one that takes no step for a while.

### LocaleAlias and LocaleFiles

A name is a sequence of tokens, so that it can be taken apart by its
separators, and compared token by token as `strcmp` does.  `_nl_make_l10nflist`
calls itself; `stack` holds its active calls with what their loops have left to
do, and a step is one return or one entry made, so that what an inner call
inserts is in the list while the outer one goes on.  The list is in the order of
the code (greatest name first); a walk stops at the first name that is less.
An alias file is the sequence of its lines, each its first two words; `Rest` is
how many lines more are dropped by the search for an end of line that the code
has just cut off.  `bsearch` returns any match in a table in order, and perhaps
none in one that is not; `qsort` any order of equal names.

### Gettext

One thread.  A call goes through the places of `dcigettext`: the search in what
is `known`, the languages one after the other, conversion, and the answer.
Between calls the program may bind a directory or a codeset, set the default
domain, and change the environment or its directory, of which nobody tells the
library (`seen` are the environments since translations last became invalid:
an answer may be that of any of them).  A text is where it comes from and the
codeset it is in.  A catalog is loaded when the search first comes to it, and its
converter opened, for the codeset of the binding or, if none was ever set, for the
one that `OUTPUT_CHARSET` says at that moment, or else the locale; later only another
codeset of the binding opens it anew.  `loaded` holds, for each catalog, the codeset
its converter was opened for, the table of converted texts and their codeset, with
the mark of a table that could not be allocated; `asked`, a history variable, what
`OUTPUT_CHARSET` said when the catalog was loaded.

### Catalog and Plural

A string is the sequence of its bytes, with zeros between plural forms, a number
in the other byte order is written as its negative, so that one that is
swapped once too often or never shows.  A system dependent string is a sequence
of static parts and references to segments.  Every step of `_nl_load_domain`
that can fail has its failing alternative, and `mem` is what is then held.
The search is one step for each place of the hash table or each half.

`Plural` is the shift-reduce parser that bison makes of `plural.y`: when the top
of the stack is reduced and when a token is shifted, as the precedences decide
it (`Binds`, `Level`), the stack that grows from `YYINITDEPTH` by doubling up to
`YYMAXDEPTH`, the errors, which no rule takes and after which nothing on the stack
is freed, and the nodes that are allocated and freed.  `yylex` gives lexemes;
`plural_eval` evaluates in the width of unsigned long.  A numeral of the expression
wraps around there, that of the header, which `strtoul` reads, saturates.

## The runs

| run | instance | what it shows |
|---|---|---|
| `interleave` | one to three inputs of 0 to 5 bytes, buffer of 3, block sizes 1 to 4, "-" once and twice | the properties below |
| `interleave_eof` | same | finding 1 |
| `deinterleave` | one to three outputs, 0 to 20 bytes, buffer of 3, block sizes 1 to 7, "-" once and twice | |
| `ilv_options` | every sequence of up to three options of eight, five lists of files | |
| `xform_table` | up to four entries, lists of one to three, equal and infinite bounds, NaN, arrays that grow by two | |
| `xform_bound` | same | finding 2 |
| `rawxform` | fifteen lists of options, three of files, blocks of two numbers | |
| `pipeline` | twelve command lines of the writer with matrices of one to three rows, six of the reader, blocks of two numbers | |
| `locale_files` | three searches for six names (XPG, CEN, aliases), three alias files, three sets of catalogs, one allocation that fails | |
| `alias_lines` | same | finding 3 |
| `gettext` | four calls and changes, two domains, two codesets, three directories, three environments, two messages, one allocation that fails | |
| `catalog` | a file for every plural expression of two operators of eight, seventeen for the kinds of file and nine for headers that are none, two searches, one failure | |

The bounds are chosen by cases.  A block may be smaller than the buffer,
as large, larger, and not divide it, and an end of file may fall before, in
and after a block and where the buffer is just full: a buffer of 3 and these
sizes have all of them, and lengths of more than two rounds show a wrap-around
after each.  `BUF_SZ` (4096 in the sources) and `min_grow` (5) are parameters and
are made small so that they are reached; `MaxSize` bounds a table so that
bisection takes two turns and the array grows twice.  The proofs do not depend
on any of them.

`MaxOut` ends the one run of `rawmatrix` that has no end (below); all the others
write less.  Three searches (`MaxCalls`) are the least in which a name meets
entries that two others have left, and an alias table merged from two files.
Four operations (`MaxOps`) are a call, two changes and the call again, or two
domains bound in either order with a call between.  Each allocation may be the
one that fails; two failures in one run add no path that the code tells from
one.  In `catalog` a hash value has 12 bits, in an unsigned long of 24, for 32
in 64: what matters is that a value may outgrow its word by as much again, and
one of the messages does.  `ULONG` is 16 and the numerals go beyond it.
`YYINITDEPTH` 3 and `YYMAXDEPTH` 20 (200 and 10000) have the stack grow three times, the
last time to less than twice, and overflow on 24 parentheses.

Interleave: `Conserved` (every byte read is in the output or the buffer, once, in
order), `OutputIsInterleaving` (blocks alternate as asked for), `BlockCountsMatch`
(README: inputs of different numbers of blocks are not a success),
`AlarmsAreTrue` (no false complaint, no false blame), `AssertionsHold` (both
asserts), `Termination`.

Deinterleave: `DealtInTurn` (every output has just its share, in order),
`TornOnlyAtFullBuffer` (when an end in the middle of a block is missed),
`AssertionHolds`.

IlvOptions: `SizesAreAsGiven`, `StopsHalfWay` (the loops are entered unprepared
only after memory ran out or an empty list was given).

XformTable: `LookupBrackets` (the bisection's invariant and its result, for a
table in any order), `MapsAsDocumented` (README's reading of a table in order, for
NaN and the values within it).
RawXform: `TableIsAsGiven` (entries of options and files, no more and no less),
`CoefsAreCurrent` (what the library does not ensure, its client does),
`OutputIsMapped` (every number in its place, mapped and cut to the format).  Of
values below the table, where README and the code differ, neither says anything.

Pipeline: `MatrixIsAsGiven` (the last matrix given, with as many columns as the
options before it ask for, or else square; a part of it if memory ran out), `OutputIsProduct` (every
whole vector of every file, once, in order, times the matrix), `PrintsRange` (the
range of all the numbers the reader was given), `RangeOfProducts` (both
together: what is printed bounds every coordinate that was computed), `BothEnd`.

LocaleFiles: `AliasIsFound`, `ListInOrder`, `MostSpecific` (of all the names that a
locale name stands for, the preferred one that has a catalog), `LoadedOnce` (an
action property).  Gettext: `BindingsInOrder`, `AnswersAreCurrent` (an answer is
that of a library that keeps nothing but the bindings: it is written as one, and
is the abstract specification of the cache; its codeset is that of the binding, or
what `OUTPUT_CHARSET` or the locale said when the catalog was loaded),
`CallsAreAnswered`.  Catalog:
`SearchIsRight`, `NothingIsKept`, `MeansWhatItSays` (the tree is the one that the
text was written from, and the number of forms is the header's, or the greatest
there is), `NoNodeIsLost`, `CallsEnd`.

Each property is shown to be able to fail: PROJECT.json names for every one a
definition in its module, with the name of the one it replaces and a suffix
(`Upper_Middle` for `Upper`), a plausible slip in the code, under which TLC finds
it violated.

### Fairness

Each program is one thread that never waits for another but through a pipe:
while a step can be taken one is, which is `WF_vars(Next)`.  In `Pipeline` the two
processes are scheduled independently: weak fairness of the one's steps and of the
other's.  Inputs are finite; a stream that never ends or blocks is not modelled.
In `XformClient`, `Gettext` and `Catalog` only the steps inside a call are fair,
since nobody has to call (`Work`, `Answering`, `Loads \/ Searches`).  `LocaleFiles`
states none and no liveness.

### Findings

1. rawilv.c:385 -- an input that ends in the middle of a block is not noticed
   when the bytes before just filled the buffer, though README has it an error.
2. xform.c:297 -- a left bound inside the table is exclusive, not inclusive.
3. localealias.c:348 -- the rest of a line is looked for in a buffer that ends
   after the line's first word, and so the next line of the file is dropped.

Seen while modelling, and without a run of their own:

- rawilv.c:495 -- "EOF between the files" can never be reported: a short read
  never finishes its block.
- rawilv.c:300 -- `main` goes on after `argp_parse` gave up, up to a failing
  assertion (352).  `StopsHalfWay` says when.
- rawxform.c:381 -- `--format=uint8` is accepted and fails an assertion (144).
- rawmatrix.c:438 -- `-m 5 --trailing-1` leaves a vector of no elements and a loop
  without end; `BothEnd` has it as its exception.
- rawmatrix.c:212 -- the tail of a list that was cut short by the want of memory
  was never set; the beginning of the list may be applied as the matrix.
- rawrange.c:277 -- an error of reading ends an input like its end, with a success;
  without any number what is printed was never set.
- finddomain.c:86-88 -- a name found in the list as it is comes without the
  search for what its parts stand for: a repeated search may miss what the
  first one found.  `MostSpecific` speaks of a search that makes its entry.
- loadmsgcat.c:982, 1000 -- a descriptor, or the memory, is lost when memory or
  the file fails there.  `NothingIsKept` leaves them out.
- l10nflist.c:329-331 and textdomain.c:106 -- comments that do not say what the
  code does.
- The search of a hash table without an empty place does not end, and a plural
  expression that divides by zero ends the program; both need a file that its
  writer got wrong.
- README:117-119 has values below the table mapped to `-inf` by default, the code
  (xform.c:76) maps them to NaN where the platform has it.  `MapsAsDocumented` and
  `OutputIsMapped` leave these values out, and so do the theorems.
- rawmatrix.c:432-441 -- with `-s` a list must be square, too (but for the column
  of `--trailing-1`), where the manual (rawtools.texi:128-133) supposes a square
  only when no number of columns is given, and the message of line 427 asks for
  "integral number of rows".  `MatrixIsAsGiven` is what both would have of a list
  that is taken; it does not say which are refused.
- textdomain.c:108 -- setting the default domain again is meant to "signal that
  some environment variable changed", but the converter of a loaded catalog is
  opened anew only when a codeset was bound (dcigettext.c:829): an `OUTPUT_CHARSET`
  (loadmsgcat.c:830) that has changed since reaches only catalogs that are yet to
  be loaded.  `AnswersAreCurrent` has it so.

## The proofs

Everything is proved from the named assumptions on the constants, which say no
more than what the constants are: a buffer has a size, sizes are positive and
there is one for each file, options, arguments and files are sequences, what a
stream holds is a sequence of numbers, NaN is not an integer, a block of
`rawrange` holds at least one number of each format, variables of the environment
hold lists of locale names or a codeset, a catalog file belongs to one domain, the tokens that
names are spelled in have an order, an alias file has lines of names.  Of a
catalog file it is assumed what makes it one (`FilesAssumption`): its strings are
bytes, they are in strict order, or in a hash table where each is found by the
probing of the code before an empty place, in the byte order that the file's
magic says; where the header says what form each number takes, its expression
has these values.  A file that is none may still have any other magic, size or
revision.

`DataLemmas`.  The models state what a whole output is with functions of a whole
sequence (`FlattenSeq`, folds, `Cardinality` of a set of places), and a step adds
one element.  What such a function is on every sequence is shown by induction
over a set of numbers (`SetInduction`, from the least number outside it): how
a concatenation is laid out (`FlattenLayout`, `BlocksLayout`), how many places
before `n` have a property (`CountMore`), that a fold over `1..n` exists and obeys
its equation (`FoldExists`), quotients and remainders.

`RawIlvProofs` has the command line of the program and the loop of interleave mode.
Of the command line: `IInv` is type correctness (the array of sizes has room for
what is in it, since `ensure_enough_space` makes it no shorter than asked) with
`HalfWayInv`: while a list of sizes is read, nothing of it is lost until the first
is stored, so that one that ends with none was empty; at the end there are
files; and where `main` goes on there is a size for each of them, or an excuse.
`StopsHalfWay` alone is not inductive: it says nothing of how `main` is reached.
`LoopsGetTheSizes` has the sizes stored so far laid out by the options read so far
and the item reached in the current one, and the padding counted by the files.
`LoopGetsACommand`: what comes out is what `CommandsAssumption` takes a command to be.

Of the loop: `TypeCorrect` needs only that `to_read` is the least of two
bounds.  `LoopInv` ties `pc` to the counters (at `read` there is room and a block
under way; a full buffer is flushed before anything else), and gives
`AssertionsNeverFail`.  `SuccessMeansEqualBlocks` and `AlarmsAreNeverFalse` rest on
`RoundInv`: with distinct inputs, after `r` whole rounds the position of input `i`
is `r` or `r + 1` times its block size, plus the part of the current block, and
inputs at their end have just the rounds they have given.  `BytesAreConserved`
needs that each byte of `out \o buf` is complete, sound and in order, as three
invariants, since neither set nor order alone is inductive.  `BlocksAlternate`
says of each place of `out \o buf` which byte of which input is there: the
place is `r` rounds, the blocks of the inputs before, and an offset.  It holds as
long as no block was cut short; that none was when the program ends well is
`RoundInv` once more.

`DeinterleaveProofs`.  `TypeCorrect`, and `AssertionNeverFails` from `RoomInv`: all
buffers but the one about to be flushed have room, which is why the output
whose turn comes next does.  `EachIsDealtItsBlocks`: what an output has, written
or in its buffer, lists its share of the bytes read so far, in order; a read
adds bytes that are greater than all before them and of that output's block.
`TornEnds` follows the place in the round (`PlaceInv`): which block the next byte
belongs to is decided by how many were read.  A buffer is flushed whenever it
is full, so that it holds its output's share modulo `BUF_SZ`, and the end inside
a block is missed only where that is 0.  `NeverBetweenFiles` comes with it: the
branch at rawilv.c:499 is dead.

`GettextProofs`.  One invariant, `Inv`, gives all three theorems.  `OrderInv`, for
`BindingsStayInOrder`, is that the list is in strict order and a sequence of
bindings.  A domain is put in only if a walk has not found it, and a walk leaves
the list at the first greater name: all the names passed are then lesser and not
only no greater (`Unbound`), which is what the order needs on the left of the new
one (`InsertKeepsOrder`); calls on a bound domain change its binding in its
place.  The order is needed for the answers too: in such a list a walk finds
what is there (`OrderFinds`), and a binding put in hides no other
(`InsertRebinds`).  `AnswersStayCurrent` rests on what is true of each of the three
things that are kept.  What is known with the counter of now is what a search
would find, in a codeset that would be given, in an environment since the
counter counted on (`KnownInv`): a step that changes a binding or the default
domain counts on, so that nothing known is current (`KnownFlushed`).  A catalog
whose counter is that of its domain's binding has the converter that the
binding asks for, or the one that was asked for when it was loaded, and its
counter is never ahead (`ConverterInv`): a binding
gets another codeset only with a greater counter (`Follows`), also when it is
made, as the counter of no binding is 0.  What was asked for is fixed once a catalog
is loaded (`LoadedStay`), and every translation that is known is of a catalog that is
loaded.  What is converted in a catalog is in
the codeset of its converter (`TextsInv`).  Along the search, `CallInv` has that
no language passed has a translation (`Passed`), so that the one stopped at is
the `Source` of the translation that the abstract library names.  Two bindings may
have the same counter, so that the codesets of a catalog could not be told
apart if it belonged to two domains: `CatalogsAssumption` says that it belongs to
one, as the name of its file ends with that of the domain, which is so unless
a domain's name has a directory in it.  A text that stays in the codeset of its
file because memory ran out stays there, and so does its table's mark: both are
right only once something has failed, which nothing ever takes back
(`MoreCodesets`).

`LocaleFilesProofs`.  The invariant `IInv` has one part for each of the aliases, the
list, the calls and the search.  Of the aliases (`AliasInv`): the table is in order
whenever nothing has been added since it was sorted (`AliasOrder`), and while
nothing has been added what was not found is not there (`AliasUnknown`); a loop
that goes on to the next file only while nothing was added needs both, so that
`AliasesAreFound` holds where it ends.  What the sort returns has the same entries
(`SortedTable`).  Of the list (`ListInv`): what a locale name is taken apart into is
a fold over the kinds of parts, typed by `PartsTaken`; the files are finitely many
(`FilesAreFinite`) and `strcmp` orders them strictly and totally (`BeforeTransitive`,
`BeforeTotal`), so that the place of a file among them is its own (`Places`).  Then a
walk finds a name exactly if it is in the list (`KnownIsListed`), a new one goes
between a greater and a lesser one (`ListStaysInOrder`: `ListStaysOrdered`), and
its entry replaces none.  Of the calls (`CallInv`): each is for a name that leaves
out parts of the one that is made, which is why its file is one of those, and the
entry of each that has got as far is there, whatever the inner ones insert.
`CatalogsLoadOnce` follows step by step (`Kept`): only `Load` decides, and of an
entry that was not decided.

`RawXformProofs` has the table and the program.  Of the table, for any client:
`TableTypeCorrect` and `LookupsBracket` are one invariant: the
bisection's indices are in the table because its bounds bracket the value and
no call changes the table during another; the array is not overrun because
`AppendBegin` has made room (`RoomIsMade`).  That the table is sorted is not
needed for what the bisection returns to be bracketed.  `MapsAsReadmeSays` adds
what the table's entry is worth: the neighbours that bracket a value in a table
in order are the ones README means of a value within it, and the stored slope and offset give the
line through both (an equation of fractions, with integers for doubles).

Of the program: what each function of the table preserves is shown once
(`FillingPreserves`, `InterpolationPreserves`, `ApplyPreserves`), for lists and
numbers of any kind, and `StepsOfTheTable` shows that `rawxform` hands it no other.
`TypeCorrect` carries its invariant along, with the fact that the table
is idle whenever the program is not in a call.  `CoefsBelongToTable`: when
coefficients are asked for every source of entries is at its end, and the only
steps that add one are before (`Loading`); the library itself does not give
this.  `EveryNumberIsMapped`: a block is a window of the file, its first numbers
already the image of what was read there, and the output is the image of all
before it; a number is `Mapped` by a call that took the number and the table that
it was answered from, so that the table must not change in between.
`TableFollowsCommandLine`: the entries still to come are those of the call that is
running (`src`), of the options left, of the lines left and of the files left
(`Remaining`); while memory lasts, the table holds what a list `t` has and the list
asked for is `t`, `src` and `Remaining` in this order (`GivenInv`).  A step moves the
head of what is to come to the end of `t`, and sorting only changes places
(`PlacesSorted`), so that the count of every entry stays.  Where memory has run
out, what is left to say is that all in the table was asked for (`AskedInv`).

`PipelineProofs` is about both programs at once.  `PipelineInv` has five parts.
`CommandLineInv`: the flags are those of the options read (`FlagsInv`, by the last
option of a kind), and the matrix is that of the last `-m`, square or with the
columns that the options before it ask for (`MatrixInv`), which gives `MatrixFollowsOptions`.
`StreamInv` has every position within its stream.  `ProductInv`: an output of
`n` numbers is `n \div rows` vectors and a part of one, each from the file and
place that come next (`Place`); with `ProgressInv`, that all the vectors of the
files before are out, `EveryVectorIsMapped`.  Sums are partial sums, functions on
`0..n` that exist by `FoldExists`, and so are ranges.  `ReaderInv` has the reader
no further than what was sent, and `RangeInv` the range that of what was read
(`Seen`), the first block's first number being where it began (`RangeFrom`): `RangeIsPrinted`.
Since what is sent is the beginning of what is out, which only grows,
`RangeHasProducts` follows whatever the order of the steps of the two.

`CatalogProofs` is about the catalog and the parser in it.  The invariant `IInv` has
four parts.  `PluralInv`: while the parser reads, the symbols on its stack are such
that a rule always finds its arguments (`BelowOK`), their nodes are all that are
allocated, one behind the other (`Nodes`), so that a rule that frees the arguments
of a node that could not be made frees no other, and the stack has room for one
more symbol.  When one expression is left, it is all that stays
(`NothingBesideTheTree`).  `Held` has for every place of `_nl_load_domain` what is
allocated and what the domain says, which gives `NothingStays`.  `Findable`: in
the table as it is at each place (`Table`, in this machine's order once it is
copied) every message entered so far is found from the value of its hash,
before an empty place; to enter one more in an empty place takes none of
them away, because it only fills a place that ended other searches.  `Searched`:
a probe has passed only places of other messages, and by halves the message,
if the file has it, is between `bottom` and `top`, as `strcmp` orders the strings
totally (`Less`) and the file has them in order.  A string with plural forms is
longer than its first and ends it with a NUL, so that lengths, which the code
compares first, never rule out the right one.  `SearchStaysRight` then compares
the index that `plural_lookup` takes with the form in the header.

Only model-checked:

- liveness (`Termination`, `BothEnd`, `CallsAreAnswered`, `CallsEnd`), which is out of
  the prover's reach;
- `MeansWhatItSays` and `NoNodeIsLost` of `Plural`: that a text written for an
  expression is read as that expression, and is never an error, is an induction
  over expressions.  What the text of an expression is, is written down in
  `MCCatalog`, with RECURSIVE operators, and a file is only said to have been
  written so.  Of `NoNodeIsLost`, what does not depend on the text is proved
  (`NothingBesideTheTree`: an expression that was accepted is all that is allocated);
- `MostSpecific` of `LocaleFiles`, which is not so for every set of names: the file of
  a name with a codeset and its normal form is also that of a name whose codeset
  has a "." in it, and the first is not looked for.

## Not modelled

- `lib/numconv.c`: loops over the coercions of the C types, without state.
- `lib/p_arg.c` but for `p_arg_string`: conversions of one string, whose outcomes
  are what the models of the options start from.
- `lib/oalist.c`: no program is built with it.
- `intl/localcharset.c`, `relocatable.c`, `log.c`, `os2compat.c`, `langprefs.c`, the tables
  of `localename.c`: queries of a system, tables of names, text.
- `intl/printf*.c`, `vasnprintf.c`: only built where the system's printf lacks
  numbered arguments; what they do is text.
- `gettext.c`, `dgettext.c` and their kin: each one call with fixed arguments.
- Threads: the programs have one, and the locks of the library are empty.
- `m4/`, `po/`, `doc/`, `debian/`: scripts and data.

## The plan

1. Done: the programs, the pipe between two of them, and the message library
   from the call down to the catalog file.
2. An abstract specification of interleaving without a buffer, block after
   block, and `Interleave` shown to implement it with `merged <- out \o buf`; the
   same for `Deinterleave`; the two composed: what is dealt and interleaved again
   is the input.
3. Theorems: the refinements of 2.
