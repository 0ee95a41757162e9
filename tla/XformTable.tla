----------------------------- MODULE XformTable -----------------------------
(***************************************************************************)
(* The transformation table of rawxform (src/lib/xform.c): entries of a    *)
(* left bound and a value, looked up by bisection, with precomputed        *)
(* coefficients when interpolation is on.  There is an action for each     *)
(* function of xform.h; their loops take a step for each turn.  Who calls  *)
(* them is XformClient or RawXform.                                        *)
(*                                                                         *)
(* A double is an integer or NaN; what arithmetic makes is a fraction      *)
(* <<p, q>>, with <<0, 0>> for NaN and <<p, 0>> for an infinity.           *)
(***************************************************************************)
EXTENDS Integers, Sequences, SequencesExt

CONSTANTS
    NaN,
    Infinite,   \* the integers that stand for the infinities
    MinGrow,    \* min_grow: an array grows by at least as much
    Beyond      \* what may be found past the end of the coefficients

ASSUME NaNAssumption == NaN \notin Int

ASSUME GrowAssumption == MinGrow \in Nat \ {0}

ASSUME BeyondAssumption == Infinite \subseteq Int /\ Beyond \subseteq Int \X Int

Double == Int \cup {NaN}

\* Entries as they are given, and as they are stored.
Given == [bound : Double, value : Int]
Entry == [bound : Int, value : Int]

VARIABLES
    ents,           \* the entries, up to size
    alloc,          \* the space for them
    nan_value,      \* NaN maps to this
    range_value,    \* a value less than the least bound maps to this
    l_coefs,        \* coefficients; << >> is the null pointer
    sorted_p,       \* a flag that is set and never read
    src,            \* what xform_table_append has still to copy; between
                    \* calls this and its other locals are at rest
    empty_p,        \* the table was empty when it was called
    from,           \* the double being transformed
    l, r,           \* the entries the bisection is between
    to,             \* the outcome
    pc

table   == <<ents, alloc, nan_value, range_value, l_coefs, sorted_p>>
copying == <<src, empty_p>>
lookup  == <<from, l, r, to>>
table_vars == <<table, copying, lookup, pc>>

size == Len(ents)

\* NaN and out-of-range values map to NaN by default.
xform_table_alloc(n) ==
    /\ ents = << >> /\ alloc = n
    /\ nan_value = NaN /\ range_value = NaN
    /\ l_coefs = << >> /\ sorted_p = TRUE
    /\ src = << >> /\ empty_p = TRUE
    /\ from = NaN /\ l = 0 /\ r = 0 /\ to = <<0, 0>>
    /\ pc = "idle"

Fraction(x) == IF x = NaN THEN <<0, 0>> ELSE <<x, 1>>

-----------------------------------------------------------------------------
(* Filling the table.                                                      *)

Fits(n) == size + n <= alloc

Grown_TooLittle(n) == alloc + MinGrow   \* mutant: what is wanted is ignored
Grown(n) == IF size + n > alloc + MinGrow THEN size + n ELSE alloc + MinGrow

\* Room is made for all the list, and growing drops the coefficients.
AppendBegin(es) ==
    /\ pc = "idle"
    /\ src' = es /\ empty_p' = (size = 0)
    /\ IF Fits(Len(es))
         THEN UNCHANGED <<alloc, l_coefs>>
         ELSE alloc' = Grown(Len(es)) /\ l_coefs' = << >>
    /\ pc' = "append"
    /\ UNCHANGED <<ents, nan_value, range_value, sorted_p, lookup>>

\* No memory: the table stays as it is, and the caller is told.
AppendFails(es) ==
    /\ pc = "idle" /\ ~Fits(Len(es))
    /\ UNCHANGED table_vars

AppendNaN ==
    /\ pc = "append" /\ src # << >> /\ Head(src).bound = NaN
    /\ nan_value' = Head(src).value
    /\ src' = Tail(src)
    /\ UNCHANGED <<ents, alloc, range_value, l_coefs, sorted_p, empty_p, lookup, pc>>

\* empty_p is never reset: while the table was empty at the call, no order
\* is looked at.
AppendEntry ==
    /\ pc = "append" /\ src # << >> /\ Head(src).bound # NaN
    /\ ents' = Append(ents, Head(src))
    /\ sorted_p' = (sorted_p /\ (empty_p \/ Head(src).bound >= ents[size].bound))
    /\ src' = Tail(src)
    /\ UNCHANGED <<alloc, nan_value, range_value, l_coefs, empty_p, lookup, pc>>

AppendEnd ==
    /\ pc = "append" /\ src = << >>
    /\ empty_p' = TRUE
    /\ pc' = "idle"
    /\ UNCHANGED <<table, src, lookup>>

\* xform_table_clear: the size only.
Clear ==
    /\ pc = "idle"
    /\ ents' = << >>
    /\ UNCHANGED <<alloc, nan_value, range_value, l_coefs, sorted_p, copying, lookup, pc>>

NanSet(v) ==
    /\ pc = "idle"
    /\ nan_value' = v
    /\ UNCHANGED <<ents, alloc, range_value, l_coefs, sorted_p, copying, lookup, pc>>

OorSet(v) ==
    /\ pc = "idle"
    /\ range_value' = v
    /\ UNCHANGED <<ents, alloc, nan_value, l_coefs, sorted_p, copying, lookup, pc>>

-----------------------------------------------------------------------------
(* Interpolation.                                                          *)

Sorted(es) == \A i \in 1..(Len(es) - 1) : es[i].bound <= es[i + 1].bound

\* What qsort may leave: the order of equal bounds is its own.
Orders == {f \in [1..size -> 1..size] :
              /\ \A i, j \in 1..size : f[i] = f[j] => i = j
              /\ Sorted([i \in 1..size |-> ents[f[i]]])}

\* The slope at the left of entry i + 1, as a fraction.
Coef(es, i) ==
    IF es[i].bound \in Infinite \/ es[i + 1].bound \in Infinite THEN <<0, 1>>
    ELSE <<es[i + 1].value - es[i].value, es[i + 1].bound - es[i].bound>>

Coefs(es) == [i \in 1..(Len(es) - 1) |-> Coef(es, i)]

\* xform_table_linear_interp; nothing is done if there are coefficients.
LinearInterp ==
    /\ pc = "idle" /\ l_coefs = << >> /\ size >= 2
    /\ \E f \in Orders : ents' = [i \in 1..size |-> ents[f[i]]]
    /\ l_coefs' = Coefs(ents')
    /\ UNCHANGED <<alloc, nan_value, range_value, sorted_p, copying, lookup, pc>>

\* One point is no line, and memory may run out.
LinearInterpFails ==
    /\ pc = "idle" /\ l_coefs = << >>
    /\ UNCHANGED table_vars

NoInterp ==
    /\ pc = "idle"
    /\ l_coefs' = << >>
    /\ UNCHANGED <<ents, alloc, nan_value, range_value, sorted_p, copying, lookup, pc>>

-----------------------------------------------------------------------------
(* xform_table_apply and xform_table_search, for one double.               *)

Found(i) == l' = i /\ pc' = "found" /\ UNCHANGED <<r, to>>

\* An empty table maps all but NaN to itself.
ApplyBegin(v) ==
    /\ pc = "idle"
    /\ from' = v
    /\ \/ /\ v = NaN \/ size = 0
          /\ to' = Fraction(IF v = NaN THEN nan_value ELSE v)
          /\ pc' = "done" /\ UNCHANGED <<l, r>>
       \/ /\ v # NaN /\ size > 0 /\ v < ents[1].bound
          /\ to' = Fraction(range_value)
          /\ pc' = "done" /\ UNCHANGED <<l, r>>
       \/ /\ v # NaN /\ size > 0 /\ v >= ents[1].bound
          /\ IF v >= ents[size].bound
               THEN Found(size)
               ELSE l' = 1 /\ r' = size /\ pc' = "search" /\ UNCHANGED to
    /\ UNCHANGED <<table, copying>>

centre == l + (r - l) \div 2

Bisect_Swapped ==   \* mutant: the halves are swapped
    /\ pc = "search" /\ r - l > 1
    /\ IF from <= ents[centre].bound THEN l' = centre /\ UNCHANGED r
                                     ELSE r' = centre /\ UNCHANGED l
    /\ UNCHANGED <<table, copying, from, to, pc>>

\* A value that equals a bound goes to the left of it.
Bisect ==
    /\ pc = "search" /\ r - l > 1
    /\ IF from > ents[centre].bound THEN l' = centre /\ UNCHANGED r
                                    ELSE r' = centre /\ UNCHANGED l
    /\ UNCHANGED <<table, copying, from, to, pc>>

BisectEnd ==
    /\ pc = "search" /\ r - l <= 1
    /\ Found(l)
    /\ UNCHANGED <<table, copying, from>>

OnLine_NoOrigin(m) ==   \* mutant: the bound is not subtracted
    <<ents[l].value * m[2] + m[1] * from, m[2]>>

\* left->value + m * (v - left->bound), where m is not zero.
OnLine(m) ==
    IF m[1] = 0 /\ m[2] # 0
      THEN <<ents[l].value, 1>>
      ELSE <<ents[l].value * m[2] + m[1] * (from - ents[l].bound), m[2]>>

\* There are coefficients for all entries but the last.
MapFound ==
    /\ pc = "found"
    /\ \/ l_coefs = << >> /\ to' = <<ents[l].value, 1>>
       \/ l \in DOMAIN l_coefs /\ to' = OnLine(l_coefs[l])
       \/ /\ l_coefs # << >> /\ l \notin DOMAIN l_coefs
          /\ \E m \in Beyond : to' = OnLine(m)
    /\ pc' = "done"
    /\ UNCHANGED <<table, copying, from, l, r>>

Return ==
    /\ pc = "done"
    /\ from' = NaN /\ l' = 0 /\ r' = 0 /\ to' = <<0, 0>>
    /\ pc' = "idle"
    /\ UNCHANGED <<table, copying>>

-----------------------------------------------------------------------------
(* Properties.                                                             *)

\* The state is well formed: entries are stored only where there is room,
\* NaN is never one of them (xform.c:242-271), and there are never more
\* coefficients than room for entries, growing having dropped them
\* (xform.c:198).
TableTypeOK ==
    /\ ents \in Seq(Entry) /\ alloc \in Nat /\ size <= alloc
    /\ nan_value \in Double /\ range_value \in Double
    /\ l_coefs \in Seq(Int \X Int) /\ Len(l_coefs) <= alloc
    /\ sorted_p \in BOOLEAN /\ empty_p \in BOOLEAN
    /\ src \in Seq(Given)
    /\ from \in Double /\ l \in Nat /\ r \in Nat /\ to \in Int \X Int
    /\ pc \in {"idle", "append", "search", "found", "done"}

\* The bisection stays within the table and closes in on the value, whether
\* the table is sorted or not: what it finds is an entry whose bound the value
\* reaches and whose successor's bound the value does not exceed
\* (xform.c:287-305).
LookupBrackets ==
    /\ pc = "search" =>
           /\ 1 <= l /\ l < r /\ r <= size
           /\ ents[l].bound <= from /\ from <= ents[r].bound
    /\ pc = "found" =>
           /\ l \in 1..size /\ ents[l].bound <= from
           /\ l < size => from <= ents[l + 1].bound

\* The interval of the table that a value belongs to, with left bounds
\* inclusive.
Strict(es) == \A i \in 1..(Len(es) - 1) : es[i].bound < es[i + 1].bound
Interval(v) == {i \in 1..size : /\ ents[i].bound <= v
                                /\ i < size => v < ents[i + 1].bound}

\* The point (v, w) is on the line through entries i and i + 1.
IsOnLine(v, w, i) ==
    /\ w[2] # 0
    /\ (w[1] - ents[i].value * w[2]) * (ents[i + 1].bound - ents[i].bound)
           = (ents[i + 1].value - ents[i].value) * (v - ents[i].bound) * w[2]

Finite(i) == ents[i].bound \notin Infinite

\* A value in interval i is not interpolated; it is interpolated between two
\* finite bounds, and if it is a bound the line to its left ends there.
Flat(v, i) == l_coefs = << >> /\ (v # ents[i].bound \/ i \in {1, size})
Sloped(v, i) ==
    /\ i < size /\ l_coefs = Coefs(ents)
    /\ Finite(i) /\ Finite(i + 1)
    /\ v = ents[i].bound => i = 1 \/ Finite(i - 1)

\* What README, "Transformation tables", says of a value v and its outcome w,
\* for a table in order: NaN is mapped apart, a value between two bounds to the
\* value of the left one or, where coefficients belong to the table, to the line
\* between them; and without a table a value stays what it is.
\* Three cases are left out: values below the table, which README:117-119 has
\* mapped to -inf by default and xform.c:76 to NaN; what a bound itself is
\* mapped to without a line on its left (see LeftBoundInclusive); and, with
\* coefficients, all from the last bound on (xform.c:361-364: there is no
\* coefficient to read).
IsDocumented(v, w) ==
    /\ v = NaN => w = Fraction(nan_value)
    /\ v # NaN /\ size = 0 => w = Fraction(v)
    /\ v # NaN /\ size > 0 /\ Strict(ents) =>
        \A i \in Interval(v) :
            /\ Flat(v, i) => w = <<ents[i].value, 1>>
            /\ Sloped(v, i) => IsOnLine(v, w, i)

\* NaN, and a value within the table, has the outcome that README says: after
\* entries have been added in several pieces and in any order, sorted, cleared,
\* interpolated or not, the value is mapped by the interval that it is in
\* (xform.c:285-367).  Values below the table are left out.
MapsAsDocumented == pc = "done" => IsDocumented(from, to)

\* README: a left bound is inclusive.
LeftBoundInclusive ==
    pc = "done" /\ from # NaN /\ l_coefs = << >> /\ Strict(ents) =>
        \A i \in Interval(from) : to = <<ents[i].value, 1>>
=============================================================================
