----------------------------- MODULE MCCatalog -----------------------------
(***************************************************************************)
(* Catalogs of four messages and system dependent ones, of either byte     *)
(* order, with a hash table of five or seven places or none, of each kind  *)
(* of revision; files that are none; and every expression of two operators *)
(* with the header that it is written in.                                  *)
(***************************************************************************)
EXTENDS Catalog

MCPRI == [x \in {"PRI"} \X Conversions \X Sizes |-> IF x[2] = "d" THEN <<100>> ELSE <<108, 105>>]
MCNumerals == "0" :> <<0>> @@ "1" :> <<1>> @@ "2" :> <<2>> @@ "3" :> <<3>> @@ "4" :> <<4>>
              @@ "10" :> <<1, 0>> @@ "17" :> <<1, 7>>

-----------------------------------------------------------------------------
(* How an expression is written: each operator in parentheses where its    *)
(* place asks for one that binds closer.                                   *)

Rank(op) == CASE op \in {"var", "num"} -> 9 [] op = "lnot" -> 8
              [] op \in {"mult", "divide", "module"} -> 7 [] op \in {"plus", "minus"} -> 6
              [] op \in {"less_than", "greater_than", "less_or_equal", "greater_or_equal"} -> 5
              [] op \in {"equal", "not_equal"} -> 4 [] op = "land" -> 3 [] op = "lor" -> 2
              [] op = "qmop" -> 1
Sign(op) == CHOOSE l \in DOMAIN OpOf : OpOf[l] = op
Numeral(v) == CHOOSE l \in DOMAIN MCNumerals : Len(MCNumerals[l]) = 1 /\ MCNumerals[l] = <<v>>

RECURSIVE Written(_, _)
Written(e, r) ==
    LET k == Rank(e[1])
        body ==
            CASE e[1] = "var"  -> <<"n">>
              [] e[1] = "num"  -> <<Numeral(e[2])>>
              [] e[1] = "lnot" -> <<"!">> \o Written(e[2], 8)
              [] e[1] = "qmop" -> Written(e[2], 2) \o <<"?">> \o Written(e[3], 1) \o <<":">> \o Written(e[4], 1)
              [] OTHER         -> Written(e[2], k) \o <<Sign(e[1])>> \o Written(e[3], k + 1)
    IN  IF k < r THEN <<"(">> \o body \o <<")">> ELSE body

Leaves == {<<"var">>, <<"num", 2>>}
Ops == {"lor", "land", "equal", "less_than", "minus", "module"}
Over(es, fs) ==
    {<<"lnot", e>> : e \in es} \cup {<<op, e, f>> : op \in Ops, e \in es, f \in fs}
    \cup {<<"qmop", e, f, <<"var">>>> : e \in es, f \in fs}
Small == Over({<<"var">>}, {<<"num", 2>>})
Exprs == Over(Small, Leaves) \cup Over(Leaves, Small)
         \cup {<<"qmop", <<"var">>, <<"num", 1>>, e>> : e \in Small}

\* As the parser builds it.
RECURSIVE Built(_)
Built(e) ==
    IF e[1] = "num" THEN <<Num(e[2])>>
    ELSE Expression(e[1], [j \in 1..(Len(e) - 1) |-> Built(e[j + 1])])

Fields(e, k) == [plural |-> Written(e, 1) \o <<";">>, nplurals |-> k, means |-> Built(e)]

\* A form for one, one for a few, and one for the others.
Slavic == <<"qmop", <<"equal", <<"var">>, <<"num", 1>>>>, <<"num", 0>>,
            <<"qmop", <<"land", <<"greater_or_equal", <<"var">>, <<"num", 2>>>>,
                                <<"less_or_equal", <<"var">>, <<"num", 4>>>>>>, <<"num", 1>>, <<"num", 2>>>>>>
SlavicFields(k) ==
    Fields(Slavic, k) @@ [forms |-> [n \in {1, 3, 7} |-> IF n = 1 THEN 0 ELSE IF n = 3 THEN 1 ELSE
                                                         IF k = "2" THEN 0 ELSE 2]]

\* n % (n - 1).
Divides == Fields(<<"module", <<"var">>, <<"minus", <<"var">>, <<"num", 1>>>>>>, "4")

Headers ==
    {Fields(e, "3") : e \in Exprs}
    \cup {[charset |-> 1], [plural |-> <<"n">>], [plural |-> <<"n">>, nplurals |-> "two"],
          [plural |-> <<"n", "=", "1">>, nplurals |-> "2"], [plural |-> <<"n", "!=">>, nplurals |-> "2"],
          [plural |-> <<"(", "n", "?", "17", ")">>, nplurals |-> "10"],
          [plural |-> <<"n", "1">>, nplurals |-> "2"], [plural |-> <<";">>, nplurals |-> "1"],
          [plural |-> [k \in 1..24 |-> "("], nplurals |-> "2"]}

-----------------------------------------------------------------------------
(* The file as its writer leaves it, on a machine whose unsigned long has  *)
(* the width of a hash value.                                              *)

WriterHash(s) ==
    FoldLeft(LAMBDA h, c :
        LET hval == ((h * 16) + c) % 4096
            g    == hval \div 256
            half == (hval \div 16) % 16
        IN  (hval % 256) + 16 * (XorOfHalves[half][g] - half), 0, s)

RECURSIVE FreePlace(_, _, _)
FreePlace(t, x, step) == IF t[x + 1] = 0 THEN x ELSE FreePlace(t, (x + step) % Len(t), step)

WriterTable(ids, size) ==
    FoldLeft(LAMBDA t, k :
        LET h == WriterHash(ids[k]) IN [t EXCEPT ![FreePlace(t, h % size, 1 + (h % (size - 2))) + 1] = k],
        [x \in 1..size |-> 0], [k \in DOMAIN ids |-> k])

Static == <<[orig |-> <<>>, trans |-> <<9, 9>>],
            [orig |-> <<1, 0, 1, 2>>, trans |-> <<7, 0, 8, 0, 9>>],
            [orig |-> <<1, 2>>, trans |-> <<5>>],
            [orig |-> <<255, 255, 210, 3>>, trans |-> <<6>>]>>
Ids == [k \in DOMAIN Static |-> CString(Static[k].orig)]

Ref(s, r) == [static |-> s, ref |-> r]
Sys == <<[orig |-> <<Ref(<<4>>, 0), Ref(<<3>>, None)>>, trans |-> <<Ref(<<>>, 0), Ref(<<1>>, None)>>],
         [orig |-> <<Ref(<<4>>, 1), Ref(<<>>, None)>>, trans |-> <<Ref(<<>>, 1), Ref(<<1>>, None)>>],
         [orig |-> <<Ref(<<255, 255, 210>>, None)>>, trans |-> <<Ref(<<2>>, 2), Ref(<<>>, None)>>]>>
Segments == <<[name |-> <<"PRI", "d", <<"LEAST", 16>>>>, terminated |-> TRUE],
              [name |-> <<"PRI", "d", <<"", 24>>>>, terminated |-> TRUE],
              [name |-> <<"I">>, terminated |-> TRUE]>>

Swap(swapped, x) == IF swapped THEN -x ELSE x
NewFile(swapped, size, minor, sysdep, segments, header_) ==
    [filename |-> TRUE, exists |-> TRUE, size |-> "ok", magic |-> IF swapped THEN "swapped" ELSE "native",
     major |-> 0, minor |-> minor, nstrings |-> Swap(swapped, Len(Static)), strings |-> Static,
     hash_size |-> Swap(swapped, size),
     hash_tab |-> IF size > 2 THEN LET t == WriterTable(Ids, size) IN [k \in DOMAIN t |-> Swap(swapped, t[k])]
                  ELSE << >>,
     segments |-> segments, sysdep |-> sysdep, header |-> header_]

Plain(h) == NewFile(FALSE, 0, 0, <<>>, <<>>, h)
Good == {NewFile(sw, 5, 0, <<>>, <<>>, SlavicFields("3")) : sw \in BOOLEAN}
        \cup {NewFile(sw, 7, 1, Sys, Segments, SlavicFields("3")) : sw \in BOOLEAN}
Odd == {Plain(SlavicFields("2")), Plain(SlavicFields("17")), Plain(Divides),
        NewFile(FALSE, 0, 1, Sys, Segments, [charset |-> 1]),
        NewFile(TRUE, 7, 1, Sys, SubSeq(Segments, 1, 1), [charset |-> 1]),
        NewFile(FALSE, 7, 1, SubSeq(Sys, 2, 2), Segments, [charset |-> 1]),
        NewFile(FALSE, 7, 1, Sys, [Segments EXCEPT ![3].terminated = FALSE], [charset |-> 1]),
        [NewFile(FALSE, 5, 0, <<>>, <<>>, [charset |-> 1]) EXCEPT
            !.strings = Tail(@), !.nstrings = 3, !.hash_tab = WriterTable(Tail(Ids), 5)],
        [Plain([charset |-> 1]) EXCEPT !.major = 2], [Plain([charset |-> 1]) EXCEPT !.magic = "other"],
        [Plain([charset |-> 1]) EXCEPT !.size = "short"], [Plain([charset |-> 1]) EXCEPT !.exists = FALSE],
        [Plain([charset |-> 1]) EXCEPT !.filename = FALSE]}

MCCatalogFiles == {Plain(h) : h \in Headers} \cup Good \cup Odd

MCQueries == {[id |-> m, n |-> k, from |-> "caller"] :
    m \in {<<1>>, <<1, 2>>, <<2>>, <<255, 255, 210, 3>>, <<4, 100, 3>>, <<255, 255, 210>>}, k \in {1, 3, 7}}
=============================================================================
