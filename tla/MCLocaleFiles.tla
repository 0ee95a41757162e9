--------------------------- MODULE MCLocaleFiles ---------------------------
(***************************************************************************)
(* Two or three searches for a few names: with a codeset that has another  *)
(* normal name, with a modifier, with CEN parts, an alias in other letters *)
(* and one that two files give; small tables that have to grow.            *)
(***************************************************************************)
EXTENDS LocaleFiles, TLC

CONSTANTS none, utf, euro, cen, german, German, deutsch, unknown

MCTokens == <<"end", "+", ",", "-", ".", "/", "8", "@", "D", "U", "_",
              "a", "de", "dir", "iso", "r", "u", "x">>
MCRank == [t \in {MCTokens[i] : i \in 1..Len(MCTokens)} |->
              CHOOSE i \in 1..Len(MCTokens) : MCTokens[i] = t]

MCSpelling == utf    :> <<"de", "_", "D", ".", "U", "-", "8">>
           @@ euro   :> <<"de", "_", "D", "@", "a">>
           @@ cen    :> <<"de", "+", "a", "_", "r">>
           @@ German :> <<"x", "u">>
           @@ deutsch :> <<"x", "8">>
           @@ unknown :> <<"_", "a">>

MCAlphas == {"U", "u", "a"}
MCDigits == {"8"}
MCLower  == [c \in MCAlphas |-> IF c = "U" THEN "u" ELSE c]

MCFold == [n \in DOMAIN MCSpelling \cup {german} |->
              IF n = deutsch THEN 1 ELSE IF n \in {german, German} THEN 2
              ELSE IF n = utf THEN 3 ELSE IF n = euro THEN 4 ELSE IF n = cen THEN 5 ELSE 6]
MCPath == << << <<>>, <<german, utf>>, <<deutsch, euro>> >>,
             << >>,
             << <<German, euro>>, <<>>, <<deutsch, cen>>, <<euro>>, <<cen, euro>> >> >>

File(n) == <<"dir", "/">> \o n \o <<"/", "end">>
MCCatalogSets ==
    {{File(<<"de">>), File(<<"de", "_", "D", ".", "u", "8">>), File(<<"de", "@", "a">>)},
     {File(<<"de", "+", "a">>), File(<<"de", ",", "_", "r">>), File(<<"de", ".", "U", "-", "8">>),
      File(<<"de", "_", "D">>)},
     {File(<<"de", "_", "D", "+", "a">>), File(<<"de", "@", "a">>), File(<<"_", "a">>)}}
=============================================================================
