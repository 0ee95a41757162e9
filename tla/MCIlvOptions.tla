---------------------------- MODULE MCIlvOptions ----------------------------
(***************************************************************************)
(* Command lines of at most three options, in every order, and three files. *)
(***************************************************************************)
EXTENDS IlvOptions

CONSTANTS a, b, c

SizeLists == {<< >>, <<2>>, <<0>>, <<3, 1>>, <<2, 0>>, <<1, 2, 3, 4>>}

MCOptions == {[key |-> k, arg |-> << >>] : k \in {"i", "o"}}
                 \cup {[key |-> "s", arg |-> l] : l \in SizeLists}

MCFiles == {<< >>, <<a>>, <<a, b>>, <<a, b, c>>, <<a, b, c, a, b>>}

MCCommandLines ==
    [options : UNION {[1..n -> MCOptions] : n \in 0..3}, files : MCFiles]

=============================================================================
