---------------------------- MODULE MCXformTable ----------------------------
(***************************************************************************)
(* Tables of at most four entries, with equal bounds, an infinite one and  *)
(* NaN, from lists of one and two, in and out of order; values between,    *)
(* on and outside the bounds.  An array grows by two entries or more.      *)
(***************************************************************************)
EXTENDS XformClient

Inf == 99

MCInfinite == {Inf, -Inf}

e(b, v) == [bound |-> b, value |-> v]

MCLists ==
    {<<x>> : x \in {e(NaN, 9), e(-Inf, 1), e(2, 0)}}
        \cup {<<e(6, 4), e(2, 8)>>, <<e(0, 5), e(2, 8), e(6, 4)>>}

MCValues == {NaN, -1, 0, 1, 2, 7}

MCSettings == {9}

MCAllocs == {0}

MCBeyond == {<<0, 1>>, <<3, 1>>}

=============================================================================
