----------------------------- MODULE MCRawXform -----------------------------
(***************************************************************************)
(* Small runs of rawxform: tables from options and files, in and out of    *)
(* order, with an infinite bound, NaN and equal bounds; both kinds of      *)
(* interpolation and all formats; standard input given once and twice.     *)
(* Blocks are of two numbers, an array grows by two entries or more.       *)
(***************************************************************************)
EXTENDS RawXform

CONSTANTS stdin, a, good, other, bad

Inf == 999

MCInfinite == {Inf, -Inf}

MCBeyond == {<<0, 1>>, <<3, 1>>}

MCStreams == {stdin, a}

MCData == [s \in MCStreams |-> IF s = a THEN <<1, NaN, 5, 2, 9>> ELSE <<-1, 3, 0>>]

Line(b, v) == [kind |-> "entry", entry |-> [bound |-> b, value |-> v]]
Other(k)   == [kind |-> k, entry |-> [bound |-> 0, value |-> 0]]

MCTableLines ==
    [f \in {good, other, bad} |->
        CASE f = good  -> <<Line(4, 300), Other("comment"), Line(0, -6), Line(NaN, 7)>>
          [] f = other -> <<Line(-Inf, 1), Line(2, 40)>>
          [] f = bad   -> <<Line(2, 8), Other("garbage")>>]

Opt(k, x) == [key |-> k, arg |-> x]

MCCommands ==
    {[options |-> o, files |-> f] :
        o \in {<<>>,
               <<Opt("f", good), Opt("T", "uint8")>>,
               <<Opt("I", "linear"), Opt("f", good), Opt("e", Line(7, 3)), Opt("T", "uint8")>>,
               <<Opt("f", other), Opt("I", "linear"), Opt("f", good)>>,
               <<Opt("e", Line(5, 2)), Opt("e", Line(2, 9)), Opt("t", "float")>>,
               <<Opt("e", Line(5, 2)), Opt("I", "none"), Opt("f", good), Opt("T", "float")>>,
               <<Opt("I", "linear"), Opt("e", Line(2, 2)), Opt("e", Line(2, 5)), Opt("f", other)>>,
               <<Opt("e", Line(NaN, 4)), Opt("I", "linear"), Opt("e", Line(1, 8))>>,
               <<Opt("f", good), Opt("e", Line(NaN, 4)), Opt("I", "linear"), Opt("e", Line(1, 8))>>,
               <<Opt("f", bad)>>, <<Opt("e", Other("garbage"))>>,
               <<Opt("t", "uint8")>>, <<Opt("t", "x")>>, <<Opt("T", "x")>>, <<Opt("I", "x")>>},
        f \in {<<>>, <<a>>, <<stdin, a, stdin>>}}

=============================================================================
