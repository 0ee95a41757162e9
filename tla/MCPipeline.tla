----------------------------- MODULE MCPipeline -----------------------------
(***************************************************************************)
(* Small pipelines: matrices of one row to three, given by -m and as an    *)
(* argument, with --trailing-1 and -s before and after them, short, long   *)
(* and broken lists, vectors cut off by the end of a file, standard input  *)
(* twice; and a reader with inputs of its own beside the pipe.  A block of *)
(* the reader is two numbers.                                              *)
(***************************************************************************)
EXTENDS Pipeline

CONSTANTS stdin, a, none, pipe, b

MCStreams == {stdin, a}
MCData == [s \in MCStreams |-> IF s = a THEN <<2, -1, 3>> ELSE <<1, 4, -2, 5>>]

Arg(elts, end, file) == [elts |-> elts, end |-> end, file |-> file]
M(elts)  == Arg(elts, "nul", none)
Dash     == Arg(<< >>, "junk", stdin)
FileA    == Arg(<< >>, "junk", a)

Opt(k, x) == [key |-> k, arg |-> x]
OptM(elts) == Opt("m", M(elts))
Trailing   == Opt("trailing-1", 0)

MCCommands ==
    {[options |-> c[1], args |-> c[2]] : c \in {
        <<<<>>,                               <<M(<<1, -2, 3, 1>>), Dash, FileA, Dash>>>>,
        <<<<OptM(<<1, 2, 3, 4>>), Trailing>>, <<FileA>>>>,
        <<<<OptM(<<3>>), Trailing>>,          <<>>>>,
        <<<<Trailing, OptM(<<2, 1, -1, 1, 0, 3>>)>>, <<FileA, Dash>>>>,
        <<<<Opt("s", 1), Trailing>>,          <<M(<<-1, 7>>), FileA>>>>,
        <<<<OptM(<<5>>), Opt("s", 2), OptM(<<1, 1, 0, 2>>), Opt("o", 0)>>, <<Dash, M(<<1>>)>>>>,
        <<<<Opt("s", 2)>>,                    <<M(<<1, 2, 3, 4, 5, 6>>)>>>>,
        <<<<Trailing>>,                       <<M(<<1, 2, 3, 4>>)>>>>,
        <<<<Opt("o", 0)>>,                    <<Arg(<<1, 2>>, "junk", none)>>>>,
        <<<<Opt("o", 0), OptM(<<1, 2, 3, 4, 5, 6, 7, 8, 9>>)>>, <<FileA>>>>,
        <<<<Opt("s", 0)>>,                    <<M(<<1>>)>>>>,
        <<<<>>,                               <<>>>>}}

MCSize == [f \in {"uint8", "uint16", "double"} |-> IF f = "uint8" THEN 1 ELSE 2]
MCRangeStreams == {pipe, b}
MCRangeData == [s \in {b} |-> <<NaN, 4, -9>>]

Double == {"double"}
MCRangeCommands ==
    {[options |-> <<Double>>, files |-> <<pipe>>],
     [options |-> <<{"uint8", "uint16"}>>, files |-> <<pipe>>],
     [options |-> <<Double>>, files |-> <<pipe, b, pipe>>],
     [options |-> <<{}, Double>>, files |-> <<>>],
     [options |-> <<{"uint8"}, Double>>, files |-> <<b, pipe>>],
     [options |-> <<>>, files |-> <<b, none>>]}

MCNoise == {0, 77}

=============================================================================
