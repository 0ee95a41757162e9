---------------------------- MODULE MCInterleave ----------------------------
(***************************************************************************)
(* Small instances of Interleave: one to three inputs, block sizes below,  *)
(* equal to and above the buffer size and not dividing it, "-" given once  *)
(* and twice.                                                              *)
(***************************************************************************)
EXTENDS Interleave

CONSTANTS stdin, a, b

MCStreams == {stdin, a, b}

MCCommands ==
    {[noas |-> f, sizes |-> s] : f \in {<<a, b>>}, s \in {<<1, 1>>, <<2, 3>>, <<4, 1>>}}
    \cup {[noas |-> <<a>>,               sizes |-> <<2>>],
          [noas |-> <<a, stdin, b>>,     sizes |-> <<1, 2, 1>>],
          [noas |-> <<stdin, stdin>>,    sizes |-> <<1, 2>>],
          [noas |-> <<stdin, a, stdin>>, sizes |-> <<1, 1, 2>>]}

MCLengths == 0..5

=============================================================================
