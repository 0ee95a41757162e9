--------------------------- MODULE MCDeinterleave ---------------------------
(***************************************************************************)
(* Small instances of Deinterleave: one to three outputs, block sizes      *)
(* below, equal to and above the buffer size, standard output given once   *)
(* and twice, inputs of zero to more than two rounds.                      *)
(***************************************************************************)
EXTENDS Deinterleave

CONSTANTS stdout, a, b

MCStreams == {stdout, a, b}

MCCommands ==
    {[noas |-> <<a, b>>, sizes |-> s] :
         s \in {<<1, 1>>, <<2, 3>>, <<4, 1>>, <<2, 7>>}}
    \cup {[noas |-> <<a>>,                 sizes |-> <<2>>],
          [noas |-> <<a, stdout, b>>,      sizes |-> <<1, 2, 1>>],
          [noas |-> <<a, stdout, b>>,      sizes |-> <<3, 1, 5>>],
          [noas |-> <<stdout, stdout>>,    sizes |-> <<1, 2>>],
          [noas |-> <<stdout, a, stdout>>, sizes |-> <<2, 4, 1>>]}

MCLengths == 0..20

=============================================================================
