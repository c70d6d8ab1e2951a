-------------------------- MODULE MCSystemProcess --------------------------
(***************************************************************************)
(* Finite values for the constants of SystemProcess.                       *)
(***************************************************************************)
EXTENDS SystemProcess

CONSTANTS p1, p2

TwoPids == {p1, p2}

\* A queue that starts empty.
CleanQueue == {[creation |-> <<>>, termination |-> <<>>]}
=============================================================================
