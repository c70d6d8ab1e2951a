----------------------- MODULE MCSecureProcessManager -----------------------
(***************************************************************************)
(* Finite values for the constants of SecureProcessManager.                *)
(***************************************************************************)
EXTENDS SecureProcessManager, TLC

CONSTANTS p1, p2, p3, stranger

OnePid == {p1}
TwoPids == {p1, p2}
ThreePids == {p1, p2, p3}
PidsAndStranger == {p1, p2, p3, stranger}

Left(creation, termination) == [creation |-> creation, termination |-> termination]

\* A queue that starts empty.
CleanQueue == {Left(<<>>, <<>>)}

\* A queue that may hold the first message of a child of an earlier run.
StrayQueue == {Left(<<>>, <<>>), Left(<<stranger>>, <<>>)}

\* A queue that may hold the last message of a child of an earlier run.
StaleQueue == {Left(<<>>, <<>>), Left(<<>>, <<stranger>>)}

Symmetry == Permutations(ThreePids)
SymmetryOfTwo == Permutations(TwoPids)
=============================================================================
