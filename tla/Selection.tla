------------------------------ MODULE Selection ------------------------------
(***************************************************************************)
(* The elements of a sequence at some of its indices, in their order: what *)
(* SelectSeq computes, without the recursion that the provers cannot see   *)
(* into.                                                                   *)
(***************************************************************************)
EXTENDS Naturals, Sequences, FiniteSets

\* Which of the numbers I, in increasing order, i is.
Rank(I, i) == Cardinality({j \in I : j <= i})

Nth(I, n) == CHOOSE i \in I : Rank(I, i) = n

Pick(s, I) == [n \in 1..Cardinality(I) |-> s[Nth(I, n)]]
=============================================================================
