-------------------------- MODULE MCRequestCutover --------------------------
(* Instances of RequestCutover for TLC: one request that creates a row, one *)
(* that deletes one, and controllers that may follow each other.            *)
EXTENDS RequestCutover, TLC

CONSTANTS r1, r2, c1, c2

MCSize == [r \in Requests |-> 1]

\* Controllers are interchangeable: each runs the same command once.
MCSymmetry == Permutations(Controllers)

=============================================================================
