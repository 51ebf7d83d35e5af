------------------------------ MODULE MCGroups ------------------------------
(* Small instances of Groups for TLC. *)
EXTENDS Groups, TLC
CONSTANTS a, b, k1, k2

\* Members and loops are interchangeable.
Symmetry == Permutations(Members) \cup Permutations(Loops)
=============================================================================
