------------------------------ MODULE MCCalls ------------------------------
(* Small instances of Calls for TLC. *)
EXTENDS Calls, TLC

CONSTANTS c1, c2

\* Calls are interchangeable.
Symmetry == Permutations(CallIds)
=============================================================================
