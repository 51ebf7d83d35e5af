-------------------------- MODULE MCMessageChanges --------------------------
(* Small instances of MessageChanges for TLC. *)
EXTENDS MessageChanges, TLC

\* Changes are interchangeable (safety runs only).
Symmetry == Permutations(Changes)
=============================================================================
