------------------------------ MODULE MCOutbox ------------------------------
(* Small instances of Outbox for TLC. *)
EXTENDS Outbox, TLC

\* Messages of one kind are interchangeable, and so are pumps and cleaners.
Symmetry == Permutations(Disappearing) \cup Permutations(Msgs \ Disappearing)
              \cup Permutations(Pumps) \cup Permutations(Cleaners)
=============================================================================
