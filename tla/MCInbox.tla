------------------------------ MODULE MCInbox ------------------------------
(* Small instances of Inbox for TLC. *)
EXTENDS Inbox, TLC

\* Messages, pulls and pushes are interchangeable (safety runs only).
Symmetry == Permutations(Msgs) \cup Permutations(Pulls) \cup Permutations(Pushes)
=============================================================================
