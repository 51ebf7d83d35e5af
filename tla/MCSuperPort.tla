---------------------------- MODULE MCSuperPort ----------------------------
(* Small instances of SuperPort for TLC. *)
EXTENDS SuperPort, TLC
CONSTANTS l0, l1, l2, a, b

\* The line of an earlier chat with the first peer, and a new one for either peer.
Readers == (l0 :> a) @@ (l1 :> a) @@ (l2 :> b)

\* Loops are interchangeable.
Symmetry == Permutations(Loops)
=============================================================================
