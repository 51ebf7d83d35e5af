----------------------------- MODULE MCPortUse -----------------------------
(* Small instances of PortUse for TLC. *)
EXTENDS PortUse, TLC
CONSTANTS t1, t2, p1, p2
\* Each task has a port of its own.
OwnPorts == t1 :> p1 @@ t2 :> p2
=============================================================================
