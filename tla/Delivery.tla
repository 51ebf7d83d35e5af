------------------------------ MODULE Delivery ------------------------------
(***************************************************************************)
(* What a direct chat promises, without saying how: a message the user     *)
(* submits may be taken by the server, then be delivered to the peer, and  *)
(* what the sender is shown about it never claims more than has happened.  *)
(***************************************************************************)
CONSTANT Msgs

VARIABLES
  submitted,  \* messages the user sent
  taken,      \* messages the server took
  delivered,  \* messages in the peer's database
  status      \* what the sender's own database says of each message

vars == <<submitted, taken, delivered, status>>

Init ==
  /\ submitted = {} /\ taken = {} /\ delivered = {}
  /\ status = [m \in Msgs |-> "none"]

Submit(m) ==
  /\ m \notin submitted
  /\ submitted' = submitted \cup {m}
  /\ status' = [status EXCEPT ![m] = "waiting"]
  /\ UNCHANGED <<taken, delivered>>

Take(m) ==
  /\ m \in submitted
  /\ taken' = taken \cup {m}
  /\ UNCHANGED <<submitted, delivered, status>>

Deliver(m) ==
  /\ m \in taken
  /\ delivered' = delivered \cup {m}
  /\ UNCHANGED <<submitted, taken, status>>

\* The status may go back to waiting (an answer was lost) and from read to sent
\* (an answer came late), but it never runs ahead.
Report(m) ==
  /\ status[m] # "none"
  /\ \E s \in {"waiting", "sent", "read"} :
       /\ s = "sent" => m \in taken
       /\ s = "read" => m \in delivered
       /\ status' = [status EXCEPT ![m] = s]
  /\ UNCHANGED <<submitted, taken, delivered>>

\* The message expires or its sender deletes it: the sender no longer keeps it.
Withdraw(m) ==
  /\ status' = [status EXCEPT ![m] = "none"]
  /\ UNCHANGED <<submitted, taken, delivered>>

Next == \E m \in Msgs :
  Submit(m) \/ Take(m) \/ Deliver(m) \/ Report(m) \/ Withdraw(m)

Spec == Init /\ [][Next]_vars
=============================================================================
