-------------------------- MODULE DirectMessaging --------------------------
(***************************************************************************)
(* One direction of a direct chat, end to end: the Outbox of one client,   *)
(* the server between them, and the Inbox of the other.                    *)
(*                                                                         *)
(* The two clients meet in two places. What a sending task posts, the      *)
(* server keeps for the peer; the read receipt the peer posts, the server  *)
(* keeps for the sender, whose own pull hands it to ReceiveReceipt.        *)
(***************************************************************************)
EXTENDS Naturals, FiniteSets

CONSTANTS Msgs, NoMsg,
          Pumps, Cleaners, Disappearing, MaxSenderCrashes,
          Pulls, Pushes, IsIOS, ReadReceipts, MayCut, MaxReceiverCrashes

VARIABLES
  line, row, submitted, reacted, latest, tile, tileOf, sendAt, cur, timed, out,
  todo, accepted, receipt, cleanAt, prey, found, seen,
  backlog, arrived, cache, lock, pullAt, batch, rest, msg, stage, stored,
  shouldAck, acking, unread, counted, shown, connected, receiverCrashes,
  receipts,      \* read receipts the server keeps for the sender; it may hand one
                 \* over again, because the sender's acknowledgement can be lost
  senderCrashes  \* bounded by MaxSenderCrashes

O == INSTANCE Outbox WITH at <- sendAt
I == INSTANCE Inbox WITH at <- pullAt, crashes <- receiverCrashes,
                         MaxCrashes <- MaxReceiverCrashes

ASSUME CrashAssumption == MaxSenderCrashes \in Nat
ASSUME ClientAssumption == O!OutboxAssumption /\ I!InboxAssumption

senderVars == <<line, row, submitted, reacted, latest, tile, tileOf, sendAt, cur,
                timed, out, todo, accepted, receipt, cleanAt, prey, found, seen>>
receiverVars == <<backlog, arrived, cache, lock, pullAt, batch, rest, msg, stage,
                  stored, shouldAck, acking, unread, counted, shown, connected,
                  receiverCrashes>>
vars == <<senderVars, receiverVars, receipts, senderCrashes>>

Init == O!Init /\ I!Init /\ receipts = {} /\ senderCrashes = 0

SenderStep   == O!LocalStep /\ UNCHANGED <<receiverVars, receipts, senderCrashes>>
ReceiverStep == I!LocalStep /\ UNCHANGED <<senderVars, receipts, senderCrashes>>

\* The sender's process is killed, at most MaxSenderCrashes times.
SenderCrash ==
  /\ senderCrashes < MaxSenderCrashes
  /\ senderCrashes' = senderCrashes + 1
  /\ O!Crash
  /\ UNCHANGED <<receiverVars, receipts>>

\* sendObject: the server takes the message and keeps it for the peer.
Transmit(t) ==
  /\ O!PostAccepted(t)
  /\ I!Arrive(cur[t])
  /\ UNCHANGED <<receipts, senderCrashes>>

\* ReceiptSender: the server takes the peer's read receipt.
SendReceipt(m) ==
  /\ I!SendReadReceipt(m)
  /\ receipts' = receipts \cup {m}
  /\ UNCHANGED <<senderVars, senderCrashes>>

\* Mutant: every accepted message is taken to be read.
ReceiveAnyReceipt(m) ==
  /\ O!ReceiptRow(m)
  /\ UNCHANGED <<receiverVars, receipts, senderCrashes>>

\* The sender's own pull receives the receipt.
ReceiveReceipt(m) ==
  /\ m \in receipts
  /\ O!ReceiptRow(m)
  /\ UNCHANGED <<receiverVars, receipts, senderCrashes>>

Next ==
  \/ SenderStep \/ ReceiverStep \/ SenderCrash
  \/ \E t \in O!Tasks : Transmit(t)
  \/ \E m \in Msgs : SendReceipt(m) \/ ReceiveReceipt(m)

Spec == Init /\ [][Next]_vars

FairSpec == Spec /\ O!Fairness /\ I!Fairness

-----------------------------------------------------------------------------
(* What the two clients implement together *)

Claim == [journaled |-> "waiting", failed |-> "waiting", sent |-> "sent",
          read |-> "read", none |-> "none"]

D == INSTANCE Delivery WITH taken     <- O!AcceptedMsgs,
                            delivered <- stored,
                            status    <- [m \in Msgs |-> Claim[row[m]]]

\* The two clients and the server together implement Delivery: retries, lost
\* answers, duplicate copies, receipts that overtake answers, cut pulls and
\* crashes of either side never deliver what was not sent, and never show the
\* sender "sent" before the server or "read" before the peer has the message.
ImplementsDelivery == D!Spec

\* A message in the journal reaches the peer's database in the end and its row says
\* so, although a crash drops tasks and answers are lost, unless the user sees it
\* failed, it expires, its keys are gone or the peer cut the chat.
EventuallyDelivered == \A m \in Msgs :
  row[m] = "journaled" ~> \/ m \in stored /\ row[m] \in {"sent", "read"}
                          \/ row[m] \in {"failed", "none"}
                          \/ line = "keyless" \/ ~connected
=============================================================================
