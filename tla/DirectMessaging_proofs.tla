----------------------- MODULE DirectMessaging_proofs -----------------------
(***************************************************************************)
(* The two clients and the server implement Delivery, for any messages,    *)
(* pumps, pulls, pushes and crashes. What is known of each client alone is *)
(* cited from its own proofs: every step of the composition is a step of   *)
(* the client, or leaves it alone.                                         *)
(***************************************************************************)
EXTENDS DirectMessaging, TLAPS

OP == INSTANCE Outbox_proofs WITH at <- sendAt
IP == INSTANCE Inbox_proofs WITH at <- pullAt, crashes <- receiverCrashes,
                                 MaxCrashes <- MaxReceiverCrashes

-----------------------------------------------------------------------------
(* Each client by itself *)

\* The composition does to the sender what Outbox allows, so what Outbox_proofs
\* proves of a sender holds here.
LEMMA SenderHolds == Spec => [](O!TypeOK /\ O!EvidenceInv)
<1>1. Init => OP!Init
  BY DEF Init, O!Init, OP!Init, O!Tasks, OP!Tasks
<1>2. [Next]_vars => [O!Next]_(O!vars)
  BY DEF Next, vars, senderVars, receiverVars, O!vars, O!tileVars, O!cleanVars, O!Next, SenderStep, ReceiverStep,
         SenderCrash, Transmit, SendReceipt, ReceiveReceipt
<1>3. [O!Next]_(O!vars) => [OP!Next]_(OP!vars)
  BY DEF O!Next, OP!Next, O!LocalStep, OP!LocalStep, O!Send, OP!Send,
         O!SendRejected, OP!SendRejected, O!CleanStep, OP!CleanStep,
         O!StartClean, OP!StartClean, O!StartReaction, OP!StartReaction,
         O!LoadConnection, OP!LoadConnection, O!LoadLatest, OP!LoadLatest,
         O!RestoreTile, OP!RestoreTile, O!DeleteRow, OP!DeleteRow,
         O!ShowReaction, OP!ShowReaction, O!CleanGoto, OP!CleanGoto,
         O!AfterRestore, OP!AfterRestore,
         O!ReceiptCheck, OP!ReceiptCheck, O!ReceiptWrite, OP!ReceiptWrite,
         O!ReceiptRow, OP!ReceiptRow, O!TaskStep, OP!TaskStep, O!PumpStep, OP!PumpStep,
         O!Authenticate, OP!Authenticate, O!LoseKeys, OP!LoseKeys, O!Crash, OP!Crash,
         O!PostAccepted, OP!PostAccepted, O!LoadUnauthenticated, OP!LoadUnauthenticated,
         O!LoadMissing, OP!LoadMissing, O!LoadRow, OP!LoadRow,
         O!EncryptFails, OP!EncryptFails, O!PostFails, OP!PostFails,
         O!Answered, OP!Answered, O!AnswerLost, OP!AnswerLost, O!MarkRow, OP!MarkRow,
         O!UpdateTile, OP!UpdateTile, O!FailMark, OP!FailMark, O!FailTile, OP!FailTile,
         O!PumpStart, OP!PumpStart, O!PumpNext, OP!PumpNext, O!PumpDone, OP!PumpDone,
         O!Fresh, OP!Fresh, O!Goto, OP!Goto, O!Finish, OP!Finish,
         O!SetStatus, OP!SetStatus, O!ShowOnTile, OP!ShowOnTile,
         O!AcceptedMsgs, OP!AcceptedMsgs, O!Tasks, OP!Tasks, O!vars, OP!vars,
         O!tileVars, OP!tileVars, O!cleanVars, OP!cleanVars
<1>4. Spec => OP!Spec
  BY <1>1, <1>2, <1>3, PTL DEF Spec, OP!Spec
<1>5. OP!OutboxAssumption
  BY ClientAssumption DEF O!OutboxAssumption, OP!OutboxAssumption, O!Tasks, OP!Tasks
<1>6. Spec => [](OP!TypeOK /\ OP!EvidenceInv)
  BY <1>4, <1>5, OP!TypeCorrect, OP!EvidenceHolds, PTL
<1>7. OP!TypeOK /\ OP!EvidenceInv => O!TypeOK /\ O!EvidenceInv
  BY DEF O!TypeOK, OP!TypeOK, O!EvidenceInv, OP!EvidenceInv,
         O!SentIsAccepted, OP!SentIsAccepted, O!TasksKnow, OP!TasksKnow,
         O!AcceptedMsgs, OP!AcceptedMsgs, O!Tasks, OP!Tasks,
         O!LineStates, OP!LineStates, O!Statuses, OP!Statuses, O!Places, OP!Places,
         O!CleanPlaces, OP!CleanPlaces, O!Copies, OP!Copies
<1> QED
  BY <1>6, <1>7, PTL

\* ... and to the receiver what Inbox allows: what is posted to it is a message.
LEMMA ReceiverHolds == Spec => []I!TypeOK
<1>1. Init => IP!Init
  BY DEF Init, I!Init, IP!Init, I!Loops, IP!Loops
<1>2. O!TypeOK /\ [Next]_vars => [I!Next]_(I!vars)
  <2> SUFFICES ASSUME O!TypeOK, [Next]_vars PROVE [I!Next]_(I!vars)
    OBVIOUS
  <2>1. CASE SenderStep \/ SenderCrash \/ UNCHANGED vars \/ \E m \in Msgs : ReceiveReceipt(m)
    <3>1. UNCHANGED receiverVars
      BY <2>1 DEF SenderStep, SenderCrash, vars, ReceiveReceipt
    <3> QED
      BY <3>1 DEF receiverVars, I!vars, I!serverVars, I!pullVars, I!loopVars, I!dbVars, I!history
  <2>2. CASE ReceiverStep
    BY <2>2 DEF ReceiverStep, I!Next
  <2>3. ASSUME NEW t \in O!Tasks, Transmit(t) PROVE I!Next
    <3>1. cur[t] \in Msgs
      BY <2>3 DEF Transmit, O!PostAccepted, O!TypeOK
    <3> QED
      BY <2>3, <3>1 DEF Transmit, I!Next
  <2>4. ASSUME NEW m \in Msgs, SendReceipt(m) PROVE I!Next
    BY <2>4 DEF SendReceipt, I!Next
  <2> QED
    BY <2>1, <2>2, <2>3, <2>4 DEF Next
<1>3. [I!Next]_(I!vars) => [IP!Next]_(IP!vars)
  BY DEF I!Next, IP!Next, I!LocalStep, IP!LocalStep, I!Arrive, IP!Arrive,
         I!SendReadReceipt, IP!SendReadReceipt, I!PullStep, IP!PullStep, I!Cut, IP!Cut,
         I!LoopStep, IP!LoopStep, I!BackgroundPush, IP!BackgroundPush,
         I!CacheByExtension, IP!CacheByExtension, I!SetShouldNotAck, IP!SetShouldNotAck,
         I!ReceiptAnswerLost, IP!ReceiptAnswerLost, I!ToggleRead, IP!ToggleRead,
         I!Disconnect, IP!Disconnect, I!Crash, IP!Crash, I!PullStart, IP!PullStart,
         I!ReadCache, IP!ReadCache, I!ClearCache, IP!ClearCache,
         I!LocalDone, IP!LocalDone, I!Connect, IP!Connect,
         I!ReceiveBatch, IP!ReceiveBatch, I!AckBatch, IP!AckBatch, I!Close, IP!Close,
         I!Begin, IP!Begin, I!Decrypt, IP!Decrypt, I!Guard, IP!Guard,
         I!Insert, IP!Insert, I!Bump, IP!Bump, I!Notify, IP!Notify, I!Goto, IP!Goto,
         I!LoopIsIdle, IP!LoopIsIdle, I!Settle, IP!Settle, I!Drop, IP!Drop,
         I!Loops, IP!Loops, I!vars, IP!vars, I!serverVars, IP!serverVars,
         I!pullVars, IP!pullVars, I!loopVars, IP!loopVars, I!dbVars, IP!dbVars,
         I!history, IP!history
<1>4. Spec => IP!Spec
  BY <1>1, <1>2, <1>3, SenderHolds, PTL DEF Spec, IP!Spec
<1>5. IP!InboxAssumption
  BY ClientAssumption DEF I!InboxAssumption, IP!InboxAssumption, I!Loops, IP!Loops,
         I!IsFiniteSet, IP!IsFiniteSet
<1>6. Spec => []IP!TypeOK
  BY <1>4, <1>5, IP!TypeCorrect, PTL
<1>7. IP!TypeOK => I!TypeOK
  BY DEF I!TypeOK, IP!TypeOK, I!Loops, IP!Loops, I!Stages, IP!Stages
<1> QED
  BY <1>6, <1>7, PTL

Types == O!TypeOK /\ O!EvidenceInv /\ I!TypeOK

LEMMA TypesHold == Spec => []Types
  BY SenderHolds, ReceiverHolds, PTL DEF Types

-----------------------------------------------------------------------------
(* Between the clients *)

\* Whatever a task works on, a pump has still to retry or has a row, the user has sent.
WorkInv ==
  /\ \A t \in O!Tasks : sendAt[t] \notin {"idle", "next"} => cur[t] \in submitted
  /\ \A p \in Pumps : todo[p] \subseteq submitted
  /\ \A m \in Msgs : row[m] # "none" => m \in submitted

\* What reached the receiver's backlog is what the server took from the sender.
QueueInv == arrived = O!AcceptedMsgs

\* A receipt, and a row marked read, stand for a message in the receiver's database.
ReadInv ==
  /\ receipts \subseteq stored
  /\ \A m \in Msgs : row[m] = "read" => m \in stored

LinkInv == WorkInv /\ QueueInv /\ ReadInv

LEMMA LinkInit == Init => LinkInv
  BY DEF Init, O!Init, I!Init, LinkInv, WorkInv, QueueInv, ReadInv, O!AcceptedMsgs, O!Tasks

status == [m \in Msgs |-> Claim[row[m]]]

\* Writing a status other than none leaves what was submitted.
LEMMA StatusIsReported ==
  ASSUME O!TypeOK, WorkInv, NEW m \in Msgs, NEW s \in O!Statuses, O!SetStatus(m, s),
         UNCHANGED <<submitted, accepted, stored>>,
         s = "sent" => m \in O!AcceptedMsgs, s = "read" => m \in stored
  PROVE  /\ \A n \in Msgs : row'[n] # "none" => row[n] # "none"
         /\ \A n \in Msgs : row'[n] = "read" => row[n] = "read" \/ (n = m /\ s = "read")
         /\ [D!Next]_(D!vars)
<1>1. CASE row[m] = "none"
  <2>1. row' = row
    BY <1>1 DEF O!SetStatus
  <2> QED
    BY <2>1 DEF D!vars, O!AcceptedMsgs
<1>2. CASE row[m] # "none"
  <2>1. row' = [row EXCEPT ![m] = s] /\ row \in [Msgs -> O!Statuses \cup {"none"}]
    BY <1>2 DEF O!SetStatus, O!TypeOK
  <2>2. s # "none" /\ s \in {"journaled", "sent", "failed", "read"}
        /\ row[m] \in {"journaled", "sent", "failed", "read"}
    BY <1>2, <2>1 DEF O!Statuses
  <2>4. status' = [status EXCEPT ![m] = Claim[s]]
    BY <2>1 DEF status
  <2>5. status[m] # "none" /\ Claim[s] \in {"waiting", "sent", "read"}
        /\ (Claim[s] = "sent" => s = "sent") /\ (Claim[s] = "read" => s = "read")
    BY <2>2 DEF status, Claim
  <2>6. D!Report(m)
    BY <2>4, <2>5 DEF D!Report, status, O!AcceptedMsgs
  <2> QED
    BY <1>2, <2>1, <2>2, <2>6 DEF D!Next
<1> QED
  BY <1>1, <1>2

\* What a step must leave: the invariant, and a step of Delivery or a stutter.
Implemented == LinkInv' /\ [D!Next]_(D!vars)

\* A step that touches nothing the user, the server or the peer's database knows.
LEMMA Unseen ==
  ASSUME LinkInv, WorkInv', UNCHANGED <<row, submitted, accepted, stored, receipts, arrived>>
  PROVE  Implemented
<1>1. D!vars' = D!vars
  BY DEF D!vars, O!AcceptedMsgs
<1>2. QueueInv' /\ ReadInv'
  BY DEF LinkInv, QueueInv, ReadInv, O!AcceptedMsgs
<1> QED
  BY <1>1, <1>2 DEF Implemented, LinkInv

\* A step that leaves what was submitted, gives no task another message and makes no row.
LEMMA WorkStays ==
  ASSUME WorkInv, submitted \subseteq submitted',
         \A t \in O!Tasks : sendAt'[t] \notin {"idle", "next"} =>
             sendAt[t] \notin {"idle", "next"} /\ cur'[t] = cur[t],
         \A p \in Pumps : todo'[p] \subseteq todo[p],
         \A m \in Msgs : row'[m] # "none" => row[m] # "none"
  PROVE  WorkInv'
  BY DEF WorkInv

LEMMA SenderStepImplemented ==
  ASSUME Types, Types', LinkInv, SenderStep PROVE Implemented
<1> USE DEF Types, LinkInv
<1>0. UNCHANGED <<stored, receipts, arrived>> /\ O!LocalStep
  BY DEF SenderStep, receiverVars
<1>t. /\ sendAt \in [O!Tasks -> O!Places] /\ cur \in [O!Tasks -> Msgs \cup {NoMsg}]
      /\ todo \in [Pumps -> SUBSET Msgs] /\ Msgs \subseteq O!Tasks /\ Pumps \subseteq O!Tasks
      /\ row \in [Msgs -> O!Statuses \cup {"none"}]
  BY DEF O!TypeOK, O!Tasks
<1>1. ASSUME NEW m \in Msgs, O!Send(m) PROVE Implemented
  <2>1. /\ m \notin submitted
        /\ row' = [row EXCEPT ![m] = "journaled"]
        /\ submitted' = submitted \cup {m}
        /\ sendAt' = [sendAt EXCEPT ![m] = "load"] /\ cur' = [cur EXCEPT ![m] = m]
        /\ todo' = todo /\ accepted' = accepted
    BY <1>1 DEF O!Send, O!Fresh, O!Goto
  <2>3. status' = [status EXCEPT ![m] = "waiting"]
    BY <1>t, <2>1 DEF status, Claim
  <2>4. D!Submit(m)
    BY <1>0, <2>1, <2>3 DEF D!Submit, status, O!AcceptedMsgs
  <2>5. WorkInv'
    BY <1>t, <2>1 DEF WorkInv
  <2>6. QueueInv' /\ ReadInv'
    BY <1>0, <1>t, <2>1 DEF QueueInv, ReadInv, O!AcceptedMsgs
  <2> QED
    BY <2>4, <2>5, <2>6 DEF Implemented, D!Next
<1>2. ASSUME NEW m \in Msgs, O!SendRejected(m) \/ O!ReceiptCheck(m) \/ O!ReceiptWrite(m)
      PROVE Implemented
  <2>1. UNCHANGED <<row, submitted, accepted, sendAt, cur, todo>>
    BY <1>2 DEF O!SendRejected, O!ReceiptCheck, O!ReceiptWrite
  <2>2. WorkInv'
    BY <2>1 DEF WorkInv
  <2> QED
    BY <1>0, <2>1, <2>2, Unseen
<1>3. ASSUME NEW k \in Cleaners, O!DeleteRow(k) PROVE Implemented
  <2>1. PICK m \in Msgs : row' = [row EXCEPT ![m] = "none"]
    BY <1>3 DEF O!DeleteRow, O!TypeOK
  <2>2. UNCHANGED <<submitted, accepted, sendAt, cur, todo>>
    BY <1>3 DEF O!DeleteRow
  <2>3. status' = [status EXCEPT ![m] = "none"]
    BY <1>t, <2>1 DEF status, Claim
  <2>4. D!Withdraw(m)
    BY <1>0, <2>2, <2>3 DEF D!Withdraw, status, O!AcceptedMsgs
  <2>5. WorkInv' /\ QueueInv' /\ ReadInv'
    BY <1>0, <1>t, <2>1, <2>2 DEF WorkInv, QueueInv, ReadInv, O!AcceptedMsgs
  <2> QED
    BY <2>4, <2>5 DEF Implemented, D!Next
<1>4. ASSUME NEW t \in O!Tasks, O!MarkRow(t) \/ O!FailMark(t) PROVE Implemented
  <2>1. PICK s \in O!Statuses : /\ O!SetStatus(cur[t], s) /\ s # "read"
                                /\ s = "sent" => cur[t] \in O!AcceptedMsgs
    <3>1. CASE O!MarkRow(t)
      BY <3>1 DEF O!MarkRow, O!TypeOK, O!Statuses, O!EvidenceInv, O!TasksKnow
    <3>2. CASE O!FailMark(t)
      BY <3>2 DEF O!FailMark, O!Statuses
    <3> QED
      BY <1>4, <3>1, <3>2
  <2>2. /\ cur[t] \in Msgs /\ UNCHANGED <<submitted, accepted, cur, todo>>
        /\ sendAt[t] \notin {"idle", "next"}
        /\ sendAt' \in {[sendAt EXCEPT ![t] = "tile"], [sendAt EXCEPT ![t] = "failTile"]}
    BY <1>4 DEF O!MarkRow, O!FailMark, O!TypeOK, O!Goto
  <2>3. /\ \A n \in Msgs : row'[n] # "none" => row[n] # "none"
        /\ \A n \in Msgs : row'[n] = "read" => row[n] = "read"
        /\ [D!Next]_(D!vars)
    BY <1>0, <2>1, <2>2, StatusIsReported
  <2>4. WorkInv'
    BY <1>t, <2>2, <2>3, WorkStays
  <2>5. QueueInv' /\ ReadInv'
    BY <1>0, <2>2, <2>3 DEF QueueInv, ReadInv, O!AcceptedMsgs
  <2> QED
    BY <2>3, <2>4, <2>5 DEF Implemented
<1>5. ASSUME NEW t \in O!Tasks, O!LoadMissing(t) \/ O!LoadRow(t) \/ O!EncryptFails(t)
                \/ O!PostFails(t) \/ O!Answered(t) \/ O!AnswerLost(t)
      PROVE Implemented
  <2>1. /\ UNCHANGED <<row, submitted, accepted, cur, todo>> /\ sendAt[t] \notin {"idle", "next"}
        /\ \E place \in O!Places : sendAt' = [sendAt EXCEPT ![t] = place]
    BY <1>5 DEF O!LoadMissing, O!LoadRow, O!EncryptFails, O!PostFails, O!Answered,
                O!AnswerLost, O!Goto, O!Places
  <2>2. WorkInv'
    BY <1>t, <2>1, WorkStays
  <2> QED
    BY <1>0, <2>1, <2>2, Unseen
<1>6. ASSUME NEW t \in O!Tasks, O!LoadUnauthenticated(t) \/ O!UpdateTile(t) \/ O!FailTile(t)
      PROVE Implemented
  <2>1. /\ UNCHANGED <<row, submitted, accepted, todo>>
        /\ sendAt' \in {[sendAt EXCEPT ![t] = "next"], [sendAt EXCEPT ![t] = "idle"]}
        /\ cur' = [cur EXCEPT ![t] = NoMsg]
    BY <1>6 DEF O!LoadUnauthenticated, O!UpdateTile, O!FailTile, O!Finish
  <2>2. WorkInv'
    BY <1>t, <2>1, WorkStays
  <2> QED
    BY <1>0, <2>1, <2>2, Unseen
<1>7. ASSUME NEW p \in Pumps, O!PumpStart(p) PROVE Implemented
  <2>1. /\ UNCHANGED <<row, submitted, accepted, cur>>
        /\ sendAt' = [sendAt EXCEPT ![p] = "next"]
        /\ todo' = [todo EXCEPT ![p] = {m \in Msgs : row[m] = "journaled"}]
    BY <1>7 DEF O!PumpStart, O!Goto
  <2>2. WorkInv'
    BY <1>t, <2>1 DEF WorkInv
  <2> QED
    BY <1>0, <2>1, <2>2, Unseen
<1>8. ASSUME NEW p \in Pumps, O!PumpNext(p) PROVE Implemented
  <2>1. PICK m \in todo[p] : /\ todo' = [todo EXCEPT ![p] = @ \ {m}]
                             /\ cur' = [cur EXCEPT ![p] = m]
    BY <1>8 DEF O!PumpNext
  <2>2. /\ UNCHANGED <<row, submitted, accepted>>
        /\ sendAt' = [sendAt EXCEPT ![p] = "load"]
    BY <1>8 DEF O!PumpNext, O!Goto
  <2>3. WorkInv'
    BY <1>t, <2>1, <2>2 DEF WorkInv
  <2> QED
    BY <1>0, <2>2, <2>3, Unseen
<1>9. ASSUME NEW p \in Pumps, O!PumpDone(p) PROVE Implemented
  <2>1. /\ UNCHANGED <<row, submitted, accepted, cur, todo>>
        /\ sendAt' = [sendAt EXCEPT ![p] = "idle"]
    BY <1>9 DEF O!PumpDone, O!Goto
  <2>2. WorkInv'
    BY <1>t, <2>1, WorkStays
  <2> QED
    BY <1>0, <2>1, <2>2, Unseen
<1>10. ASSUME O!Authenticate \/ O!LoseKeys PROVE Implemented
  <2>1. UNCHANGED <<row, submitted, accepted, sendAt, cur, todo>>
    BY <1>10 DEF O!Authenticate, O!LoseKeys
  <2>2. WorkInv'
    BY <2>1 DEF WorkInv
  <2> QED
    BY <1>0, <2>1, <2>2, Unseen
<1>11. ASSUME NEW k \in Cleaners,
              \/ \E m \in Msgs : O!StartClean(k, m) \/ O!StartReaction(k, m)
              \/ O!LoadConnection(k) \/ O!LoadLatest(k) \/ O!RestoreTile(k)
              \/ O!ShowReaction(k)
       PROVE Implemented
  <2>1. UNCHANGED <<row, submitted, accepted, sendAt, cur, todo>>
    BY <1>11 DEF O!StartClean, O!StartReaction, O!LoadConnection, O!LoadLatest,
                 O!RestoreTile, O!ShowReaction
  <2>2. WorkInv'
    BY <2>1 DEF WorkInv
  <2> QED
    BY <1>0, <2>1, <2>2, Unseen
<1> QED
  BY <1>0, <1>1, <1>2, <1>3, <1>4, <1>5, <1>6, <1>7, <1>8, <1>9, <1>10, <1>11
  DEF O!LocalStep, O!TaskStep, O!PumpStep, O!CleanStep

LEMMA ReceiverStepImplemented ==
  ASSUME Types, Types', LinkInv, ReceiverStep PROVE Implemented
<1> USE DEF Types, LinkInv
<1>0. UNCHANGED <<row, submitted, accepted, sendAt, cur, todo, receipts>> /\ I!LocalStep
  BY DEF ReceiverStep, senderVars
<1>1. WorkInv' /\ submitted' = submitted /\ status' = status /\ O!AcceptedMsgs' = O!AcceptedMsgs
  BY <1>0 DEF WorkInv, status, O!AcceptedMsgs
<1>2. ASSUME NEW x \in I!Loops, I!Insert(x) PROVE Implemented
  <2>1. stage[x] = "insert" /\ stored' = stored \cup {msg[x]} /\ arrived' = arrived
    BY <1>2 DEF I!Insert, I!serverVars
  <2>2. msg[x] \in O!AcceptedMsgs /\ msg[x] \in Msgs
    BY <2>1 DEF I!TypeOK, QueueInv
  <2>3. D!Deliver(msg[x])
    BY <1>1, <2>1, <2>2 DEF D!Deliver, status
  <2>4. QueueInv' /\ ReadInv'
    BY <1>0, <1>1, <2>1 DEF QueueInv, ReadInv
  <2> QED
    BY <1>1, <2>2, <2>3, <2>4 DEF Implemented, D!Next
<1>3. CASE ~\E x \in I!Loops : I!Insert(x)
  <2>1. UNCHANGED <<stored, arrived>>
    <3>1. ASSUME NEW p \in Pulls, I!PullStep(p) \/ I!Cut(p) PROVE UNCHANGED <<stored, arrived>>
      BY <3>1 DEF I!PullStep, I!PullStart, I!ReadCache, I!ClearCache, I!LocalDone, I!Connect,
         I!ReceiveBatch, I!AckBatch, I!Close, I!Cut, I!serverVars, I!dbVars
    <3>2. ASSUME NEW x \in I!Loops, I!LoopStep(x), ~I!Insert(x)
          PROVE UNCHANGED <<stored, arrived>>
      BY <3>2 DEF I!LoopStep, I!Begin, I!Decrypt, I!Guard, I!Bump, I!Notify, I!serverVars, I!dbVars
    <3>3. ASSUME \/ \E x \in Pushes, m \in Msgs : I!BackgroundPush(x, m)
                 \/ \E m \in Msgs : I!CacheByExtension(m) \/ I!SetShouldNotAck(m)
                                      \/ I!ReceiptAnswerLost(m)
                 \/ I!ToggleRead \/ I!Disconnect \/ I!Crash
          PROVE UNCHANGED <<stored, arrived>>
      BY <3>3 DEF I!BackgroundPush, I!CacheByExtension, I!SetShouldNotAck, I!ReceiptAnswerLost,
         I!ToggleRead, I!Disconnect, I!Crash, I!serverVars, I!dbVars
    <3> QED
      BY <1>0, <1>3, <3>1, <3>2, <3>3 DEF I!LocalStep
  <2> QED
    BY <1>0, <1>1, <2>1, Unseen
<1> QED
  BY <1>2, <1>3

\* Every step keeps the invariant and is a step of Delivery, or one it does not see.
LEMMA NextImplemented == Types /\ Types' /\ LinkInv /\ [Next]_vars => Implemented
<1> SUFFICES ASSUME Types, Types', LinkInv, [Next]_vars PROVE Implemented
  OBVIOUS
<1> USE DEF Types, LinkInv
<1>t. /\ sendAt \in [O!Tasks -> O!Places] /\ cur \in [O!Tasks -> Msgs \cup {NoMsg}]
  BY DEF O!TypeOK
<1>1. CASE SenderCrash
  <2>1. UNCHANGED <<row, submitted, accepted, stored, receipts, arrived>>
    BY <1>1 DEF SenderCrash, O!Crash, receiverVars
  <2>2. WorkInv'
    BY <1>1 DEF SenderCrash, O!Crash, WorkInv, receiverVars
  <2> QED
    BY <2>1, <2>2, Unseen
<1>2. ASSUME NEW t \in O!Tasks, Transmit(t) PROVE Implemented
  <2>1. /\ sendAt[t] = "post" /\ accepted' = accepted \cup {[msg |-> cur[t], timed |-> timed[t]]}
        /\ sendAt' = [sendAt EXCEPT ![t] = "wait"] /\ UNCHANGED <<row, submitted, cur, todo>>
    BY <1>2 DEF Transmit, O!PostAccepted, O!Goto
  <2>2. arrived' = arrived \cup {cur[t]} /\ UNCHANGED <<stored, receipts>>
    BY <1>2 DEF Transmit, I!Arrive, I!dbVars
  <2>3. O!AcceptedMsgs' = O!AcceptedMsgs \cup {cur[t]}
    <3>1. PICK copy : copy = [msg |-> cur[t], timed |-> timed[t]]
      OBVIOUS
    <3>2. copy.msg = cur[t] /\ accepted' = accepted \cup {copy}
      BY <2>1, <3>1
    <3> QED
      BY <3>2 DEF O!AcceptedMsgs
  <2>4. cur[t] \in submitted /\ submitted' = submitted /\ cur[t] \in Msgs
    BY <2>1, <1>2 DEF WorkInv, O!TypeOK
  <2>5. D!Take(cur[t])
    BY <2>1, <2>2, <2>3, <2>4 DEF D!Take
  <2>6. WorkInv'
    BY <1>t, <2>1, <2>4, WorkStays
  <2>7. QueueInv' /\ ReadInv'
    BY <2>1, <2>2, <2>3 DEF QueueInv, ReadInv
  <2> QED
    BY <2>4, <2>5, <2>6, <2>7 DEF Implemented, D!Next
<1>3. ASSUME NEW m \in Msgs, SendReceipt(m) PROVE Implemented
  <2>1. /\ UNCHANGED <<row, submitted, accepted, sendAt, cur, todo, stored, arrived>>
        /\ m \in shouldAck /\ receipts' = receipts \cup {m}
    BY <1>3 DEF SendReceipt, I!SendReadReceipt, senderVars, I!serverVars, I!dbVars
  <2>2. D!vars' = D!vars /\ WorkInv' /\ QueueInv'
    BY <2>1 DEF D!vars, WorkInv, QueueInv, O!AcceptedMsgs
  <2>3. m \in stored
    BY <2>1 DEF I!TypeOK
  <2>4. ReadInv'
    BY <2>1, <2>3 DEF ReadInv
  <2> QED
    BY <2>2, <2>4 DEF Implemented
<1>4. ASSUME NEW m \in Msgs, ReceiveReceipt(m) PROVE Implemented
  <2>1. /\ m \in stored /\ O!SetStatus(m, "read")
        /\ UNCHANGED <<submitted, accepted, sendAt, cur, todo, stored, arrived, receipts>>
    BY <1>4 DEF ReceiveReceipt, O!ReceiptRow, receiverVars, ReadInv
  <2>2. /\ \A n \in Msgs : row'[n] # "none" => row[n] # "none"
        /\ \A n \in Msgs : row'[n] = "read" => row[n] = "read" \/ n = m
        /\ [D!Next]_(D!vars)
    BY <2>1, StatusIsReported DEF O!Statuses
  <2>3. WorkInv'
    BY <2>1, <2>2 DEF WorkInv
  <2>4. QueueInv' /\ ReadInv'
    BY <2>1, <2>2 DEF QueueInv, ReadInv, O!AcceptedMsgs
  <2> QED
    BY <2>2, <2>3, <2>4 DEF Implemented
<1>5. CASE UNCHANGED vars
  <2>1. UNCHANGED <<row, submitted, accepted, sendAt, cur, todo, stored, arrived, receipts>>
    BY <1>5 DEF vars, senderVars, receiverVars
  <2>2. WorkInv'
    BY <2>1 DEF WorkInv
  <2> QED
    BY <2>1, <2>2, Unseen
<1> QED
  BY <1>1, <1>2, <1>3, <1>4, <1>5, SenderStepImplemented, ReceiverStepImplemented DEF Next

\* The two clients and the server implement Delivery: whatever the interleaving of
\* send(), pumps, pulls, pushes and receipts, and however often either process is
\* killed, nothing is delivered that was not sent and no status claims what has not happened.
THEOREM DeliveryImplemented == Spec => ImplementsDelivery
<1>1. Init => D!Init
  BY DEF Init, O!Init, I!Init, D!Init, Claim, O!AcceptedMsgs
<1>2. Types /\ Types' /\ LinkInv /\ [Next]_vars => LinkInv' /\ [D!Next]_(D!vars)
  BY NextImplemented DEF Implemented
<1> QED
  BY <1>1, <1>2, LinkInit, TypesHold, PTL DEF Spec, ImplementsDelivery, D!Spec
=============================================================================
