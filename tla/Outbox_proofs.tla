--------------------------- MODULE Outbox_proofs ---------------------------
(***************************************************************************)
(* Proofs about Outbox, for any messages, pumps, deletions, reactions and  *)
(* number of crashes: the state stays well-typed, and "sent" or "read" is  *)
(* never written for a message the server did not take.                    *)
(***************************************************************************)
EXTENDS Outbox, TLAPS

USE OutboxAssumption

\* The initial database and the idle tasks are well-typed.
THEOREM InitTypeOK == Init => TypeOK
  BY DEF Init, TypeOK, Tasks, LineStates, Statuses, Places, Copies, CleanPlaces

\* Every handler leaves the state well-typed.
THEOREM NextTypeOK == TypeOK /\ [Next]_vars => TypeOK'
<1> SUFFICES ASSUME TypeOK, [Next]_vars PROVE TypeOK'
  OBVIOUS
<1> USE DEF TypeOK, Tasks, LineStates, Statuses, Places, Copies, CleanPlaces,
            tileVars, cleanVars
<1>1. ASSUME NEW m \in Msgs, Send(m) PROVE TypeOK'
  BY <1>1 DEF Send, Goto
<1>2. ASSUME NEW m \in Msgs, SendRejected(m) PROVE TypeOK'
  BY <1>2 DEF SendRejected, ShowOnTile
<1>3. ASSUME NEW m \in Msgs, ReceiptRow(m) PROVE TypeOK'
  BY <1>3 DEF ReceiptRow, SetStatus
<1>4. ASSUME NEW m \in Msgs, ReceiptCheck(m) PROVE TypeOK'
  BY <1>4 DEF ReceiptCheck
<1>5. ASSUME NEW m \in Msgs, ReceiptWrite(m) PROVE TypeOK'
  BY <1>5 DEF ReceiptWrite
<1>6. ASSUME NEW t \in Tasks, LoadUnauthenticated(t) PROVE TypeOK'
  BY <1>6 DEF LoadUnauthenticated, Finish
<1>7. ASSUME NEW t \in Tasks, LoadMissing(t) PROVE TypeOK'
  BY <1>7 DEF LoadMissing, Goto
<1>8. ASSUME NEW t \in Tasks, LoadRow(t) PROVE TypeOK'
  BY <1>8 DEF LoadRow, Goto
<1>9. ASSUME NEW t \in Tasks, EncryptFails(t) PROVE TypeOK'
  BY <1>9 DEF EncryptFails, Goto
<1>10. ASSUME NEW t \in Tasks, PostAccepted(t) PROVE TypeOK'
  BY <1>10 DEF PostAccepted, Goto
<1>11. ASSUME NEW t \in Tasks, PostFails(t) PROVE TypeOK'
  BY <1>11 DEF PostFails, Goto
<1>12. ASSUME NEW t \in Tasks, Answered(t) PROVE TypeOK'
  BY <1>12 DEF Answered, Goto
<1>13. ASSUME NEW t \in Tasks, AnswerLost(t) PROVE TypeOK'
  BY <1>13 DEF AnswerLost, Goto
<1>14. ASSUME NEW t \in Tasks, MarkRow(t) PROVE TypeOK'
  BY <1>14 DEF MarkRow, SetStatus, Goto
<1>15. ASSUME NEW t \in Tasks, UpdateTile(t) PROVE TypeOK'
  BY <1>15 DEF UpdateTile, ShowOnTile, Finish
<1>16. ASSUME NEW t \in Tasks, FailMark(t) PROVE TypeOK'
  BY <1>16 DEF FailMark, SetStatus, Goto
<1>17. ASSUME NEW t \in Tasks, FailTile(t) PROVE TypeOK'
  BY <1>17 DEF FailTile, ShowOnTile, Finish
<1>18. ASSUME NEW p \in Pumps, PumpStart(p) PROVE TypeOK'
  BY <1>18 DEF PumpStart, Goto
<1>19. ASSUME NEW p \in Pumps, PumpNext(p) PROVE TypeOK'
  BY <1>19 DEF PumpNext, Goto
<1>20. ASSUME NEW p \in Pumps, PumpDone(p) PROVE TypeOK'
  BY <1>20 DEF PumpDone, Goto
<1>21. ASSUME Authenticate PROVE TypeOK'
  BY <1>21 DEF Authenticate
<1>22. ASSUME LoseKeys PROVE TypeOK'
  BY <1>22 DEF LoseKeys
<1>23. ASSUME Crash PROVE TypeOK'
  BY <1>23 DEF Crash
<1>24. ASSUME NEW k \in Cleaners, NEW m \in Msgs, StartClean(k, m) PROVE TypeOK'
  BY <1>24 DEF StartClean, CleanGoto
<1>25. ASSUME NEW k \in Cleaners, NEW m \in Msgs, StartReaction(k, m) PROVE TypeOK'
  BY <1>25 DEF StartReaction, CleanGoto
<1>26. ASSUME NEW k \in Cleaners, LoadConnection(k) PROVE TypeOK'
  BY <1>26 DEF LoadConnection, CleanGoto
<1>27. ASSUME NEW k \in Cleaners, LoadLatest(k) PROVE TypeOK'
  BY <1>27 DEF LoadLatest, CleanGoto, AfterRestore
<1>28. ASSUME NEW k \in Cleaners, RestoreTile(k) PROVE TypeOK'
  BY <1>28 DEF RestoreTile, AfterRestore
<1>29. ASSUME NEW k \in Cleaners, DeleteRow(k) PROVE TypeOK'
  BY <1>29 DEF DeleteRow, CleanGoto
<1>30. ASSUME NEW k \in Cleaners, ShowReaction(k) PROVE TypeOK'
  BY <1>30 DEF ShowReaction, CleanGoto
<1>31. ASSUME UNCHANGED vars PROVE TypeOK'
  BY <1>31 DEF vars
<1> QED
  BY <1>1, <1>2, <1>3, <1>4, <1>5, <1>6, <1>7, <1>8, <1>9, <1>10, <1>11,
     <1>12, <1>13, <1>14, <1>15, <1>16, <1>17, <1>18, <1>19, <1>20, <1>21,
     <1>22, <1>23, <1>24, <1>25, <1>26, <1>27, <1>28, <1>29, <1>30, <1>31
     DEF Next, LocalStep, TaskStep, PumpStep, CleanStep

\* The state is well-typed, whatever order the tasks, pumps, receipts and
\* crashes come in.
THEOREM TypeCorrect == Spec => []TypeOK
<1>1. Init => TypeOK
  BY InitTypeOK
<1>2. TypeOK /\ [Next]_vars => TypeOK'
  BY NextTypeOK
<1> QED
  BY <1>1, <1>2, PTL DEF Spec

-----------------------------------------------------------------------------
(* SentIsAccepted *)

\* The copy a task posts is a copy of the message it works on, and what the
\* server took stays taken.
LEMMA PostedIsAccepted ==
  ASSUME NEW t \in Tasks, PostAccepted(t)
  PROVE  cur[t] \in AcceptedMsgs' /\ AcceptedMsgs \subseteq AcceptedMsgs'
<1> DEFINE copy == [msg |-> cur[t], timed |-> timed[t]]
<1>1. copy \in accepted' /\ accepted \subseteq accepted'
  BY DEF PostAccepted
<1>2. copy.msg = cur[t]
  OBVIOUS
<1>3. copy.msg \in AcceptedMsgs'
  BY <1>1 DEF AcceptedMsgs
<1>4. AcceptedMsgs \subseteq AcceptedMsgs'
  BY <1>1 DEF AcceptedMsgs
<1> QED
  BY <1>2, <1>3, <1>4

\* An empty chat claims nothing.
THEOREM InitEvidence == Init => EvidenceInv
  BY DEF Init, EvidenceInv, SentIsAccepted, TasksKnow

\* The steps that write neither out nor the place of a task that knows more than
\* it did before keep the evidence; PostAccepted and Answered make it.
THEOREM NextEvidence ==
  TypeOK /\ EvidenceInv /\ [Next]_vars => EvidenceInv'
<1> SUFFICES ASSUME TypeOK, EvidenceInv, [Next]_vars PROVE EvidenceInv'
  OBVIOUS
<1> USE DEF EvidenceInv, SentIsAccepted, TasksKnow, tileVars, cleanVars
<1>a. accepted' = accepted => AcceptedMsgs' = AcceptedMsgs
  BY DEF AcceptedMsgs
<1>1. ASSUME NEW m \in Msgs, Send(m) PROVE EvidenceInv'
  BY <1>1, <1>a DEF Send, Goto, TypeOK, Tasks
<1>2. ASSUME NEW m \in Msgs, SendRejected(m) PROVE EvidenceInv'
  BY <1>2, <1>a DEF SendRejected, ShowOnTile
<1>3. ASSUME NEW m \in Msgs, ReceiptRow(m) PROVE EvidenceInv'
  BY <1>3, <1>a DEF ReceiptRow, SetStatus, TypeOK
<1>4. ASSUME NEW m \in Msgs, ReceiptCheck(m) PROVE EvidenceInv'
  BY <1>4, <1>a DEF ReceiptCheck
<1>5. ASSUME NEW m \in Msgs, ReceiptWrite(m) PROVE EvidenceInv'
  BY <1>5, <1>a DEF ReceiptWrite
<1>6. ASSUME NEW t \in Tasks, LoadUnauthenticated(t) PROVE EvidenceInv'
  BY <1>6, <1>a DEF LoadUnauthenticated, Finish, TypeOK
<1>7. ASSUME NEW t \in Tasks, LoadMissing(t) PROVE EvidenceInv'
  BY <1>7, <1>a DEF LoadMissing, Goto, TypeOK
<1>8. ASSUME NEW t \in Tasks, LoadRow(t) PROVE EvidenceInv'
  BY <1>8, <1>a DEF LoadRow, Goto, TypeOK
<1>9. ASSUME NEW t \in Tasks, EncryptFails(t) PROVE EvidenceInv'
  BY <1>9, <1>a DEF EncryptFails, Goto, TypeOK
<1>10. ASSUME NEW t \in Tasks, PostAccepted(t) PROVE EvidenceInv'
  <2>1. cur[t] \in AcceptedMsgs' /\ AcceptedMsgs \subseteq AcceptedMsgs'
    BY <1>10, PostedIsAccepted
  <2>2. SentIsAccepted'
    BY <1>10, <2>1 DEF PostAccepted
  <2>3. TasksKnow'
    BY <1>10, <2>1 DEF PostAccepted, Goto, TypeOK
  <2> QED
    BY <2>2, <2>3
<1>11. ASSUME NEW t \in Tasks, PostFails(t) PROVE EvidenceInv'
  BY <1>11, <1>a DEF PostFails, Goto, TypeOK
<1>12. ASSUME NEW t \in Tasks, Answered(t) PROVE EvidenceInv'
  BY <1>12, <1>a DEF Answered, Goto, TypeOK
<1>13. ASSUME NEW t \in Tasks, AnswerLost(t) PROVE EvidenceInv'
  BY <1>13, <1>a DEF AnswerLost, Goto, TypeOK
<1>14. ASSUME NEW t \in Tasks, MarkRow(t) PROVE EvidenceInv'
  <2>1. out[t] # "read" /\ (out[t] = "sent" => cur[t] \in AcceptedMsgs)
    BY <1>14 DEF MarkRow, TypeOK
  <2>2. SentIsAccepted'
    BY <1>14, <1>a, <2>1 DEF MarkRow, SetStatus, TypeOK
  <2>3. TasksKnow'
    BY <1>14, <1>a DEF MarkRow, Goto, TypeOK
  <2> QED
    BY <2>2, <2>3
<1>15. ASSUME NEW t \in Tasks, UpdateTile(t) PROVE EvidenceInv'
  <2>1. out[t] = "sent" => cur[t] \in AcceptedMsgs
    BY <1>15 DEF UpdateTile
  <2>2. SentIsAccepted'
    BY <1>15, <1>a, <2>1 DEF UpdateTile, ShowOnTile
  <2>3. TasksKnow'
    BY <1>15, <1>a DEF UpdateTile, Finish, TypeOK
  <2> QED
    BY <2>2, <2>3
<1>16. ASSUME NEW t \in Tasks, FailMark(t) PROVE EvidenceInv'
  BY <1>16, <1>a DEF FailMark, SetStatus, Goto, TypeOK
<1>17. ASSUME NEW t \in Tasks, FailTile(t) PROVE EvidenceInv'
  BY <1>17, <1>a DEF FailTile, ShowOnTile, Finish, TypeOK
<1>18. ASSUME NEW p \in Pumps, PumpStart(p) PROVE EvidenceInv'
  BY <1>18, <1>a DEF PumpStart, Goto, TypeOK, Tasks
<1>19. ASSUME NEW p \in Pumps, PumpNext(p) PROVE EvidenceInv'
  BY <1>19, <1>a DEF PumpNext, Goto, TypeOK, Tasks
<1>20. ASSUME NEW p \in Pumps, PumpDone(p) PROVE EvidenceInv'
  BY <1>20, <1>a DEF PumpDone, Goto, TypeOK, Tasks
<1>21. ASSUME Authenticate PROVE EvidenceInv'
  BY <1>21, <1>a DEF Authenticate
<1>22. ASSUME LoseKeys PROVE EvidenceInv'
  BY <1>22, <1>a DEF LoseKeys
<1>23. ASSUME Crash PROVE EvidenceInv'
  BY <1>23, <1>a DEF Crash
<1>24. ASSUME NEW k \in Cleaners, NEW m \in Msgs, StartClean(k, m) PROVE EvidenceInv'
  BY <1>24, <1>a DEF StartClean, CleanGoto, TypeOK
<1>25. ASSUME NEW k \in Cleaners, NEW m \in Msgs, StartReaction(k, m) PROVE EvidenceInv'
  BY <1>25, <1>a DEF StartReaction, CleanGoto, TypeOK
<1>26. ASSUME NEW k \in Cleaners, LoadConnection(k) PROVE EvidenceInv'
  BY <1>26, <1>a DEF LoadConnection, CleanGoto, TypeOK
<1>27. ASSUME NEW k \in Cleaners, LoadLatest(k) PROVE EvidenceInv'
  BY <1>27, <1>a DEF LoadLatest, CleanGoto, AfterRestore, TypeOK
<1>28. ASSUME NEW k \in Cleaners, RestoreTile(k) PROVE EvidenceInv'
  BY <1>28, <1>a DEF RestoreTile, AfterRestore, TypeOK
<1>29. ASSUME NEW k \in Cleaners, DeleteRow(k) PROVE EvidenceInv'
  BY <1>29, <1>a DEF DeleteRow, CleanGoto, TypeOK
<1>30. ASSUME NEW k \in Cleaners, ShowReaction(k) PROVE EvidenceInv'
  BY <1>30, <1>a DEF ShowReaction, CleanGoto, TypeOK
<1>31. ASSUME UNCHANGED vars PROVE EvidenceInv'
  BY <1>31, <1>a DEF vars
<1> QED
  BY <1>1, <1>2, <1>3, <1>4, <1>5, <1>6, <1>7, <1>8, <1>9, <1>10, <1>11,
     <1>12, <1>13, <1>14, <1>15, <1>16, <1>17, <1>18, <1>19, <1>20, <1>21,
     <1>22, <1>23, <1>24, <1>25, <1>26, <1>27, <1>28, <1>29, <1>30, <1>31
     DEF Next, LocalStep, TaskStep, PumpStep, CleanStep

\* The invariant TLC checks in the run outbox, for any number of messages, tasks and
\* deletions.
THEOREM EvidenceHolds == Spec => []EvidenceInv
<1>1. Init => EvidenceInv
  BY InitEvidence
<1>2. TypeOK /\ EvidenceInv /\ [Next]_vars => EvidenceInv'
  BY NextEvidence
<1> QED
  BY <1>1, <1>2, TypeCorrect, PTL DEF Spec

\* A row marked sent or read, and a tile that says sent of a message, stand for a
\* copy the server took.
THEOREM SentMeansAccepted == Spec => []SentIsAccepted
<1>1. EvidenceInv => SentIsAccepted
  BY DEF EvidenceInv
<1> QED
  BY <1>1, EvidenceHolds, PTL
=============================================================================
