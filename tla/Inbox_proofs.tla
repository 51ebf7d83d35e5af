---------------------------- MODULE Inbox_proofs ----------------------------
(***************************************************************************)
(* Proofs about Inbox, for any messages, any number of concurrent pulls    *)
(* and pushes, and any number of crashes: backlogLock is exclusive, and    *)
(* the server is never told to forget a message that has no row.           *)
(*                                                                         *)
(* The second needs to be strengthened: what a pull has still to           *)
(* acknowledge is stored, or being received, or still to be received, by   *)
(* that pull. Whoever else receives it, stores it, or lets go of the lock, *)
(* only makes that easier.                                                 *)
(***************************************************************************)
EXTENDS Inbox, FiniteSetTheorems, TLAPS

USE InboxAssumption

\* The initial database and the idle loops are well-typed.
LEMMA TypeInit == Init => TypeOK
<1> SUFFICES ASSUME Init PROVE TypeOK
  OBVIOUS
<1>1. /\ counted \in [Msgs -> Nat] /\ shown \in [Msgs -> Nat]
      /\ unread \in Nat /\ crashes \in 0..MaxCrashes
  BY DEF Init
<1>2. /\ rest \in [Loops -> SUBSET arrived] /\ msg \in [Loops -> arrived \cup {NoMsg}]
      /\ stage \in [Loops -> Stages]
      /\ \A x \in Loops : (stage[x] = "none") <=> (msg[x] = NoMsg)
  BY DEF Init, Stages
<1>3. QED
  BY <1>1, <1>2 DEF Init, TypeOK

\* Every step leaves the state well-typed.
LEMMA TypeStep == TypeOK /\ [Next]_vars => TypeOK'
<1> SUFFICES ASSUME TypeOK, [Next]_vars PROVE TypeOK'
  OBVIOUS
<1> USE DEF TypeOK, Stages, Loops, Goto, serverVars, pullVars, loopVars, dbVars, history
<1>1. ASSUME NEW p \in Pulls, PullStart(p) PROVE TypeOK'
  BY <1>1 DEF PullStart
<1>2. ASSUME NEW p \in Pulls, ReadCache(p) PROVE TypeOK'
  BY <1>2 DEF ReadCache
<1>3. ASSUME NEW p \in Pulls, ClearCache(p) PROVE TypeOK'
  BY <1>3 DEF ClearCache
<1>4. ASSUME NEW p \in Pulls, LocalDone(p) PROVE TypeOK'
  BY <1>4 DEF LocalDone
<1>5. ASSUME NEW p \in Pulls, Connect(p) PROVE TypeOK'
  BY <1>5 DEF Connect
<1>6. ASSUME NEW p \in Pulls, ReceiveBatch(p) PROVE TypeOK'
  BY <1>6 DEF ReceiveBatch
<1>7. ASSUME NEW p \in Pulls, AckBatch(p) PROVE TypeOK'
  BY <1>7 DEF AckBatch
<1>8. ASSUME NEW p \in Pulls, Close(p) PROVE TypeOK'
  BY <1>8 DEF Close, Settle
<1>9. ASSUME NEW p \in Pulls, Cut(p) PROVE TypeOK'
  BY <1>9 DEF Cut, Settle
<1>10. ASSUME NEW x \in Loops, Begin(x) PROVE TypeOK'
  BY <1>10 DEF Begin
<1>11. ASSUME NEW x \in Loops, Decrypt(x) PROVE TypeOK'
  BY <1>11 DEF Decrypt, Drop
<1>12. ASSUME NEW x \in Loops, Guard(x) PROVE TypeOK'
  BY <1>12 DEF Guard, Drop
<1>13. ASSUME NEW x \in Loops, Insert(x) PROVE TypeOK'
  BY <1>13 DEF Insert
<1>14. ASSUME NEW x \in Loops, Bump(x) PROVE TypeOK'
  BY <1>14 DEF Bump
<1>15. ASSUME NEW x \in Loops, Notify(x) PROVE TypeOK'
  BY <1>15 DEF Notify, Drop
<1>16. ASSUME NEW x \in Pushes, NEW m \in Msgs, BackgroundPush(x, m) PROVE TypeOK'
  BY <1>16 DEF BackgroundPush
<1>17. ASSUME NEW m \in Msgs, CacheByExtension(m) PROVE TypeOK'
  BY <1>17 DEF CacheByExtension
<1>18. ASSUME NEW m \in Msgs, SetShouldNotAck(m) PROVE TypeOK'
  BY <1>18 DEF SetShouldNotAck
<1>19. ASSUME NEW m \in Msgs, ReceiptAnswerLost(m) PROVE TypeOK'
  BY <1>19 DEF ReceiptAnswerLost
<1>20. ASSUME NEW m \in Msgs, Arrive(m) PROVE TypeOK'
  BY <1>20 DEF Arrive
<1>21. ASSUME NEW m \in Msgs, SendReadReceipt(m) PROVE TypeOK'
  BY <1>21 DEF SendReadReceipt
<1>22. ASSUME ToggleRead PROVE TypeOK'
  BY <1>22 DEF ToggleRead
<1>23. ASSUME Disconnect PROVE TypeOK'
  BY <1>23 DEF Disconnect
<1>24. ASSUME Crash PROVE TypeOK'
  <2>1. crashes' \in 0..MaxCrashes
    BY <1>24 DEF Crash
  <2>2. /\ rest' \in [Loops -> SUBSET arrived'] /\ msg' \in [Loops -> arrived' \cup {NoMsg}]
        /\ stage' \in [Loops -> Stages] /\ batch' \in [Pulls -> SUBSET arrived']
    BY <1>24 DEF Crash
  <2>3. \A x \in Loops : (stage'[x] = "none") <=> (msg'[x] = NoMsg)
    BY <1>24 DEF Crash
  <2>4. QED
    BY <1>24, <2>1, <2>2, <2>3 DEF Crash
<1>25. ASSUME UNCHANGED vars PROVE TypeOK'
  BY <1>25 DEF vars
<1>26. QED
  BY <1>1, <1>2, <1>3, <1>4, <1>5, <1>6, <1>7, <1>8, <1>9, <1>10, <1>11, <1>12,
     <1>13, <1>14, <1>15, <1>16, <1>17, <1>18, <1>19, <1>20, <1>21, <1>22, <1>23,
     <1>24, <1>25
     DEF Next, LocalStep, PullStep, LoopStep

\* Every variable keeps the type the code gives it.
THEOREM TypeCorrect == Spec => []TypeOK
<1>1. QED
  BY TypeInit, TypeStep, PTL DEF Spec

-----------------------------------------------------------------------------
\* isLocked() and acquire() run in one go, and every way out of pullBacklog()
\* releases.
LEMMA LockStep == TypeOK /\ LockIsHeld /\ [Next]_vars => LockIsHeld'
<1> SUFFICES ASSUME TypeOK, LockIsHeld, [Next]_vars PROVE LockIsHeld'
  OBVIOUS
<1> USE DEF TypeOK, LockIsHeld, Loops, Goto, pullVars
<1>1. ASSUME NEW p \in Pulls, PullStart(p) PROVE LockIsHeld'
  BY <1>1 DEF PullStart
<1>2. ASSUME NEW p \in Pulls, ReadCache(p) PROVE LockIsHeld'
  BY <1>2 DEF ReadCache
<1>3. ASSUME NEW p \in Pulls, ClearCache(p) PROVE LockIsHeld'
  BY <1>3 DEF ClearCache
<1>4. ASSUME NEW p \in Pulls, LocalDone(p) PROVE LockIsHeld'
  BY <1>4 DEF LocalDone
<1>5. ASSUME NEW p \in Pulls, Connect(p) PROVE LockIsHeld'
  BY <1>5 DEF Connect
<1>6. ASSUME NEW p \in Pulls, ReceiveBatch(p) PROVE LockIsHeld'
  BY <1>6 DEF ReceiveBatch
<1>7. ASSUME NEW p \in Pulls, AckBatch(p) PROVE LockIsHeld'
  BY <1>7 DEF AckBatch
<1>8. ASSUME NEW p \in Pulls, Close(p) PROVE LockIsHeld'
  BY <1>8 DEF Close, Settle
<1>9. ASSUME NEW p \in Pulls, Cut(p) PROVE LockIsHeld'
  BY <1>9 DEF Cut, Settle
<1>10. ASSUME NEW x \in Loops, Begin(x) PROVE LockIsHeld'
  BY <1>10 DEF Begin
<1>11. ASSUME NEW x \in Loops, Decrypt(x) PROVE LockIsHeld'
  BY <1>11 DEF Decrypt
<1>12. ASSUME NEW x \in Loops, Guard(x) PROVE LockIsHeld'
  BY <1>12 DEF Guard
<1>13. ASSUME NEW x \in Loops, Insert(x) PROVE LockIsHeld'
  BY <1>13 DEF Insert
<1>14. ASSUME NEW x \in Loops, Bump(x) PROVE LockIsHeld'
  BY <1>14 DEF Bump
<1>15. ASSUME NEW x \in Loops, Notify(x) PROVE LockIsHeld'
  BY <1>15 DEF Notify
<1>16. ASSUME NEW x \in Pushes, NEW m \in Msgs, BackgroundPush(x, m) PROVE LockIsHeld'
  BY <1>16 DEF BackgroundPush
<1>17. ASSUME NEW m \in Msgs, CacheByExtension(m) PROVE LockIsHeld'
  BY <1>17 DEF CacheByExtension
<1>18. ASSUME NEW m \in Msgs, SetShouldNotAck(m) PROVE LockIsHeld'
  BY <1>18 DEF SetShouldNotAck
<1>19. ASSUME NEW m \in Msgs, ReceiptAnswerLost(m) PROVE LockIsHeld'
  BY <1>19 DEF ReceiptAnswerLost
<1>20. ASSUME NEW m \in Msgs, Arrive(m) PROVE LockIsHeld'
  BY <1>20 DEF Arrive
<1>21. ASSUME NEW m \in Msgs, SendReadReceipt(m) PROVE LockIsHeld'
  BY <1>21 DEF SendReadReceipt
<1>22. ASSUME ToggleRead PROVE LockIsHeld'
  BY <1>22 DEF ToggleRead
<1>23. ASSUME Disconnect PROVE LockIsHeld'
  BY <1>23 DEF Disconnect
<1>24. ASSUME Crash PROVE LockIsHeld'
  BY <1>24 DEF Crash
<1>25. ASSUME UNCHANGED vars PROVE LockIsHeld'
  BY <1>25 DEF vars
<1>26. QED
  BY <1>1, <1>2, <1>3, <1>4, <1>5, <1>6, <1>7, <1>8, <1>9, <1>10, <1>11, <1>12,
     <1>13, <1>14, <1>15, <1>16, <1>17, <1>18, <1>19, <1>20, <1>21, <1>22, <1>23,
     <1>24, <1>25
     DEF Next, LocalStep, PullStep, LoopStep

\* Two pulls never hold backlogLock together, and it is held exactly while a pull
\* is suspended before its promise settles, for any number of pulls and crashes.
THEOREM LockIsExclusive == Spec => []LockIsHeld
<1>1. Init => LockIsHeld
  BY DEF Init, LockIsHeld
<1>2. QED
  BY TypeInit, TypeStep, LockStep, <1>1, PTL DEF Spec

-----------------------------------------------------------------------------
\* A pull holds a batch only while its socket is open.
SocketInv == \A p \in Pulls : at[p] # "open" => batch[p] = {}

\* A message past its INSERT has its row.
RowInv == \A x \in Loops : stage[x] \in {"bump", "notify"} => msg[x] \in stored

\* What a pull has still to acknowledge is stored, or this pull is at it.
BatchInv == connected =>
  \A p \in Pulls : \A m \in batch[p] : m \in stored \cup rest[p] \cup {msg[p]}

StoredInv == TypeOK /\ SocketInv /\ RowInv /\ BatchInv /\ ForgottenIsStored

LEMMA StoredInit == Init => StoredInv
<1>1. Init => TypeOK
  BY TypeInit
<1>2. Init => SocketInv /\ RowInv /\ BatchInv /\ ForgottenIsStored
  BY DEF Init, SocketInv, RowInv, BatchInv, ForgottenIsStored
<1>3. QED
  BY <1>1, <1>2 DEF StoredInv

\* Every step keeps the invariant.
LEMMA StoredStep == StoredInv /\ [Next]_vars => StoredInv'
<1> SUFFICES ASSUME StoredInv, [Next]_vars PROVE StoredInv'
  OBVIOUS
<1>0. TypeOK'
  BY TypeStep DEF StoredInv
<1> USE <1>0 DEF StoredInv, TypeOK, SocketInv, RowInv, BatchInv, ForgottenIsStored, Stages,
      Loops, Goto, LoopIsIdle, serverVars, pullVars, loopVars, dbVars, history
<1>1. ASSUME NEW p \in Pulls, PullStart(p) PROVE StoredInv'
  BY <1>1 DEF PullStart
<1>2. ASSUME NEW p \in Pulls, ReadCache(p) PROVE StoredInv'
  BY <1>2 DEF ReadCache
<1>3. ASSUME NEW p \in Pulls, ClearCache(p) PROVE StoredInv'
  BY <1>3 DEF ClearCache
<1>4. ASSUME NEW p \in Pulls, LocalDone(p) PROVE StoredInv'
  BY <1>4 DEF LocalDone
<1>5. ASSUME NEW p \in Pulls, Connect(p) PROVE StoredInv'
  BY <1>5 DEF Connect
<1>6. ASSUME NEW p \in Pulls, ReceiveBatch(p) PROVE StoredInv'
  BY <1>6 DEF ReceiveBatch
<1>7. ASSUME NEW p \in Pulls, AckBatch(p) PROVE StoredInv'
  \* The loop is done with the batch: nothing of it is left but in the database.
  <2>1. connected => batch[p] \subseteq stored
    BY <1>7 DEF AckBatch
  <2>2. ForgottenIsStored'
    BY <1>7, <2>1 DEF AckBatch
  <2>3. SocketInv' /\ RowInv' /\ BatchInv'
    BY <1>7 DEF AckBatch
  <2>4. QED
    BY <2>2, <2>3
<1>8. ASSUME NEW p \in Pulls, Close(p) PROVE StoredInv'
  BY <1>8 DEF Close, Settle
<1>9. ASSUME NEW p \in Pulls, Cut(p) PROVE StoredInv'
  BY <1>9 DEF Cut, Settle
<1>10. ASSUME NEW x \in Loops, Begin(x) PROVE StoredInv'
  BY <1>10 DEF Begin
<1>11. ASSUME NEW x \in Loops, Decrypt(x) PROVE StoredInv'
  BY <1>11 DEF Decrypt, Drop
<1>12. ASSUME NEW x \in Loops, Guard(x) PROVE StoredInv'
  <2>1. CASE msg[x] \in stored
    \* Skipped: the row is there, so this pull owes nothing for it any more.
    BY <1>12, <2>1 DEF Guard, Drop
  <2>2. CASE msg[x] \notin stored
    BY <1>12, <2>2 DEF Guard
  <2>3. QED
    BY <2>1, <2>2
<1>13. ASSUME NEW x \in Loops, Insert(x) PROVE StoredInv'
  BY <1>13 DEF Insert
<1>14. ASSUME NEW x \in Loops, Bump(x) PROVE StoredInv'
  BY <1>14 DEF Bump
<1>15. ASSUME NEW x \in Loops, Notify(x) PROVE StoredInv'
  BY <1>15 DEF Notify, Drop
<1>16. ASSUME NEW x \in Pushes, NEW m \in Msgs, BackgroundPush(x, m) PROVE StoredInv'
  BY <1>16 DEF BackgroundPush
<1>17. ASSUME NEW m \in Msgs, CacheByExtension(m) PROVE StoredInv'
  BY <1>17 DEF CacheByExtension
<1>18. ASSUME NEW m \in Msgs, SetShouldNotAck(m) PROVE StoredInv'
  BY <1>18 DEF SetShouldNotAck
<1>19. ASSUME NEW m \in Msgs, ReceiptAnswerLost(m) PROVE StoredInv'
  BY <1>19 DEF ReceiptAnswerLost
<1>20. ASSUME NEW m \in Msgs, Arrive(m) PROVE StoredInv'
  BY <1>20 DEF Arrive
<1>21. ASSUME NEW m \in Msgs, SendReadReceipt(m) PROVE StoredInv'
  BY <1>21 DEF SendReadReceipt
<1>22. ASSUME ToggleRead PROVE StoredInv'
  BY <1>22 DEF ToggleRead
<1>23. ASSUME Disconnect PROVE StoredInv'
  BY <1>23 DEF Disconnect
<1>24. ASSUME Crash PROVE StoredInv'
  BY <1>24 DEF Crash
<1>25. ASSUME UNCHANGED vars PROVE StoredInv'
  BY <1>25 DEF vars
<1>26. QED
  BY <1>1, <1>2, <1>3, <1>4, <1>5, <1>6, <1>7, <1>8, <1>9, <1>10, <1>11, <1>12,
     <1>13, <1>14, <1>15, <1>16, <1>17, <1>18, <1>19, <1>20, <1>21, <1>22, <1>23,
     <1>24, <1>25
     DEF Next, LocalStep, PullStep, LoopStep

\* While the chat is connected, what the server was told to forget is in the
\* database, whatever pulls, pushes, timers and crashes come between.
THEOREM NothingForgotten == Spec => []ForgottenIsStored
<1>1. StoredInv => ForgottenIsStored
  BY DEF StoredInv
<1>2. QED
  BY StoredInit, StoredStep, <1>1, PTL DEF Spec

-----------------------------------------------------------------------------
\* Loops that counted a message and may still display a notification for it.
Notifying(m) == {x \in Loops : msg[x] = m /\ stage[x] = "notify"}

\* Every notification displayed, or still to be displayed, has its own increment.
ShownInv == \A m \in Msgs : shown[m] + Cardinality(Notifying(m)) <= counted[m]

CountedInv ==
  \A m \in Msgs :
    /\ counted[m] > 0 => m \in stored
    /\ m \in stored /\ crashes = 0 =>
         counted[m] > 0 \/ \E x \in Loops : msg[x] = m /\ stage[x] = "bump"

\* How many loops are about to notify is a number.
LEMMA NotifyingType ==
  ASSUME NEW m PROVE IsFiniteSet(Notifying(m)) /\ Cardinality(Notifying(m)) \in Nat
<1>1. Notifying(m) \subseteq Loops
  BY DEF Notifying
<1>2. IsFiniteSet(Notifying(m))
  BY <1>1, FS_Subset
<1>3. QED
  BY <1>2, FS_CardinalityType

\* A step that leaves the notifying loops and both counts alone.
LEMMA ShownKept ==
  ASSUME ShownInv, UNCHANGED history,
         \A x \in Loops : /\ stage'[x] = "notify" <=> stage[x] = "notify"
                          /\ stage[x] = "notify" => msg'[x] = msg[x]
  PROVE  ShownInv'
<1>1. \A m \in Msgs : Notifying(m)' = Notifying(m)
  BY DEF Notifying
<1>2. QED
  BY <1>1 DEF ShownInv, history

LEMMA ShownStep == TypeOK /\ ShownInv /\ [Next]_vars => ShownInv'
<1> SUFFICES ASSUME TypeOK, ShownInv, [Next]_vars PROVE ShownInv'
  OBVIOUS
<1> USE DEF TypeOK
<1>1. ASSUME NEW x \in Loops, Bump(x) PROVE ShownInv'
  <2>0. PICK m \in Msgs : m = msg[x]
    BY <1>1 DEF Bump, Loops
  <2>1. /\ msg[x] = m /\ stage[x] = "bump" /\ msg' = msg /\ shown' = shown
        /\ counted' = [counted EXCEPT ![m] = @ + 1] /\ stage' = [stage EXCEPT ![x] = "notify"]
    BY <1>1, <2>0 DEF Bump
  <2>2. Notifying(m)' = Notifying(m) \cup {x} /\ x \notin Notifying(m)
    BY <2>1 DEF Notifying
  <2>3. Cardinality(Notifying(m)') = Cardinality(Notifying(m)) + 1
    BY <2>2, NotifyingType, FS_AddElement
  <2>4. \A n \in Msgs \ {m} : Notifying(n)' = Notifying(n)
    BY <2>1 DEF Notifying
  <2> SUFFICES ASSUME NEW n \in Msgs
               PROVE  shown'[n] + Cardinality(Notifying(n)') <= counted'[n]
    BY DEF ShownInv
  <2>5. shown[n] + Cardinality(Notifying(n)) <= counted[n] /\ shown[n] \in Nat /\ counted[n] \in Nat
    BY DEF ShownInv
  <2>6. Cardinality(Notifying(n)) \in Nat
    BY NotifyingType
  <2>7. CASE n = m
    <3>1. counted'[n] = counted[n] + 1 /\ shown'[n] = shown[n]
      BY <2>1, <2>7
    <3>2. Cardinality(Notifying(n)') = Cardinality(Notifying(n)) + 1
      BY <2>3, <2>7
    <3>3. QED
      BY <2>5, <2>6, <3>1, <3>2
  <2>8. CASE n # m
    BY <2>1, <2>4, <2>5, <2>8
  <2>9. QED
    BY <2>7, <2>8
<1>2. ASSUME NEW x \in Loops, Notify(x) PROVE ShownInv'
  <2>0. PICK m \in Msgs : m = msg[x]
    BY <1>2 DEF Notify
  <2>1. /\ msg[x] = m /\ stage[x] = "notify" /\ stage' = [stage EXCEPT ![x] = "none"]
        /\ counted' = counted
    BY <1>2, <2>0 DEF Notify, Drop
  <2>2. \A y \in Loops : y # x => msg'[y] = msg[y]
    BY <1>2 DEF Notify, Drop
  <2>3. Notifying(m)' = Notifying(m) \ {x} /\ x \in Notifying(m)
    BY <2>1, <2>2 DEF Notifying
  <2>4. Cardinality(Notifying(m)') = Cardinality(Notifying(m)) - 1
    <3>1. IsFiniteSet(Notifying(m))
      BY NotifyingType
    <3>2. Cardinality(Notifying(m) \ {x}) =
            IF x \in Notifying(m) THEN Cardinality(Notifying(m)) - 1 ELSE Cardinality(Notifying(m))
      BY <3>1, FS_RemoveElement
    <3>3. QED
      BY <2>3, <3>2
  <2>5. \A n \in Msgs \ {m} : Notifying(n)' = Notifying(n)
    BY <2>1, <2>2 DEF Notifying
  <2> SUFFICES ASSUME NEW n \in Msgs
               PROVE  shown'[n] + Cardinality(Notifying(n)') <= counted'[n]
    BY DEF ShownInv
  <2>6. shown[n] + Cardinality(Notifying(n)) <= counted[n] /\ shown[n] \in Nat /\ counted[n] \in Nat
    BY DEF ShownInv
  <2>7. Cardinality(Notifying(n)) \in Nat
    BY NotifyingType
  <2>8. shown'[n] = shown[n] \/ (n = m /\ shown'[n] = shown[n] + 1)
    BY <1>2, <2>0, <2>1 DEF Notify
  <2>9. CASE n = m
    <3>1. Cardinality(Notifying(n)') = Cardinality(Notifying(n)) - 1
      BY <2>4, <2>9
    <3>2. QED
      BY <2>1, <2>6, <2>7, <2>8, <3>1
  <2>10. CASE n # m
    BY <2>1, <2>5, <2>6, <2>8, <2>10
  <2>11. QED
    BY <2>9, <2>10
<1>3. ASSUME Crash PROVE ShownInv'
  <2>1. \A m \in Msgs : Notifying(m)' = {}
    BY <1>3 DEF Crash, Notifying
  <2>2. \A m \in Msgs : shown[m] <= counted[m]
    <3>1. \A m \in Msgs : Cardinality(Notifying(m)) \in Nat
      BY NotifyingType
    <3>2. QED
      BY <3>1 DEF ShownInv
  <2>3. QED
    <3>1. \A m \in Msgs : Cardinality(Notifying(m)') = 0
      BY <2>1, FS_EmptySet
    <3>2. QED
      BY <1>3, <2>2, <3>1 DEF ShownInv, Crash, history
<1>4. ASSUME NEW x \in Loops, Begin(x) \/ Decrypt(x) \/ Guard(x) \/ Insert(x) PROVE ShownInv'
  <2>1. /\ UNCHANGED history /\ stage[x] # "notify"
        /\ \A y \in Loops : y # x => stage'[y] = stage[y] /\ msg'[y] = msg[y]
    BY <1>4 DEF Begin, Decrypt, Guard, Insert, Drop
  <2>2. stage'[x] # "notify"
    BY <1>4 DEF Begin, Decrypt, Guard, Insert, Drop
  <2>3. QED
    BY <2>1, <2>2, ShownKept
<1>5. ASSUME NEW p \in Pulls, PullStep(p) \/ Cut(p) PROVE ShownInv'
  <2>1. UNCHANGED <<msg, stage, history>>
    BY <1>5 DEF PullStep, PullStart, ReadCache, ClearCache, LocalDone, Connect, ReceiveBatch,
                AckBatch, Close, Cut, loopVars
  <2>2. QED
    BY <2>1, ShownKept
<1>6. ASSUME NEW m \in Msgs,
             \/ CacheByExtension(m) \/ SetShouldNotAck(m) \/ ReceiptAnswerLost(m) \/ Arrive(m)
             \/ SendReadReceipt(m) \/ \E x \in Pushes : BackgroundPush(x, m)
      PROVE  ShownInv'
  <2>1. UNCHANGED <<msg, stage, history>>
    BY <1>6 DEF CacheByExtension, SetShouldNotAck, ReceiptAnswerLost, Arrive, SendReadReceipt,
                BackgroundPush, loopVars
  <2>2. QED
    BY <2>1, ShownKept
<1>7. ASSUME ToggleRead \/ Disconnect \/ UNCHANGED vars PROVE ShownInv'
  <2>1. UNCHANGED <<msg, stage, history>>
    BY <1>7 DEF ToggleRead, Disconnect, vars, loopVars
  <2>2. QED
    BY <2>1, ShownKept
<1>8. QED
  BY <1>1, <1>2, <1>3, <1>4, <1>5, <1>6, <1>7 DEF Next, LocalStep, LoopStep

LEMMA CountedStep == StoredInv /\ CountedInv /\ [Next]_vars => CountedInv'
<1> SUFFICES ASSUME StoredInv, CountedInv, [Next]_vars PROVE CountedInv'
  OBVIOUS
<1> USE DEF StoredInv, TypeOK, CountedInv
<1>1. ASSUME NEW x \in Loops, Insert(x) PROVE CountedInv'
  <2>1. /\ stored' = stored \cup {msg[x]} /\ msg' = msg /\ stage[x] = "insert"
        /\ stage' = [stage EXCEPT ![x] = "bump"] /\ UNCHANGED <<counted, crashes>>
    BY <1>1 DEF Insert, history
  <2>2. QED
    BY <2>1
<1>2. ASSUME NEW x \in Loops, Bump(x) PROVE CountedInv'
  <2>1. /\ stage[x] = "bump" /\ msg' = msg /\ stage' = [stage EXCEPT ![x] = "notify"]
        /\ counted' = [counted EXCEPT ![msg[x]] = @ + 1] /\ UNCHANGED <<stored, crashes>>
    BY <1>2 DEF Bump
  <2>2. msg[x] \in stored
    BY <2>1 DEF RowInv
  <2>3. QED
    BY <2>1, <2>2
<1>3. ASSUME NEW x \in Loops, Begin(x) \/ Decrypt(x) \/ Guard(x) \/ Notify(x) PROVE CountedInv'
  <2>1. /\ UNCHANGED <<counted, stored, crashes>> /\ stage[x] # "bump"
        /\ \A y \in Loops : y # x => stage'[y] = stage[y] /\ msg'[y] = msg[y]
    BY <1>3 DEF Begin, Decrypt, Guard, Notify, Drop, dbVars, history
  <2>2. QED
    BY <2>1
<1>4. ASSUME Crash PROVE CountedInv'
  <2>1. crashes' # 0 /\ UNCHANGED <<counted, stored>>
    BY <1>4 DEF Crash, dbVars, history
  <2>2. QED
    BY <2>1
<1>5. ASSUME NEW p \in Pulls, PullStep(p) \/ Cut(p) PROVE CountedInv'
  <2>1. UNCHANGED <<msg, stage, counted, stored, crashes>>
    BY <1>5 DEF PullStep, PullStart, ReadCache, ClearCache, LocalDone, Connect, ReceiveBatch,
                AckBatch, Close, Cut, loopVars, dbVars, history
  <2>2. QED
    BY <2>1
<1>6. ASSUME NEW m \in Msgs,
             \/ CacheByExtension(m) \/ SetShouldNotAck(m) \/ ReceiptAnswerLost(m) \/ Arrive(m)
             \/ SendReadReceipt(m) \/ \E x \in Pushes : BackgroundPush(x, m)
      PROVE  CountedInv'
  <2>1. UNCHANGED <<msg, stage, counted, stored, crashes>>
    BY <1>6 DEF CacheByExtension, SetShouldNotAck, ReceiptAnswerLost, Arrive, SendReadReceipt,
                BackgroundPush, loopVars, dbVars, history
  <2>2. QED
    BY <2>1
<1>7. ASSUME ToggleRead \/ Disconnect \/ UNCHANGED vars PROVE CountedInv'
  <2>1. UNCHANGED <<msg, stage, counted, stored, crashes>>
    BY <1>7 DEF ToggleRead, Disconnect, vars, loopVars, dbVars, history
  <2>2. QED
    BY <2>1
<1>8. QED
  BY <1>1, <1>2, <1>3, <1>4, <1>5, <1>6, <1>7 DEF Next, LocalStep, LoopStep

\* The unread count never speaks of a message without a row, no notification comes
\* without its increment, and only a crash leaves a stored message uncounted: for any
\* number of concurrent loops over the same messages.
THEOREM CountHolds == Spec => []CountFollowsStore
<1>1. Init => ShownInv /\ CountedInv
  <2> SUFFICES ASSUME Init PROVE ShownInv /\ CountedInv
    OBVIOUS
  <2>1. \A m \in Msgs : Notifying(m) = {}
    BY DEF Init, Notifying
  <2>2. QED
    BY <2>1, FS_EmptySet DEF Init, ShownInv, CountedInv
<1>2. StoredInv => TypeOK
  BY DEF StoredInv
<1>3. TypeOK /\ ShownInv /\ CountedInv => CountFollowsStore
  BY NotifyingType DEF TypeOK, ShownInv, CountedInv, CountFollowsStore
<1>4. Spec => [](StoredInv /\ ShownInv /\ CountedInv)
  BY StoredInit, StoredStep, ShownStep, CountedStep, <1>1, <1>2, PTL DEF Spec
<1>5. QED
  BY <1>2, <1>3, <1>4, PTL
=============================================================================
