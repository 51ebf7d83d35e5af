------------------------------- MODULE Inbox -------------------------------
(***************************************************************************)
(* The receiving side of a direct chat: text messages from the server's    *)
(* backlog, or from push notifications, into the database.                 *)
(*                                                                         *)
(* pullBacklog() holds backlogLock, processes what the iOS notification    *)
(* extension cached, then opens a WebSocket; the server sends batches and  *)
(* forgets a batch when its size is sent back. Each message is received    *)
(* through several awaits: decrypt, look for its row, insert the row,      *)
(* increment the unread count, notify.                                     *)
(*                                                                         *)
(* The promise that holds the lock is settled by a 15 s timer, an error or *)
(* a close of the socket. None of them stops the loop that processes the   *)
(* current batch. The background push handler takes no lock at all.        *)
(***************************************************************************)
EXTENDS Naturals, FiniteSets

CONSTANTS Msgs,       \* message ids
          Pulls,      \* invocations of pullBacklog() that may be alive together
          Pushes,     \* invocations of the background push handler
          NoMsg,      \* "no message"
          IsIOS,      \* whether the client runs on iOS and caches pushes
          ReadReceipts, \* the settings of the chat's read-receipts permission (on, off)
          MayCut,     \* whether a pull may be settled before the server closes its socket
          MaxCrashes  \* bound: how often the process may be killed

Loops == Pulls \cup Pushes

ASSUME InboxAssumption == /\ Pulls \cap Pushes = {}
                          /\ NoMsg \notin Msgs
                          /\ ReadReceipts \cup {IsIOS, MayCut} \subseteq BOOLEAN
                          /\ IsFiniteSet(Loops)
                          /\ MaxCrashes \in Nat

VARIABLES
  backlog,    \* messages the server keeps for this user
  arrived,    \* history: messages the server ever kept for this user
  cache,      \* unprocessedMessages, written by the notification extension
  lock,       \* backlogLock
  at,         \* where each pullBacklog() is suspended
  batch,      \* the batch a pull still has to acknowledge on its open socket
  rest,       \* messages a loop has not begun to process
  msg,        \* the message a loop is processing
  stage,      \* the await the processing of msg is suspended at
  stored,     \* messages with a row in lineMessages
  shouldAck,  \* stored messages whose row asks for a read receipt
  acking,     \* messages whose read receipt was posted, answer pending
  unread,     \* newMessageCount of the connection row
  counted,    \* history: how often each message incremented newMessageCount
  shown,      \* history: how often a notification was displayed for each message
  connected,  \* the line is not disconnected
  crashes

serverVars == <<backlog, arrived>>
pullVars   == <<lock, at, batch>>
loopVars   == <<rest, msg, stage>>
dbVars     == <<cache, stored, shouldAck, unread, connected>>
history    == <<counted, shown>>
vars == <<serverVars, pullVars, loopVars, dbVars, acking, history, crashes>>

Stages == {"none", "decrypt", "guard", "insert", "bump", "notify"}

TypeOK ==
  /\ arrived \in SUBSET Msgs /\ backlog \in SUBSET arrived
  /\ cache \in SUBSET arrived
  /\ lock \in BOOLEAN
  /\ at \in [Pulls -> {"idle", "cache", "clear", "local", "connect", "open"}]
  /\ batch \in [Pulls -> SUBSET arrived]
  /\ rest \in [Loops -> SUBSET arrived]
  /\ msg \in [Loops -> arrived \cup {NoMsg}]
  /\ stage \in [Loops -> Stages]
  /\ \A x \in Loops : (stage[x] = "none") <=> (msg[x] = NoMsg)
  /\ stored \in SUBSET arrived
  /\ shouldAck \in SUBSET stored
  /\ acking \in SUBSET stored
  /\ unread \in Nat
  /\ counted \in [Msgs -> Nat] /\ shown \in [Msgs -> Nat]
  /\ connected \in BOOLEAN
  /\ crashes \in 0..MaxCrashes

Init ==
  /\ backlog = {} /\ arrived = {} /\ cache = {}
  /\ lock = FALSE
  /\ at = [p \in Pulls |-> "idle"]
  /\ batch = [p \in Pulls |-> {}]
  /\ rest = [x \in Loops |-> {}]
  /\ msg = [x \in Loops |-> NoMsg]
  /\ stage = [x \in Loops |-> "none"]
  /\ stored = {} /\ shouldAck = {} /\ acking = {}
  /\ unread = 0
  /\ counted = [m \in Msgs |-> 0] /\ shown = [m \in Msgs |-> 0]
  /\ connected = TRUE
  /\ crashes = 0

-----------------------------------------------------------------------------
(* The server and the platform *)

\* The sender's copy reaches the server. A copy it already keeps is the same copy.
Arrive(m) ==
  /\ arrived' = arrived \cup {m}
  /\ backlog' = backlog \cup {m}
  /\ UNCHANGED <<pullVars, loopVars, dbVars, acking, history, crashes>>

\* The iOS notification service extension caches the payload of a push.
CacheByExtension(m) ==
  /\ IsIOS /\ m \in arrived
  /\ cache' = cache \cup {m}
  /\ UNCHANGED <<serverVars, pullVars, loopVars, stored, shouldAck, unread,
                 connected, acking, history, crashes>>

\* setBackgroundMessageHandler: the payload is received at once, without the lock.
BackgroundPush(x, m) ==
  /\ m \in arrived
  /\ stage[x] = "none" /\ rest[x] = {}
  /\ rest' = [rest EXCEPT ![x] = {m}]
  /\ UNCHANGED <<serverVars, pullVars, msg, stage, dbVars, acking, history, crashes>>

-----------------------------------------------------------------------------
(* pullBacklog *)

Goto(p, place) == at' = [at EXCEPT ![p] = place]
LoopIsIdle(x) == stage[x] = "none" /\ rest[x] = {}

\* Mutant: a pull does not look whether the lock is held.
PullStartUnlocked(p) ==
  /\ at[p] = "idle" /\ LoopIsIdle(p)
  /\ lock' = TRUE
  /\ Goto(p, IF IsIOS THEN "cache" ELSE "connect")
  /\ UNCHANGED <<serverVars, batch, loopVars, dbVars, acking, history, crashes>>

\* isLocked() and acquire() run in one go; a pull that finds the lock held returns.
PullStart(p) ==
  /\ ~lock /\ at[p] = "idle" /\ LoopIsIdle(p)
  /\ lock' = TRUE
  /\ Goto(p, IF IsIOS THEN "cache" ELSE "connect")
  /\ UNCHANGED <<serverVars, batch, loopVars, dbVars, acking, history, crashes>>

\* getAndClearUnprocessedMessages: SELECT ...
ReadCache(p) ==
  /\ at[p] = "cache"
  /\ rest' = [rest EXCEPT ![p] = cache]
  /\ Goto(p, "clear")
  /\ UNCHANGED <<serverVars, lock, batch, msg, stage, dbVars, acking, history, crashes>>

\* ... then DELETE, whatever was cached in between.
ClearCache(p) ==
  /\ at[p] = "clear"
  /\ cache' = {}
  /\ Goto(p, "local")
  /\ UNCHANGED <<serverVars, lock, batch, loopVars, stored, shouldAck, unread,
                 connected, acking, history, crashes>>

LocalDone(p) ==
  /\ at[p] = "local" /\ LoopIsIdle(p)
  /\ Goto(p, "connect")
  /\ UNCHANGED <<serverVars, lock, batch, loopVars, dbVars, acking, history, crashes>>

Connect(p) ==
  /\ at[p] = "connect"
  /\ Goto(p, "open")
  /\ UNCHANGED <<serverVars, lock, batch, loopVars, dbVars, acking, history, crashes>>

\* The server sends a batch; onmessage starts the loop over it.
ReceiveBatch(p) ==
  /\ at[p] = "open" /\ LoopIsIdle(p) /\ batch[p] = {}
  /\ \E b \in SUBSET backlog \ {{}} :
       /\ batch' = [batch EXCEPT ![p] = b]
       /\ rest' = [rest EXCEPT ![p] = b]
  /\ UNCHANGED <<serverVars, lock, at, msg, stage, dbVars, acking, history, crashes>>

\* Mutant: the loop over the batch is not awaited before its size is sent back.
AckBatchEarly(p) ==
  /\ at[p] = "open" /\ batch[p] # {}
  /\ backlog' = backlog \ batch[p]
  /\ batch' = [batch EXCEPT ![p] = {}]
  /\ UNCHANGED <<arrived, lock, at, loopVars, dbVars, acking, history, crashes>>

\* The whole batch was processed and the socket is open: its size is sent back
\* and the server forgets it.
AckBatch(p) ==
  /\ at[p] = "open" /\ LoopIsIdle(p) /\ batch[p] # {}
  /\ backlog' = backlog \ batch[p]
  /\ batch' = [batch EXCEPT ![p] = {}]
  /\ UNCHANGED <<arrived, lock, at, loopVars, dbVars, acking, history, crashes>>

\* The promise is settled, pullBacklog() releases the lock. A loop that is
\* still running keeps running, but has no socket to acknowledge on.
Settle(p) ==
  /\ Goto(p, "idle")
  /\ lock' = FALSE
  /\ batch' = [batch EXCEPT ![p] = {}]

\* The server closes the socket after the last batch.
Close(p) ==
  /\ at[p] = "open" /\ LoopIsIdle(p) /\ batch[p] = {}
  /\ Settle(p)
  /\ UNCHANGED <<serverVars, loopVars, dbVars, acking, history, crashes>>

\* Mutant: pullBacklog() ends on an early settling without release().
CutWithoutRelease(p) ==
  /\ MayCut /\ at[p] \in {"connect", "open"}
  /\ Goto(p, "idle")
  /\ batch' = [batch EXCEPT ![p] = {}]
  /\ UNCHANGED <<serverVars, lock, loopVars, dbVars, acking, history, crashes>>

\* No token or no socket (connect), an error, a close or the 15 s timer (open).
Cut(p) ==
  /\ MayCut /\ at[p] \in {"connect", "open"}
  /\ Settle(p)
  /\ UNCHANGED <<serverVars, loopVars, dbVars, acking, history, crashes>>

-----------------------------------------------------------------------------
(* ReceiveMessage.receive for one message, one action per await *)

\* A pull reads its cache before it clears it, and processes it after.
Begin(x) ==
  /\ stage[x] = "none"
  /\ x \in Pulls => at[x] # "clear"
  /\ \E m \in rest[x] :
       /\ rest' = [rest EXCEPT ![x] = @ \ {m}]
       /\ msg' = [msg EXCEPT ![x] = m]
  /\ stage' = [stage EXCEPT ![x] = "decrypt"]
  /\ UNCHANGED <<serverVars, pullVars, dbVars, acking, history, crashes>>

\* Mutant: the processing of a message ends but the loop does not go on.
DropInPlace(x) ==
  /\ msg' = [msg EXCEPT ![x] = NoMsg]
  /\ UNCHANGED stage

\* The receive action returns or throws; ReceiveMessage swallows the error.
Drop(x) ==
  /\ msg' = [msg EXCEPT ![x] = NoMsg]
  /\ stage' = [stage EXCEPT ![x] = "none"]

\* A message for a disconnected chat is thrown away.
Decrypt(x) ==
  /\ stage[x] = "decrypt"
  /\ \/ ~connected /\ Drop(x)
     \/ connected /\ stage' = [stage EXCEPT ![x] = "guard"] /\ UNCHANGED msg
  /\ UNCHANGED <<serverVars, pullVars, rest, dbVars, acking, history, crashes>>

\* Mutant: a message another loop is already processing is skipped.
GuardInFlight(x) ==
  /\ stage[x] = "guard"
  /\ IF msg[x] \in stored \/ \E y \in Loops \ {x} : msg[y] = msg[x]
     THEN Drop(x)
     ELSE stage' = [stage EXCEPT ![x] = "insert"] /\ UNCHANGED msg
  /\ UNCHANGED <<serverVars, pullVars, rest, dbVars, acking, history, crashes>>

\* doubleProcessingGuard: a message that has a row is not processed again.
Guard(x) ==
  /\ stage[x] = "guard"
  /\ \/ msg[x] \in stored /\ Drop(x)
     \/ msg[x] \notin stored /\ stage' = [stage EXCEPT ![x] = "insert"] /\ UNCHANGED msg
  /\ UNCHANGED <<serverVars, pullVars, rest, dbVars, acking, history, crashes>>

\* Mutant: the row is inserted and the connection is never updated.
InsertOnly(x) ==
  /\ stage[x] = "insert"
  /\ stored' = stored \cup {msg[x]}
  /\ Drop(x)
  /\ UNCHANGED <<serverVars, pullVars, rest, cache, shouldAck, unread, connected,
                 acking, history, crashes>>

\* saveMessage: a second INSERT violates UNIQUE(chatId, messageId), and
\* runSimpleQuery swallows that error.
Insert(x) ==
  /\ stage[x] = "insert"
  /\ stored' = stored \cup {msg[x]}
  /\ \E readReceipts \in ReadReceipts :
       shouldAck' = IF readReceipts /\ msg[x] \notin stored
                    THEN shouldAck \cup {msg[x]} ELSE shouldAck
  /\ stage' = [stage EXCEPT ![x] = "bump"]
  /\ UNCHANGED <<serverVars, pullVars, rest, msg, cache, unread, connected,
                 acking, history, crashes>>

\* updateConnectionOnNewMessage with NewMessageCountAction.increment.
Bump(x) ==
  /\ stage[x] = "bump"
  /\ unread' = unread + 1
  /\ counted' = [counted EXCEPT ![msg[x]] = @ + 1]
  /\ stage' = [stage EXCEPT ![x] = "notify"]
  /\ UNCHANGED <<serverVars, pullVars, rest, msg, cache, stored, shouldAck,
                 connected, acking, shown, crashes>>

\* Displays a notification if the chat's permission says so.
Notify(x) ==
  /\ stage[x] = "notify"
  /\ shown' \in {shown, [shown EXCEPT ![msg[x]] = @ + 1]}
  /\ Drop(x)
  /\ UNCHANGED <<serverVars, pullVars, rest, dbVars, acking, counted, crashes>>

-----------------------------------------------------------------------------
(* The user, receipts, disconnection, crashes *)

\* toggleRead: the chat is opened.
ToggleRead ==
  /\ unread # 0
  /\ unread' = 0
  /\ UNCHANGED <<serverVars, pullVars, loopVars, cache, stored, shouldAck,
                 connected, acking, history, crashes>>

\* The message is rendered and its read receipt reaches the server.
SendReadReceipt(m) ==
  /\ m \in shouldAck /\ connected
  /\ acking' = acking \cup {m}
  /\ UNCHANGED <<serverVars, pullVars, loopVars, dbVars, history, crashes>>

\* The answer arrives: setShouldNotAck.
SetShouldNotAck(m) ==
  /\ m \in acking
  /\ acking' = acking \ {m}
  /\ shouldAck' = shouldAck \ {m}
  /\ UNCHANGED <<serverVars, pullVars, loopVars, cache, stored, unread,
                 connected, history, crashes>>

\* The answer is lost: the receipt will be sent again.
ReceiptAnswerLost(m) ==
  /\ m \in acking
  /\ acking' = acking \ {m}
  /\ UNCHANGED <<serverVars, pullVars, loopVars, dbVars, history, crashes>>

Disconnect ==
  /\ connected
  /\ connected' = FALSE
  /\ UNCHANGED <<serverVars, pullVars, loopVars, cache, stored, shouldAck,
                 unread, acking, history, crashes>>

\* The process is killed: the lock, the sockets and the loops are gone.
Crash ==
  /\ crashes < MaxCrashes
  /\ crashes' = crashes + 1
  /\ lock' = FALSE
  /\ at' = [p \in Pulls |-> "idle"]
  /\ batch' = [p \in Pulls |-> {}]
  /\ rest' = [x \in Loops |-> {}]
  /\ msg' = [x \in Loops |-> NoMsg]
  /\ stage' = [x \in Loops |-> "none"]
  /\ acking' = {}
  /\ UNCHANGED <<serverVars, dbVars, history>>

-----------------------------------------------------------------------------
PullStep(p) ==
  \/ PullStart(p) \/ ReadCache(p) \/ ClearCache(p) \/ LocalDone(p)
  \/ Connect(p) \/ ReceiveBatch(p) \/ AckBatch(p) \/ Close(p)

LoopStep(x) ==
  Begin(x) \/ Decrypt(x) \/ Guard(x) \/ Insert(x) \/ Bump(x) \/ Notify(x)

LocalStep ==
  \/ \E p \in Pulls : PullStep(p) \/ Cut(p)
  \/ \E x \in Loops : LoopStep(x)
  \/ \E x \in Pushes, m \in Msgs : BackgroundPush(x, m)
  \/ \E m \in Msgs : CacheByExtension(m) \/ SetShouldNotAck(m) \/ ReceiptAnswerLost(m)
  \/ ToggleRead \/ Disconnect \/ Crash

Next ==
  \/ LocalStep
  \/ \E m \in Msgs : Arrive(m) \/ SendReadReceipt(m)

Spec == Init /\ [][Next]_vars

\* Pulls are started again and again and make progress, the 15 s timer of an
\* open socket goes off, loops are resumed; a socket that is tried again and
\* again opens in the end, and then the server sends every message it keeps.
Fairness ==
  /\ \A p \in Pulls : /\ WF_vars(PullStep(p)) /\ WF_vars(Cut(p)) /\ SF_vars(Connect(p))
                      /\ \A m \in Msgs : SF_vars(ReceiveBatch(p) /\ m \in rest'[p])
  /\ \A x \in Loops : WF_vars(LoopStep(x))

FairSpec == Spec /\ Fairness

-----------------------------------------------------------------------------
(* Properties *)

\* Nothing is lost: what the server was told to forget is in the database. A
\* crash, a timeout or a second loop over the same batch never acknowledges a
\* message before its row is there. (A disconnected chat throws messages away.)
ForgottenIsStored == connected => arrived \ backlog \subseteq stored

\* The unread count never speaks of a message that is not there, and no stored
\* message goes uncounted unless the process died between the two steps.
CountFollowsStore ==
  \A m \in Msgs :
    /\ counted[m] > 0 => m \in stored
    /\ shown[m] <= counted[m]
    /\ m \in stored /\ crashes = 0 =>
         \/ counted[m] > 0
         \/ \E x \in Loops : msg[x] = m /\ stage[x] = "bump"

\* backlogLock: two pulls never hold the lock together, and the lock is held
\* exactly while one is suspended before its promise settles.
LockIsHeld ==
  /\ lock <=> \E p \in Pulls : at[p] # "idle"
  /\ \A p, q \in Pulls : at[p] # "idle" /\ at[q] # "idle" => p = q

\* Every message on the server is stored in the end, unless the chat is cut.
BacklogIsStored == \A m \in Msgs : m \in backlog ~> (m \in stored \/ ~connected)

\* backlogLock is always released again: a dead socket, a timeout or a crash
\* never leaves a device that pulls no more.
LockIsReleased == lock ~> ~lock
=============================================================================
