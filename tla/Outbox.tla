------------------------------- MODULE Outbox -------------------------------
(***************************************************************************)
(* The sending side of a direct chat: messages of the generic sender class *)
(* (text, link, name, info, ...), the journal they are kept in, the two    *)
(* kinds of JavaScript tasks that post them, and those that delete a       *)
(* message or show a reaction and thereby write the tile of the chat.      *)
(*                                                                         *)
(* send() saves the message as journaled and starts retry() WITHOUT        *)
(* awaiting it; sendJournaled(), run on every foregrounding and every      *)
(* periodic wake-up, reads all journaled rows and retries each of them.    *)
(* Nothing serialises any of these: every await is a point where another   *)
(* task may run, and the process may be killed at any of them.             *)
(***************************************************************************)
EXTENDS FiniteSets

CONSTANTS Msgs,       \* message ids; the task send() leaves behind is named by its message
          Pumps,      \* concurrent invocations of sendJournaled()
          Cleaners,   \* concurrent invocations of cleanDeleteMessage() and of the
                      \* code that handles a reaction
          NoMsg,      \* "no message": an empty latestMessageId, an idle task
          Disappearing \* the messages sent while the chat has a disappearing timer

Tasks == Msgs \cup Pumps

ASSUME OutboxAssumption == /\ Msgs \cap Pumps = {}
                           /\ NoMsg \notin Tasks
                           /\ Disappearing \subseteq Msgs

VARIABLES
  line,      \* the chat's line: unauthenticated, authenticated, or keyless (crypto row gone)
  row,       \* messageStatus of each message's row in lineMessages, "none" if no row
  submitted, \* history: the messages that were saved, their rows may be gone again
  reacted,   \* the messages whose row says hasReaction
  latest,    \* latestMessageId of the connection row
  tile,      \* readStatus of the connection row
  tileOf,    \* history: the message tile is a status of, NoMsg for a reaction's
  at,        \* where each task is suspended
  cur,       \* the message each task is working on
  timed,     \* whether the payload a task sends carries this.expiresOn
  out,       \* the sendStatus a task got from attempt()
  todo,      \* the rows a pump read and has not retried yet
  accepted,  \* history: copies the server took, [msg, timed]
  receipt,   \* the ReceiveReceipt handler of each message
  cleanAt,   \* where each cleaner is suspended
  prey,      \* the message a cleaner deletes, NoMsg when it handles a reaction
  found,     \* the latestMessageId a cleaner loaded
  seen       \* the messageStatus a cleaner loaded for it

tileVars  == <<latest, tile, tileOf>>
cleanVars == <<reacted, cleanAt, prey, found, seen>>
vars == <<line, row, submitted, tileVars, at, cur, timed, out, todo, accepted,
          receipt, cleanVars>>

LineStates == {"unauthenticated", "authenticated", "keyless"}
Statuses   == {"journaled", "sent", "failed", "read"}
Places     == {"idle", "next", "load", "post", "wait", "mark", "tile",
               "failMark", "failTile"}
CleanPlaces == {"idle", "connection", "latest", "restore", "delete", "reaction"}
Copies     == [msg : Msgs, timed : BOOLEAN]

TypeOK ==
  /\ line \in LineStates
  /\ row \in [Msgs -> Statuses \cup {"none"}]
  /\ submitted \in SUBSET Msgs
  /\ reacted \in SUBSET Msgs
  /\ latest \in Msgs \cup {NoMsg}
  /\ tile \in Statuses \cup {"none", "latest"}
  /\ tileOf \in Msgs \cup {NoMsg}
  /\ at \in [Tasks -> Places]
  /\ cur \in [Tasks -> Msgs \cup {NoMsg}]
  /\ \A t \in Tasks : at[t] \notin {"idle", "next"} => cur[t] \in Msgs
  /\ timed \in [Tasks -> BOOLEAN]
  /\ out \in [Tasks -> {"sent", "journaled"}]
  /\ todo \in [Pumps -> SUBSET Msgs]
  /\ accepted \in SUBSET Copies
  /\ receipt \in [Msgs -> {"none", "check", "write"}]
  /\ cleanAt \in [Cleaners -> CleanPlaces]
  /\ prey \in [Cleaners -> Msgs \cup {NoMsg}]
  /\ found \in [Cleaners -> Msgs \cup {NoMsg}]
  /\ seen \in [Cleaners -> Statuses \cup {"none"}]
  /\ \A k \in Cleaners :
       /\ cleanAt[k] = "restore" => found[k] \in Msgs /\ seen[k] # "none"
       /\ cleanAt[k] = "delete" => prey[k] \in Msgs

\* The messages the server holds, or held, at least one copy of.
AcceptedMsgs == {c.msg : c \in accepted}

Init ==
  /\ line \in {"unauthenticated", "authenticated"}
  /\ row = [m \in Msgs |-> "none"]
  /\ submitted = {}
  /\ reacted = {}
  /\ latest = NoMsg
  /\ tile = "none"
  /\ tileOf = NoMsg
  /\ at = [t \in Tasks |-> "idle"]
  /\ cur = [t \in Tasks |-> NoMsg]
  /\ timed = [t \in Tasks |-> FALSE]
  /\ out = [t \in Tasks |-> "journaled"]
  /\ todo = [p \in Pumps |-> {}]
  /\ accepted = {}
  /\ receipt = [m \in Msgs |-> "none"]
  /\ cleanAt = [k \in Cleaners |-> "idle"]
  /\ prey = [k \in Cleaners |-> NoMsg]
  /\ found = [k \in Cleaners |-> NoMsg]
  /\ seen = [k \in Cleaners |-> "none"]

-----------------------------------------------------------------------------
(* Helpers *)

\* UPDATE lineMessages SET messageStatus: does nothing when the row is gone.
SetStatus(m, s) ==
  row' = IF row[m] = "none" THEN row ELSE [row EXCEPT ![m] = s]

\* updateConnectionOnNewMessage: the connection row now shows message m.
ShowOnTile(m, s) == latest' = m /\ tile' = s /\ tileOf' = m

Goto(t, place) == at' = [at EXCEPT ![t] = place]

\* retry() returns or throws: a pump goes on to its next row, the task of a
\* send() is over. Everything the task held is dropped with it.
Finish(t) ==
  /\ at' = [at EXCEPT ![t] = IF t \in Pumps THEN "next" ELSE "idle"]
  /\ cur' = [cur EXCEPT ![t] = NoMsg]
  /\ timed' = [timed EXCEPT ![t] = FALSE]
  /\ out' = [out EXCEPT ![t] = "journaled"]

-----------------------------------------------------------------------------
(* SendGenericDirectMessage.send *)

\* A message id is random, so never one that is or was in use.
Fresh(m) == m \notin submitted /\ latest # m

\* The message is valid: it is saved as journaled, with an expiry if the chat
\* has a disappearing timer, and retry() is started.
Send(m) ==
  /\ Fresh(m)
  /\ row' = [row EXCEPT ![m] = "journaled"]
  /\ submitted' = submitted \cup {m}
  /\ timed' = [timed EXCEPT ![m] = m \in Disappearing]
  /\ Goto(m, "load")
  /\ cur' = [cur EXCEPT ![m] = m]
  /\ UNCHANGED <<line, tileVars, out, todo, accepted, receipt, cleanVars>>

\* The message is too big: nothing was saved, yet onFailure shows it on the tile.
SendRejected(m) ==
  /\ Fresh(m)
  /\ ShowOnTile(m, "failed")
  /\ UNCHANGED <<line, row, submitted, at, cur, timed, out, todo, accepted,
                 receipt, cleanVars>>

-----------------------------------------------------------------------------
(* SendGenericDirectMessage.retry, one action per await *)

\* isAuthenticated() is false: retry() returns, the row stays journaled.
LoadUnauthenticated(t) ==
  /\ at[t] = "load" /\ line = "unauthenticated"
  /\ Finish(t)
  /\ UNCHANGED <<line, row, submitted, tileVars, todo, accepted, receipt,
                 cleanVars>>

\* loadSavedMessage() throws MessageNotFound.
LoadMissing(t) ==
  /\ at[t] = "load" /\ line # "unauthenticated" /\ row[cur[t]] = "none"
  /\ Goto(t, "failMark")
  /\ UNCHANGED <<line, row, submitted, tileVars, cur, timed, out, todo,
                 accepted, receipt, cleanVars>>

\* The payload is rebuilt from the row; its expiresOn is the sender object's.
LoadRow(t) ==
  /\ at[t] = "load" /\ line # "unauthenticated" /\ row[cur[t]] # "none"
  /\ Goto(t, "post")
  /\ UNCHANGED <<line, row, submitted, tileVars, cur, timed, out, todo,
                 accepted, receipt, cleanVars>>

\* encryptedMessage() throws: the line's keys are gone.
EncryptFails(t) ==
  /\ at[t] = "post" /\ line = "keyless"
  /\ Goto(t, "failMark")
  /\ UNCHANGED <<line, row, submitted, tileVars, cur, timed, out, todo,
                 accepted, receipt, cleanVars>>

\* sendObject(): the server takes the message; its answer is still on the way.
PostAccepted(t) ==
  /\ at[t] = "post" /\ line = "authenticated"
  /\ accepted' = accepted \cup {[msg |-> cur[t], timed |-> timed[t]]}
  /\ Goto(t, "wait")
  /\ UNCHANGED <<line, row, submitted, tileVars, cur, timed, out, todo, receipt,
                 cleanVars>>

\* Mutant: attempt() returns sent although sendObject() threw.
PostFailsAsSent(t) ==
  /\ at[t] = "post" /\ line = "authenticated"
  /\ out' = [out EXCEPT ![t] = "sent"]
  /\ Goto(t, "mark")
  /\ UNCHANGED <<line, row, submitted, tileVars, cur, timed, todo, accepted,
                 receipt, cleanVars>>

\* sendObject() throws before the server takes anything (no token, no network).
PostFails(t) ==
  /\ at[t] = "post" /\ line = "authenticated"
  /\ out' = [out EXCEPT ![t] = "journaled"]
  /\ Goto(t, "mark")
  /\ UNCHANGED <<line, row, submitted, tileVars, cur, timed, todo, accepted,
                 receipt, cleanVars>>

\* The server's answer arrives: attempt() returns sent.
Answered(t) ==
  /\ at[t] = "wait"
  /\ out' = [out EXCEPT ![t] = "sent"]
  /\ Goto(t, "mark")
  /\ UNCHANGED <<line, row, submitted, tileVars, cur, timed, todo, accepted,
                 receipt, cleanVars>>

\* The answer is lost: attempt() catches the error and returns journaled.
AnswerLost(t) ==
  /\ at[t] = "wait"
  /\ out' = [out EXCEPT ![t] = "journaled"]
  /\ Goto(t, "mark")
  /\ UNCHANGED <<line, row, submitted, tileVars, cur, timed, todo, accepted,
                 receipt, cleanVars>>

MarkRow(t) ==
  /\ at[t] = "mark"
  /\ SetStatus(cur[t], out[t])
  /\ Goto(t, "tile")
  /\ UNCHANGED <<line, submitted, tileVars, cur, timed, out, todo, accepted,
                 receipt, cleanVars>>

\* Mutant: the tile is told sent without a look at the outcome.
UpdateTileAsSent(t) ==
  /\ at[t] = "tile"
  /\ ShowOnTile(cur[t], "sent")
  /\ Finish(t)
  /\ UNCHANGED <<line, row, submitted, todo, accepted, receipt, cleanVars>>

UpdateTile(t) ==
  /\ at[t] = "tile"
  /\ ShowOnTile(cur[t], out[t])
  /\ Finish(t)
  /\ UNCHANGED <<line, row, submitted, todo, accepted, receipt, cleanVars>>

\* onFailure(): the row, if there still is one, is marked failed ...
FailMark(t) ==
  /\ at[t] = "failMark"
  /\ SetStatus(cur[t], "failed")
  /\ Goto(t, "failTile")
  /\ UNCHANGED <<line, submitted, tileVars, cur, timed, out, todo, accepted,
                 receipt, cleanVars>>

\* ... then the tile.
FailTile(t) ==
  /\ at[t] = "failTile"
  /\ ShowOnTile(cur[t], "failed")
  /\ Finish(t)
  /\ UNCHANGED <<line, row, submitted, todo, accepted, receipt, cleanVars>>

-----------------------------------------------------------------------------
(* sendJournaled *)

\* Mutant: the query asks for failed rows instead of journaled ones.
PumpStartOnFailed(p) ==
  /\ at[p] = "idle"
  /\ todo' = [todo EXCEPT ![p] = {m \in Msgs : row[m] = "failed"}]
  /\ Goto(p, "next")
  /\ UNCHANGED <<line, row, submitted, tileVars, cur, timed, out, accepted,
                 receipt, cleanVars>>

\* getJournaled(): the pump works from this snapshot until it is used up.
PumpStart(p) ==
  /\ at[p] = "idle"
  /\ todo' = [todo EXCEPT ![p] = {m \in Msgs : row[m] = "journaled"}]
  /\ Goto(p, "next")
  /\ UNCHANGED <<line, row, submitted, tileVars, cur, timed, out, accepted,
                 receipt, cleanVars>>

\* A new sender object retries the next row. Its constructor sets expiresOn to null.
PumpNext(p) ==
  /\ at[p] = "next"
  /\ \E m \in todo[p] :
       /\ todo' = [todo EXCEPT ![p] = @ \ {m}]
       /\ cur' = [cur EXCEPT ![p] = m]
  /\ timed' = [timed EXCEPT ![p] = FALSE]
  /\ Goto(p, "load")
  /\ UNCHANGED <<line, row, submitted, tileVars, out, accepted, receipt,
                 cleanVars>>

PumpDone(p) ==
  /\ at[p] = "next" /\ todo[p] = {}
  /\ Goto(p, "idle")
  /\ UNCHANGED <<line, row, submitted, tileVars, cur, timed, out, todo,
                 accepted, receipt, cleanVars>>

-----------------------------------------------------------------------------
(* ReceiveReceipt, one action per query *)

\* updateMessageStatus: the status becomes read, whatever it was.
ReceiptRow(m) ==
  /\ m \in AcceptedMsgs /\ receipt[m] = "none"
  /\ SetStatus(m, "read")
  /\ receipt' = [receipt EXCEPT ![m] = "check"]
  /\ UNCHANGED <<line, submitted, tileVars, at, cur, timed, out, todo,
                 accepted, cleanVars>>

\* updateConnectionIfLatestMessageIsX, first query: is m the latest message?
ReceiptCheck(m) ==
  /\ receipt[m] = "check"
  /\ receipt' = [receipt EXCEPT ![m] = IF latest = m THEN "write" ELSE "none"]
  /\ UNCHANGED <<line, row, submitted, tileVars, at, cur, timed, out, todo,
                 accepted, cleanVars>>

\* ... second query: the connection's readStatus becomes read.
ReceiptWrite(m) ==
  /\ receipt[m] = "write"
  /\ tile' = "read" /\ tileOf' = m
  /\ receipt' = [receipt EXCEPT ![m] = "none"]
  /\ UNCHANGED <<line, row, submitted, latest, at, cur, timed, out, todo,
                 accepted, cleanVars>>

-----------------------------------------------------------------------------
(* cleanDeleteMessage, and what adds and withdraws reactions *)

\* The latest message is dealt with: a reaction's handler is over, a deletion goes on.
AfterRestore(k) ==
  /\ cleanAt' = [cleanAt EXCEPT ![k] = IF prey[k] = NoMsg THEN "idle" ELSE "delete"]
  /\ found' = [found EXCEPT ![k] = NoMsg]
  /\ seen' = [seen EXCEPT ![k] = "none"]
  /\ UNCHANGED prey

CleanGoto(k, place) == cleanAt' = [cleanAt EXCEPT ![k] = place]

\* Mutant: the message to delete is not passed on.
StartCleanWithoutId(k, m) ==
  /\ cleanAt[k] = "idle" /\ row[m] # "none"
  /\ CleanGoto(k, IF m \in reacted THEN "connection" ELSE "delete")
  /\ UNCHANGED <<line, row, submitted, tileVars, at, cur, timed, out, todo,
                 accepted, receipt, reacted, prey, found, seen>>

\* The user deletes the message on this device, or the sweep of expired messages
\* has come to it. A row without a reaction is deleted without a look at the tile.
StartClean(k, m) ==
  /\ cleanAt[k] = "idle" /\ row[m] # "none"
  /\ prey' = [prey EXCEPT ![k] = m]
  /\ CleanGoto(k, IF m \in reacted THEN "connection" ELSE "delete")
  /\ UNCHANGED <<line, row, submitted, tileVars, at, cur, timed, out, todo,
                 accepted, receipt, reacted, found, seen>>

\* Either side reacts to a message, or withdraws a reaction: setHasReactions(), then
\* the tile shows the reaction, or is given back to the latest message.
StartReaction(k, m) ==
  /\ cleanAt[k] = "idle" /\ m \in submitted
  /\ reacted' = IF row[m] = "none" THEN reacted ELSE reacted \cup {m}
  /\ CleanGoto(k, "reaction") \/ CleanGoto(k, "connection")
  /\ UNCHANGED <<line, row, submitted, tileVars, at, cur, timed, out, todo,
                 accepted, receipt, prey, found, seen>>

\* getConnection(): the id of the latest message as it is now.
LoadConnection(k) ==
  /\ cleanAt[k] = "connection"
  /\ found' = [found EXCEPT ![k] = latest]
  /\ CleanGoto(k, "latest")
  /\ UNCHANGED <<line, row, submitted, tileVars, at, cur, timed, out, todo,
                 accepted, receipt, reacted, prey, seen>>

\* getMessage(latestMessageId): its status as it is now. Without a row the tile's
\* status is left alone.
LoadLatest(k) ==
  /\ cleanAt[k] = "latest"
  /\ \/ /\ found[k] \in Msgs /\ row[found[k]] # "none"
        /\ seen' = [seen EXCEPT ![k] = row[found[k]]]
        /\ CleanGoto(k, "restore")
        /\ UNCHANGED <<prey, found>>
     \/ /\ found[k] \in Msgs => row[found[k]] = "none"
        /\ AfterRestore(k)
  /\ UNCHANGED <<line, row, submitted, tileVars, at, cur, timed, out, todo,
                 accepted, receipt, reacted>>

\* Mutant: every message the tile is given back to counts as sent.
RestoreTileAsSent(k) ==
  /\ cleanAt[k] = "restore"
  /\ tile' = "sent" /\ tileOf' = found[k]
  /\ AfterRestore(k)
  /\ UNCHANGED <<line, row, submitted, latest, at, cur, timed, out, todo,
                 accepted, receipt, reacted>>

\* updateConnection(readStatus): the status loaded before is written, whichever
\* message is the latest by now.
RestoreTile(k) ==
  /\ cleanAt[k] = "restore"
  /\ tile' = seen[k] /\ tileOf' = found[k]
  /\ AfterRestore(k)
  /\ UNCHANGED <<line, row, submitted, latest, at, cur, timed, out, todo,
                 accepted, receipt, reacted>>

\* permanentlyDeleteMessage(); what follows it changes only the text of the tile.
DeleteRow(k) ==
  /\ cleanAt[k] = "delete"
  /\ row' = [row EXCEPT ![prey[k]] = "none"]
  /\ reacted' = reacted \ {prey[k]}
  /\ CleanGoto(k, "idle")
  /\ prey' = [prey EXCEPT ![k] = NoMsg]
  /\ UNCHANGED <<line, submitted, tileVars, at, cur, timed, out, todo, accepted,
                 receipt, found, seen>>

\* The tile shows a reaction: the peer's counts as new, the user's own has the
\* status its own post got. latestMessageId stays.
ShowReaction(k) ==
  /\ cleanAt[k] = "reaction"
  /\ tile' \in {"latest", "sent", "journaled"} /\ tileOf' = NoMsg
  /\ CleanGoto(k, "idle")
  /\ UNCHANGED <<line, row, submitted, latest, at, cur, timed, out, todo,
                 accepted, receipt, reacted, prey, found, seen>>

-----------------------------------------------------------------------------
(* What happens to the sender from outside *)

\* The handshake of the chat completes.
Authenticate ==
  /\ line = "unauthenticated"
  /\ line' = "authenticated"
  /\ UNCHANGED <<row, submitted, tileVars, at, cur, timed, out, todo, accepted,
                 receipt, cleanVars>>

\* The crypto row of the line is deleted (the chat is cut, or its port cleaned).
LoseKeys ==
  /\ line = "authenticated"
  /\ line' = "keyless"
  /\ UNCHANGED <<row, submitted, tileVars, at, cur, timed, out, todo, accepted,
                 receipt, cleanVars>>

\* The process is killed: every task is lost, the database stays.
Crash ==
  /\ at' = [t \in Tasks |-> "idle"]
  /\ cur' = [t \in Tasks |-> NoMsg]
  /\ timed' = [t \in Tasks |-> FALSE]
  /\ out' = [t \in Tasks |-> "journaled"]
  /\ todo' = [p \in Pumps |-> {}]
  /\ receipt' = [m \in Msgs |-> "none"]
  /\ cleanAt' = [k \in Cleaners |-> "idle"]
  /\ prey' = [k \in Cleaners |-> NoMsg]
  /\ found' = [k \in Cleaners |-> NoMsg]
  /\ seen' = [k \in Cleaners |-> "none"]
  /\ UNCHANGED <<line, row, submitted, reacted, tileVars, accepted>>

-----------------------------------------------------------------------------
\* What a task does between two awaits, the server's acceptance apart.
TaskStep(t) ==
  \/ LoadUnauthenticated(t) \/ LoadMissing(t) \/ LoadRow(t)
  \/ EncryptFails(t) \/ PostFails(t) \/ Answered(t) \/ AnswerLost(t)
  \/ MarkRow(t) \/ UpdateTile(t) \/ FailMark(t) \/ FailTile(t)

PumpStep(p) == PumpStart(p) \/ PumpNext(p) \/ PumpDone(p)

CleanStep(k) ==
  \/ \E m \in Msgs : StartClean(k, m) \/ StartReaction(k, m)
  \/ LoadConnection(k) \/ LoadLatest(k) \/ RestoreTile(k)
  \/ DeleteRow(k) \/ ShowReaction(k)

\* The steps of the sending client that involve nobody else.
LocalStep ==
  \/ \E m \in Msgs : Send(m) \/ SendRejected(m)
                       \/ ReceiptCheck(m) \/ ReceiptWrite(m)
  \/ \E k \in Cleaners : CleanStep(k)
  \/ \E t \in Tasks : TaskStep(t)
  \/ \E p \in Pumps : PumpStep(p)
  \/ Authenticate \/ LoseKeys

Next ==
  \/ LocalStep \/ Crash
  \/ \E t \in Tasks : PostAccepted(t)
  \/ \E m \in Msgs : ReceiptRow(m)

Spec == Init /\ [][Next]_vars

\* Suspended tasks are resumed, sendJournaled is run again and again, the
\* handshake completes, and a network that is retried forever works in the end.
Fairness ==
  /\ WF_vars(Authenticate)
  /\ \A t \in Tasks : WF_vars(TaskStep(t)) /\ SF_vars(PostAccepted(t))
                       /\ SF_vars(Answered(t))
  /\ \A p \in Pumps : WF_vars(PumpStep(p))
  /\ \A m \in Msgs : WF_vars(ReceiptCheck(m) \/ ReceiptWrite(m))

FairSpec == Spec /\ Fairness

-----------------------------------------------------------------------------
(* Properties *)

\* What the chat shows is never ahead of the server: a message marked sent or
\* read, and a tile that says sent of a message, stand for a copy the server
\* took, whatever the order in which the send's own retry, the pumps, receipts,
\* deletions, reactions and crashes write the row and the tile. That the tile
\* speaks of the latest message is not so: RestoreTile writes what was loaded before.
SentIsAccepted ==
  /\ \A m \in Msgs : row[m] \in {"sent", "read"} => m \in AcceptedMsgs
  /\ tile = "sent" /\ tileOf # NoMsg => tileOf \in AcceptedMsgs

\* Why SentIsAccepted holds: besides the row and the tile, every task that will
\* write "sent" (it waits for the answer, has it, or loaded it from a row) does so
\* for an accepted message. This is the inductive invariant of Outbox_proofs.
TasksKnow ==
  /\ \A t \in Tasks : at[t] = "wait" \/ (at[t] \in {"mark", "tile"} /\ out[t] = "sent")
                      => cur[t] \in AcceptedMsgs
  /\ \A k \in Cleaners : cleanAt[k] = "restore" /\ seen[k] = "sent"
                          => found[k] \in AcceptedMsgs

EvidenceInv == SentIsAccepted /\ TasksKnow
=============================================================================
