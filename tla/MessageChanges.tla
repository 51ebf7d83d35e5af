--------------------------- MODULE MessageChanges ---------------------------
(***************************************************************************)
(* What happens to one message of a direct chat after it was delivered: its *)
(* author edits it, reacts to it, takes the reaction back or deletes it for *)
(* both.  Each of these has a sender class of its own, which differs from   *)
(* the generic one in what it writes before, and cleans up after, the       *)
(* request, and a handler on the peer's side.                               *)
(*                                                                          *)
(* An edit and a reaction are rows of lineMessages until they were sent, so *)
(* the pump of sendJournaled() finds them too; a deletion is never stored.  *)
(* The message is the latest one of both chats, so both tiles quote it.     *)
(***************************************************************************)
EXTENDS Naturals, Sequences, FiniteSets

CONSTANTS Changes,        \* ids of changes: each is an edit, a reaction, ... when it is made
          Pumps,          \* concurrent invocations of sendJournaled()
          Nothing,        \* no change, no reaction, no data
          Original,       \* the text the message had when it was delivered
          MayFail,        \* whether requests may fail or their answers be lost
          MaxCopies       \* bound: how many copies the server takes

Tasks == Changes \cup Pumps

ASSUME ChangesAssumption == /\ Changes \cap Pumps = {}
                            /\ {Nothing, Original} \cap Tasks = {} /\ Nothing # Original
                            /\ MayFail \in BOOLEAN
                            /\ MaxCopies \in Nat

VARIABLES
  kind,          \* what each change is, "none" before it is made
  mine,          \* the author's row of the message: [type, data]
  myReaction,    \* the author's entry in his reactions table
  hasReaction,   \* that column of the author's row
  myTile,        \* what the author's tile quotes; Nothing when it says "deleted"
  row,           \* messageStatus of the row of each change
  at,            \* where each task is suspended
  cur,           \* the change each task is working on
  held,          \* what a task read of the message and will send or show
  out,           \* the sendStatus a task got from attempt()
  todo,          \* the rows a pump read and has not retried yet
  queue,         \* the copies the server took, in order: [change, data]
  acked,         \* how many of them the peer acknowledged
  done,          \* how many of them the peer has processed since it last connected
  theirs,        \* the peer's database: [message, reaction (the author's), mark, tile]
  lastEdit,      \* history: the latest edit
  chosen,        \* history: the reaction the author chose last, Nothing when he took it back
  unlisted,      \* history: whether the author's table lost, or never got, that choice
  tangled        \* history: the kinds of change two of which were in flight together

db      == <<mine, myReaction, hasReaction, myTile, row>>
locals  == <<cur, held, out, todo>>
server  == <<queue, acked>>
peer    == <<done, theirs>>
history == <<lastEdit, chosen, unlisted, tangled>>
vars    == <<kind, db, at, locals, server, peer, history>>

Kinds   == {"edit", "react", "unreact", "delete"}
Texts   == Changes \cup {Original}
Places  == {"idle", "save", "table", "load", "reapply", "reread", "post", "wait",
            "readTile", "writeTile", "clean", "inspect", "quote", "tombstone"}
Rows    == [type : {"text", "deleted"}, data : Texts \cup {Nothing}]
Copies  == [change : Changes, data : Texts \cup {Nothing}]

\* The author's database.
AuthorOK ==
  /\ kind \in [Changes -> Kinds \cup {"none"}]
  /\ mine \in Rows
  /\ myReaction \in Changes \cup {Nothing}
  /\ hasReaction \in BOOLEAN
  /\ myTile \in Texts \cup {Nothing}
  /\ row \in [Changes -> {"none", "journaled", "sent"}]

PeerOK ==
  theirs \in [message : Rows, reaction : Changes \cup {Nothing}, mark : BOOLEAN,
              tile : Texts \cup {Nothing}]

\* A task that is under way has a change it works on.
TasksOK ==
  /\ at \in [Tasks -> Places]
  /\ cur \in [Tasks -> Changes \cup {Nothing}]
  /\ \A t \in Tasks : at[t] # "idle" => cur[t] \in Changes
  /\ held \in [Tasks -> Texts \cup {Nothing}]
  /\ out \in [Tasks -> {"sent", "journaled", "failed"}]
  /\ todo \in [Pumps -> SUBSET Changes]

ServerOK ==
  /\ queue \in Seq(Copies) /\ Len(queue) <= MaxCopies
  /\ acked \in 0..Len(queue) /\ done \in acked..Len(queue)

HistoryOK ==
  /\ lastEdit \in Changes \cup {Nothing} /\ chosen \in Changes \cup {Nothing}
  /\ unlisted \in BOOLEAN
  /\ tangled \subseteq {"edit", "reaction"}

TypeOK == AuthorOK /\ PeerOK /\ TasksOK /\ ServerOK /\ HistoryOK

Init ==
  /\ kind = [c \in Changes |-> "none"]
  /\ mine = [type |-> "text", data |-> Original]
  /\ myReaction = Nothing /\ hasReaction = FALSE /\ myTile = Original
  /\ theirs = [message |-> mine, reaction |-> Nothing, mark |-> FALSE, tile |-> Original]
  /\ row = [c \in Changes |-> "none"]
  /\ at = [t \in Tasks |-> "idle"]
  /\ cur = [t \in Tasks |-> Nothing]
  /\ held = [t \in Tasks |-> Nothing]
  /\ out = [t \in Tasks |-> "journaled"]
  /\ todo = [p \in Pumps |-> {}]
  /\ queue = <<>> /\ acked = 0
  /\ done = 0
  /\ lastEdit = Nothing /\ chosen = Nothing /\ unlisted = FALSE /\ tangled = {}

-----------------------------------------------------------------------------
(* Helpers *)

\* getConnectionTextByContentType: what a tile says of a row.
Quoted(m) == IF m.type = "deleted" THEN Nothing ELSE m.data

\* Mutant: the whole row is written, its content type included.
Rewritten(m, text) == [type |-> "text", data |-> text]

\* updateMessageData: only the data column.
WithData(m, text) == [m EXCEPT !.data = text]

Deleted == [type |-> "deleted", data |-> Nothing]

Goto(t, place) == at' = [at EXCEPT ![t] = place]

\* A pump goes on to one of the rows it read.
Take(p, rows) ==
  \E c \in rows : /\ cur' = [cur EXCEPT ![p] = c]
                  /\ todo' = [todo EXCEPT ![p] = rows \ {c}]
                  /\ Goto(p, "load")

\* retry() returns or throws: a pump takes its next row, any other task is over.
Finish(t) ==
  /\ held' = [held EXCEPT ![t] = Nothing]
  /\ out' = [out EXCEPT ![t] = "journaled"]
  /\ IF t \in Pumps /\ todo[t] # {}
     THEN Take(t, todo[t])
     ELSE Goto(t, "idle") /\ cur' = [cur EXCEPT ![t] = Nothing] /\ todo' = todo

Kind(t) == kind[cur[t]]

\* A change that is journaled, or that a task has loaded and not finished with.
InFlight(c) == row[c] = "journaled" \/ \E t \in Tasks : cur[t] = c /\ at[t] # "load"

\* Edits compete with edits, and reactions with reactions.
Class(k) == CASE k = "edit" -> {"edit"} [] k \in {"react", "unreact"} -> {"reaction"}
              [] OTHER -> {}

Accepted == {queue[i].change : i \in 1..Len(queue)}

-----------------------------------------------------------------------------
(* send() of the four changes *)

\* Change c starts as a task of its own.
Begin(c, k, place) ==
  /\ kind[c] = "none"
  /\ mine.type = "text"
  /\ kind' = [kind EXCEPT ![c] = k]
  /\ cur' = [cur EXCEPT ![c] = c]
  /\ Goto(c, place)
  /\ tangled' = tangled \cup (Class(k) \cap UNION {Class(kind[d]) : d \in {e \in Changes : InFlight(e)}})
  /\ UNCHANGED <<held, out, todo, server, peer>>

\* SendEditedMessage.send: the edited text is written before anything else.
Edit(c) ==
  /\ Begin(c, "edit", "save")
  /\ mine' = WithData(mine, c)
  /\ lastEdit' = c
  /\ UNCHANGED <<myReaction, hasReaction, myTile, row, chosen, unlisted>>

SaveEdit(c) ==
  /\ at[c] = "save"
  /\ row' = [row EXCEPT ![c] = "journaled"]
  /\ Goto(c, "load")
  /\ UNCHANGED <<kind, mine, myReaction, hasReaction, myTile, locals, server, peer,
                 history>>

\* ReactionSender.send: the row of the reaction's own message, then the table.
React(c) ==
  /\ \/ Begin(c, "react", "table") /\ chosen' = c
     \/ myReaction # Nothing /\ Begin(c, "unreact", "table") /\ chosen' = Nothing
  /\ row' = [row EXCEPT ![c] = "journaled"]
  /\ UNCHANGED <<mine, myReaction, hasReaction, myTile, lastEdit, unlisted>>

\* updateReactionInfo: the flag of the message and the entry in the table.
UpdateReactionInfo(c) ==
  /\ at[c] = "table"
  /\ hasReaction' = TRUE
  /\ myReaction' = IF kind[c] = "react" THEN c ELSE Nothing
  /\ unlisted' = FALSE
  /\ Goto(c, "load")
  /\ UNCHANGED <<kind, mine, myTile, row, locals, server, peer, lastEdit, chosen, tangled>>

\* SendDeleteDirectMessage.send: nothing is stored.
Delete(c) ==
  /\ Begin(c, "delete", "post")
  /\ UNCHANGED <<db, lastEdit, chosen, unlisted>>

-----------------------------------------------------------------------------
(* retry(): load, encrypt, attempt *)

\* Mutant: a change whose row is gone is sent all the same.
LoadAnyway(t) ==
  /\ at[t] = "load"
  /\ Goto(t, IF Kind(t) = "edit" THEN "reapply" ELSE "post")
  /\ UNCHANGED <<kind, db, locals, server, peer, history>>

\* loadSavedMessage finds the row.
Load(t) ==
  /\ at[t] = "load"
  /\ row[cur[t]] # "none"
  /\ Goto(t, IF Kind(t) = "edit" THEN "reapply" ELSE "post")
  /\ UNCHANGED <<kind, db, locals, server, peer, history>>

\* MessageNotFound for an edit: onFailure() updates no row, refreshes the tile
\* and then throws, because it reads a property of its null argument.
EditNotFound(t) ==
  /\ at[t] = "load"
  /\ Kind(t) = "edit" /\ row[cur[t]] = "none"
  /\ out' = [out EXCEPT ![t] = "failed"]
  /\ Goto(t, "readTile")
  /\ UNCHANGED <<kind, db, cur, held, todo, server, peer, history>>

\* MessageNotFound for a reaction: onFailure() deletes the author's own entry.
ReactionNotFound(t) ==
  /\ at[t] = "load"
  /\ Kind(t) \in {"react", "unreact"} /\ row[cur[t]] = "none"
  /\ myReaction' = Nothing
  /\ unlisted' = IF myReaction = Nothing THEN unlisted ELSE TRUE
  /\ Finish(t)
  /\ UNCHANGED <<kind, mine, hasReaction, myTile, row, server, peer, lastEdit, chosen, tangled>>

\* The edit writes its own text again ...
Reapply(t) ==
  /\ at[t] = "reapply"
  /\ mine' = WithData(mine, cur[t])
  /\ Goto(t, "reread")
  /\ UNCHANGED <<kind, myReaction, hasReaction, myTile, row, locals, server, peer,
                 history>>

\* ... and sends what the row holds by then.
Reread(t) ==
  /\ at[t] = "reread"
  /\ held' = [held EXCEPT ![t] = mine.data]
  /\ Goto(t, "post")
  /\ UNCHANGED <<kind, db, cur, out, todo, server, peer, history>>

PostAccepted(t) ==
  /\ at[t] = "post"
  /\ Len(queue) < MaxCopies
  /\ queue' = Append(queue, [change |-> cur[t], data |-> held[t]])
  /\ held' = [held EXCEPT ![t] = Nothing]
  /\ Goto(t, "wait")
  /\ UNCHANGED <<kind, db, cur, out, todo, acked, peer, history>>

\* An edit first writes the status of its own row, if that is still there.
EditAttempted(t, s) ==
  /\ Kind(t) = "edit"
  /\ row' = IF row[cur[t]] = "none" THEN row ELSE [row EXCEPT ![cur[t]] = s]
  /\ held' = [held EXCEPT ![t] = Nothing]
  /\ Goto(t, "readTile")
  /\ UNCHANGED <<cur, myTile>>

\* A reaction goes on with the tile: it reads the latest message ...
ReactionAttempted(t) ==
  /\ Kind(t) \in {"react", "unreact"}
  /\ held' = [held EXCEPT ![t] = Quoted(mine)]
  /\ Goto(t, "writeTile")
  /\ UNCHANGED <<cur, myTile, row>>

\* The answer comes; a deletion is carried out locally only now, the tile first.
Answered(t) ==
  /\ at[t] = "wait"
  /\ \/ (EditAttempted(t, "sent") \/ ReactionAttempted(t)) /\ out' = [out EXCEPT ![t] = "sent"]
     \/ /\ Kind(t) = "delete"
        /\ myTile' = Nothing
        /\ Goto(t, "inspect")
        /\ UNCHANGED <<cur, held, out, row>>
  /\ UNCHANGED <<kind, mine, myReaction, hasReaction, todo, server, peer, history>>

\* The request fails, or the server takes it and the answer is lost.
AttemptFails(t) ==
  /\ MayFail
  /\ at[t] \in {"post", "wait"}
  /\ \/ /\ EditAttempted(t, "journaled") \/ ReactionAttempted(t)
        /\ UNCHANGED <<out, todo>>
     \/ Kind(t) = "delete" /\ Finish(t) /\ UNCHANGED <<myTile, row>>
  /\ UNCHANGED <<kind, mine, myReaction, hasReaction, server, peer, history>>

\* updateConnectionInfo of an edit: reads the latest message ...
ReadTile(t) ==
  /\ at[t] = "readTile"
  /\ held' = [held EXCEPT ![t] = Quoted(mine)]
  /\ Goto(t, "writeTile")
  /\ UNCHANGED <<kind, db, cur, out, todo, server, peer, history>>

\* Mutant: a reaction is cleaned up like an edit, whatever became of the attempt.
CleansUpAlways(t) == out[t] # "failed"

\* An edit cleans up after every attempt, a reaction after one that was answered.
CleansUp(t) == out[t] # "failed" /\ (Kind(t) = "edit" \/ out[t] = "sent")

\* ... and shows it.
WriteTile(t) ==
  /\ at[t] = "writeTile"
  /\ myTile' = held[t]
  /\ IF CleansUp(t) THEN /\ Goto(t, "clean")
          /\ held' = [held EXCEPT ![t] = Nothing] /\ out' = [out EXCEPT ![t] = "journaled"]
          /\ UNCHANGED <<cur, todo>>
     ELSE Finish(t)
  /\ UNCHANGED <<kind, mine, myReaction, hasReaction, row, server, peer, history>>

CleanUp(t) ==
  /\ at[t] = "clean"
  /\ row' = [row EXCEPT ![cur[t]] = "none"]
  /\ Finish(t)
  /\ UNCHANGED <<kind, mine, myReaction, hasReaction, myTile, server, peer, history>>

-----------------------------------------------------------------------------
(* A deletion the server took is carried out locally *)

\* cleanDeleteMessage reads the message and the latest one.
Inspect(t) ==
  /\ at[t] = "inspect"
  /\ held' = [held EXCEPT ![t] = Quoted(mine)]
  /\ Goto(t, IF hasReaction THEN "quote" ELSE "tombstone")
  /\ UNCHANGED <<kind, db, cur, out, todo, server, peer, history>>

\* A message with a reaction: the tile gets what the latest message said.
Quote(t) ==
  /\ at[t] = "quote"
  /\ myTile' = held[t]
  /\ Goto(t, "tombstone")
  /\ UNCHANGED <<kind, mine, myReaction, hasReaction, row, locals, server, peer, history>>

Tombstone(t) ==
  /\ at[t] = "tombstone"
  /\ mine' = Deleted
  /\ Finish(t)
  /\ UNCHANGED <<kind, myReaction, hasReaction, myTile, row, server, peer, history>>

-----------------------------------------------------------------------------
(* The pump *)

PumpStart(p) ==
  /\ at[p] = "idle"
  /\ Take(p, {c \in Changes : row[c] = "journaled"})
  /\ UNCHANGED <<kind, db, held, out, server, peer, history>>

-----------------------------------------------------------------------------
(* The peer: one loop over the backlog, in the order the server took it. Nobody *)
(* else writes the message there, so a handler is one step, unless it is killed *)

\* Mutant: the guard on the content type is missing.
AnyEditWrites(d) ==
  LET edited == [theirs EXCEPT !.message = WithData(@, d)]
  IN <<edited, [edited EXCEPT !.tile = d]>>

\* ReceiveEditedMessage: only a message that is still text is edited.
EditWrites(d) ==
  LET edited == [theirs EXCEPT !.message = WithData(@, d)]
  IN IF theirs.message.type = "text" /\ d # Nothing
     THEN <<edited, [edited EXCEPT !.tile = d]>>
     ELSE <<theirs>>

\* ReceiveReaction: the flag, the table, the tile.
ReactionWrites(r) ==
  LET marked == [theirs EXCEPT !.mark = TRUE]
      listed == [marked EXCEPT !.reaction = r]
  IN <<marked, listed, [listed EXCEPT !.tile = Quoted(theirs.message)]>>

\* ReceiveMessageDeletion: cleanDeleteMessage, which has a tile of a message with
\* a reaction quote it once more, and only then the tile.
DeletionWrites ==
  LET quoted  == IF theirs.mark THEN [theirs EXCEPT !.tile = Quoted(theirs.message)] ELSE theirs
      deleted == [quoted EXCEPT !.message = Deleted]
  IN <<quoted, deleted, [deleted EXCEPT !.tile = Nothing]>>

\* What the peer's database is after each statement of a handler.
Writes(copy) ==
  CASE kind[copy.change] = "edit"    -> EditWrites(copy.data)
    [] kind[copy.change] = "react"   -> ReactionWrites(copy.change)
    [] kind[copy.change] = "unreact" -> ReactionWrites(Nothing)
    [] kind[copy.change] = "delete"  -> DeletionWrites

Receive ==
  /\ done < Len(queue)
  /\ LET w == Writes(queue[done + 1]) IN theirs' = w[Len(w)]
  /\ done' = done + 1
  /\ UNCHANGED <<kind, db, at, locals, server, history>>

\* The peer's process is killed, possibly between two statements of a handler.
PeerCrash ==
  /\ \/ theirs' = theirs
     \/ /\ done < Len(queue)
        /\ LET w == Writes(queue[done + 1]) IN \E n \in 1..Len(w) - 1 : theirs' = w[n]
  /\ done' = acked
  /\ UNCHANGED <<kind, db, at, locals, server, history>>

\* Mutant: one more message is acknowledged than was processed.
AcknowledgeOneMore ==
  /\ acked < done
  /\ acked' = done + 1
  /\ UNCHANGED <<kind, db, at, locals, queue, peer, history>>

\* The server may forget what was processed.
Acknowledge ==
  /\ acked < done
  /\ acked' = done
  /\ UNCHANGED <<kind, db, at, locals, queue, peer, history>>

\* The socket closes before the acknowledgement: the next pull gets it all again.
Redeliver ==
  /\ MayFail
  /\ acked < done
  /\ done' = acked
  /\ UNCHANGED <<kind, db, at, locals, server, theirs, history>>

-----------------------------------------------------------------------------
(* The operating system *)

\* The author's process is killed: only its database survives.
Crash ==
  /\ unlisted' = IF \E c \in Changes : at[c] = "table" THEN TRUE ELSE unlisted
  /\ at' = [t \in Tasks |-> "idle"]
  /\ cur' = [t \in Tasks |-> Nothing]
  /\ held' = [t \in Tasks |-> Nothing]
  /\ out' = [t \in Tasks |-> "journaled"]
  /\ todo' = [p \in Pumps |-> {}]
  /\ UNCHANGED <<kind, db, server, peer, lastEdit, chosen, tangled>>

Make(c) == Edit(c) \/ React(c) \/ Delete(c)

Retry(t) ==
  \/ Load(t) \/ EditNotFound(t) \/ ReactionNotFound(t) \/ Reapply(t) \/ Reread(t)
  \/ PostAccepted(t) \/ Answered(t) \/ AttemptFails(t)
  \/ ReadTile(t) \/ WriteTile(t) \/ CleanUp(t)
  \/ Inspect(t) \/ Quote(t) \/ Tombstone(t)

Next ==
  \/ \E c \in Changes : Make(c) \/ SaveEdit(c) \/ UpdateReactionInfo(c)
  \/ \E t \in Tasks : Retry(t)
  \/ \E p \in Pumps : PumpStart(p)
  \/ Receive \/ Acknowledge \/ Redeliver
  \/ Crash \/ PeerCrash

Spec == Init /\ [][Next]_vars

-----------------------------------------------------------------------------
\* Once a side shows the message as deleted no late edit, retried or redelivered,
\* brings it back. Relates the content type, which only a deletion writes, to
\* updateMessageData(), which the retry of an older edit calls on the deleted row.
DeletionIsFinal ==
  [][/\ mine.type = "deleted" => mine'.type = "deleted"
     /\ theirs.message.type = "deleted" => theirs'.message.type = "deleted"]_vars

\* When the peer has processed everything, neither the row nor the tile of a
\* deleted message says what it said, whatever order edits, reactions and the
\* deletion were taken in and however often they were redelivered.
PeerForgets ==
  done = Len(queue) /\ theirs.message.type = "deleted"
    => theirs.message = Deleted /\ theirs.tile = Nothing

\* Nobody works on a change any more, and the peer has processed all there is.
Quiet == /\ \A t \in Tasks : at[t] = "idle"
         /\ \A c \in Changes : row[c] # "journaled"
         /\ done = Len(queue)

\* If no edit was made while another was in flight and the server took the latest,
\* both sides end up with its text, although every retry writes its own text again,
\* a pump may still hold the id of an earlier edit, and copies are redelivered.
EditSettles ==
  Quiet /\ "edit" \notin tangled /\ lastEdit \in Accepted /\ mine.type = "text" /\ theirs.message.type = "text"
    => mine.data = lastEdit /\ theirs.message.data = lastEdit

\* If no reaction was made while another was in flight, the peer sees the one the
\* author chose last, also when he took it back, however often it was retried and
\* redelivered and wherever either process was killed. So does the author, unless his
\* table lost it in one of two ways: he was killed between saving the reaction's own row
\* and writing the table, or a pump, or the reaction's own task after a pump had sent
\* it, found that row gone and onFailure() deleted the entry (ReactionNotFound).
ReactionSettles ==
  Quiet /\ "reaction" \notin tangled
    => theirs.reaction = chosen /\ (myReaction = chosen \/ unlisted)
=============================================================================
