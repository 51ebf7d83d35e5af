------------------------ MODULE MessageChanges_proofs ------------------------
(***************************************************************************)
(* Proofs about MessageChanges, for any changes, pumps, queue bound and    *)
(* number of crashes: the state stays well-typed, a deletion is final on   *)
(* both sides, a peer that has processed everything has forgotten what a   *)
(* deleted message said, and edits and reactions that are not made with    *)
(* another in flight settle on the latest.                                 *)
(***************************************************************************)
EXTENDS MessageChanges, TLAPS

USE ChangesAssumption

\* Whatever is stored, queued or worked on is a change that was made.
TasksMade == \A t \in Tasks :
               at[t] # "idle" => kind[cur[t]] # "none" /\ (t \in Changes => cur[t] = t)
RowsMade  == \A c \in Changes : row[c] # "none" => kind[c] # "none"
TodoMade  == \A p \in Pumps : \A c \in todo[p] : kind[c] # "none"
QueueMade == \A i \in 1..Len(queue) : kind[queue[i].change] # "none"

Sound == TypeOK /\ TasksMade /\ RowsMade /\ TodoMade /\ QueueMade

\* What the server took.
LEMMA QueueTypes ==
  ASSUME Sound, NEW i \in 1..Len(queue)
  PROVE  /\ queue[i] \in Copies
         /\ queue[i].change \in Changes
         /\ queue[i].data \in Texts \cup {Nothing}
         /\ kind[queue[i].change] \in Kinds
<1>1. queue[i] \in Copies
  BY DEF Sound, TypeOK, ServerOK
<1>2. queue[i].change \in Changes /\ queue[i].data \in Texts \cup {Nothing}
  BY <1>1 DEF Copies
<1>3. kind[queue[i].change] \in Kinds
  BY <1>2 DEF Sound, TypeOK, AuthorOK, QueueMade
<1> QED
  BY <1>1, <1>2, <1>3

\* A change that begins is a task with a change of its own.
LEMMA BeginTypes ==
  ASSUME Sound, NEW c \in Changes, NEW k \in Kinds, NEW p \in Places, Begin(c, k, p)
  PROVE  /\ kind' \in [Changes -> Kinds \cup {"none"}]
         /\ \A d \in Changes : kind[d] # "none" => kind'[d] = kind[d]
         /\ kind'[c] # "none"
         /\ TasksOK' /\ TasksMade' /\ TodoMade' /\ QueueMade' /\ ServerOK'
         /\ tangled' \subseteq {"edit", "reaction"}
<1> USE DEF Sound, TypeOK
<1>1. /\ kind' \in [Changes -> Kinds \cup {"none"}]
      /\ \A d \in Changes : kind[d] # "none" => kind'[d] = kind[d]
      /\ kind'[c] # "none"
  BY DEF Begin, AuthorOK, Kinds
<1>2. /\ at' = [at EXCEPT ![c] = p] /\ cur' = [cur EXCEPT ![c] = c]
      /\ UNCHANGED <<held, out, todo, queue, acked, done>>
  BY DEF Begin, Goto, server, peer
<1>3. TasksOK'
  BY <1>2 DEF TasksOK, Tasks
<1>4. TasksMade'
  BY <1>1, <1>2 DEF TasksOK, TasksMade, Tasks
<1>5. TodoMade'
  <2>1. \A q \in Pumps : todo[q] \subseteq Changes
    BY DEF TasksOK
  <2> QED
    BY <1>1, <1>2, <2>1 DEF TodoMade
<1>6. QueueMade'
  <2>1. \A i \in 1..Len(queue) : queue[i].change \in Changes
    BY QueueTypes
  <2> QED
    BY <1>1, <1>2, <2>1 DEF QueueMade
<1>7. ServerOK'
  BY <1>2 DEF ServerOK
<1>8. tangled' \subseteq {"edit", "reaction"}
  <2>1. Class(k) \subseteq {"edit", "reaction"}
    BY DEF Class, Kinds
  <2> QED
    BY <2>1 DEF Begin, HistoryOK
<1> QED
  BY <1>1, <1>2, <1>3, <1>4, <1>5, <1>6, <1>7, <1>8

\* A task that ends takes a row its pump read, or nothing.
LEMMA FinishTypes ==
  ASSUME Sound, NEW t \in Tasks, Finish(t)
  PROVE  /\ TasksOK'
         /\ \A s \in Tasks :
               at'[s] # "idle" => kind[cur'[s]] # "none" /\ (s \in Changes => cur'[s] = s)
         /\ \A q \in Pumps : \A c \in todo'[q] : kind[c] # "none"
<1> USE DEF Sound, TypeOK
<1>1. held' \in [Tasks -> Texts \cup {Nothing}] /\ out' \in [Tasks -> {"sent", "journaled", "failed"}]
  BY DEF Finish, TasksOK
<1>2. CASE t \in Pumps /\ todo[t] # {}
  <2>1. PICK c \in todo[t] : /\ cur' = [cur EXCEPT ![t] = c]
                             /\ todo' = [todo EXCEPT ![t] = todo[t] \ {c}]
                             /\ at' = [at EXCEPT ![t] = "load"]
    BY <1>2 DEF Finish, Take, Goto
  <2>2. c \in Changes /\ kind[c] # "none"
    BY <1>2 DEF TasksOK, TodoMade
  <2> QED
    BY <1>1, <1>2, <2>1, <2>2 DEF TasksOK, TasksMade, TodoMade, Places
<1>3. CASE ~(t \in Pumps /\ todo[t] # {})
  <2>1. /\ cur' = [cur EXCEPT ![t] = Nothing] /\ todo' = todo
        /\ at' = [at EXCEPT ![t] = "idle"]
    BY <1>3 DEF Finish, Goto
  <2> QED
    BY <1>1, <2>1 DEF TasksOK, TasksMade, TodoMade, Places
<1> QED
  BY <1>2, <1>3

\* What each handler leaves behind after each of its statements.
PeerRows == [message : Rows, reaction : Changes \cup {Nothing}, mark : BOOLEAN,
             tile : Texts \cup {Nothing}]

\* Such a state of the peer's database, in which a deletion is not undone.
Follows(w) == w \in PeerRows /\ (theirs.message.type = "deleted" => w.message.type = "deleted")

LEMMA EditFollows ==
  ASSUME PeerOK, NEW d \in Texts \cup {Nothing}
  PROVE  /\ Len(EditWrites(d)) \in 1..2
         /\ \A n \in 1..Len(EditWrites(d)) : Follows(EditWrites(d)[n])
<1>1. Follows(theirs)
  BY DEF PeerOK, PeerRows, Follows
<1>2. CASE theirs.message.type = "text" /\ d # Nothing
  <2> DEFINE e == [theirs EXCEPT !.message = WithData(@, d)]
             f == [e EXCEPT !.tile = d]
  <2>1. e \in PeerRows /\ f \in PeerRows
    BY DEF PeerOK, PeerRows, Rows, WithData
  <2>2. EditWrites(d) = <<e, f>>
    BY <1>2 DEF EditWrites
  <2> QED
    BY <1>2, <2>1, <2>2 DEF Follows
<1>3. CASE ~(theirs.message.type = "text" /\ d # Nothing)
  <2>1. EditWrites(d) = <<theirs>>
    BY <1>3 DEF EditWrites
  <2> QED
    BY <1>1, <2>1
<1> QED
  BY <1>2, <1>3

\* Quoting a row gives a text or nothing.
LEMMA QuotedType == ASSUME NEW m \in Rows PROVE Quoted(m) \in Texts \cup {Nothing}
  BY DEF Quoted, Rows

LEMMA ReactionFollows ==
  ASSUME PeerOK, NEW r \in Changes \cup {Nothing}
  PROVE  /\ Len(ReactionWrites(r)) = 3
         /\ \A n \in 1..3 : Follows(ReactionWrites(r)[n])
<1> DEFINE e == [theirs EXCEPT !.mark = TRUE]
           f == [e EXCEPT !.reaction = r]
           g == [f EXCEPT !.tile = Quoted(theirs.message)]
<1>1. Quoted(theirs.message) \in Texts \cup {Nothing}
  BY QuotedType DEF PeerOK
<1>2. e \in PeerRows /\ f \in PeerRows /\ g \in PeerRows
  BY <1>1 DEF PeerOK, PeerRows
<1>3. e.message = theirs.message /\ f.message = theirs.message /\ g.message = theirs.message
  BY DEF PeerOK
<1>4. ReactionWrites(r) = <<e, f, g>>
  BY DEF ReactionWrites
<1> HIDE DEF e, f, g
<1> QED
  BY <1>2, <1>3, <1>4 DEF Follows

LEMMA DeletionFollows ==
  ASSUME PeerOK
  PROVE  /\ Len(DeletionWrites) = 3
         /\ \A n \in 1..3 : Follows(DeletionWrites[n])
<1> DEFINE e == IF theirs.mark THEN [theirs EXCEPT !.tile = Quoted(theirs.message)] ELSE theirs
           f == [e EXCEPT !.message = Deleted]
           g == [f EXCEPT !.tile = Nothing]
<1>1. Quoted(theirs.message) \in Texts \cup {Nothing}
  BY QuotedType DEF PeerOK
<1>2. e \in PeerRows /\ e.message = theirs.message
  BY <1>1 DEF PeerOK, PeerRows
<1>3. f \in PeerRows /\ g \in PeerRows
  BY <1>2 DEF PeerRows, Rows, Deleted
<1>4. f.message.type = "deleted" /\ g.message.type = "deleted"
  BY <1>2 DEF PeerRows, Deleted
<1>5. DeletionWrites = <<e, f, g>>
  BY DEF DeletionWrites
<1> HIDE DEF e, f, g
<1> QED
  BY <1>2, <1>3, <1>4, <1>5 DEF Follows

\* Every handler makes at least one statement, and none undoes a deletion.
LEMMA WritesFollow ==
  ASSUME Sound, NEW i \in 1..Len(queue)
  PROVE  /\ Len(Writes(queue[i])) \in 1..3
         /\ \A n \in 1..Len(Writes(queue[i])) : Follows(Writes(queue[i])[n])
<1>1. /\ queue[i].change \in Changes
      /\ queue[i].data \in Texts \cup {Nothing}
      /\ kind[queue[i].change] \in Kinds
  BY QueueTypes
<1>2. PeerOK
  BY DEF Sound, TypeOK
<1>3. CASE kind[queue[i].change] = "edit"
  BY <1>1, <1>2, <1>3, EditFollows DEF Writes
<1>4. CASE kind[queue[i].change] = "react"
  BY <1>1, <1>2, <1>4, ReactionFollows DEF Writes
<1>5. CASE kind[queue[i].change] = "unreact"
  <2>1. Writes(queue[i]) = ReactionWrites(Nothing)
    BY <1>5 DEF Writes
  <2> QED
    BY <1>2, <2>1, ReactionFollows
<1>6. CASE kind[queue[i].change] = "delete"
  <2>1. Writes(queue[i]) = DeletionWrites
    BY <1>6 DEF Writes
  <2>2. Len(DeletionWrites) = 3 /\ \A n \in 1..3 : Follows(DeletionWrites[n])
    BY <1>2, DeletionFollows
  <2>3. 1..Len(DeletionWrites) = 1..3 /\ Len(DeletionWrites) \in 1..3
    BY <2>2
  <2> QED
    BY <2>1, <2>2, <2>3
<1> QED
  BY <1>1, <1>3, <1>4, <1>5, <1>6 DEF Kinds

-----------------------------------------------------------------------------
\* A fresh message is well-typed, and no change was made.
LEMMA InitSound == Init => Sound
<1> SUFFICES ASSUME Init PROVE Sound
  OBVIOUS
<1>1. AuthorOK
  BY DEF Init, AuthorOK, Rows, Texts
<1>2. PeerOK
  BY DEF Init, PeerOK, Rows, Texts
<1>3. TasksOK
  BY DEF Init, TasksOK, Places
<1>4. ServerOK
  BY DEF Init, ServerOK
<1>5. HistoryOK
  BY DEF Init, HistoryOK
<1>6. TasksMade /\ RowsMade /\ TodoMade /\ QueueMade
  BY DEF Init, TasksMade, RowsMade, TodoMade, QueueMade
<1> QED
  BY <1>1, <1>2, <1>3, <1>4, <1>5, <1>6 DEF Sound, TypeOK

\* Every action keeps the state well-typed and works on changes that were made.
LEMMA NextSound == Sound /\ [Next]_vars => Sound'
<1> SUFFICES ASSUME Sound, [Next]_vars PROVE Sound'
  OBVIOUS
<1> USE DEF Sound, TypeOK
<1>1. ASSUME NEW c \in Changes, Edit(c) PROVE Sound'
  <2>1. Begin(c, "edit", "save")
    BY <1>1 DEF Edit
  <2>2. /\ kind' \in [Changes -> Kinds \cup {"none"}]
        /\ \A d \in Changes : kind[d] # "none" => kind'[d] = kind[d]
        /\ kind'[c] # "none"
        /\ TasksOK' /\ TasksMade' /\ TodoMade' /\ QueueMade' /\ ServerOK'
        /\ tangled' \subseteq {"edit", "reaction"}
    BY <2>1, BeginTypes DEF Kinds, Places
  <2>3. theirs' = theirs
    BY <2>1 DEF Begin, peer
  <2>4. AuthorOK'
    BY <1>1, <2>2 DEF Edit, AuthorOK, WithData, Rows, Texts, db
  <2>5. HistoryOK' /\ PeerOK'
    BY <1>1, <2>2, <2>3 DEF Edit, HistoryOK, PeerOK
  <2>6. RowsMade'
    BY <1>1, <2>2 DEF Edit, RowsMade, AuthorOK, db
  <2> QED
    BY <2>2, <2>4, <2>5, <2>6
<1>2. ASSUME NEW c \in Changes, React(c) PROVE Sound'
  <2>1. PICK k \in {"react", "unreact"} : Begin(c, k, "table")
    BY <1>2 DEF React
  <2>2. /\ kind' \in [Changes -> Kinds \cup {"none"}]
        /\ \A d \in Changes : kind[d] # "none" => kind'[d] = kind[d]
        /\ kind'[c] # "none"
        /\ TasksOK' /\ TasksMade' /\ TodoMade' /\ QueueMade' /\ ServerOK'
        /\ tangled' \subseteq {"edit", "reaction"}
    <3>1. k \in Kinds /\ "table" \in Places
      BY DEF Kinds, Places
    <3> QED
      BY <2>1, <3>1, BeginTypes
  <2>3. theirs' = theirs
    BY <2>1 DEF Begin, peer
  <2>4. AuthorOK'
    BY <1>2, <2>2 DEF React, AuthorOK
  <2>5. HistoryOK' /\ PeerOK'
    BY <1>2, <2>2, <2>3 DEF React, HistoryOK, PeerOK
  <2>6. RowsMade'
    BY <1>2, <2>2 DEF React, RowsMade, AuthorOK
  <2> QED
    BY <2>2, <2>4, <2>5, <2>6
<1>3. ASSUME NEW c \in Changes, Delete(c) PROVE Sound'
  <2>1. Begin(c, "delete", "post")
    BY <1>3 DEF Delete
  <2>2. /\ kind' \in [Changes -> Kinds \cup {"none"}]
        /\ \A d \in Changes : kind[d] # "none" => kind'[d] = kind[d]
        /\ kind'[c] # "none"
        /\ TasksOK' /\ TasksMade' /\ TodoMade' /\ QueueMade' /\ ServerOK'
        /\ tangled' \subseteq {"edit", "reaction"}
    BY <2>1, BeginTypes DEF Kinds, Places
  <2>3. theirs' = theirs
    BY <2>1 DEF Begin, peer
  <2>4. AuthorOK'
    BY <1>3, <2>2 DEF Delete, AuthorOK, WithData, Rows, Texts, db
  <2>5. HistoryOK' /\ PeerOK'
    BY <1>3, <2>2, <2>3 DEF Delete, HistoryOK, PeerOK
  <2>6. RowsMade'
    BY <1>3, <2>2 DEF Delete, RowsMade, AuthorOK, db
  <2> QED
    BY <2>2, <2>4, <2>5, <2>6
<1>4. ASSUME NEW c \in Changes, SaveEdit(c) PROVE Sound'
  <2>1. AuthorOK' /\ PeerOK' /\ ServerOK' /\ HistoryOK'
    BY <1>4 DEF SaveEdit, AuthorOK, PeerOK, ServerOK, HistoryOK, db, locals, server, peer, history
  <2>2. TodoMade' /\ QueueMade'
    BY <1>4 DEF SaveEdit, TodoMade, QueueMade, TasksOK, AuthorOK, ServerOK, db, locals, server, peer, history
  <2>3. TasksOK' /\ TasksMade'
    BY <1>4 DEF SaveEdit, Goto, TasksOK, TasksMade, Places, locals, Tasks
  <2>4. RowsMade'
    <3>1. kind[c] # "none"
      BY <1>4 DEF SaveEdit, TasksMade, Tasks
    <3> QED
      BY <1>4, <3>1 DEF SaveEdit, RowsMade, AuthorOK
  <2> QED
    BY <2>1, <2>2, <2>3, <2>4
<1>5. ASSUME NEW c \in Changes, UpdateReactionInfo(c) PROVE Sound'
  <2>1. AuthorOK' /\ PeerOK' /\ ServerOK' /\ HistoryOK'
    BY <1>5 DEF UpdateReactionInfo, AuthorOK, PeerOK, ServerOK, HistoryOK, db, locals, server, peer, history
  <2>2. RowsMade' /\ TodoMade' /\ QueueMade'
    BY <1>5 DEF UpdateReactionInfo, RowsMade, TodoMade, QueueMade, TasksOK, AuthorOK, ServerOK, db, locals, server, peer, history
  <2>3. TasksOK' /\ TasksMade'
    BY <1>5 DEF UpdateReactionInfo, Goto, TasksOK, TasksMade, Places, locals, Tasks
  <2> QED
    BY <2>1, <2>2, <2>3
<1>6. ASSUME NEW t \in Tasks, Load(t) PROVE Sound'
  <2>1. AuthorOK' /\ PeerOK' /\ ServerOK' /\ HistoryOK'
    BY <1>6 DEF Load, AuthorOK, PeerOK, ServerOK, HistoryOK, db, locals, server, peer, history
  <2>2. RowsMade' /\ TodoMade' /\ QueueMade'
    BY <1>6 DEF Load, RowsMade, TodoMade, QueueMade, TasksOK, AuthorOK, ServerOK, db, locals, server, peer, history
  <2>3. TasksOK' /\ TasksMade'
    BY <1>6 DEF Load, TasksOK, TasksMade, Goto, Places, locals
  <2> QED
    BY <2>1, <2>2, <2>3
<1>7. ASSUME NEW t \in Tasks, EditNotFound(t) PROVE Sound'
  <2>1. AuthorOK' /\ PeerOK' /\ ServerOK' /\ HistoryOK'
    BY <1>7 DEF EditNotFound, AuthorOK, PeerOK, ServerOK, HistoryOK, db, locals, server, peer, history
  <2>2. RowsMade' /\ TodoMade' /\ QueueMade'
    BY <1>7 DEF EditNotFound, RowsMade, TodoMade, QueueMade, TasksOK, AuthorOK, ServerOK, db, locals, server, peer, history
  <2>3. TasksOK' /\ TasksMade'
    BY <1>7 DEF EditNotFound, TasksOK, TasksMade, Goto, Places, locals
  <2> QED
    BY <2>1, <2>2, <2>3
<1>8. ASSUME NEW t \in Tasks, ReactionNotFound(t) PROVE Sound'
  <2>1. AuthorOK' /\ PeerOK' /\ ServerOK' /\ HistoryOK'
    BY <1>8 DEF ReactionNotFound, AuthorOK, PeerOK, ServerOK, HistoryOK, db, locals, server, peer, history
  <2>2. RowsMade' /\ QueueMade'
    BY <1>8 DEF ReactionNotFound, RowsMade, QueueMade, TasksOK, AuthorOK, ServerOK, db, locals, server, peer, history
  <2>3. TasksOK' /\ TasksMade' /\ TodoMade'
    BY <1>8, FinishTypes DEF ReactionNotFound, TasksMade, TodoMade
  <2> QED
    BY <2>1, <2>2, <2>3
<1>9. ASSUME NEW t \in Tasks, Reapply(t) PROVE Sound'
  <2>1. PeerOK' /\ ServerOK' /\ HistoryOK'
    BY <1>9 DEF Reapply, PeerOK, ServerOK, HistoryOK, db, locals, server, peer, history
  <2>2. RowsMade' /\ TodoMade' /\ QueueMade'
    BY <1>9 DEF Reapply, RowsMade, TodoMade, QueueMade, TasksOK, AuthorOK, ServerOK, db, locals, server, peer, history
  <2>3. TasksOK' /\ TasksMade'
    BY <1>9 DEF Reapply, TasksOK, TasksMade, Goto, Places, locals
  <2>4. AuthorOK'
    BY <1>9 DEF Reapply, WithData, AuthorOK, TasksOK, Rows, Texts
  <2> QED
    BY <2>1, <2>2, <2>3, <2>4
<1>10. ASSUME NEW t \in Tasks, Reread(t) PROVE Sound'
  <2>1. AuthorOK' /\ PeerOK' /\ ServerOK' /\ HistoryOK'
    BY <1>10 DEF Reread, AuthorOK, PeerOK, ServerOK, HistoryOK, db, locals, server, peer, history
  <2>2. RowsMade' /\ TodoMade' /\ QueueMade'
    BY <1>10 DEF Reread, RowsMade, TodoMade, QueueMade, TasksOK, AuthorOK, ServerOK, db, locals, server, peer, history
  <2>3. TasksOK' /\ TasksMade'
    BY <1>10 DEF Reread, TasksOK, TasksMade, Goto, Places, locals, AuthorOK, Rows
  <2> QED
    BY <2>1, <2>2, <2>3
<1>11. ASSUME NEW t \in Tasks, PostAccepted(t) PROVE Sound'
  <2>1. AuthorOK' /\ PeerOK' /\ HistoryOK'
    BY <1>11 DEF PostAccepted, AuthorOK, PeerOK, HistoryOK, db, locals, server, peer, history
  <2>2. RowsMade' /\ TodoMade'
    BY <1>11 DEF PostAccepted, RowsMade, TodoMade, TasksOK, AuthorOK, ServerOK, db, locals, server, peer, history
  <2>3. TasksOK' /\ TasksMade'
    BY <1>11 DEF PostAccepted, TasksOK, TasksMade, Goto, Places
  <2>4. ServerOK' /\ QueueMade'
    <3>1. [change |-> cur[t], data |-> held[t]] \in Copies /\ kind[cur[t]] # "none"
      BY <1>11 DEF PostAccepted, TasksOK, TasksMade, Copies
    <3>2. /\ queue' = Append(queue, [change |-> cur[t], data |-> held[t]])
          /\ Len(queue) < MaxCopies /\ UNCHANGED <<kind, acked, done>>
      BY <1>11 DEF PostAccepted, peer
    <3>3. ServerOK'
      BY <3>1, <3>2 DEF ServerOK
    <3>4. QueueMade'
      BY <3>1, <3>2 DEF ServerOK, QueueMade
    <3> QED
      BY <3>3, <3>4
  <2> QED
    BY <2>1, <2>2, <2>3, <2>4
<1>12. ASSUME NEW t \in Tasks, Answered(t) PROVE Sound'
  <2>1. Quoted(mine) \in Texts \cup {Nothing}
    BY QuotedType DEF AuthorOK
  <2>2. /\ UNCHANGED <<kind, mine, myReaction, hasReaction, todo, queue, acked, done, theirs,
                       lastEdit, chosen, unlisted, tangled>>
        /\ cur' = cur /\ at[t] = "wait"
    BY <1>12 DEF Answered, EditAttempted, ReactionAttempted, server, peer, history
  <2>3. AuthorOK' /\ RowsMade'
    BY <1>12, <2>2
       DEF Answered, EditAttempted, ReactionAttempted, AuthorOK, RowsMade, TasksOK, TasksMade
  <2>4. \E p \in Places \ {"idle"} : at' = [at EXCEPT ![t] = p]
    BY <1>12 DEF Answered, EditAttempted, ReactionAttempted, Goto, Places
  <2>5. held' \in [Tasks -> Texts \cup {Nothing}]
    BY <1>12, <2>1 DEF Answered, EditAttempted, ReactionAttempted, TasksOK
  <2>6. out' \in [Tasks -> {"sent", "journaled", "failed"}]
    BY <1>12 DEF Answered, TasksOK
  <2>7. TasksOK' /\ TasksMade'
    BY <2>2, <2>4, <2>5, <2>6 DEF TasksOK, TasksMade
  <2>8. PeerOK' /\ ServerOK' /\ HistoryOK' /\ TodoMade' /\ QueueMade'
    BY <2>2 DEF PeerOK, ServerOK, HistoryOK, TodoMade, QueueMade
  <2> QED
    BY <2>3, <2>7, <2>8
<1>13. ASSUME NEW t \in Tasks, AttemptFails(t) PROVE Sound'
  <2>1. Quoted(mine) \in Texts \cup {Nothing}
    BY QuotedType DEF AuthorOK
  <2>2. UNCHANGED <<kind, mine, myReaction, hasReaction, queue, acked, done, theirs,
                    lastEdit, chosen, unlisted, tangled>>
    BY <1>13 DEF AttemptFails, server, peer, history
  <2>3. PeerOK' /\ ServerOK' /\ HistoryOK' /\ QueueMade'
    BY <2>2 DEF PeerOK, ServerOK, HistoryOK, QueueMade
  <2>4. AuthorOK' /\ RowsMade'
    BY <1>13, <2>2
       DEF AttemptFails, EditAttempted, ReactionAttempted, AuthorOK, RowsMade, TasksOK, TasksMade
  <2>5. CASE EditAttempted(t, "journaled") /\ UNCHANGED <<out, todo>>
    <3>1. TasksOK' /\ TasksMade' /\ TodoMade'
      BY <1>13, <2>2, <2>5 DEF AttemptFails, EditAttempted, Goto, Places, TasksOK, TasksMade, TodoMade
    <3> QED
      BY <2>3, <2>4, <3>1
  <2>6. CASE ReactionAttempted(t) /\ UNCHANGED <<out, todo>>
    <3>1. TasksOK' /\ TasksMade' /\ TodoMade'
      BY <1>13, <2>1, <2>2, <2>6
         DEF AttemptFails, ReactionAttempted, Goto, Places, TasksOK, TasksMade, TodoMade
    <3> QED
      BY <2>3, <2>4, <3>1
  <2>7. CASE Finish(t)
    <3>1. TasksOK' /\ TasksMade' /\ TodoMade'
      BY <2>2, <2>7, FinishTypes DEF TasksMade, TodoMade
    <3> QED
      BY <2>3, <2>4, <3>1
  <2> QED
    BY <1>13, <2>5, <2>6, <2>7 DEF AttemptFails
<1>14. ASSUME NEW t \in Tasks, ReadTile(t) PROVE Sound'
  <2>1. AuthorOK' /\ PeerOK' /\ ServerOK' /\ HistoryOK'
    BY <1>14 DEF ReadTile, AuthorOK, PeerOK, ServerOK, HistoryOK, db, locals, server, peer, history
  <2>2. RowsMade' /\ TodoMade' /\ QueueMade'
    BY <1>14 DEF ReadTile, RowsMade, TodoMade, QueueMade, TasksOK, AuthorOK, ServerOK, db, locals, server, peer, history
  <2>3. TasksOK' /\ TasksMade'
    <3>1. Quoted(mine) \in Texts \cup {Nothing}
      BY QuotedType DEF AuthorOK
    <3> QED
      BY <1>14, <3>1 DEF ReadTile, TasksOK, TasksMade, Goto, Places
  <2> QED
    BY <2>1, <2>2, <2>3
<1>15. ASSUME NEW t \in Tasks, WriteTile(t) PROVE Sound'
  <2>1. PeerOK' /\ ServerOK' /\ HistoryOK'
    BY <1>15 DEF WriteTile, PeerOK, ServerOK, HistoryOK, db, locals, server, peer, history
  <2>2. RowsMade' /\ QueueMade'
    BY <1>15 DEF WriteTile, RowsMade, QueueMade, TasksOK, AuthorOK, ServerOK, db, locals, server, peer, history
  <2>3. AuthorOK'
    BY <1>15 DEF WriteTile, AuthorOK, TasksOK
  <2>4. TasksOK' /\ TasksMade' /\ TodoMade'
    <3>1. CASE CleansUp(t)
      BY <1>15, <3>1 DEF WriteTile, TasksOK, TasksMade, TodoMade, Goto, Places
    <3>2. CASE ~CleansUp(t)
      BY <1>15, <3>2, FinishTypes DEF WriteTile, TasksMade, TodoMade
    <3> QED
      BY <3>1, <3>2
  <2> QED
    BY <2>1, <2>2, <2>3, <2>4
<1>16. ASSUME NEW t \in Tasks, CleanUp(t) PROVE Sound'
  <2>1. AuthorOK' /\ PeerOK' /\ ServerOK' /\ HistoryOK'
    BY <1>16 DEF CleanUp, AuthorOK, PeerOK, ServerOK, HistoryOK, db, locals, server, peer, history
  <2>2. RowsMade' /\ QueueMade'
    BY <1>16 DEF CleanUp, RowsMade, QueueMade, TasksOK, AuthorOK, ServerOK, db, locals, server, peer, history
  <2>3. TasksOK' /\ TasksMade' /\ TodoMade'
    BY <1>16, FinishTypes DEF CleanUp, TasksMade, TodoMade
  <2> QED
    BY <2>1, <2>2, <2>3
<1>17. ASSUME NEW t \in Tasks, Inspect(t) PROVE Sound'
  <2>1. AuthorOK' /\ PeerOK' /\ ServerOK' /\ HistoryOK'
    BY <1>17 DEF Inspect, AuthorOK, PeerOK, ServerOK, HistoryOK, db, locals, server, peer, history
  <2>2. RowsMade' /\ TodoMade' /\ QueueMade'
    BY <1>17 DEF Inspect, RowsMade, TodoMade, QueueMade, TasksOK, AuthorOK, ServerOK, db, locals, server, peer, history
  <2>3. TasksOK' /\ TasksMade'
    <3>1. Quoted(mine) \in Texts \cup {Nothing}
      BY QuotedType DEF AuthorOK
    <3> QED
      BY <1>17, <3>1 DEF Inspect, TasksOK, TasksMade, Goto, Places
  <2> QED
    BY <2>1, <2>2, <2>3
<1>18. ASSUME NEW t \in Tasks, Quote(t) PROVE Sound'
  <2>1. PeerOK' /\ ServerOK' /\ HistoryOK'
    BY <1>18 DEF Quote, PeerOK, ServerOK, HistoryOK, db, locals, server, peer, history
  <2>2. RowsMade' /\ TodoMade' /\ QueueMade'
    BY <1>18 DEF Quote, RowsMade, TodoMade, QueueMade, TasksOK, AuthorOK, ServerOK, db, locals, server, peer, history
  <2>3. TasksOK' /\ TasksMade'
    BY <1>18 DEF Quote, TasksOK, TasksMade, Goto, Places, locals
  <2>4. AuthorOK'
    BY <1>18 DEF Quote, AuthorOK, TasksOK
  <2> QED
    BY <2>1, <2>2, <2>3, <2>4
<1>19. ASSUME NEW t \in Tasks, Tombstone(t) PROVE Sound'
  <2>1. PeerOK' /\ ServerOK' /\ HistoryOK'
    BY <1>19 DEF Tombstone, PeerOK, ServerOK, HistoryOK, db, locals, server, peer, history
  <2>2. RowsMade' /\ QueueMade'
    BY <1>19 DEF Tombstone, RowsMade, QueueMade, TasksOK, AuthorOK, ServerOK, db, locals, server, peer, history
  <2>3. TasksOK' /\ TasksMade' /\ TodoMade'
    BY <1>19, FinishTypes DEF Tombstone, TasksMade, TodoMade
  <2>4. AuthorOK'
    BY <1>19 DEF Tombstone, Deleted, AuthorOK, Rows
  <2> QED
    BY <2>1, <2>2, <2>3, <2>4
<1>20. ASSUME NEW p \in Pumps, PumpStart(p) PROVE Sound'
  <2>1. PICK c \in {d \in Changes : row[d] = "journaled"} :
          /\ cur' = [cur EXCEPT ![p] = c]
          /\ todo' = [todo EXCEPT ![p] = {d \in Changes : row[d] = "journaled"} \ {c}]
          /\ at' = [at EXCEPT ![p] = "load"]
    BY <1>20 DEF PumpStart, Take, Goto
  <2>2. UNCHANGED <<kind, db, held, out, server, peer, history>>
    BY <1>20 DEF PumpStart
  <2>3. AuthorOK' /\ PeerOK' /\ ServerOK' /\ HistoryOK' /\ RowsMade' /\ QueueMade'
    BY <2>2 DEF db, server, peer, history, AuthorOK, PeerOK, ServerOK, HistoryOK, RowsMade, QueueMade
  <2>4. TasksOK'
    BY <2>1, <2>2 DEF TasksOK, Places, Tasks
  <2>5. TasksMade' /\ TodoMade'
    BY <2>1, <2>2 DEF TasksMade, TodoMade, RowsMade, TasksOK, Tasks
  <2> QED
    BY <2>3, <2>4, <2>5
<1>21. ASSUME Receive PROVE Sound'
  <2>1. PICK i \in 1..Len(queue) : i = done + 1 /\ theirs' = Writes(queue[i])[Len(Writes(queue[i]))]
    BY <1>21 DEF Receive, ServerOK
  <2>2. PeerOK'
    BY <2>1, WritesFollow DEF Follows, PeerRows, PeerOK
  <2>3. ServerOK' /\ QueueMade'
    BY <1>21 DEF Receive, ServerOK, QueueMade, server
  <2>4. AuthorOK' /\ TasksOK' /\ HistoryOK' /\ TasksMade' /\ RowsMade' /\ TodoMade'
    BY <1>21 DEF Receive, AuthorOK, TasksOK, HistoryOK, TasksMade, RowsMade, TodoMade, db, locals, history
  <2> QED
    BY <2>2, <2>3, <2>4
<1>22. ASSUME Acknowledge PROVE Sound'
  <2>1. AuthorOK' /\ PeerOK' /\ TasksOK' /\ ServerOK' /\ HistoryOK'
    BY <1>22 DEF Acknowledge, AuthorOK, PeerOK, TasksOK, ServerOK, HistoryOK, db, locals, server, peer, history
  <2>2. TasksMade' /\ RowsMade' /\ TodoMade' /\ QueueMade'
    BY <1>22 DEF Acknowledge, TasksMade, RowsMade, TodoMade, QueueMade, TasksOK, AuthorOK, ServerOK, db, locals, server, peer, history
  <2> QED
    BY <2>1, <2>2
<1>23. ASSUME Redeliver PROVE Sound'
  <2>1. AuthorOK' /\ PeerOK' /\ TasksOK' /\ ServerOK' /\ HistoryOK'
    BY <1>23 DEF Redeliver, AuthorOK, PeerOK, TasksOK, ServerOK, HistoryOK, db, locals, server, peer, history
  <2>2. TasksMade' /\ RowsMade' /\ TodoMade' /\ QueueMade'
    BY <1>23 DEF Redeliver, TasksMade, RowsMade, TodoMade, QueueMade, TasksOK, AuthorOK, ServerOK, db, locals, server, peer, history
  <2> QED
    BY <2>1, <2>2
<1>24. ASSUME Crash PROVE Sound'
  <2>1. AuthorOK' /\ PeerOK' /\ ServerOK' /\ HistoryOK'
    <3>1. UNCHANGED <<kind, db, server, peer, lastEdit, chosen, tangled>>
      BY <1>24 DEF Crash, HistoryOK
    <3>2. unlisted' \in BOOLEAN
      BY <1>24 DEF Crash, HistoryOK
    <3> QED
      BY <3>1, <3>2 DEF AuthorOK, PeerOK, ServerOK, HistoryOK, db, server, peer
  <2>2. RowsMade' /\ QueueMade'
    BY <1>24 DEF Crash, RowsMade, QueueMade, TasksOK, AuthorOK, ServerOK, db, locals, server, peer, history
  <2>3. TasksOK' /\ TasksMade' /\ TodoMade'
    BY <1>24 DEF Crash, TasksOK, TasksMade, TodoMade, Places
  <2> QED
    BY <2>1, <2>2, <2>3
<1>25. ASSUME PeerCrash PROVE Sound'
  <2>1. PeerOK'
    <3>1. CASE theirs' = theirs
      BY <3>1 DEF PeerOK
    <3>2. CASE theirs' # theirs
      <4>1. PICK i \in 1..Len(queue) :
              \E n \in 1..Len(Writes(queue[i])) - 1 : theirs' = Writes(queue[i])[n]
        BY <1>25, <3>2 DEF PeerCrash, ServerOK
      <4>2. Len(Writes(queue[i])) \in 1..3
        BY WritesFollow
      <4>3. PICK n \in 1..Len(Writes(queue[i])) : theirs' = Writes(queue[i])[n]
        BY <4>1, <4>2
      <4> QED
        BY <4>3, WritesFollow DEF Follows, PeerRows, PeerOK
    <3> QED
      BY <3>1, <3>2
  <2>2. ServerOK' /\ QueueMade' /\ HistoryOK'
    BY <1>25 DEF PeerCrash, ServerOK, QueueMade, HistoryOK, server, history
  <2>3. AuthorOK' /\ TasksOK' /\ TasksMade' /\ RowsMade' /\ TodoMade'
    BY <1>25 DEF PeerCrash, AuthorOK, TasksOK, TasksMade, RowsMade, TodoMade, db, locals
  <2> QED
    BY <2>1, <2>2, <2>3
<1>26. ASSUME UNCHANGED vars PROVE Sound'
  BY <1>26 DEF vars, db, locals, server, peer, history, AuthorOK, PeerOK, TasksOK, ServerOK,
     HistoryOK, TasksMade, RowsMade, TodoMade, QueueMade
<1> QED
  BY <1>1, <1>2, <1>3, <1>4, <1>5, <1>6, <1>7, <1>8, <1>9, <1>10, <1>11, <1>12, <1>13,
     <1>14, <1>15, <1>16, <1>17, <1>18, <1>19, <1>20, <1>21, <1>22, <1>23, <1>24, <1>25, <1>26
     DEF Next, Make, Retry

\* The state is well-typed in every behaviour.
THEOREM TypeCorrect == Spec => []TypeOK
<1>1. Init => Sound
  BY InitSound
<1>2. Sound /\ [Next]_vars => Sound'
  BY NextSound
<1>3. Sound => TypeOK
  BY DEF Sound
<1> QED
  BY <1>1, <1>2, <1>3, PTL DEF Spec

-----------------------------------------------------------------------------
\* A deletion stands on both sides: no action, and no statement of a handler, makes a
\* deleted row a text again.
LEMMA DeletionStep ==
  Sound /\ [Next]_vars =>
    /\ mine.type = "deleted" => mine'.type = "deleted"
    /\ theirs.message.type = "deleted" => theirs'.message.type = "deleted"
<1> SUFFICES ASSUME Sound, [Next]_vars
             PROVE  /\ mine.type = "deleted" => mine'.type = "deleted"
                    /\ theirs.message.type = "deleted" => theirs'.message.type = "deleted"
  OBVIOUS
<1> USE DEF Sound, TypeOK
<1>1. mine.type = "deleted" => mine'.type = "deleted"
  <2>1. mine' = mine \/ mine' = Deleted \/ \E d \in Texts : mine' = WithData(mine, d)
    <3>1. ASSUME NEW c \in Changes, Make(c) \/ SaveEdit(c) \/ UpdateReactionInfo(c)
          PROVE  mine' = mine \/ mine' = WithData(mine, c)
      BY <3>1 DEF Make, Edit, React, Delete, SaveEdit, UpdateReactionInfo, db
    <3>2. ASSUME NEW t \in Tasks, Retry(t), ~Reapply(t)
          PROVE  mine' = mine \/ mine' = Deleted
      BY <3>2 DEF Retry, Load, EditNotFound, ReactionNotFound, Reread, PostAccepted, Answered,
         AttemptFails, ReadTile, WriteTile, CleanUp, Inspect, Quote, Tombstone, db
    <3>3. ASSUME NEW t \in Tasks, Reapply(t)
          PROVE  \E d \in Texts : mine' = WithData(mine, d)
      BY <3>3 DEF Reapply, TasksOK, Texts
    <3>4. (\E p \in Pumps : PumpStart(p)) \/ Receive \/ Acknowledge \/ Redeliver \/ Crash
             \/ PeerCrash \/ UNCHANGED vars
          => mine' = mine
      BY DEF PumpStart, Receive, Acknowledge, Redeliver, Crash, PeerCrash, vars, db
    <3>5. \A c \in Changes : c \in Texts
      BY DEF Texts
    <3> QED
      BY <3>1, <3>2, <3>3, <3>4, <3>5 DEF Next
  <2>2. mine.type = "deleted" => \A d \in Texts : WithData(mine, d).type = "deleted"
    BY DEF WithData, AuthorOK, Rows
  <2> QED
    BY <2>1, <2>2 DEF Deleted
<1>2. theirs.message.type = "deleted" => theirs'.message.type = "deleted"
  <2>1. CASE Receive
    <3>1. PICK i \in 1..Len(queue) : theirs' = Writes(queue[i])[Len(Writes(queue[i]))]
      BY <2>1 DEF Receive, ServerOK
    <3>2. Len(Writes(queue[i])) \in 1..3
      BY WritesFollow
    <3>3. PICK n \in 1..Len(Writes(queue[i])) : theirs' = Writes(queue[i])[n]
      BY <3>1, <3>2
    <3> QED
      BY <3>3, WritesFollow DEF Follows
  <2>2. CASE PeerCrash /\ theirs' # theirs
    <3>1. PICK i \in 1..Len(queue) :
            \E n \in 1..Len(Writes(queue[i])) - 1 : theirs' = Writes(queue[i])[n]
      BY <2>2 DEF PeerCrash, ServerOK
    <3>2. Len(Writes(queue[i])) \in 1..3
      BY WritesFollow
    <3>3. PICK n \in 1..Len(Writes(queue[i])) : theirs' = Writes(queue[i])[n]
      BY <3>1, <3>2
    <3> QED
      BY <3>3, WritesFollow DEF Follows
  <2>3. CASE theirs' = theirs
    BY <2>3
  <2>4. ~Receive /\ ~PeerCrash => theirs' = theirs
    <3>1. ASSUME NEW c \in Changes, Make(c) \/ SaveEdit(c) \/ UpdateReactionInfo(c)
          PROVE  theirs' = theirs
      BY <3>1 DEF Make, Edit, React, Delete, Begin, SaveEdit, UpdateReactionInfo, peer
    <3>2. ASSUME NEW t \in Tasks, Retry(t) PROVE theirs' = theirs
      BY <3>2 DEF Retry, Load, EditNotFound, ReactionNotFound, Reapply, Reread, PostAccepted,
         Answered, AttemptFails, ReadTile, WriteTile, CleanUp, Inspect, Quote, Tombstone, peer
    <3>3. (\E p \in Pumps : PumpStart(p)) \/ Acknowledge \/ Redeliver \/ Crash \/ UNCHANGED vars
          => theirs' = theirs
      BY DEF PumpStart, Acknowledge, Redeliver, Crash, vars, peer
    <3> QED
      BY <3>1, <3>2, <3>3 DEF Next
  <2> QED
    BY <2>1, <2>2, <2>3, <2>4
<1> QED
  BY <1>1, <1>2

\* A deletion is final in every behaviour.
THEOREM DeletionStands == Spec => DeletionIsFinal
<1>1. Init => Sound
  BY InitSound
<1>2. Sound /\ [Next]_vars => Sound'
  BY NextSound
<1>3. Sound /\ [Next]_vars =>
        [/\ mine.type = "deleted" => mine'.type = "deleted"
         /\ theirs.message.type = "deleted" => theirs'.message.type = "deleted"]_vars
  BY DeletionStep
<1> QED
  BY <1>1, <1>2, <1>3, PTL DEF Spec, DeletionIsFinal

-----------------------------------------------------------------------------
\* A deletion among the copies the peer has not processed since it last connected.
DeletionAhead == \E i \in (done + 1)..Len(queue) : kind[queue[i].change] = "delete"

\* A deleted row of the peer says nothing any more, and neither does its tile, unless the
\* deletion that was cut short, or is to be processed again, is still ahead.
Forgetting ==
  theirs.message.type = "deleted"
    => theirs.message = Deleted /\ (theirs.tile = Nothing \/ DeletionAhead)

\* A handler on a deleted row leaves it and its tile empty; the last statement of a
\* deletion empties both; its other statements leave a text, or an empty row.
LEMMA WritesForget ==
  ASSUME Sound, Forgetting, NEW i \in 1..Len(queue), NEW n \in 1..Len(Writes(queue[i])),
         Writes(queue[i])[n].message.type = "deleted"
  PROVE  /\ Writes(queue[i])[n].message = Deleted
         /\ \/ kind[queue[i].change] = "delete" /\ n < Len(Writes(queue[i]))
            \/ Writes(queue[i])[n].tile \in {Nothing, theirs.tile}
         /\ kind[queue[i].change] = "delete" /\ n = Len(Writes(queue[i]))
              => Writes(queue[i])[n].tile = Nothing
         /\ kind[queue[i].change] # "delete" => theirs.message.type = "deleted"
<1> DEFINE w == Writes(queue[i])
<1>1. /\ queue[i].data \in Texts \cup {Nothing}
      /\ kind[queue[i].change] \in Kinds
  BY QueueTypes
<1>2. theirs \in PeerRows
  BY DEF Sound, TypeOK, PeerOK, PeerRows
<1>3. CASE kind[queue[i].change] = "edit"
  <2>1. w = EditWrites(queue[i].data)
    BY <1>3 DEF Writes
  <2>2. CASE theirs.message.type = "text" /\ queue[i].data # Nothing
    <3> DEFINE e == [theirs EXCEPT !.message = WithData(@, queue[i].data)]
               f == [e EXCEPT !.tile = queue[i].data]
    <3>1. w = <<e, f>>
      BY <2>1, <2>2 DEF EditWrites
    <3>2. e.message.type = "text" /\ f.message.type = "text"
      BY <1>2, <2>2 DEF PeerRows, Rows, WithData
    <3> HIDE DEF e, f
    <3>3. n \in 1..2 /\ w[n].message.type = "text"
      BY <3>1, <3>2
    <3> QED
      BY <3>3
  <2>3. CASE ~(theirs.message.type = "text" /\ queue[i].data # Nothing)
    <3>1. w = <<theirs>>
      BY <2>1, <2>3 DEF EditWrites
    <3> QED
      BY <1>3, <3>1 DEF Forgetting
  <2> QED
    BY <2>2, <2>3
<1>4. CASE kind[queue[i].change] \in {"react", "unreact"}
  <2>1. PICK r \in Changes \cup {Nothing} : w = ReactionWrites(r)
    BY <1>4, QueueTypes DEF Writes
  <2> DEFINE e == [theirs EXCEPT !.mark = TRUE]
             f == [e EXCEPT !.reaction = r]
             g == [f EXCEPT !.tile = Quoted(theirs.message)]
  <2>2. w = <<e, f, g>>
    BY <2>1 DEF ReactionWrites
  <2>3. /\ e.message = theirs.message /\ f.message = theirs.message /\ g.message = theirs.message
        /\ e.tile = theirs.tile /\ f.tile = theirs.tile /\ g.tile = Quoted(theirs.message)
    BY <1>2 DEF PeerRows
  <2>4. theirs.message.type = "deleted" => Quoted(theirs.message) = Nothing
    BY DEF Quoted
  <2> HIDE DEF e, f, g
  <2> QED
    BY <1>4, <2>2, <2>3, <2>4 DEF Forgetting
<1>5. CASE kind[queue[i].change] = "delete"
  <2> DEFINE e == IF theirs.mark THEN [theirs EXCEPT !.tile = Quoted(theirs.message)] ELSE theirs
             f == [e EXCEPT !.message = Deleted]
             g == [f EXCEPT !.tile = Nothing]
  <2>1. w = <<e, f, g>>
    BY <1>5 DEF Writes, DeletionWrites
  <2>2. e \in [message : Rows, reaction : Changes \cup {Nothing}, mark : BOOLEAN,
               tile : Texts \cup {Nothing}] /\ e.message = theirs.message
    BY <1>2, QuotedType DEF PeerRows
  <2>3. f.message = Deleted /\ g.message = Deleted /\ g.tile = Nothing
    BY <2>2
  <2> HIDE DEF e, f, g
  <2> QED
    BY <1>5, <2>1, <2>2, <2>3 DEF Forgetting
<1> QED
  BY <1>1, <1>3, <1>4, <1>5 DEF Kinds

\* What is ahead stays ahead when the peer goes back and the queue grows.
LEMMA StillAhead ==
  ASSUME NEW a \in Nat, NEW b \in Nat, NEW m \in Nat, NEW n \in Nat, b <= a, m <= n,
         NEW i \in (a + 1)..m
  PROVE  i \in 1..m /\ i \in (b + 1)..n
  OBVIOUS

\* Every action keeps a deleted row forgetting.
LEMMA NextForgetting == Sound /\ Forgetting /\ [Next]_vars => Forgetting'
<1> SUFFICES ASSUME Sound, Forgetting, [Next]_vars PROVE Forgetting'
  OBVIOUS
<1> USE DEF Sound, TypeOK
<1>1. \A i \in 1..Len(queue) : kind[queue[i].change] = "delete" => kind'[queue[i].change] = "delete"
  <2>1. \A d \in Changes : kind[d] # "none" => kind'[d] = kind[d]
    <3>1. ASSUME NEW c \in Changes, Make(c)
          PROVE  \A d \in Changes : kind[d] # "none" => kind'[d] = kind[d]
      BY <3>1 DEF Make, Edit, React, Delete, Begin, AuthorOK
    <3>2. ASSUME NEW c \in Changes, SaveEdit(c) \/ UpdateReactionInfo(c) PROVE kind' = kind
      BY <3>2 DEF SaveEdit, UpdateReactionInfo
    <3>3. ASSUME NEW t \in Tasks, Retry(t) PROVE kind' = kind
      BY <3>3 DEF Retry, Load, EditNotFound, ReactionNotFound, Reapply, Reread, PostAccepted,
         Answered, AttemptFails, ReadTile, WriteTile, CleanUp, Inspect, Quote, Tombstone
    <3>4. (\E p \in Pumps : PumpStart(p)) \/ Receive \/ Acknowledge \/ Redeliver \/ Crash
             \/ PeerCrash \/ UNCHANGED vars
          => kind' = kind
      BY DEF PumpStart, Receive, Acknowledge, Redeliver, Crash, PeerCrash, vars
    <3> QED
      BY <3>1, <3>2, <3>3, <3>4 DEF Next
  <2> QED
    BY <2>1, QueueTypes
<1>2. CASE Receive
  <2>1. PICK i \in 1..Len(queue) : i = done + 1 /\ theirs' = Writes(queue[i])[Len(Writes(queue[i]))]
    BY <1>2 DEF Receive, ServerOK
  <2>2. Len(Writes(queue[i])) \in 1..3
    BY WritesFollow
  <2>3. done' = done + 1 /\ queue' = queue /\ kind' = kind
    BY <1>2 DEF Receive, server
  <2>4. ASSUME theirs'.message.type = "deleted"
        PROVE  theirs'.message = Deleted /\ (theirs'.tile = Nothing \/ DeletionAhead')
    <3>1. CASE kind[queue[i].change] = "delete"
      BY <2>1, <2>2, <2>4, <3>1, WritesForget
    <3>2. CASE kind[queue[i].change] # "delete"
      <4>1. /\ theirs'.message = Deleted
            /\ theirs'.tile \in {Nothing, theirs.tile}
            /\ theirs.message.type = "deleted"
        BY <2>1, <2>2, <2>4, <3>2, WritesForget
      <4>2. DeletionAhead => DeletionAhead'
        BY <2>1, <2>3, <3>2 DEF DeletionAhead, ServerOK
      <4> QED
        BY <4>1, <4>2 DEF Forgetting
    <3> QED
      BY <3>1, <3>2
  <2> QED
    BY <2>4 DEF Forgetting
<1>3. CASE PeerCrash /\ theirs' # theirs
  <2>1. PICK i \in 1..Len(queue) : /\ i = done + 1
                                   /\ \E n \in 1..Len(Writes(queue[i])) - 1 : theirs' = Writes(queue[i])[n]
    BY <1>3 DEF PeerCrash, ServerOK
  <2>2. Len(Writes(queue[i])) \in 1..3
    BY WritesFollow
  <2>3. PICK n \in 1..Len(Writes(queue[i])) : n < Len(Writes(queue[i])) /\ theirs' = Writes(queue[i])[n]
    BY <2>1, <2>2
  <2>4. done' = acked /\ queue' = queue /\ kind' = kind /\ acked \in 0..done /\ done \in Nat
    BY <1>3 DEF PeerCrash, server, ServerOK
  <2>5. DeletionAhead => DeletionAhead'
    BY <2>4 DEF DeletionAhead, ServerOK
  <2>6. kind[queue[i].change] = "delete" => DeletionAhead'
    BY <2>1, <2>4 DEF DeletionAhead, ServerOK
  <2>7. ASSUME theirs'.message.type = "deleted"
        PROVE  theirs'.message = Deleted /\ (theirs'.tile = Nothing \/ DeletionAhead')
    <3>1. /\ theirs'.message = Deleted
          /\ \/ kind[queue[i].change] = "delete"
             \/ theirs'.tile \in {Nothing, theirs.tile} /\ theirs.message.type = "deleted"
      BY <2>3, <2>7, WritesForget
    <3> QED
      BY <2>5, <2>6, <3>1 DEF Forgetting
  <2> QED
    BY <2>7 DEF Forgetting
<1>4. CASE theirs' = theirs
  <2>1. /\ Len(queue) \in Nat /\ Len(queue') \in Nat /\ Len(queue) <= Len(queue')
        /\ \A i \in 1..Len(queue) : queue'[i] = queue[i]
    <3>1. CASE \E t \in Tasks : PostAccepted(t)
      BY <3>1 DEF PostAccepted, ServerOK
    <3>2. ASSUME NEW t \in Tasks, Retry(t), ~PostAccepted(t) PROVE queue' = queue
      BY <3>2 DEF Retry, Load, EditNotFound, ReactionNotFound, Reapply, Reread,
         Answered, AttemptFails, ReadTile, WriteTile, CleanUp, Inspect, Quote, Tombstone, server
    <3>3. ASSUME NEW c \in Changes, Make(c) \/ SaveEdit(c) \/ UpdateReactionInfo(c)
          PROVE  queue' = queue
      BY <3>3 DEF Make, Edit, React, Delete, Begin, SaveEdit, UpdateReactionInfo, server
    <3>4. (\E p \in Pumps : PumpStart(p)) \/ Receive \/ Acknowledge \/ Redeliver \/ Crash
             \/ PeerCrash \/ UNCHANGED vars
          => queue' = queue
      BY DEF PumpStart, Receive, Acknowledge, Redeliver, Crash, PeerCrash, vars, server
    <3>5. Len(queue) \in Nat
      BY DEF ServerOK
    <3> QED
      BY <3>1, <3>2, <3>3, <3>4, <3>5 DEF Next
  <2>2. CASE Receive
    BY <1>2, <2>2
  <2>3. CASE ~Receive
    <3>1. done' \in Nat /\ done' <= done
      <4>1. ASSUME NEW t \in Tasks, Retry(t) PROVE done' = done
        BY <4>1 DEF Retry, Load, EditNotFound, ReactionNotFound, Reapply, Reread, PostAccepted,
           Answered, AttemptFails, ReadTile, WriteTile, CleanUp, Inspect, Quote, Tombstone, peer
      <4>2. ASSUME NEW c \in Changes, Make(c) \/ SaveEdit(c) \/ UpdateReactionInfo(c)
            PROVE  done' = done
        BY <4>2 DEF Make, Edit, React, Delete, Begin, SaveEdit, UpdateReactionInfo, peer
      <4>3. (\E p \in Pumps : PumpStart(p)) \/ Acknowledge \/ Crash \/ UNCHANGED vars => done' = done
        BY DEF PumpStart, Acknowledge, Crash, vars, peer
      <4>4. Redeliver \/ PeerCrash => done' = acked
        BY DEF Redeliver, PeerCrash
      <4> QED
        BY <2>3, <4>1, <4>2, <4>3, <4>4 DEF Next, ServerOK
    <3>2. ASSUME NEW i \in (done + 1)..Len(queue), kind[queue[i].change] = "delete"
          PROVE  i \in (done' + 1)..Len(queue') /\ kind'[queue'[i].change] = "delete"
      <4>0. done \in Nat
        BY DEF ServerOK
      <4>1. i \in 1..Len(queue) /\ i \in (done' + 1)..Len(queue')
        BY <2>1, <3>1, <4>0, StillAhead
      <4>2. queue'[i] = queue[i] /\ kind'[queue[i].change] = "delete"
        BY <1>1, <2>1, <3>2, <4>1
      <4> QED
        BY <4>1, <4>2
    <3>3. DeletionAhead => DeletionAhead'
      BY <3>2 DEF DeletionAhead
    <3> QED
      BY <1>4, <3>3 DEF Forgetting
  <2> QED
    BY <2>2, <2>3
<1>5. ~Receive /\ ~PeerCrash => theirs' = theirs
  <2>1. ASSUME NEW c \in Changes, Make(c) \/ SaveEdit(c) \/ UpdateReactionInfo(c)
        PROVE  theirs' = theirs
    BY <2>1 DEF Make, Edit, React, Delete, Begin, SaveEdit, UpdateReactionInfo, peer
  <2>2. ASSUME NEW t \in Tasks, Retry(t) PROVE theirs' = theirs
    BY <2>2 DEF Retry, Load, EditNotFound, ReactionNotFound, Reapply, Reread, PostAccepted,
       Answered, AttemptFails, ReadTile, WriteTile, CleanUp, Inspect, Quote, Tombstone, peer
  <2>3. (\E p \in Pumps : PumpStart(p)) \/ Acknowledge \/ Redeliver \/ Crash \/ UNCHANGED vars
        => theirs' = theirs
    BY DEF PumpStart, Acknowledge, Redeliver, Crash, vars, peer
  <2> QED
    BY <2>1, <2>2, <2>3 DEF Next
<1> QED
  BY <1>2, <1>3, <1>4, <1>5

\* A peer that has processed everything has forgotten what a deleted message said, in
\* every behaviour.
THEOREM ForgetsWhatWasDeleted == Spec => []PeerForgets
<1>1. Init => Sound /\ Forgetting
  <2>1. Init => Forgetting
    BY DEF Init, Forgetting
  <2> QED
    BY <2>1, InitSound
<1>2. Sound /\ Forgetting /\ [Next]_vars => Sound' /\ Forgetting'
  BY NextSound, NextForgetting
<1>3. Sound /\ Forgetting => PeerForgets
  BY DEF Sound, TypeOK, ServerOK, Forgetting, DeletionAhead, PeerForgets
<1> QED
  BY <1>1, <1>2, <1>3, PTL DEF Spec
-----------------------------------------------------------------------------
(* What the tasks are about: the places of a change of each kind, the rows and the
   copies that must exist, and the rows nobody works on any more. *)

Reactions == {"react", "unreact"}
Stored    == {"edit"} \cup Reactions

PlaceFacts == \A t \in Tasks :
  /\ at[t] = "idle" => cur[t] = Nothing
  /\ at[t] = "save" => t \in Changes /\ Kind(t) = "edit" /\ row[t] = "none"
  /\ at[t] = "table" => t \in Changes /\ Kind(t) \in Reactions
  /\ at[t] \in {"reapply", "reread", "readTile"} => Kind(t) = "edit"
  /\ at[t] \in {"load", "writeTile", "clean"} => Kind(t) \in Stored
  /\ at[t] \in {"inspect", "quote", "tombstone"} => Kind(t) = "delete"

\* An edit that was not found has no row; what was answered is in the queue.
OutFacts == \A t \in Tasks :
  /\ out[t] = "failed" => at[t] \in {"readTile", "writeTile"} /\ Kind(t) = "edit"
                          /\ row[cur[t]] = "none"
  /\ out[t] = "sent" => cur[t] \in Accepted
  /\ at[t] = "wait" => cur[t] \in Accepted
  /\ at[t] = "clean" /\ Kind(t) \in Reactions => cur[t] \in Accepted

RowFacts == \A c \in Changes :
  /\ row[c] # "none" => kind[c] \in Stored
  /\ row[c] = "sent" => kind[c] = "edit"
  /\ kind[c] \in Reactions => row[c] = "journaled" \/ c \in Accepted

TodoFacts == \A p \in Pumps, c \in Changes :
  /\ c \in todo[p] => kind[c] \in Stored
  /\ at[c] = "save" => cur[p] # c /\ c \notin todo[p]

\* Somebody has still to look for the row of c.
Waiting(c) == (\E t \in Tasks : cur[t] = c /\ at[t] = "load") \/ (\E p \in Pumps : c \in todo[p])

\* While somebody will look for the row of an edit that was sent, a task is left that
\* will delete it.
SentFacts == \A c \in Changes :
  row[c] = "sent" /\ Waiting(c) => \E t \in Tasks : cur[t] = c /\ at[t] # "load"

WorkInv == PlaceFacts /\ OutFacts /\ RowFacts /\ TodoFacts /\ SentFacts

-----------------------------------------------------------------------------
(* While no edit was made with another in flight, only the latest can be sent or
   written; every earlier one is over, whatever a pump still holds of it. *)

Over(c) ==
  /\ row[c] # "journaled"
  /\ row[c] = "sent" => ~Waiting(c)
  /\ \A t \in Tasks : cur[t] = c => at[t] \in {"load", "readTile", "writeTile", "clean"}

\* After a copy of l the queue holds no copy of another change of these kinds.
NoneAfter(l, kinds) == \A i, j \in 1..Len(queue) :
  i < j /\ queue[i].change = l /\ kind[queue[j].change] \in kinds => queue[j].change = l

\* A copy of l among those the peer has not processed since it last connected.
Ahead(l) == \E i \in (done + 1)..Len(queue) : queue[i].change = l

EditsMade ==
  /\ lastEdit # Nothing => kind[lastEdit] = "edit"
  /\ \A c \in Changes : kind[c] = "edit" => lastEdit # Nothing

EarlierOver == \A c \in Changes : kind[c] = "edit" /\ c # lastEdit => Over(c)

LatestWritten ==
  lastEdit # Nothing /\ mine.type = "text" =>
    /\ mine.data = lastEdit
    /\ \A t \in Tasks : at[t] = "post" /\ Kind(t) = "edit" => held[t] = lastEdit
    /\ \A i \in 1..Len(queue) : queue[i].change = lastEdit => queue[i].data = lastEdit

LatestArrives ==
  lastEdit \in Accepted /\ mine.type = "text" /\ theirs.message.type = "text" =>
    Ahead(lastEdit) \/ theirs.message.data = lastEdit

EditInv ==
  "edit" \notin tangled =>
    EarlierOver /\ LatestWritten /\ NoneAfter(lastEdit, {"edit"}) /\ LatestArrives

-----------------------------------------------------------------------------
(* The same for reactions: all but one are over, and that one is the author's choice, what
   his table says unless it lost it, and what the peer's table says or will. *)

Gone(c) == row[c] # "journaled" /\ \A t \in Tasks : cur[t] = c => at[t] = "load"

Shown(l) == IF kind[l] = "react" THEN l ELSE Nothing

Latest(l) ==
  /\ kind[l] \in Reactions
  /\ \A c \in Changes : kind[c] \in Reactions /\ c # l => Gone(c)
  /\ chosen = Shown(l)
  /\ at[l] # "table" /\ myReaction # chosen => unlisted
  /\ NoneAfter(l, Reactions)
  /\ l \in Accepted => Ahead(l) \/ theirs.reaction = Shown(l)

NoReaction ==
  /\ chosen = Nothing /\ myReaction = Nothing /\ theirs.reaction = Nothing
  /\ \A c \in Changes : kind[c] \notin Reactions

ReactionInv == "reaction" \notin tangled => NoReaction \/ \E l \in Changes : Latest(l)
-----------------------------------------------------------------------------
(* What every step leaves of what was *)

\* A change that was made stays what it is, and what the server took stays taken.
LEMMA Lasting ==
  ASSUME Sound, [Next]_vars
  PROVE  /\ \A c \in Changes : kind[c] # "none" => kind'[c] = kind[c]
         /\ Len(queue) \in Nat /\ Len(queue') \in Nat /\ Len(queue) <= Len(queue')
         /\ \A i \in 1..Len(queue) : queue'[i] = queue[i]
         /\ Accepted \subseteq Accepted'
<1> USE DEF Sound, TypeOK
<1>1. CASE \E t \in Tasks : PostAccepted(t)
  <2>1. kind' = kind
    BY <1>1 DEF PostAccepted
  <2>2. /\ Len(queue) \in Nat /\ Len(queue') = Len(queue) + 1
        /\ \A i \in 1..Len(queue) : queue'[i] = queue[i]
    BY <1>1 DEF PostAccepted, ServerOK
  <2> QED
    BY <2>1, <2>2 DEF Accepted
<1>2. CASE ~\E t \in Tasks : PostAccepted(t)
  <2>1. queue' = queue /\ \A c \in Changes : kind[c] # "none" => kind'[c] = kind[c]
    <3>1. ASSUME NEW t \in Tasks, Retry(t), ~PostAccepted(t) PROVE queue' = queue /\ kind' = kind
      BY <3>1 DEF Retry, Load, EditNotFound, ReactionNotFound, Reapply, Reread,
         Answered, AttemptFails, ReadTile, WriteTile, CleanUp, Inspect, Quote, Tombstone, server
    <3>2. ASSUME NEW c \in Changes, Make(c)
          PROVE  queue' = queue /\ \A d \in Changes : kind[d] # "none" => kind'[d] = kind[d]
      BY <3>2 DEF Make, Edit, React, Delete, Begin, AuthorOK, server
    <3>3. ASSUME NEW c \in Changes, SaveEdit(c) \/ UpdateReactionInfo(c)
          PROVE  queue' = queue /\ kind' = kind
      BY <3>3 DEF SaveEdit, UpdateReactionInfo, server
    <3>4. (\E p \in Pumps : PumpStart(p)) \/ Receive \/ Acknowledge \/ Redeliver \/ Crash
             \/ PeerCrash \/ UNCHANGED vars
          => queue' = queue /\ kind' = kind
      BY DEF PumpStart, Receive, Acknowledge, Redeliver, Crash, PeerCrash, vars, server
    <3> QED
      BY <1>2, <3>1, <3>2, <3>3, <3>4 DEF Next
  <2> QED
    BY <2>1 DEF Accepted, ServerOK
<1> QED
  BY <1>1, <1>2

\* A task that ends forgets what it read; a pump looks for its next row.
LEMMA FinishShape ==
  ASSUME Sound, NEW t \in Tasks, Finish(t)
  PROVE  /\ \A s \in Tasks : s # t => /\ at'[s] = at[s] /\ cur'[s] = cur[s]
                                      /\ out'[s] = out[s] /\ held'[s] = held[s]
         /\ out'[t] = "journaled"
         /\ \A p \in Pumps : todo'[p] \subseteq todo[p]
         /\ \/ at'[t] = "idle" /\ cur'[t] = Nothing
            \/ at'[t] = "load" /\ t \in Pumps /\ cur'[t] \in todo[t]
<1> USE DEF Sound, TypeOK, TasksOK
<1>1. CASE t \in Pumps /\ todo[t] # {}
  <2>1. PICK c \in todo[t] : /\ cur' = [cur EXCEPT ![t] = c]
                             /\ todo' = [todo EXCEPT ![t] = todo[t] \ {c}]
                             /\ at' = [at EXCEPT ![t] = "load"]
    BY <1>1 DEF Finish, Take, Goto
  <2> QED
    BY <1>1, <2>1 DEF Finish
<1>2. CASE ~(t \in Pumps /\ todo[t] # {})
  BY <1>2 DEF Finish, Goto
<1> QED
  BY <1>1, <1>2

\* So nobody waits for a row that nobody waited for.
LEMMA FinishWaits ==
  ASSUME Sound, NEW t \in Tasks, Finish(t), NEW c \in Changes, Waiting(c)'
  PROVE  Waiting(c)
  BY FinishShape DEF Waiting

\* The server took only changes.
LEMMA NotAccepted == Sound => Nothing \notin Accepted
  BY QueueTypes DEF Accepted, Tasks

\* A change that begins was no task before.
LEMMA BeginIdle ==
  ASSUME Sound, PlaceFacts, OutFacts, NEW c \in Changes, kind[c] = "none"
  PROVE  at[c] = "idle" /\ cur[c] = Nothing /\ out[c] = "journaled"
<1>1. at[c] = "idle"
  BY DEF Sound, TypeOK, TasksOK, TasksMade, Tasks
<1>2. cur[c] = Nothing
  BY <1>1 DEF PlaceFacts, Tasks
<1> QED
  BY <1>1, <1>2, NotAccepted DEF Sound, TypeOK, TasksOK, OutFacts, Tasks

\* In the initial state there is nothing to say.
LEMMA InitWork == Init => WorkInv
  BY DEF Init, WorkInv, PlaceFacts, OutFacts, RowFacts, TodoFacts, SentFacts, Stored, Reactions, Waiting, Tasks

\* Every action keeps the facts about the tasks.
LEMMA NextWork == Sound /\ WorkInv /\ [Next]_vars => WorkInv'
<1> SUFFICES ASSUME Sound, WorkInv, [Next]_vars PROVE WorkInv'
  OBVIOUS
<1>s. Sound'
  BY NextSound
<1>l. /\ \A c \in Changes : kind[c] # "none" => kind'[c] = kind[c]
      /\ Accepted \subseteq Accepted'
  BY Lasting
<1>c. \A t \in Tasks : at[t] # "idle" => cur[t] \in Changes /\ kind[cur[t]] # "none"
  BY DEF Sound, TypeOK, TasksOK, TasksMade
<1> USE DEF Sound, TypeOK, TasksOK, TasksMade, RowsMade, TodoMade, WorkInv, PlaceFacts, OutFacts,
      RowFacts, TodoFacts, SentFacts, Stored, Reactions, Tasks, Kind, Goto, locals, db
<1>1. ASSUME NEW c \in Changes, Edit(c) PROVE WorkInv'
  <2> DEFINE k == "edit"
  <2>0. Begin(c, k, "save")
    BY <1>1 DEF Edit
  <2>1. /\ at' = [at EXCEPT ![c] = "save"] /\ cur' = [cur EXCEPT ![c] = c]
        /\ kind' = [kind EXCEPT ![c] = k] /\ UNCHANGED <<out, todo, queue>>
        /\ row' = row
    BY <1>1, <2>0 DEF Edit, Begin, server
  <2>2. kind[c] = "none" /\ at[c] = "idle" /\ cur[c] = Nothing /\ out[c] = "journaled"
    BY <2>0, BeginIdle DEF Begin
  <2>3. \A t \in Tasks : t # c /\ at[t] # "idle" => cur[t] # c /\ kind'[cur[t]] = kind[cur[t]]
    BY <1>c, <2>1, <2>2
  <2>4. PlaceFacts'
    BY <1>c, <2>1, <2>2, <2>3 DEF AuthorOK
  <2>5. OutFacts'
    BY <1>l, <1>c, <2>1, <2>2, <2>3 DEF AuthorOK
  <2>6. RowFacts'
    BY <1>l, <2>1, <2>2 DEF AuthorOK
  <2>7. TodoFacts'
    BY <1>c, <2>1, <2>2, <2>3 DEF AuthorOK
  <2>8. SentFacts'
    BY <1>c, <2>1, <2>2, <2>3 DEF AuthorOK, Waiting
  <2> QED
    BY <2>4, <2>5, <2>6, <2>7, <2>8
<1>2. ASSUME NEW c \in Changes, React(c) PROVE WorkInv'
  <2>0. PICK k \in {"react", "unreact"} : Begin(c, k, "table")
    BY <1>2 DEF React
  <2>1. /\ at' = [at EXCEPT ![c] = "table"] /\ cur' = [cur EXCEPT ![c] = c]
        /\ kind' = [kind EXCEPT ![c] = k] /\ UNCHANGED <<out, todo, queue>>
        /\ row' = [row EXCEPT ![c] = "journaled"]
    BY <1>2, <2>0 DEF React, Begin, server
  <2>2. kind[c] = "none" /\ at[c] = "idle" /\ cur[c] = Nothing /\ out[c] = "journaled"
    BY <2>0, BeginIdle DEF Begin
  <2>3. \A t \in Tasks : t # c /\ at[t] # "idle" => cur[t] # c /\ kind'[cur[t]] = kind[cur[t]]
    BY <1>c, <2>1, <2>2
  <2>4. PlaceFacts'
    BY <1>c, <2>1, <2>2, <2>3 DEF AuthorOK
  <2>5. OutFacts'
    BY <1>l, <1>c, <2>1, <2>2, <2>3 DEF AuthorOK
  <2>6. RowFacts'
    BY <1>l, <2>1, <2>2 DEF AuthorOK
  <2>7. TodoFacts'
    BY <1>c, <2>1, <2>2, <2>3 DEF AuthorOK
  <2>8. SentFacts'
    BY <1>c, <2>1, <2>2, <2>3 DEF AuthorOK, Waiting
  <2> QED
    BY <2>4, <2>5, <2>6, <2>7, <2>8
<1>3. ASSUME NEW c \in Changes, Delete(c) PROVE WorkInv'
  <2> DEFINE k == "delete"
  <2>0. Begin(c, k, "post")
    BY <1>3 DEF Delete
  <2>1. /\ at' = [at EXCEPT ![c] = "post"] /\ cur' = [cur EXCEPT ![c] = c]
        /\ kind' = [kind EXCEPT ![c] = k] /\ UNCHANGED <<out, todo, queue>>
        /\ row' = row
    BY <1>3, <2>0 DEF Delete, Begin, server
  <2>2. kind[c] = "none" /\ at[c] = "idle" /\ cur[c] = Nothing /\ out[c] = "journaled"
    BY <2>0, BeginIdle DEF Begin
  <2>3. \A t \in Tasks : t # c /\ at[t] # "idle" => cur[t] # c /\ kind'[cur[t]] = kind[cur[t]]
    BY <1>c, <2>1, <2>2
  <2>4. PlaceFacts'
    BY <1>c, <2>1, <2>2, <2>3 DEF AuthorOK
  <2>5. OutFacts'
    BY <1>l, <1>c, <2>1, <2>2, <2>3 DEF AuthorOK
  <2>6. RowFacts'
    BY <1>l, <2>1, <2>2 DEF AuthorOK
  <2>7. TodoFacts'
    BY <1>c, <2>1, <2>2, <2>3 DEF AuthorOK
  <2>8. SentFacts'
    BY <1>c, <2>1, <2>2, <2>3 DEF AuthorOK, Waiting
  <2> QED
    BY <2>4, <2>5, <2>6, <2>7, <2>8
<1>4. ASSUME NEW c \in Changes, SaveEdit(c) PROVE WorkInv'
  <2>1. PlaceFacts' /\ OutFacts'
    BY <1>4, <1>s, <1>l, <1>c DEF SaveEdit
  <2>2. RowFacts' /\ TodoFacts'
    BY <1>4, <1>s, <1>l, <1>c DEF SaveEdit
  <2>3. SentFacts'
    BY <1>4, <1>s, <1>l, <1>c DEF SaveEdit, Waiting
  <2> QED
    BY <2>1, <2>2, <2>3
<1>5. ASSUME NEW c \in Changes, UpdateReactionInfo(c) PROVE WorkInv'
  <2>1. PlaceFacts' /\ OutFacts'
    BY <1>5, <1>s, <1>l, <1>c DEF UpdateReactionInfo
  <2>2. RowFacts' /\ TodoFacts'
    BY <1>5, <1>s, <1>l, <1>c DEF UpdateReactionInfo
  <2>3. SentFacts'
    BY <1>5, <1>s, <1>l, <1>c DEF UpdateReactionInfo, Waiting
  <2> QED
    BY <2>1, <2>2, <2>3
<1>6. ASSUME NEW t \in Tasks, Load(t) PROVE WorkInv'
  <2>1. PlaceFacts' /\ OutFacts'
    BY <1>6, <1>s, <1>l, <1>c DEF Load
  <2>2. RowFacts' /\ TodoFacts'
    BY <1>6, <1>s, <1>l, <1>c DEF Load
  <2>3. SentFacts'
    BY <1>6, <1>s, <1>l, <1>c DEF Load, Waiting
  <2> QED
    BY <2>1, <2>2, <2>3
<1>7. ASSUME NEW t \in Tasks, EditNotFound(t) PROVE WorkInv'
  <2>1. PlaceFacts' /\ OutFacts'
    BY <1>7, <1>s, <1>l, <1>c DEF EditNotFound
  <2>2. RowFacts' /\ TodoFacts'
    BY <1>7, <1>s, <1>l, <1>c DEF EditNotFound
  <2>3. SentFacts'
    BY <1>7, <1>s, <1>l, <1>c DEF EditNotFound, Waiting
  <2> QED
    BY <2>1, <2>2, <2>3
<1>8. ASSUME NEW t \in Tasks, ReactionNotFound(t) PROVE WorkInv'
  <2>1. CASE Finish(t)
    <3>1. PlaceFacts'
      BY <1>8, <1>s, <1>l, <1>c, <2>1, FinishShape DEF ReactionNotFound
    <3>2. OutFacts'
      BY <1>8, <1>s, <1>l, <1>c, <2>1, FinishShape DEF ReactionNotFound
    <3>3. RowFacts' /\ TodoFacts'
      BY <1>8, <1>s, <1>l, <1>c, <2>1, FinishShape DEF ReactionNotFound
    <3>4. SentFacts'
      BY <1>8, <1>s, <1>l, <1>c, <2>1, FinishShape, FinishWaits DEF ReactionNotFound
    <3> QED
      BY <3>1, <3>2, <3>3, <3>4
  <2> QED
    BY <1>8, <2>1 DEF ReactionNotFound
<1>9. ASSUME NEW t \in Tasks, Reapply(t) PROVE WorkInv'
  <2>1. PlaceFacts' /\ OutFacts'
    BY <1>9, <1>s, <1>l, <1>c DEF Reapply
  <2>2. RowFacts' /\ TodoFacts'
    BY <1>9, <1>s, <1>l, <1>c DEF Reapply
  <2>3. SentFacts'
    BY <1>9, <1>s, <1>l, <1>c DEF Reapply, Waiting
  <2> QED
    BY <2>1, <2>2, <2>3
<1>10. ASSUME NEW t \in Tasks, Reread(t) PROVE WorkInv'
  <2>1. PlaceFacts' /\ OutFacts'
    BY <1>10, <1>s, <1>l, <1>c DEF Reread
  <2>2. RowFacts' /\ TodoFacts'
    BY <1>10, <1>s, <1>l, <1>c DEF Reread
  <2>3. SentFacts'
    BY <1>10, <1>s, <1>l, <1>c DEF Reread, Waiting
  <2> QED
    BY <2>1, <2>2, <2>3
<1>11. ASSUME NEW t \in Tasks, PostAccepted(t) PROVE WorkInv'
  <2>1. /\ at[t] = "post" /\ at' = [at EXCEPT ![t] = "wait"] /\ UNCHANGED <<kind, cur, out, todo, row>>
    BY <1>11 DEF PostAccepted
  <2>2. cur[t] \in Accepted'
    <3>1. queue' = Append(queue, [change |-> cur[t], data |-> held[t]]) /\ Len(queue) \in Nat
      BY <1>11 DEF PostAccepted, ServerOK
    <3>2. queue'[Len(queue')].change = cur[t] /\ Len(queue') \in 1..Len(queue')
      BY <3>1 DEF ServerOK
    <3> QED
      BY <3>2 DEF Accepted
  <2>3. PlaceFacts' /\ OutFacts'
    BY <1>l, <2>1, <2>2
  <2>4. RowFacts' /\ TodoFacts'
    BY <1>l, <2>1
  <2>5. SentFacts'
    BY <2>1 DEF Waiting
  <2> QED
    BY <2>3, <2>4, <2>5
<1>12. ASSUME NEW t \in Tasks, Answered(t) PROVE WorkInv'
  <2>1. CASE EditAttempted(t, "sent")
    <3>1. /\ at[t] \in {"wait"} /\ Kind(t) = "edit" /\ at' = [at EXCEPT ![t] = "readTile"]
          /\ row' = IF row[cur[t]] = "none" THEN row ELSE [row EXCEPT ![cur[t]] = "sent"]
          /\ UNCHANGED <<kind, cur, todo, queue>> /\ out' = [out EXCEPT ![t] = "sent"]
      BY <1>12, <2>1 DEF Answered, EditAttempted, server
    <3>2. PlaceFacts' /\ OutFacts'
      BY <1>s, <1>l, <1>c, <3>1 DEF AuthorOK
    <3>3. RowFacts' /\ TodoFacts'
      BY <1>l, <1>c, <3>1 DEF AuthorOK
    <3>4. SentFacts'
      BY <1>c, <3>1 DEF AuthorOK, Waiting
    <3> QED
      BY <3>2, <3>3, <3>4
  <2>2. CASE ReactionAttempted(t)
    <3>1. /\ at[t] \in {"wait"} /\ Kind(t) \in Reactions /\ at' = [at EXCEPT ![t] = "writeTile"]
          /\ UNCHANGED <<kind, row, cur, todo, queue>> /\ out' = [out EXCEPT ![t] = "sent"]
      BY <1>12, <2>2 DEF Answered, ReactionAttempted, server
    <3>2. PlaceFacts' /\ OutFacts'
      BY <1>s, <1>l, <1>c, <3>1 DEF AuthorOK
    <3>3. RowFacts' /\ TodoFacts'
      BY <1>l, <1>c, <3>1
    <3>4. SentFacts'
      BY <1>c, <3>1 DEF Waiting
    <3> QED
      BY <3>2, <3>3, <3>4
  <2>3. CASE Kind(t) = "delete" /\ at' = [at EXCEPT ![t] = "inspect"] /\ UNCHANGED <<cur, out, row>>
    <3>1. at[t] = "wait" /\ UNCHANGED <<kind, todo, queue>>
      BY <1>12 DEF Answered, server
    <3>2. PlaceFacts' /\ OutFacts'
      BY <1>s, <1>l, <1>c, <2>3, <3>1
    <3>3. RowFacts' /\ TodoFacts'
      BY <1>l, <1>c, <2>3, <3>1
    <3>4. SentFacts'
      BY <1>c, <2>3, <3>1 DEF Waiting
    <3> QED
      BY <3>2, <3>3, <3>4
  <2> QED
    BY <1>12, <2>1, <2>2, <2>3 DEF Answered
<1>13. ASSUME NEW t \in Tasks, AttemptFails(t) PROVE WorkInv'
  <2>1. CASE Finish(t)
    <3>1. PlaceFacts'
      BY <1>13, <1>s, <1>l, <1>c, <2>1, FinishShape DEF AttemptFails, EditAttempted, ReactionAttempted
    <3>2. OutFacts'
      BY <1>13, <1>s, <1>l, <1>c, <2>1, FinishShape DEF AttemptFails, EditAttempted, ReactionAttempted
    <3>3. RowFacts' /\ TodoFacts'
      BY <1>13, <1>s, <1>l, <1>c, <2>1, FinishShape DEF AttemptFails, EditAttempted, ReactionAttempted
    <3>4. SentFacts'
      BY <1>13, <1>s, <1>l, <1>c, <2>1, FinishShape, FinishWaits DEF AttemptFails, EditAttempted, ReactionAttempted
    <3> QED
      BY <3>1, <3>2, <3>3, <3>4
  <2>2. CASE EditAttempted(t, "journaled") /\ UNCHANGED <<out, todo>>
    <3>1. /\ at[t] \in {"post", "wait"} /\ Kind(t) = "edit" /\ at' = [at EXCEPT ![t] = "readTile"]
          /\ row' = IF row[cur[t]] = "none" THEN row ELSE [row EXCEPT ![cur[t]] = "journaled"]
          /\ UNCHANGED <<kind, cur, todo, queue>> /\ out' = out
      BY <1>13, <2>2 DEF AttemptFails, EditAttempted, server
    <3>2. PlaceFacts' /\ OutFacts'
      BY <1>s, <1>l, <1>c, <3>1 DEF AuthorOK
    <3>3. RowFacts' /\ TodoFacts'
      BY <1>l, <1>c, <3>1 DEF AuthorOK
    <3>4. SentFacts'
      BY <1>c, <3>1 DEF AuthorOK, Waiting
    <3> QED
      BY <3>2, <3>3, <3>4
  <2>3. CASE ReactionAttempted(t) /\ UNCHANGED <<out, todo>>
    <3>1. /\ at[t] \in {"post", "wait"} /\ Kind(t) \in Reactions /\ at' = [at EXCEPT ![t] = "writeTile"]
          /\ UNCHANGED <<kind, row, cur, todo, queue>> /\ out' = out
      BY <1>13, <2>3 DEF AttemptFails, ReactionAttempted, server
    <3>2. PlaceFacts' /\ OutFacts'
      BY <1>s, <1>l, <1>c, <3>1 DEF AuthorOK
    <3>3. RowFacts' /\ TodoFacts'
      BY <1>l, <1>c, <3>1
    <3>4. SentFacts'
      BY <1>c, <3>1 DEF Waiting
    <3> QED
      BY <3>2, <3>3, <3>4
  <2> QED
    BY <1>13, <2>1, <2>2, <2>3 DEF AttemptFails
<1>14. ASSUME NEW t \in Tasks, ReadTile(t) PROVE WorkInv'
  <2>1. PlaceFacts' /\ OutFacts'
    BY <1>14, <1>s, <1>l, <1>c DEF ReadTile
  <2>2. RowFacts' /\ TodoFacts'
    BY <1>14, <1>s, <1>l, <1>c DEF ReadTile
  <2>3. SentFacts'
    BY <1>14, <1>s, <1>l, <1>c DEF ReadTile, Waiting
  <2> QED
    BY <2>1, <2>2, <2>3
<1>15. ASSUME NEW t \in Tasks, WriteTile(t) PROVE WorkInv'
  <2>1. CASE Finish(t)
    <3>1. PlaceFacts'
      BY <1>15, <1>s, <1>l, <1>c, <2>1, FinishShape DEF WriteTile, CleansUp
    <3>2. OutFacts'
      BY <1>15, <1>s, <1>l, <1>c, <2>1, FinishShape DEF WriteTile, CleansUp
    <3>3. RowFacts' /\ TodoFacts'
      BY <1>15, <1>s, <1>l, <1>c, <2>1, FinishShape DEF WriteTile, CleansUp
    <3>4. SentFacts'
      BY <1>15, <1>s, <1>l, <1>c, <2>1, FinishShape, FinishWaits DEF WriteTile, CleansUp
    <3> QED
      BY <3>1, <3>2, <3>3, <3>4
  <2>2. CASE ~Finish(t)
    <3>1. PlaceFacts' /\ OutFacts'
      BY <1>15, <1>s, <1>l, <1>c, <2>2 DEF WriteTile, CleansUp
    <3>2. RowFacts' /\ TodoFacts'
      BY <1>15, <1>s, <1>l, <1>c, <2>2 DEF WriteTile, CleansUp
    <3>3. SentFacts'
      BY <1>15, <1>s, <1>l, <1>c, <2>2 DEF WriteTile, CleansUp, Waiting
    <3> QED
      BY <3>1, <3>2, <3>3
  <2> QED
    BY <2>1, <2>2
<1>16. ASSUME NEW t \in Tasks, CleanUp(t) PROVE WorkInv'
  <2>1. CASE Finish(t)
    <3>1. PlaceFacts'
      BY <1>16, <1>s, <1>l, <1>c, <2>1, FinishShape DEF CleanUp
    <3>2. OutFacts'
      BY <1>16, <1>s, <1>l, <1>c, <2>1, FinishShape DEF CleanUp
    <3>3. RowFacts' /\ TodoFacts'
      BY <1>16, <1>s, <1>l, <1>c, <2>1, FinishShape DEF CleanUp
    <3>4. SentFacts'
      <4>1. at[t] = "clean" /\ cur[t] \in Changes /\ row' = [row EXCEPT ![cur[t]] = "none"]
        BY <1>16, <1>c DEF CleanUp
      <4>2. ASSUME NEW c \in Changes, row'[c] = "sent", Waiting(c)'
            PROVE  \E s \in Tasks : cur'[s] = c /\ at'[s] # "load"
        <5>1. c # cur[t] /\ row[c] = "sent" /\ Waiting(c)
          BY <2>1, <4>1, <4>2, FinishWaits DEF AuthorOK
        <5> QED
          BY <2>1, <5>1, FinishShape
      <4> QED
        BY <4>2
    <3> QED
      BY <3>1, <3>2, <3>3, <3>4
  <2> QED
    BY <1>16, <2>1 DEF CleanUp
<1>17. ASSUME NEW t \in Tasks, Inspect(t) PROVE WorkInv'
  <2>1. PlaceFacts' /\ OutFacts'
    BY <1>17, <1>s, <1>l, <1>c DEF Inspect
  <2>2. RowFacts' /\ TodoFacts'
    BY <1>17, <1>s, <1>l, <1>c DEF Inspect
  <2>3. SentFacts'
    BY <1>17, <1>s, <1>l, <1>c DEF Inspect, Waiting
  <2> QED
    BY <2>1, <2>2, <2>3
<1>18. ASSUME NEW t \in Tasks, Quote(t) PROVE WorkInv'
  <2>1. PlaceFacts' /\ OutFacts'
    BY <1>18, <1>s, <1>l, <1>c DEF Quote
  <2>2. RowFacts' /\ TodoFacts'
    BY <1>18, <1>s, <1>l, <1>c DEF Quote
  <2>3. SentFacts'
    BY <1>18, <1>s, <1>l, <1>c DEF Quote, Waiting
  <2> QED
    BY <2>1, <2>2, <2>3
<1>19. ASSUME NEW t \in Tasks, Tombstone(t) PROVE WorkInv'
  <2>1. CASE Finish(t)
    <3>1. PlaceFacts'
      BY <1>19, <1>s, <1>l, <1>c, <2>1, FinishShape DEF Tombstone
    <3>2. OutFacts'
      BY <1>19, <1>s, <1>l, <1>c, <2>1, FinishShape DEF Tombstone
    <3>3. RowFacts' /\ TodoFacts'
      BY <1>19, <1>s, <1>l, <1>c, <2>1, FinishShape DEF Tombstone
    <3>4. SentFacts'
      BY <1>19, <1>s, <1>l, <1>c, <2>1, FinishShape, FinishWaits DEF Tombstone
    <3> QED
      BY <3>1, <3>2, <3>3, <3>4
  <2> QED
    BY <1>19, <2>1 DEF Tombstone
<1>20. ASSUME NEW p \in Pumps, PumpStart(p) PROVE WorkInv'
  <2>1. PICK c \in Changes :
          /\ at[p] = "idle" /\ row[c] = "journaled"
          /\ cur' = [cur EXCEPT ![p] = c] /\ at' = [at EXCEPT ![p] = "load"]
          /\ \A q \in Pumps, d \in Changes : d \in todo'[q] => d \in todo[q] \/ row[d] = "journaled"
          /\ UNCHANGED <<kind, row, out, queue>>
    <3>1. PICK c \in {d \in Changes : row[d] = "journaled"} :
            /\ cur' = [cur EXCEPT ![p] = c] /\ at' = [at EXCEPT ![p] = "load"]
            /\ todo' = [todo EXCEPT ![p] = {d \in Changes : row[d] = "journaled"} \ {c}]
      BY <1>20 DEF PumpStart, Take
    <3>2. at[p] = "idle" /\ UNCHANGED <<kind, row, out, queue>>
      BY <1>20 DEF PumpStart, server
    <3>3. \A q \in Pumps, d \in Changes : d \in todo'[q] => d \in todo[q] \/ row[d] = "journaled"
      BY <3>1
    <3> QED
      BY <3>1, <3>2, <3>3
  <2>2. out[p] \notin {"sent", "failed"}
    <3>1. cur[p] \notin Accepted
      BY <2>1, NotAccepted
    <3> QED
      BY <2>1, <3>1
  <2>3. PlaceFacts' /\ OutFacts'
    BY <1>l, <1>c, <2>1, <2>2
  <2>4. RowFacts' /\ TodoFacts'
    BY <1>l, <1>c, <2>1
  <2>5. SentFacts'
    BY <1>c, <2>1 DEF Waiting
  <2> QED
    BY <2>3, <2>4, <2>5
<1>21. ASSUME Receive PROVE WorkInv'
  <2>1. PlaceFacts' /\ OutFacts'
    BY <1>21, <1>s, <1>l, <1>c DEF Receive
  <2>2. RowFacts' /\ TodoFacts'
    BY <1>21, <1>s, <1>l, <1>c DEF Receive
  <2>3. SentFacts'
    BY <1>21, <1>s, <1>l, <1>c DEF Receive, Waiting
  <2> QED
    BY <2>1, <2>2, <2>3
<1>22. ASSUME Acknowledge PROVE WorkInv'
  <2>1. PlaceFacts' /\ OutFacts'
    BY <1>22, <1>s, <1>l, <1>c DEF Acknowledge
  <2>2. RowFacts' /\ TodoFacts'
    BY <1>22, <1>s, <1>l, <1>c DEF Acknowledge
  <2>3. SentFacts'
    BY <1>22, <1>s, <1>l, <1>c DEF Acknowledge, Waiting
  <2> QED
    BY <2>1, <2>2, <2>3
<1>23. ASSUME Redeliver PROVE WorkInv'
  <2>1. PlaceFacts' /\ OutFacts'
    BY <1>23, <1>s, <1>l, <1>c DEF Redeliver
  <2>2. RowFacts' /\ TodoFacts'
    BY <1>23, <1>s, <1>l, <1>c DEF Redeliver
  <2>3. SentFacts'
    BY <1>23, <1>s, <1>l, <1>c DEF Redeliver, Waiting
  <2> QED
    BY <2>1, <2>2, <2>3
<1>24. ASSUME Crash PROVE WorkInv'
  <2>1. PlaceFacts' /\ OutFacts'
    BY <1>24, <1>s, <1>l, <1>c DEF Crash
  <2>2. RowFacts' /\ TodoFacts'
    BY <1>24, <1>s, <1>l, <1>c DEF Crash
  <2>3. SentFacts'
    BY <1>24, <1>s, <1>l, <1>c DEF Crash, Waiting
  <2> QED
    BY <2>1, <2>2, <2>3
<1>25. ASSUME PeerCrash PROVE WorkInv'
  <2>1. PlaceFacts' /\ OutFacts'
    BY <1>25, <1>s, <1>l, <1>c DEF PeerCrash
  <2>2. RowFacts' /\ TodoFacts'
    BY <1>25, <1>s, <1>l, <1>c DEF PeerCrash
  <2>3. SentFacts'
    BY <1>25, <1>s, <1>l, <1>c DEF PeerCrash, Waiting
  <2> QED
    BY <2>1, <2>2, <2>3
<1>26. ASSUME UNCHANGED vars PROVE WorkInv'
  BY <1>26 DEF vars, server, Accepted, Waiting
<1> QED
  BY <1>1, <1>2, <1>3, <1>4, <1>5, <1>6, <1>7, <1>8, <1>9, <1>10, <1>11, <1>12, <1>13,
     <1>14, <1>15, <1>16, <1>17, <1>18, <1>19, <1>20, <1>21, <1>22, <1>23, <1>24, <1>25, <1>26
     DEF Next, Make, Retry
-----------------------------------------------------------------------------
(* The queue and the peer, for edits and reactions alike *)

\* A change that begins untangled finds none of its class in flight.
LEMMA BeginAlone ==
  ASSUME NEW c \in Changes, NEW k, NEW p, Begin(c, k, p), NEW x, x \in Class(k), x \notin tangled'
  PROVE  \A d \in Changes : x \in Class(kind[d]) => ~InFlight(d)
  BY DEF Begin

\* What was ever tangled stays so.
LEMMA TangledGrows == ASSUME [Next]_vars PROVE tangled \subseteq tangled'
<1>1. ASSUME NEW c \in Changes, Make(c) \/ SaveEdit(c) \/ UpdateReactionInfo(c)
      PROVE  tangled \subseteq tangled'
  BY <1>1 DEF Make, Edit, React, Delete, Begin, SaveEdit, UpdateReactionInfo, history
<1>2. ASSUME NEW t \in Tasks, Retry(t) PROVE tangled' = tangled
  BY <1>2 DEF Retry, Load, EditNotFound, ReactionNotFound, Reapply, Reread, PostAccepted,
     Answered, AttemptFails, ReadTile, WriteTile, CleanUp, Inspect, Quote, Tombstone, history
<1>3. (\E p \in Pumps : PumpStart(p)) \/ Receive \/ Acknowledge \/ Redeliver \/ Crash
         \/ PeerCrash \/ UNCHANGED vars
      => tangled \subseteq tangled'
  BY DEF PumpStart, Receive, Acknowledge, Redeliver, Crash, PeerCrash, vars, history
<1> QED
  BY <1>1, <1>2, <1>3 DEF Next

\* What the server takes goes behind what it has.
LEMMA TakenLast ==
  ASSUME Sound, [Next]_vars
  PROVE  \/ queue' = queue
         \/ \E t \in Tasks :
              /\ PostAccepted(t)
              /\ Len(queue') = Len(queue) + 1
              /\ queue'[Len(queue')] = [change |-> cur[t], data |-> held[t]]
<1>1. ASSUME NEW t \in Tasks, PostAccepted(t)
      PROVE  /\ Len(queue') = Len(queue) + 1
             /\ queue'[Len(queue')] = [change |-> cur[t], data |-> held[t]]
  BY <1>1 DEF PostAccepted, Sound, TypeOK, ServerOK
<1>2. ASSUME NEW t \in Tasks, Retry(t), ~PostAccepted(t) PROVE queue' = queue
  BY <1>2 DEF Retry, Load, EditNotFound, ReactionNotFound, Reapply, Reread,
     Answered, AttemptFails, ReadTile, WriteTile, CleanUp, Inspect, Quote, Tombstone, server
<1>3. ASSUME NEW c \in Changes, Make(c) \/ SaveEdit(c) \/ UpdateReactionInfo(c)
      PROVE  queue' = queue
  BY <1>3 DEF Make, Edit, React, Delete, Begin, SaveEdit, UpdateReactionInfo, server
<1>4. (\E p \in Pumps : PumpStart(p)) \/ Receive \/ Acknowledge \/ Redeliver \/ Crash
         \/ PeerCrash \/ UNCHANGED vars
      => queue' = queue
  BY DEF PumpStart, Receive, Acknowledge, Redeliver, Crash, PeerCrash, vars, server
<1> QED
  BY <1>1, <1>2, <1>3, <1>4 DEF Next

\* The order of copies is kept when only the latest change of a class is taken.
LEMMA NoneAfterStays ==
  ASSUME Sound, [Next]_vars, NEW l, NEW kinds, NoneAfter(l, kinds), "none" \notin kinds,
         \A t \in Tasks : PostAccepted(t) /\ kind[cur[t]] \in kinds => cur[t] = l
  PROVE  NoneAfter(l, kinds)'
<1>1. \A i \in 1..Len(queue) : queue'[i] = queue[i] /\ kind'[queue[i].change] = kind[queue[i].change]
  BY Lasting, QueueTypes DEF Sound, QueueMade
<1>2. Len(queue) \in Nat /\ Len(queue') \in Nat
  BY Lasting
<1>3. CASE queue' = queue
  BY <1>1, <1>2, <1>3 DEF NoneAfter
<1>4. CASE queue' # queue
  <2>1. PICK t \in Tasks : /\ PostAccepted(t) /\ Len(queue') = Len(queue) + 1
                           /\ queue'[Len(queue')] = [change |-> cur[t], data |-> held[t]]
    BY <1>4, TakenLast
  <2>2. kind' = kind
    BY <2>1 DEF PostAccepted
  <2>3. ASSUME NEW i \in 1..Len(queue'), NEW j \in 1..Len(queue'), i < j,
               queue'[i].change = l, kind'[queue'[j].change] \in kinds
        PROVE  queue'[j].change = l
    <3>1. i \in 1..Len(queue)
      BY <1>2, <2>1, <2>3
    <3>2. CASE j = Len(queue')
      BY <2>1, <2>2, <2>3, <3>2
    <3>3. CASE j \in 1..Len(queue)
      BY <1>1, <2>3, <3>1, <3>3 DEF NoneAfter
    <3> QED
      BY <1>2, <2>1, <3>2, <3>3
  <2> QED
    BY <2>3 DEF NoneAfter
<1> QED
  BY <1>3, <1>4

\* Only processing a copy leaves it behind.
LEMMA DoneFalls == ASSUME Sound, [Next]_vars, ~Receive PROVE done' \in Nat /\ done' <= done
<1>1. ASSUME NEW t \in Tasks, Retry(t) PROVE done' = done
  BY <1>1 DEF Retry, Load, EditNotFound, ReactionNotFound, Reapply, Reread, PostAccepted,
     Answered, AttemptFails, ReadTile, WriteTile, CleanUp, Inspect, Quote, Tombstone, peer
<1>2. ASSUME NEW c \in Changes, Make(c) \/ SaveEdit(c) \/ UpdateReactionInfo(c)
      PROVE  done' = done
  BY <1>2 DEF Make, Edit, React, Delete, Begin, SaveEdit, UpdateReactionInfo, peer
<1>3. (\E p \in Pumps : PumpStart(p)) \/ Acknowledge \/ Crash \/ UNCHANGED vars => done' = done
  BY DEF PumpStart, Acknowledge, Crash, vars, peer
<1>4. Redeliver \/ PeerCrash => done' = acked
  BY DEF Redeliver, PeerCrash
<1> QED
  BY <1>1, <1>2, <1>3, <1>4 DEF Next, Sound, TypeOK, ServerOK

LEMMA AheadStays == ASSUME Sound, [Next]_vars, ~Receive, NEW l, Ahead(l) PROVE Ahead(l)'
<1>1. PICK i \in (done + 1)..Len(queue) : queue[i].change = l
  BY DEF Ahead
<1>2. done \in Nat /\ done' \in Nat /\ done' <= done
  BY DoneFalls DEF Sound, TypeOK, ServerOK
<1>3. i \in 1..Len(queue) /\ i \in (done' + 1)..Len(queue')
  BY <1>2, Lasting, StillAhead
<1>4. queue'[i] = queue[i]
  BY <1>3, Lasting
<1> QED
  BY <1>1, <1>3, <1>4 DEF Ahead

\* What the server has just taken is ahead.
LEMMA TakenAhead ==
  ASSUME Sound, [Next]_vars, NEW l, l \in Accepted', l \notin Accepted
  PROVE  Ahead(l)' /\ theirs' = theirs
<1>0. queue' # queue
  BY DEF Accepted
<1>1. PICK t \in Tasks : /\ PostAccepted(t) /\ Len(queue') = Len(queue) + 1
                         /\ queue'[Len(queue')] = [change |-> cur[t], data |-> held[t]]
  BY <1>0, TakenLast
<1>2. done' = done /\ theirs' = theirs /\ done \in Nat /\ Len(queue) \in Nat /\ done <= Len(queue)
  BY <1>1 DEF PostAccepted, peer, Sound, TypeOK, ServerOK
<1>3. PICK j \in 1..Len(queue') : queue'[j].change = l
  BY DEF Accepted
<1>4. j \notin 1..Len(queue)
  BY <1>3, Lasting DEF Accepted
<1>5. j = Len(queue')
  BY <1>1, <1>2, <1>4
<1>6. j \in (done' + 1)..Len(queue')
  BY <1>1, <1>2, <1>5
<1> QED
  BY <1>2, <1>3, <1>6 DEF Ahead

\* An earlier change that is processed again has the latest behind it.
LEMMA LatestBehind ==
  ASSUME Sound, NEW l \in Accepted, NEW kinds, NoneAfter(l, kinds), NEW i \in 1..Len(queue),
         kind[queue[i].change] \in kinds, queue[i].change # l
  PROVE  \E j \in (i + 1)..Len(queue) : queue[j].change = l
<1>1. PICK j \in 1..Len(queue) : queue[j].change = l
  BY DEF Accepted
<1>2. Len(queue) \in Nat
  BY DEF Sound, TypeOK, ServerOK
<1>3. j # i /\ ~(j < i)
  BY <1>1 DEF NoneAfter
<1> QED
  BY <1>1, <1>2, <1>3

\* A statement of a handler that is cut short is one of those for the next copy.
LEMMA CutShort ==
  ASSUME Sound, [Next]_vars, ~Receive, theirs' # theirs
  PROVE  \E i \in 1..Len(queue) :
           /\ i = done + 1 /\ queue' = queue /\ done' \in 0..done
           /\ \E n \in 1..Len(Writes(queue[i])) : theirs' = Writes(queue[i])[n]
<1>1. PeerCrash
  <2>1. ASSUME NEW c \in Changes, Make(c) \/ SaveEdit(c) \/ UpdateReactionInfo(c)
        PROVE  theirs' = theirs
    BY <2>1 DEF Make, Edit, React, Delete, Begin, SaveEdit, UpdateReactionInfo, peer
  <2>2. ASSUME NEW t \in Tasks, Retry(t) PROVE theirs' = theirs
    BY <2>2 DEF Retry, Load, EditNotFound, ReactionNotFound, Reapply, Reread, PostAccepted,
       Answered, AttemptFails, ReadTile, WriteTile, CleanUp, Inspect, Quote, Tombstone, peer
  <2>3. (\E p \in Pumps : PumpStart(p)) \/ Acknowledge \/ Redeliver \/ Crash \/ UNCHANGED vars
        => theirs' = theirs
    BY DEF PumpStart, Acknowledge, Redeliver, Crash, vars, peer
  <2> QED
    BY <2>1, <2>2, <2>3 DEF Next
<1>2. done \in Nat /\ Len(queue) \in Nat /\ acked \in 0..done
  BY DEF Sound, TypeOK, ServerOK
<1>3. /\ done < Len(queue) /\ done' = acked /\ queue' = queue
      /\ \E n \in 1..Len(Writes(queue[done + 1])) - 1 : theirs' = Writes(queue[done + 1])[n]
  BY <1>1 DEF PeerCrash, server
<1>4. PICK i \in 1..Len(queue) : i = done + 1
  BY <1>2, <1>3
<1>5. Len(Writes(queue[i])) \in 1..3
  BY WritesFollow
<1>6. \E n \in 1..Len(Writes(queue[i])) : theirs' = Writes(queue[i])[n]
  BY <1>3, <1>4, <1>5
<1> QED
  BY <1>2, <1>3, <1>4, <1>6

\* What the peer says of the message and of the reaction after a statement of a handler.
LEMMA WritesSay ==
  ASSUME Sound, NEW i \in 1..Len(queue), NEW n \in 1..Len(Writes(queue[i]))
  PROVE  LET w == Writes(queue[i])[n]
             k == kind[queue[i].change]
             r == IF k = "react" THEN queue[i].change ELSE Nothing
         IN /\ k = "edit" => /\ w.reaction = theirs.reaction
                             /\ theirs.message.type = "text" /\ queue[i].data # Nothing
                                  => w.message.data = queue[i].data
            /\ k \in Reactions => /\ w.message = theirs.message
                                  /\ w.reaction \in {theirs.reaction, r}
                                  /\ n = Len(Writes(queue[i])) => w.reaction = r
            /\ k = "delete" => /\ w.reaction = theirs.reaction
                               /\ w.message = theirs.message \/ w.message.type = "deleted"
<1> DEFINE c == queue[i].change
           d == queue[i].data
<1>0. c \in Changes /\ kind[c] \in Kinds /\ theirs \in PeerRows
  BY QueueTypes DEF Sound, TypeOK, PeerOK, PeerRows
<1>1. CASE kind[c] = "edit"
  <2> DEFINE e == [theirs EXCEPT !.message = WithData(@, d)]
             f == [e EXCEPT !.tile = d]
  <2>1. Writes(queue[i]) = EditWrites(d)
    BY <1>1 DEF Writes
  <2>2. e.reaction = theirs.reaction /\ f.reaction = theirs.reaction
    BY <1>0 DEF PeerRows
  <2>3. e.message.data = d /\ f.message.data = d
    BY <1>0 DEF PeerRows, Rows, WithData
  <2>4. CASE theirs.message.type = "text" /\ d # Nothing
    <3>1. Writes(queue[i]) = <<e, f>>
      BY <2>1, <2>4 DEF EditWrites
    <3>2. n \in 1..2
      BY <3>1
    <3>3. Writes(queue[i])[n] \in {e, f}
      BY <3>1, <3>2
    <3> HIDE DEF e, f
    <3> QED
      BY <1>1, <2>2, <2>3, <3>3 DEF Reactions
  <2>5. CASE ~(theirs.message.type = "text" /\ d # Nothing)
    <3>1. Writes(queue[i]) = <<theirs>>
      BY <2>1, <2>5 DEF EditWrites
    <3> QED
      BY <1>1, <2>5, <3>1 DEF Reactions
  <2> QED
    BY <2>4, <2>5
<1>2. CASE kind[c] \in Reactions
  <2> DEFINE r == IF kind[c] = "react" THEN c ELSE Nothing
             e == [theirs EXCEPT !.mark = TRUE]
             f == [e EXCEPT !.reaction = r]
             g == [f EXCEPT !.tile = Quoted(theirs.message)]
  <2>1. Writes(queue[i]) = <<e, f, g>>
    BY <1>2 DEF Writes, ReactionWrites, Reactions
  <2>2. /\ e.message = theirs.message /\ f.message = theirs.message /\ g.message = theirs.message
        /\ e.reaction = theirs.reaction /\ f.reaction = r /\ g.reaction = r
    BY <1>0 DEF PeerRows
  <2>3. n \in 1..3 /\ Len(Writes(queue[i])) = 3
    BY <2>1
  <2> HIDE DEF e, f, g
  <2>4. Writes(queue[i])[n] \in {e, f, g} /\ (n = 3 => Writes(queue[i])[n] = g)
    BY <2>1, <2>3
  <2> QED
    BY <1>2, <2>2, <2>3, <2>4 DEF Reactions
<1>3. CASE kind[c] = "delete"
  <2> DEFINE e == IF theirs.mark THEN [theirs EXCEPT !.tile = Quoted(theirs.message)] ELSE theirs
             f == [e EXCEPT !.message = Deleted]
             g == [f EXCEPT !.tile = Nothing]
  <2>1. Writes(queue[i]) = <<e, f, g>>
    BY <1>3 DEF Writes, DeletionWrites
  <2>3. /\ e.message = theirs.message /\ f.message = Deleted /\ g.message = Deleted
        /\ e.reaction = theirs.reaction /\ f.reaction = theirs.reaction
        /\ g.reaction = theirs.reaction
    BY <1>0 DEF PeerRows
  <2>4. n \in 1..3
    BY <2>1
  <2>5. Writes(queue[i])[n] \in {e, f, g}
    BY <2>1, <2>4
  <2> HIDE DEF e, f, g
  <2> QED
    BY <1>3, <2>3, <2>5 DEF Reactions, Deleted
<1> QED
  BY <1>0, <1>1, <1>2, <1>3 DEF Kinds, Reactions

\* When a copy is processed, or a statement of its handler is, it is the next one.
LEMMA Processed ==
  ASSUME Sound, [Next]_vars, Receive \/ theirs' # theirs
  PROVE  \E i \in 1..Len(queue) :
           /\ i = done + 1 /\ queue' = queue
           /\ \E n \in 1..Len(Writes(queue[i])) : theirs' = Writes(queue[i])[n]
           /\ \/ done' = i /\ theirs' = Writes(queue[i])[Len(Writes(queue[i]))]
              \/ ~Receive /\ done' \in 0..done
<1>1. CASE Receive
  <2>0. done \in Nat /\ Len(queue) \in Nat
    BY DEF Sound, TypeOK, ServerOK
  <2>1. /\ done < Len(queue) /\ done' = done + 1 /\ queue' = queue
        /\ theirs' = Writes(queue[done + 1])[Len(Writes(queue[done + 1]))]
    BY <1>1 DEF Receive, server
  <2>2. PICK i \in 1..Len(queue) : i = done + 1
    BY <2>0, <2>1
  <2>3. Len(Writes(queue[i])) \in 1..3
    BY WritesFollow
  <2>4. Len(Writes(queue[i])) \in 1..Len(Writes(queue[i]))
    BY <2>3
  <2> QED
    BY <2>1, <2>2, <2>4
<1>2. CASE ~Receive /\ theirs' # theirs
  BY <1>2, CutShort
<1> QED
  BY <1>1, <1>2

\* The next copy is ahead when the peer goes back.
LEMMA NextIsAhead ==
  ASSUME NEW m \in Nat, NEW n \in Nat, NEW a \in Nat, a <= m, NEW i \in 1..n, i = m + 1
  PROVE  i \in (a + 1)..n
  OBVIOUS

\* A copy of another change that is processed leaves l ahead.
LEMMA NextAhead ==
  ASSUME Sound, NEW l, Ahead(l), NEW i \in 1..Len(queue), i = done + 1, queue[i].change # l,
         queue' = queue, done' = i \/ done' \in 0..done
  PROVE  Ahead(l)'
<1>1. PICK j \in (done + 1)..Len(queue) : queue[j].change = l
  BY DEF Ahead
<1>2. done \in Nat /\ Len(queue) \in Nat /\ j # i
  BY <1>1 DEF Sound, TypeOK, ServerOK
<1>3. j \in (done' + 1)..Len(queue')
  BY <1>1, <1>2
<1> QED
  BY <1>1, <1>3 DEF Ahead

\* What the author's row may become.
LEMMA MineIs ==
  ASSUME Sound, WorkInv, [Next]_vars, ~\E c \in Changes : Edit(c), mine'.type = "text",
         NEW l, mine.data = l, mine.type = "text",
         \A t \in Tasks : Kind(t) = "edit" /\ at[t] \in {"reapply", "reread", "post"} => cur[t] = l
  PROVE  mine'.data = l
<1>1. ASSUME NEW c \in Changes, React(c) \/ Delete(c) \/ SaveEdit(c) \/ UpdateReactionInfo(c)
      PROVE  mine' = mine
  BY <1>1 DEF React, Delete, SaveEdit, UpdateReactionInfo, db
<1>2. ASSUME NEW t \in Tasks, Retry(t), ~Reapply(t) PROVE mine' = mine \/ mine' = Deleted
  BY <1>2 DEF Retry, Load, EditNotFound, ReactionNotFound, Reread, PostAccepted, Answered,
     AttemptFails, ReadTile, WriteTile, CleanUp, Inspect, Quote, Tombstone, db
<1>3. ASSUME NEW t \in Tasks, Reapply(t) PROVE mine'.data = l
  <2>1. cur[t] = l /\ mine' = WithData(mine, cur[t])
    BY <1>3 DEF Reapply, WorkInv, PlaceFacts
  <2> QED
    BY <2>1 DEF WithData, Sound, TypeOK, AuthorOK, Rows
<1>4. (\E p \in Pumps : PumpStart(p)) \/ Receive \/ Acknowledge \/ Redeliver \/ Crash
         \/ PeerCrash \/ UNCHANGED vars
      => mine' = mine
  BY DEF PumpStart, Receive, Acknowledge, Redeliver, Crash, PeerCrash, vars, db
<1>5. mine' = mine \/ mine' = Deleted \/ mine'.data = l
  BY <1>1, <1>2, <1>3, <1>4 DEF Next, Make
<1> QED
  BY <1>5 DEF Deleted

\* What an edit that is about to be sent holds.
LEMMA PostIs ==
  ASSUME Sound, WorkInv, [Next]_vars, ~\E c \in Changes : Edit(c), NEW l, mine.data = l,
         \A t \in Tasks : at[t] = "post" /\ Kind(t) = "edit" => held[t] = l
  PROVE  \A t \in Tasks : at'[t] = "post" /\ Kind(t)' = "edit" => held'[t] = l
<1> SUFFICES ASSUME NEW s \in Tasks, at'[s] = "post", Kind(s)' = "edit" PROVE held'[s] = l
  OBVIOUS
<1> USE DEF Sound, TypeOK, TasksOK, TasksMade, Tasks, Goto, Kind
<1>1. ASSUME NEW c \in Changes, React(c) \/ Delete(c) PROVE held'[s] = l
  <2>1. PICK k \in Kinds \ {"edit"}, p \in {"table", "post"} : Begin(c, k, p)
    BY <1>1 DEF React, Delete, Kinds
  <2>2. /\ at' = [at EXCEPT ![c] = p] /\ cur' = [cur EXCEPT ![c] = c] /\ held' = held
        /\ kind[c] = "none" /\ kind' = [kind EXCEPT ![c] = k]
    BY <2>1 DEF Begin
  <2>3. s # c
    BY <2>2 DEF AuthorOK
  <2>4. at[s] = "post" /\ cur'[s] = cur[s] /\ cur[s] # c /\ cur[s] \in Changes
    BY <2>2, <2>3
  <2> QED
    BY <2>2, <2>4 DEF AuthorOK
<1>2. ASSUME NEW c \in Changes, SaveEdit(c) \/ UpdateReactionInfo(c) PROVE held'[s] = l
  BY <1>2 DEF SaveEdit, UpdateReactionInfo, locals
<1>3. ASSUME NEW t \in Tasks, Finish(t), kind' = kind PROVE held'[s] = l
  <2>1. s # t
    BY <1>3, FinishShape
  <2> QED
    BY <1>3, <2>1, FinishShape
<1>4. ASSUME NEW t \in Tasks, Retry(t), ~Finish(t) PROVE held'[s] = l
  <2>1. CASE Load(t)
    BY <2>1 DEF Load, locals
  <2>2. CASE Reread(t)
    BY <2>2 DEF Reread
  <2>3. CASE ~Load(t) /\ ~Reread(t)
    <3>1. kind' = kind /\ cur' = cur
          /\ \E p \in Places \ {"post"} : at' = [at EXCEPT ![t] = p]
          /\ \A r \in Tasks : r # t => held'[r] = held[r]
      BY <1>4, <2>3 DEF Retry, EditNotFound, ReactionNotFound, Reapply, PostAccepted, Answered,
         AttemptFails, EditAttempted, ReactionAttempted, ReadTile, WriteTile, CleanUp, Inspect,
         Quote, Tombstone, locals, Places
    <3>2. s # t
      BY <3>1
    <3> QED
      BY <3>1, <3>2
  <2> QED
    BY <2>1, <2>2, <2>3
<1>5. ASSUME NEW p \in Pumps, PumpStart(p) PROVE held'[s] = l
  BY <1>5 DEF PumpStart, Take
<1>6. (\E t \in Tasks : Retry(t)) => kind' = kind
  BY DEF Retry, Load, EditNotFound, ReactionNotFound, Reapply, Reread, PostAccepted, Answered,
     AttemptFails, ReadTile, WriteTile, CleanUp, Inspect, Quote, Tombstone
<1>7. ASSUME Receive \/ Acknowledge \/ Redeliver \/ Crash \/ PeerCrash \/ UNCHANGED vars
      PROVE  held'[s] = l
  BY <1>7 DEF Receive, Acknowledge, Redeliver, Crash, PeerCrash, vars, locals
<1> QED
  BY <1>1, <1>2, <1>3, <1>4, <1>5, <1>6, <1>7 DEF Next, Make

-----------------------------------------------------------------------------
(* Edits *)

\* An edit that is over is never written or sent again.
LEMMA OverStays ==
  ASSUME Sound, WorkInv, [Next]_vars, NEW c \in Changes, kind[c] = "edit", Over(c)
  PROVE  Over(c)'
<1>c. \A t \in Tasks : at[t] # "idle" => cur[t] \in Changes /\ kind[cur[t]] # "none"
  BY DEF Sound, TypeOK, TasksOK, TasksMade
<1> USE DEF Sound, TypeOK, TasksOK, TasksMade, Goto, Tasks, Kind
<1>1. ASSUME NEW d \in Changes, Make(d) PROVE Over(c)'
  <2>1. PICK k \in Kinds, p \in {"save", "table", "post"} : Begin(d, k, p)
    BY <1>1 DEF Make, Edit, React, Delete, Kinds
  <2>2. /\ d # c /\ at' = [at EXCEPT ![d] = p] /\ cur' = [cur EXCEPT ![d] = d] /\ todo' = todo
        /\ at[d] = "idle"
    BY <2>1, BeginIdle DEF Begin, WorkInv
  <2>3. row'[c] = row[c]
    BY <1>1, <2>2 DEF Make, Edit, React, Delete, AuthorOK, db
  <2> QED
    BY <2>2, <2>3 DEF Over, Waiting
<1>2. ASSUME NEW d \in Changes, SaveEdit(d) \/ UpdateReactionInfo(d) PROVE Over(c)'
  <2>1. cur[d] = d /\ at[d] \in {"save", "table"} /\ cur' = cur /\ todo' = todo
        /\ at' = [at EXCEPT ![d] = "load"]
    BY <1>2 DEF SaveEdit, UpdateReactionInfo, locals
  <2>2. d # c
    BY <2>1 DEF Over
  <2>3. row'[c] = row[c]
    BY <1>2, <2>2 DEF SaveEdit, UpdateReactionInfo, AuthorOK
  <2> QED
    BY <2>1, <2>2, <2>3 DEF Over, Waiting
<1>3. ASSUME NEW t \in Tasks, Load(t) PROVE Over(c)'
  <2>1. /\ at[t] = "load" /\ row[cur[t]] # "none" /\ UNCHANGED <<row, cur, todo>>
        /\ at' = [at EXCEPT ![t] = IF Kind(t) = "edit" THEN "reapply" ELSE "post"]
    BY <1>3 DEF Load, locals, db
  <2>2. cur[t] # c
    BY <2>1 DEF Over, Waiting, AuthorOK
  <2> QED
    BY <2>1, <2>2 DEF Over, Waiting
<1>4. ASSUME NEW t \in Tasks, EditNotFound(t) PROVE Over(c)'
  BY <1>4 DEF EditNotFound, Over, Waiting, db
<1>5. ASSUME NEW t \in Tasks, Reapply(t) \/ Reread(t) \/ PostAccepted(t) \/ ReadTile(t)
      PROVE  Over(c)'
  <2>1. /\ UNCHANGED <<row, cur, todo>> /\ at[t] \in {"reapply", "reread", "post", "readTile"}
        /\ \/ at[t] # "readTile" /\ at' \in {[at EXCEPT ![t] = p] : p \in {"reread", "post", "wait"}}
           \/ at[t] = "readTile" /\ at' = [at EXCEPT ![t] = "writeTile"]
    BY <1>5 DEF Reapply, Reread, PostAccepted, ReadTile, locals, db
  <2> QED
    BY <2>1 DEF Over, Waiting
<1>6. ASSUME NEW t \in Tasks, Finish(t), \A d \in Changes : row'[d] \in {row[d], "none"}
      PROVE  Over(c)'
  <2>1. row'[c] = "sent" => ~Waiting(c)'
    BY <1>6, FinishWaits DEF Over
  <2>2. \A s \in Tasks : cur'[s] = c => at'[s] \in {"load", "readTile", "writeTile", "clean"}
    BY <1>6, FinishShape DEF Over
  <2> QED
    BY <1>6, <2>1, <2>2 DEF Over
<1>7. ASSUME NEW t \in Tasks, ReactionNotFound(t) \/ CleanUp(t) \/ Tombstone(t) PROVE Over(c)'
  <2>1. Finish(t) /\ \A d \in Changes : row'[d] \in {row[d], "none"}
    BY <1>7 DEF ReactionNotFound, CleanUp, Tombstone, AuthorOK
  <2> QED
    BY <1>6, <2>1
<1>8. ASSUME NEW t \in Tasks, Answered(t) \/ AttemptFails(t) PROVE Over(c)'
  <2>1. CASE Finish(t) /\ row' = row
    BY <1>6, <2>1
  <2>2. CASE ~(Finish(t) /\ row' = row)
    <3>1. /\ at[t] \in {"post", "wait"} /\ UNCHANGED <<cur, todo>>
          /\ \E p \in {"readTile", "writeTile", "inspect"} : at' = [at EXCEPT ![t] = p]
          /\ \A d \in Changes : d # cur[t] => row'[d] = row[d]
      BY <1>8, <1>c, <2>2 DEF Answered, AttemptFails, EditAttempted, ReactionAttempted, AuthorOK
    <3>2. cur[t] # c
      BY <3>1 DEF Over
    <3> QED
      BY <3>1, <3>2 DEF Over, Waiting
  <2> QED
    BY <2>1, <2>2
<1>9. ASSUME NEW t \in Tasks, WriteTile(t) PROVE Over(c)'
  <2>1. CASE Finish(t)
    BY <1>6, <1>9, <2>1 DEF WriteTile
  <2>2. CASE ~Finish(t)
    <3>1. at' = [at EXCEPT ![t] = "clean"] /\ UNCHANGED <<cur, todo, row>>
      BY <1>9, <2>2 DEF WriteTile
    <3> QED
      BY <3>1 DEF Over, Waiting
  <2> QED
    BY <2>1, <2>2
<1>10. ASSUME NEW t \in Tasks, Inspect(t) \/ Quote(t) PROVE Over(c)'
  <2>1. /\ UNCHANGED <<row, cur, todo>> /\ at[t] \in {"inspect", "quote"}
        /\ \E p \in {"quote", "tombstone"} : at' = [at EXCEPT ![t] = p]
    BY <1>10 DEF Inspect, Quote, locals, db
  <2> QED
    BY <2>1 DEF Over, Waiting
<1>11. ASSUME NEW p \in Pumps, PumpStart(p) PROVE Over(c)'
  <2>1. PICK d \in {e \in Changes : row[e] = "journaled"} :
          /\ cur' = [cur EXCEPT ![p] = d] /\ at' = [at EXCEPT ![p] = "load"]
          /\ todo' = [todo EXCEPT ![p] = {e \in Changes : row[e] = "journaled"} \ {d}]
    BY <1>11 DEF PumpStart, Take
  <2>2. row' = row
    BY <1>11 DEF PumpStart, db
  <2>3. d # c /\ \A q \in Pumps : c \in todo'[q] => c \in todo[q]
    BY <2>1 DEF Over
  <2> QED
    BY <2>1, <2>2, <2>3 DEF Over, Waiting
<1>12. CASE Crash
  BY <1>12 DEF Crash, Over, Waiting, db
<1>13. CASE Receive \/ Acknowledge \/ Redeliver \/ PeerCrash \/ UNCHANGED vars
  BY <1>13 DEF Receive, Acknowledge, Redeliver, PeerCrash, vars, Over, Waiting, db, locals
<1> QED
  BY <1>1, <1>2, <1>3, <1>4, <1>5, <1>7, <1>8, <1>9, <1>10, <1>11, <1>12, <1>13
     DEF Next, Retry

\* An edit that is not in flight is over.
LEMMA QuietIsOver ==
  ASSUME WorkInv, NEW c \in Changes, kind[c] = "edit", ~InFlight(c)
  PROVE  Over(c)
  BY DEF InFlight, Over, WorkInv, SentFacts

\* Only Edit makes an edit, and it is the latest from then on.
LEMMA EditIsMade ==
  ASSUME Sound, [Next]_vars
  PROVE  \/ \E c \in Changes : Edit(c)
         \/ /\ lastEdit' = lastEdit
            /\ \A c \in Changes : kind'[c] = "edit" => kind[c] = "edit"
<1>1. ASSUME NEW c \in Changes, React(c) \/ Delete(c)
      PROVE  lastEdit' = lastEdit /\ \A d \in Changes : kind'[d] = "edit" => kind[d] = "edit"
  BY <1>1 DEF React, Delete, Begin, Sound, TypeOK, AuthorOK
<1>2. ASSUME NEW c \in Changes, SaveEdit(c) \/ UpdateReactionInfo(c)
      PROVE  lastEdit' = lastEdit /\ kind' = kind
  BY <1>2 DEF SaveEdit, UpdateReactionInfo, history
<1>3. ASSUME NEW t \in Tasks, Retry(t) PROVE lastEdit' = lastEdit /\ kind' = kind
  BY <1>3 DEF Retry, Load, EditNotFound, ReactionNotFound, Reapply, Reread, PostAccepted,
     Answered, AttemptFails, ReadTile, WriteTile, CleanUp, Inspect, Quote, Tombstone, history
<1>4. (\E p \in Pumps : PumpStart(p)) \/ Receive \/ Acknowledge \/ Redeliver \/ Crash
         \/ PeerCrash \/ UNCHANGED vars
      => lastEdit' = lastEdit /\ kind' = kind
  BY DEF PumpStart, Receive, Acknowledge, Redeliver, Crash, PeerCrash, vars, history
<1> QED
  BY <1>1, <1>2, <1>3, <1>4 DEF Next, Make

LEMMA NextEditsMade == Sound /\ EditsMade /\ [Next]_vars => EditsMade'
<1> SUFFICES ASSUME Sound, EditsMade, [Next]_vars PROVE EditsMade'
  OBVIOUS
<1>1. CASE \E c \in Changes : Edit(c)
  <2>1. PICK c \in Changes : lastEdit' = c /\ kind' = [kind EXCEPT ![c] = "edit"]
    BY <1>1 DEF Edit, Begin
  <2> QED
    BY <2>1 DEF EditsMade, Sound, TypeOK, AuthorOK, Tasks
<1>2. CASE ~\E c \in Changes : Edit(c)
  <2>1. /\ lastEdit' = lastEdit
        /\ \A c \in Changes : kind'[c] = "edit" => kind[c] = "edit"
    BY <1>2, EditIsMade
  <2>2. lastEdit # Nothing => kind'[lastEdit] = "edit"
    BY Lasting DEF EditsMade, Sound, TypeOK, HistoryOK
  <2> QED
    BY <2>1, <2>2 DEF EditsMade
<1> QED
  BY <1>1, <1>2

\* An edit that is made with no other in flight is the only one that can be sent.
LEMMA NextEdit == Sound /\ WorkInv /\ EditsMade /\ EditInv /\ [Next]_vars => EditInv'
<1> SUFFICES ASSUME Sound, WorkInv, EditsMade, EditInv, [Next]_vars, "edit" \notin tangled'
             PROVE  EarlierOver' /\ LatestWritten' /\ NoneAfter(lastEdit, {"edit"})' /\ LatestArrives'
  BY DEF EditInv
<1>e. EarlierOver /\ LatestWritten /\ NoneAfter(lastEdit, {"edit"}) /\ LatestArrives
  BY TangledGrows DEF EditInv
<1>q. /\ \A i \in 1..Len(queue) : /\ queue[i].change \in Changes
                                  /\ kind[queue[i].change] # "none"
      /\ Accepted \subseteq Changes
  BY QueueTypes DEF Sound, QueueMade, Accepted
<1>1. ASSUME NEW c \in Changes, Edit(c)
      PROVE  EarlierOver' /\ LatestWritten' /\ NoneAfter(lastEdit, {"edit"})' /\ LatestArrives'
  <2>1. /\ Begin(c, "edit", "save") /\ lastEdit' = c /\ mine' = WithData(mine, c)
        /\ kind[c] = "none" /\ kind' = [kind EXCEPT ![c] = "edit"]
        /\ at' = [at EXCEPT ![c] = "save"] /\ cur' = [cur EXCEPT ![c] = c]
        /\ UNCHANGED <<queue, held>>
    BY <1>1 DEF Edit, Begin, Goto, server
  <2>2. \A d \in Changes : kind[d] = "edit" => ~InFlight(d)
    <3>1. "edit" \in Class("edit")
      BY DEF Class
    <3> QED
      BY <2>1, <3>1, BeginAlone DEF Class
  <2>3. EarlierOver'
    BY <2>1, <2>2, QuietIsOver, OverStays DEF EarlierOver, Sound, TypeOK, AuthorOK
  <2>4. LatestWritten'
    <3>1. mine'.data = c
      BY <2>1 DEF WithData, Sound, TypeOK, AuthorOK, Rows
    <3>2. \A t \in Tasks : at'[t] = "post" => kind'[cur'[t]] # "edit"
      <4>1. ASSUME NEW t \in Tasks, at'[t] = "post", kind'[cur'[t]] = "edit" PROVE FALSE
        <5>1. t # c /\ at[t] = "post" /\ cur'[t] = cur[t]
          BY <2>1, <4>1 DEF Sound, TypeOK, TasksOK, Tasks
        <5>2. cur[t] \in Changes /\ cur[t] # c
          BY <2>1, <5>1 DEF Sound, TypeOK, TasksOK, TasksMade
        <5>3. kind[cur[t]] = "edit"
          BY <2>1, <4>1, <5>1, <5>2 DEF Sound, TypeOK, AuthorOK
        <5> QED
          BY <2>2, <5>1, <5>2, <5>3 DEF InFlight
      <4> QED
        BY <4>1
    <3>3. \A i \in 1..Len(queue) : queue[i].change # c
      BY <1>q, <2>1
    <3> QED
      BY <2>1, <3>1, <3>2, <3>3 DEF LatestWritten, Kind
  <2>5. \A i \in 1..Len(queue') : queue'[i].change # lastEdit'
    BY <1>q, <2>1
  <2>6. NoneAfter(lastEdit, {"edit"})' /\ LatestArrives'
    BY <2>5 DEF NoneAfter, LatestArrives, Accepted
  <2> QED
    BY <2>3, <2>4, <2>6
<1>2. CASE ~\E c \in Changes : Edit(c)
  <2>1. PICK l \in Changes \cup {Nothing} : l = lastEdit
    BY DEF Sound, TypeOK, HistoryOK
  <2>2. lastEdit' = l /\ \A c \in Changes : kind'[c] = "edit" => kind[c] = "edit"
    BY <1>2, <2>1, EditIsMade
  <2>3. EarlierOver'
    BY <1>e, <2>1, <2>2, OverStays DEF EarlierOver
  \* Whatever is written or sent is the latest edit.
  <2>4. ASSUME NEW t \in Tasks, Kind(t) = "edit", at[t] \in {"reapply", "reread", "post"}
        PROVE  cur[t] = l /\ l \in Changes
    BY <1>e, <2>1, <2>4 DEF EarlierOver, Over, Kind, Sound, TypeOK, TasksOK
  <2>5. NoneAfter(lastEdit, {"edit"})'
    <3>1. NoneAfter(l, {"edit"})
      BY <1>e, <2>1
    <3>2. \A t \in Tasks : PostAccepted(t) /\ kind[cur[t]] \in {"edit"} => cur[t] = l
      BY <2>4 DEF PostAccepted, Kind
    <3>3. NoneAfter(l, {"edit"})'
      BY <3>1, <3>2, NoneAfterStays
    <3> QED
      BY <2>2, <3>3 DEF NoneAfter
  <2>6. LatestWritten'
    <3>1. ASSUME l # Nothing, mine'.type = "text"
          PROVE  /\ mine'.data = l
                 /\ \A t \in Tasks : at'[t] = "post" /\ Kind(t)' = "edit" => held'[t] = l
                 /\ \A i \in 1..Len(queue') : queue'[i].change = l => queue'[i].data = l
      <4>1. /\ mine.type = "text" /\ mine.data = l
            /\ \A t \in Tasks : at[t] = "post" /\ Kind(t) = "edit" => held[t] = l
            /\ \A i \in 1..Len(queue) : queue[i].change = l => queue[i].data = l
        <5>1. mine.type = "text"
          BY <3>1, DeletionStep DEF Sound, TypeOK, AuthorOK, Rows
        <5> QED
          BY <1>e, <2>1, <3>1, <5>1 DEF LatestWritten
      <4>2. mine'.data = l
        BY <4>1, <3>1, <1>2, <2>4, MineIs
      <4>3. \A t \in Tasks : at'[t] = "post" /\ Kind(t)' = "edit" => held'[t] = l
        BY <4>1, <1>2, <2>2, PostIs
      <4>4. \A i \in 1..Len(queue') : queue'[i].change = l => queue'[i].data = l
        <5>1. CASE queue' = queue
          BY <4>1, <5>1
        <5>2. CASE queue' # queue
          <6>1. PICK t \in Tasks : /\ PostAccepted(t) /\ Len(queue') = Len(queue) + 1
                                   /\ queue'[Len(queue')] = [change |-> cur[t], data |-> held[t]]
            BY <5>2, TakenLast
          <6>2. cur[t] = l => held[t] = l
            BY <4>1, <6>1, <2>1, <3>1 DEF PostAccepted, Kind, EditsMade
          <6> QED
            BY <4>1, <6>1, <6>2, Lasting
        <5> QED
          BY <5>1, <5>2
      <4> QED
        BY <4>2, <4>3, <4>4
    <3> QED
      BY <2>2, <3>1 DEF LatestWritten
  <2>7. LatestArrives'
    <3>1. SUFFICES ASSUME l \in Accepted', mine'.type = "text", theirs'.message.type = "text"
                   PROVE  Ahead(l)' \/ theirs'.message.data = l
      BY <2>2 DEF LatestArrives, Ahead
    <3>2. mine.type = "text" /\ theirs.message.type = "text"
      BY <3>1, DeletionStep DEF Sound, TypeOK, AuthorOK, PeerOK, Rows
    <3>3. CASE l \notin Accepted
      BY <3>1, <3>3, TakenAhead
    <3>4. CASE l \in Accepted
      <4>0. Ahead(l) \/ theirs.message.data = l
        BY <1>e, <2>1, <3>2, <3>4 DEF LatestArrives
      <4>1. l \in Changes /\ kind[l] = "edit" /\ l # Nothing
        BY <1>q, <2>1, <3>4 DEF EditsMade, Tasks
      <4>2. CASE theirs' = theirs /\ ~Receive
        BY <4>0, <4>2, AheadStays
      <4>3. CASE Receive \/ theirs' # theirs
        <5>1. PICK i \in 1..Len(queue) :
                /\ i = done + 1 /\ queue' = queue
                /\ \E n \in 1..Len(Writes(queue[i])) : theirs' = Writes(queue[i])[n]
                /\ \/ done' = i
                   \/ ~Receive /\ done' \in 0..done
          BY <4>3, Processed
        <5>2. PICK n \in 1..Len(Writes(queue[i])) : theirs' = Writes(queue[i])[n]
          BY <5>1
        <5>3. CASE queue[i].change = l
          <6>1. queue[i].data = l
            BY <1>e, <2>1, <3>2, <4>1, <5>3 DEF LatestWritten
          <6> QED
            BY <3>2, <4>1, <5>2, <5>3, <6>1, WritesSay
        <5>4. CASE queue[i].change # l /\ kind[queue[i].change] = "edit"
          <6>1. PICK j \in (i + 1)..Len(queue) : queue[j].change = l
            BY <1>e, <2>1, <3>4, <5>4, LatestBehind
          <6>2. j \in (done' + 1)..Len(queue') /\ queue'[j].change = l
            BY <5>1, <6>1 DEF Sound, TypeOK, ServerOK
          <6> QED
            BY <6>2 DEF Ahead
        <5>5. CASE kind[queue[i].change] # "edit"
          <6>1. theirs'.message = theirs.message
            BY <3>1, <5>2, <5>5, WritesSay, QueueTypes DEF Kinds, Reactions
          <6>2. Ahead(l) => Ahead(l)'
            BY <4>1, <5>1, <5>5, NextAhead
          <6> QED
            BY <4>0, <6>1, <6>2
        <5> QED
          BY <5>3, <5>4, <5>5
      <4> QED
        BY <4>2, <4>3
    <3> QED
      BY <3>3, <3>4
  <2> QED
    BY <2>3, <2>5, <2>6, <2>7
<1> QED
  BY <1>1, <1>2

\* If no edit was made while another was in flight and the server took the latest, both
\* sides end up with its text once nobody works on a change any more, whatever order
\* retries, pumps, answers, crashes and redelivered copies come in.
THEOREM EditsSettle == Spec => []EditSettles
<1>1. Init => Sound /\ WorkInv /\ EditsMade /\ EditInv
  <2>1. Init => EditsMade /\ EditInv
    BY DEF Init, EditsMade, EditInv, EarlierOver, LatestWritten, LatestArrives, NoneAfter, Accepted
  <2> QED
    BY <2>1, InitSound, InitWork
<1>2. Sound /\ WorkInv /\ EditsMade /\ EditInv /\ [Next]_vars
        => Sound' /\ WorkInv' /\ EditsMade' /\ EditInv'
  BY NextSound, NextWork, NextEditsMade, NextEdit
<1>3. Sound /\ EditInv => EditSettles
  <2>1. SUFFICES ASSUME Sound, EditInv, Quiet, "edit" \notin tangled, lastEdit \in Accepted,
                        mine.type = "text", theirs.message.type = "text"
                 PROVE  mine.data = lastEdit /\ theirs.message.data = lastEdit
    BY DEF EditSettles
  <2>2. lastEdit # Nothing
    BY <2>1, NotAccepted
  <2>3. ~Ahead(lastEdit)
    BY <2>1 DEF Quiet, Ahead, Sound, TypeOK, ServerOK
  <2> QED
    BY <2>1, <2>2, <2>3 DEF EditInv, LatestWritten, LatestArrives
<1> QED
  BY <1>1, <1>2, <1>3, PTL DEF Spec

-----------------------------------------------------------------------------
(* Reactions *)

\* A reaction that is over is never sent again.
LEMMA GoneStays ==
  ASSUME Sound, WorkInv, [Next]_vars, NEW c \in Changes, kind[c] \in Reactions, Gone(c)
  PROVE  Gone(c)'
<1>c. /\ \A t \in Tasks : at[t] # "idle" => cur[t] \in Changes /\ kind[cur[t]] # "none"
      /\ row[c] = "none"
  BY DEF Sound, TypeOK, TasksOK, TasksMade, AuthorOK, Gone, WorkInv, RowFacts, Reactions
<1> USE DEF Sound, TypeOK, TasksOK, TasksMade, Goto, Tasks, Kind
<1>1. ASSUME NEW d \in Changes, Make(d) PROVE Gone(c)'
  <2>1. PICK k \in Kinds, p \in {"save", "table", "post"} : Begin(d, k, p)
    BY <1>1 DEF Make, Edit, React, Delete, Kinds
  <2>2. /\ d # c /\ at' = [at EXCEPT ![d] = p] /\ cur' = [cur EXCEPT ![d] = d]
    BY <2>1 DEF Begin, Reactions
  <2>3. row'[c] = row[c]
    BY <1>1, <2>2 DEF Make, Edit, React, Delete, AuthorOK, db
  <2> QED
    BY <2>2, <2>3 DEF Gone
<1>2. ASSUME NEW d \in Changes, SaveEdit(d) \/ UpdateReactionInfo(d) PROVE Gone(c)'
  <2>1. cur[d] = d /\ at[d] \in {"save", "table"} /\ cur' = cur
        /\ at' = [at EXCEPT ![d] = "load"]
    BY <1>2 DEF SaveEdit, UpdateReactionInfo, locals
  <2>2. d # c
    BY <2>1 DEF Gone
  <2>3. row'[c] = row[c]
    BY <1>2, <2>2 DEF SaveEdit, UpdateReactionInfo, AuthorOK
  <2> QED
    BY <2>1, <2>2, <2>3 DEF Gone
<1>3. ASSUME NEW t \in Tasks, Finish(t), row'[c] \in {row[c], "none"} PROVE Gone(c)'
  BY <1>3, FinishShape DEF Gone
<1>4. ASSUME NEW t \in Tasks, Retry(t) PROVE Gone(c)'
  <2>1. CASE cur[t] = c
    <3>1. ReactionNotFound(t)
      BY <1>4, <1>c, <2>1 DEF Gone, Retry, Load, EditNotFound, Reapply, Reread, PostAccepted,
         Answered, AttemptFails, ReadTile, WriteTile, CleanUp, Inspect, Quote, Tombstone, Reactions
    <3> QED
      BY <1>3, <3>1 DEF ReactionNotFound
  <2>2. CASE cur[t] # c
    <3>1. row'[c] = row[c]
      <4>1. CASE ReactionNotFound(t)
        BY <4>1 DEF ReactionNotFound
      <4>2. CASE ~ReactionNotFound(t)
        BY <1>4, <2>2, <1>c, <4>2 DEF Retry, Load, EditNotFound, Reapply, Reread,
           PostAccepted, Answered, EditAttempted, ReactionAttempted, AttemptFails, ReadTile,
           WriteTile, CleanUp, Inspect, Quote, Tombstone, AuthorOK, db
      <4> QED
        BY <4>1, <4>2
    <3>2. CASE Finish(t)
      BY <1>3, <3>1, <3>2
    <3>3. CASE ~Finish(t)
      <4>1. cur' = cur /\ \A s \in Tasks : s # t => at'[s] = at[s]
        BY <1>4, <3>3 DEF Retry, Load, EditNotFound, ReactionNotFound, Reapply, Reread,
           PostAccepted, Answered, EditAttempted, ReactionAttempted, AttemptFails, ReadTile,
           WriteTile, CleanUp, Inspect, Quote, Tombstone, locals
      <4> QED
        BY <2>2, <3>1, <4>1 DEF Gone
    <3> QED
      BY <3>2, <3>3
  <2> QED
    BY <2>1, <2>2
<1>5. ASSUME NEW p \in Pumps, PumpStart(p) PROVE Gone(c)'
  <2>1. PICK d \in {e \in Changes : row[e] = "journaled"} :
          cur' = [cur EXCEPT ![p] = d] /\ at' = [at EXCEPT ![p] = "load"]
    BY <1>5 DEF PumpStart, Take
  <2>2. row' = row
    BY <1>5 DEF PumpStart, db
  <2> QED
    BY <2>1, <2>2 DEF Gone
<1>6. CASE Crash
  BY <1>6 DEF Crash, Gone, db
<1>7. CASE Receive \/ Acknowledge \/ Redeliver \/ PeerCrash \/ UNCHANGED vars
  BY <1>7 DEF Receive, Acknowledge, Redeliver, PeerCrash, vars, Gone, db, locals
<1> QED
  BY <1>1, <1>2, <1>4, <1>5, <1>6, <1>7 DEF Next

\* Only React makes a reaction.
LEMMA ReactionIsMade ==
  ASSUME Sound, [Next]_vars
  PROVE  \/ \E c \in Changes : React(c)
         \/ /\ chosen' = chosen
            /\ \A c \in Changes : kind'[c] \in Reactions => kind[c] \in Reactions
<1>1. ASSUME NEW c \in Changes, Edit(c) \/ Delete(c)
      PROVE  chosen' = chosen /\ \A d \in Changes : kind'[d] \in Reactions => kind[d] \in Reactions
  BY <1>1 DEF Edit, Delete, Begin, Sound, TypeOK, AuthorOK, Reactions
<1>2. ASSUME NEW c \in Changes, SaveEdit(c) \/ UpdateReactionInfo(c)
      PROVE  chosen' = chosen /\ kind' = kind
  BY <1>2 DEF SaveEdit, UpdateReactionInfo, history
<1>3. ASSUME NEW t \in Tasks, Retry(t) PROVE chosen' = chosen /\ kind' = kind
  BY <1>3 DEF Retry, Load, EditNotFound, ReactionNotFound, Reapply, Reread, PostAccepted,
     Answered, AttemptFails, ReadTile, WriteTile, CleanUp, Inspect, Quote, Tombstone, history
<1>4. (\E p \in Pumps : PumpStart(p)) \/ Receive \/ Acknowledge \/ Redeliver \/ Crash
         \/ PeerCrash \/ UNCHANGED vars
      => chosen' = chosen /\ kind' = kind
  BY DEF PumpStart, Receive, Acknowledge, Redeliver, Crash, PeerCrash, vars, history
<1> QED
  BY <1>1, <1>2, <1>3, <1>4 DEF Next, Make

\* Which steps write the author's own table, and how a change comes to that step.
LEMMA OwnTable ==
  ASSUME Sound, [Next]_vars
  PROVE  \/ \E c \in Changes : UpdateReactionInfo(c)
         \/ /\ myReaction' \in {myReaction, Nothing}
            /\ unlisted \/ myReaction' # myReaction => unlisted'
            /\ \A c \in Changes : at[c] = "table" => at'[c] = "table" \/ unlisted'
<1> USE DEF Sound, TypeOK, TasksOK, TasksMade, Goto, Tasks
<1>1. ASSUME NEW c \in Changes, Make(c)
      PROVE  /\ UNCHANGED <<myReaction, unlisted>>
             /\ \A d \in Changes : at[d] = "table" => at'[d] = "table"
  <2>1. PICK k \in Kinds, p \in {"save", "table", "post"} : Begin(c, k, p)
    BY <1>1 DEF Make, Edit, React, Delete, Kinds
  <2>2. at' = [at EXCEPT ![c] = p] /\ at[c] # "table"
    BY <2>1 DEF Begin
  <2>3. UNCHANGED <<myReaction, unlisted>>
    BY <1>1 DEF Make, Edit, React, Delete, db
  <2> QED
    BY <2>2, <2>3
<1>2. ASSUME NEW c \in Changes, SaveEdit(c)
      PROVE  /\ UNCHANGED <<myReaction, unlisted>>
             /\ \A d \in Changes : at[d] = "table" => at'[d] = "table"
  BY <1>2 DEF SaveEdit, history
<1>3. ASSUME NEW t \in Tasks, Retry(t)
      PROVE  /\ myReaction' \in {myReaction, Nothing}
             /\ unlisted \/ myReaction' # myReaction => unlisted'
             /\ \A d \in Changes : at[d] = "table" => at'[d] = "table"
  <2>1. at[t] # "table"
    BY <1>3 DEF Retry, Load, EditNotFound, ReactionNotFound, Reapply, Reread, PostAccepted,
       Answered, AttemptFails, ReadTile, WriteTile, CleanUp, Inspect, Quote, Tombstone
  <2>2. \A s \in Tasks : s # t => at'[s] = at[s]
    <3>1. CASE Finish(t)
      BY <3>1, FinishShape
    <3>2. CASE ~Finish(t)
      BY <1>3, <3>2 DEF Retry, Load, EditNotFound, ReactionNotFound, Reapply, Reread,
         PostAccepted, Answered, EditAttempted, ReactionAttempted, AttemptFails, ReadTile,
         WriteTile, CleanUp, Inspect, Quote, Tombstone
    <3> QED
      BY <3>1, <3>2
  <2>3. CASE ReactionNotFound(t)
    <3>1. myReaction' = Nothing /\ unlisted' = IF myReaction = Nothing THEN unlisted ELSE TRUE
      BY <2>3 DEF ReactionNotFound
    <3>2. CASE myReaction = Nothing
      BY <2>1, <2>2, <3>1, <3>2
    <3>3. CASE myReaction # Nothing
      BY <2>1, <2>2, <3>1, <3>3
    <3> QED
      BY <3>2, <3>3
  <2>4. CASE ~ReactionNotFound(t)
    <3>1. UNCHANGED <<myReaction, unlisted>>
      BY <1>3, <2>4 DEF Retry, Load, EditNotFound, Reapply, Reread, PostAccepted, Answered,
         AttemptFails, ReadTile, WriteTile, CleanUp, Inspect, Quote, Tombstone, db, history
    <3> QED
      BY <2>1, <2>2, <3>1
  <2> QED
    BY <2>3, <2>4
<1>4. ASSUME NEW p \in Pumps, PumpStart(p)
      PROVE  /\ UNCHANGED <<myReaction, unlisted>>
             /\ \A d \in Changes : at[d] = "table" => at'[d] = "table"
  BY <1>4 DEF PumpStart, Take, db, history
<1>5. Receive \/ Acknowledge \/ Redeliver \/ PeerCrash \/ UNCHANGED vars
      => UNCHANGED <<myReaction, unlisted, at>>
  BY DEF Receive, Acknowledge, Redeliver, PeerCrash, vars, db, history
<1>6. CASE Crash
  <2>1. myReaction' = myReaction
    BY <1>6 DEF Crash, db
  <2>2. unlisted' = IF \E c \in Changes : at[c] = "table" THEN TRUE ELSE unlisted
    BY <1>6 DEF Crash
  <2>3. CASE \E c \in Changes : at[c] = "table"
    BY <2>1, <2>2, <2>3
  <2>4. CASE ~\E c \in Changes : at[c] = "table"
    BY <2>1, <2>2, <2>4
  <2> QED
    BY <2>3, <2>4
<1> QED
  BY <1>1, <1>2, <1>3, <1>4, <1>5, <1>6 DEF Next

\* A reaction that is made with no other in flight is the only one that can be sent.
LEMMA NextReaction == Sound /\ WorkInv /\ ReactionInv /\ [Next]_vars => ReactionInv'
<1> SUFFICES ASSUME Sound, WorkInv, ReactionInv, [Next]_vars, "reaction" \notin tangled'
             PROVE  NoReaction' \/ \E l \in Changes : Latest(l)'
  BY DEF ReactionInv
<1>e. NoReaction \/ \E l \in Changes : Latest(l)
  BY TangledGrows DEF ReactionInv
<1>q. \A i \in 1..Len(queue) : queue[i].change \in Changes /\ kind[queue[i].change] \in Kinds
  BY QueueTypes
<1>1. ASSUME NEW c \in Changes, React(c) PROVE Latest(c)'
  <2>1. PICK k \in Reactions : Begin(c, k, "table")
    BY <1>1 DEF React, Reactions
  <2>2. /\ kind[c] = "none" /\ kind' = [kind EXCEPT ![c] = k]
        /\ at' = [at EXCEPT ![c] = "table"] /\ cur' = [cur EXCEPT ![c] = c] /\ queue' = queue
    BY <2>1 DEF Begin, Goto, server
  <2>c. chosen' = Shown(c)'
    <3>1. CASE Begin(c, "react", "table") /\ chosen' = c
      BY <3>1 DEF Begin, Shown, Sound, TypeOK, AuthorOK
    <3>2. CASE Begin(c, "unreact", "table") /\ chosen' = Nothing
      BY <3>2 DEF Begin, Shown, Sound, TypeOK, AuthorOK
    <3> QED
      BY <1>1, <3>1, <3>2 DEF React
  <2>3. \A d \in Changes : kind[d] \in Reactions => ~InFlight(d)
    <3>1. \A x \in Reactions : "reaction" \in Class(x)
      BY DEF Class, Reactions
    <3> QED
      BY <2>1, <3>1, BeginAlone
  <2>4. \A d \in Changes : kind'[d] \in Reactions /\ d # c => Gone(d)'
    <3>1. \A d \in Changes : kind[d] \in Reactions => Gone(d)
      BY <2>3 DEF InFlight, Gone
    <3> QED
      BY <2>2, <3>1, GoneStays DEF Sound, TypeOK, AuthorOK
  <2>5. kind'[c] \in Reactions /\ at'[c] = "table"
    BY <2>2 DEF Sound, TypeOK, AuthorOK, TasksOK, Tasks
  <2>6. \A i \in 1..Len(queue') : queue'[i].change # c
    BY <1>q, <2>2 DEF Kinds
  <2> QED
    BY <2>4, <2>5, <2>6, <2>c DEF Latest, NoneAfter, Accepted
<1>2. CASE ~(\E c \in Changes : React(c))
  <2>1. chosen' = chosen /\ \A c \in Changes : kind'[c] \in Reactions => kind[c] \in Reactions
    BY <1>2, ReactionIsMade
  <2>2. CASE NoReaction
    <3>1. ~\E c \in Changes : UpdateReactionInfo(c)
      BY <2>2 DEF NoReaction, UpdateReactionInfo, WorkInv, PlaceFacts, Kind, Sound, TypeOK,
         TasksOK, TasksMade, Tasks
    <3>2. myReaction' = Nothing
      BY <2>2, <3>1, OwnTable DEF NoReaction
    <3>3. theirs'.reaction = Nothing
      <4>1. CASE theirs' = theirs
        BY <2>2, <4>1 DEF NoReaction
      <4>2. CASE theirs' # theirs
        <5>1. PICK i \in 1..Len(queue) :
                \E n \in 1..Len(Writes(queue[i])) : theirs' = Writes(queue[i])[n]
          BY <4>2, Processed
        <5>2. PICK n \in 1..Len(Writes(queue[i])) : theirs' = Writes(queue[i])[n]
          BY <5>1
        <5>3. kind[queue[i].change] \in {"edit", "delete"}
          BY <1>q, <2>2 DEF NoReaction, Kinds, Reactions
        <5>4. theirs'.reaction = theirs.reaction
          BY <5>2, <5>3, WritesSay
        <5> QED
          BY <2>2, <5>4 DEF NoReaction
      <4> QED
        BY <4>1, <4>2
    <3> QED
      BY <2>1, <2>2, <3>2, <3>3 DEF NoReaction
  <2>3. ASSUME NEW l \in Changes, Latest(l) PROVE Latest(l)'
    <3>1. kind[l] \in Reactions /\ kind'[l] = kind[l]
      BY <2>3, Lasting DEF Latest, Reactions
    <3>2. Shown(l)' = Shown(l)
      BY <3>1 DEF Shown
    <3>3. \A c \in Changes : kind'[c] \in Reactions /\ c # l => Gone(c)'
      BY <2>1, <2>3, GoneStays DEF Latest
    <3>c. chosen' = Shown(l)'
      BY <2>1, <2>3, <3>2 DEF Latest
    <3>4. at'[l] # "table" /\ myReaction' # chosen' => unlisted'
      <4>1. CASE \E c \in Changes : UpdateReactionInfo(c)
        <5>1. PICK c \in Changes : /\ at[c] = "table"
                                   /\ myReaction' = IF kind[c] = "react" THEN c ELSE Nothing
          BY <4>1 DEF UpdateReactionInfo
        <5>2. c = l
          BY <2>3, <5>1 DEF Latest, Gone, WorkInv, PlaceFacts, Kind, Sound, TypeOK, TasksOK,
             TasksMade, Tasks
        <5> QED
          BY <3>2, <3>c, <5>1, <5>2 DEF Shown
      <4>2. CASE ~\E c \in Changes : UpdateReactionInfo(c)
        <5>1. /\ unlisted \/ myReaction' # myReaction => unlisted'
              /\ at[l] = "table" => at'[l] = "table" \/ unlisted'
          BY <4>2, OwnTable
        <5>2. at[l] # "table" /\ myReaction # chosen => unlisted
          BY <2>3 DEF Latest
        <5> QED
          BY <2>1, <5>1, <5>2
      <4> QED
        BY <4>1, <4>2
    <3>5. NoneAfter(l, Reactions)'
      <4>1. \A t \in Tasks : PostAccepted(t) /\ kind[cur[t]] \in Reactions => cur[t] = l
        BY <2>3 DEF Latest, Gone, PostAccepted, Sound, TypeOK, TasksOK
      <4> QED
        BY <2>3, <4>1, NoneAfterStays DEF Latest, Reactions
    <3>6. l \in Accepted' => Ahead(l)' \/ theirs'.reaction = Shown(l)
      <4>1. CASE l \notin Accepted
        BY <4>1, TakenAhead
      <4>2. CASE l \in Accepted /\ theirs' = theirs /\ ~Receive
        BY <2>3, <4>2, AheadStays DEF Latest
      <4>3. CASE l \in Accepted /\ (Receive \/ theirs' # theirs)
        <5>1. PICK i \in 1..Len(queue) :
                /\ i = done + 1 /\ queue' = queue
                /\ \E n \in 1..Len(Writes(queue[i])) : theirs' = Writes(queue[i])[n]
                /\ \/ done' = i /\ theirs' = Writes(queue[i])[Len(Writes(queue[i]))]
                   \/ ~Receive /\ done' \in 0..done
          BY <4>3, Processed
        <5>2. PICK n \in 1..Len(Writes(queue[i])) : theirs' = Writes(queue[i])[n]
          BY <5>1
        <5>3. CASE queue[i].change = l
          <6>1. CASE done' = i /\ theirs' = Writes(queue[i])[Len(Writes(queue[i]))]
            <7>1. Len(Writes(queue[i])) \in 1..Len(Writes(queue[i]))
              <8>1. Len(Writes(queue[i])) \in 1..3
                BY WritesFollow
              <8> QED
                BY <8>1
            <7> QED
              BY <3>1, <5>3, <6>1, <7>1, WritesSay DEF Shown
          \* The handler was cut short: the copy is processed again.
          <6>2. CASE done' \in 0..done
            <7>1. i \in (done' + 1)..Len(queue')
              <8>1. done \in Nat /\ Len(queue) \in Nat
                BY DEF Sound, TypeOK, ServerOK
              <8>2. i \in 1..Len(queue) /\ i = done + 1 /\ queue' = queue
                BY <5>1
              <8>3. PICK a \in Nat : a = done' /\ a <= done
                BY <6>2, <8>1
              <8>4. i \in (a + 1)..Len(queue)
                BY <8>1, <8>2, <8>3, NextIsAhead
              <8> QED
                BY <8>2, <8>3, <8>4
            <7> QED
              BY <5>1, <5>3, <7>1 DEF Ahead
          <6> QED
            BY <5>1, <6>1, <6>2
        <5>4. CASE queue[i].change # l /\ kind[queue[i].change] \in Reactions
          <6>1. PICK j \in (i + 1)..Len(queue) : queue[j].change = l
            BY <2>3, <4>3, <5>4, LatestBehind DEF Latest
          <6>2. j \in (done' + 1)..Len(queue') /\ queue'[j].change = l
            BY <5>1, <6>1 DEF Sound, TypeOK, ServerOK
          <6> QED
            BY <6>2 DEF Ahead
        <5>5. CASE kind[queue[i].change] \notin Reactions
          <6>1. theirs'.reaction = theirs.reaction
            BY <1>q, <5>2, <5>5, WritesSay DEF Kinds, Reactions
          <6>2. Ahead(l) => Ahead(l)'
            BY <3>1, <5>1, <5>5, NextAhead
          <6> QED
            BY <2>3, <4>3, <6>1, <6>2 DEF Latest
        <5> QED
          BY <5>3, <5>4, <5>5
      <4> QED
        BY <4>1, <4>2, <4>3
    <3> QED
      BY <3>1, <3>2, <3>3, <3>4, <3>5, <3>6, <3>c DEF Latest
  <2> QED
    BY <1>e, <2>2, <2>3
<1> QED
  BY <1>1, <1>2

\* If no reaction was made while another was in flight, the peer sees the author's last
\* choice once nobody works on a change any more: a row is only cleaned up after the server
\* took the reaction, and no earlier one comes after it. The author sees it too, unless he
\* was killed before his table was written or a row found gone undid the entry (unlisted).
THEOREM ReactionsSettle == Spec => []ReactionSettles
<1>1. Init => Sound /\ WorkInv /\ ReactionInv
  <2>1. Init => ReactionInv
    BY DEF Init, ReactionInv, NoReaction, Reactions
  <2> QED
    BY <2>1, InitSound, InitWork
<1>2. Sound /\ WorkInv /\ ReactionInv /\ [Next]_vars => Sound' /\ WorkInv' /\ ReactionInv'
  BY NextSound, NextWork, NextReaction
<1>3. Sound /\ WorkInv /\ ReactionInv => ReactionSettles
  <2>1. SUFFICES ASSUME Sound, WorkInv, ReactionInv, Quiet, "reaction" \notin tangled
                 PROVE  theirs.reaction = chosen /\ (myReaction # chosen => unlisted)
    BY Zenon DEF ReactionSettles
  <2>2. CASE NoReaction
    BY <2>2 DEF NoReaction
  <2>3. ASSUME NEW l \in Changes, Latest(l)
        PROVE  theirs.reaction = chosen /\ (myReaction # chosen => unlisted)
    <3>1. l \in Accepted /\ at[l] # "table"
      BY <2>1, <2>3 DEF Latest, Quiet, WorkInv, RowFacts, Tasks
    <3>2. ~Ahead(l)
      BY <2>1 DEF Quiet, Ahead, Sound, TypeOK, ServerOK
    <3> QED
      BY <2>3, <3>1, <3>2 DEF Latest
  <2> QED
    BY <2>1, <2>2, <2>3 DEF ReactionInv
<1> QED
  BY <1>1, <1>2, <1>3, PTL DEF Spec
=============================================================================
