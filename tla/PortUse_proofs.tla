--------------------------- MODULE PortUse_proofs ---------------------------
(***************************************************************************)
(* For any number of ports and tasks: a chat never loses its line while    *)
(* the process lives and no two tasks use the same port. Both hypotheses   *)
(* are needed: TLC breaks the property with two tasks on one port and with *)
(* three tasks and a crash.                                                *)
(*                                                                         *)
(* The argument: a port is used once. Until its task joins its line to a   *)
(* chat no chat and no local of another task mentions that line; after it  *)
(* has, the port's row is gone and no task starts on it again. So a line   *)
(* that was replaced is never joined again, and what cleanDeleteLine()     *)
(* deletes, however stale the caller's view, is no chat's line.            *)
(* The same facts show that the error path of use() never deletes the line *)
(* of a formed chat, and, with what is known of the keys of a port in use, *)
(* that no chat's line loses its keys.                                     *)
(***************************************************************************)
EXTENDS PortUse, TLAPS

\* The types alone are not inductive: ReadRoute reads the chat LookUpChat has found.
TypeInv == TypeOK /\ \A t \in Tasks : at[t] = "route" => found[t] \in ChatIds

\* No two tasks use the same port.
OwnPort == \A t, u \in Tasks : PortOf[t] = PortOf[u] => t = u

\* No task can start on p again.
Done(p) == /\ p \notin portRow /\ p \notin todo /\ p \notin accepting
           /\ p \in Read => p \in scanned

Mentioned(l) == \/ \E c \in ChatIds : chats[c] = l
                \/ \E u \in Tasks : route[u] = l

Early == {"guard", "verify", "intro", "post", "answer", "block", "lookup", "route"}
Late  == {"oldline", "oldkeys", "delport"}
Known == {"guard", "verify", "block", "lookup", "route", "line", "add", "join", "dropline"} \cup Late

LocalsInv == \A t \in Tasks :
  /\ lineId[t] \in {NoLine, PortOf[t]}
  /\ at[t] \in Known => lineId[t] = PortOf[t]
  /\ at[t] \in Early => route[t] = NoLine

PendingInv ==
  /\ todo \subseteq scanned /\ portRow \cap Read \subseteq scanned
  /\ accepting \cap (portRow \cup todo) = {}
  /\ \A t \in Tasks : at[t] # "idle" =>
       /\ PortOf[t] \notin todo /\ PortOf[t] \notin accepting
       /\ PortOf[t] \in Read => PortOf[t] \in scanned

FreshInv == \A t \in Tasks :
  Mentioned(PortOf[t]) => at[t] \in Late \/ (at[t] = "idle" /\ Done(PortOf[t]))

RouteInv ==
  /\ \A c, d \in ChatIds : chats[c] = chats[d] /\ chats[c] # NoLine => c = d
  /\ \A u \in Tasks, d \in ChatIds : chats[d] = route[u] /\ route[u] # NoLine => d = found[u]
  /\ \A u \in Tasks, d \in ChatIds : at[u] = "oldline" /\ chats[d] = route[u] => route[u] = NoLine

JoinInv == \A t \in Tasks : at[t] = "join" => lines[PortOf[t]] # "none"

IInv == TypeInv /\ LocalsInv /\ PendingInv /\ FreshInv /\ RouteInv /\ JoinInv /\ ChatHasLine

-----------------------------------------------------------------------------
\* The initial database and the idle tasks are well-typed.
LEMMA TypeInit == Init => TypeInv
<1>1. SUFFICES ASSUME Init PROVE TypeInv
  OBVIOUS
<1>2. keys \in [Lines -> {"none", "bare", "ready"}]
  BY <1>1 DEF Init
<1>3. lines \in [Lines -> {"none", "open", "closed"}]
  BY <1>1 DEF Init
<1>4. chats \in [ChatIds -> Lines \cup {NoLine}]
  BY <1>1 DEF Init, Lines
<1>5. /\ portRow \subseteq Ports /\ accepting \subseteq scanned /\ deriving \subseteq scanned
      /\ scanned \subseteq Read /\ todo \subseteq Read /\ sweep \subseteq Generated
      /\ sweepKeys \subseteq Generated /\ expired \subseteq Generated
      /\ made \subseteq Ports /\ spoiled \subseteq Ports
  BY <1>1, PortUseAssumption DEF Init
<1>6. crashes \in 0..MaxCrashes
  BY <1>1, PortUseAssumption DEF Init
<1>7. /\ blocked \in BOOLEAN
      /\ at \in [Tasks -> {"idle"} \cup ReadStages \cup GenStages \cup UseStages]
      /\ lineId \in [Tasks -> Ports \cup {NoLine}]
      /\ found \in [Tasks -> ChatIds \cup {NoChat}]
      /\ route \in [Tasks -> Lines \cup {NoLine}]
  BY <1>1 DEF Init
<1>8. \A t \in Tasks : at[t] # "route"
  BY <1>1 DEF Init
<1>9. QED
  BY <1>2, <1>3, <1>4, <1>5, <1>6, <1>7, <1>8 DEF TypeInv, TypeOK

\* Every step leaves the state well-typed.
LEMMA TypeStep == TypeInv /\ [Next]_vars => TypeInv'
<1> SUFFICES ASSUME TypeInv, [Next]_vars PROVE TypeInv'
  OBVIOUS
<1> USE PortUseAssumption DEF TypeInv, TypeOK, Goto, db, locals, reading, sweeper, rest,
      ReadStages, GenStages, UseStages, Lines, ChatIds, Read, Readers
<1>1. ASSUME NEW p \in Ports, Accept(p) PROVE TypeInv'
  BY <1>1 DEF Accept
<1>2. ASSUME NEW p \in Ports, DeriveSecret(p) PROVE TypeInv'
  BY <1>2 DEF DeriveSecret
<1>3. ASSUME NEW p \in Ports, SaveReadPort(p) PROVE TypeInv'
  BY <1>3 DEF SaveReadPort
<1>4. ASSUME NEW p \in Ports, Disconnect(p) PROVE TypeInv'
  BY <1>4 DEF Disconnect
<1>5. ASSUME NEW p \in Ports, DiscardReadPort(p) PROVE TypeInv'
  BY <1>5 DEF DiscardReadPort
<1>6. ASSUME NEW p \in Ports, Expire(p) PROVE TypeInv'
  BY <1>6 DEF Expire
<1>7. ASSUME NEW p \in Ports, SweepPort(p) PROVE TypeInv'
  BY <1>7 DEF SweepPort
<1>8. ASSUME NEW p \in Ports, SweepKeys(p) PROVE TypeInv'
  BY <1>8 DEF SweepKeys
<1>9. ASSUME NEW t \in Tasks, StartReader(t) PROVE TypeInv'
  BY <1>9 DEF StartReader
<1>10. ASSUME NEW t \in Tasks, NewChat(t) PROVE TypeInv'
  BY <1>10 DEF NewChat
<1>11. ASSUME NEW t \in Tasks, Guard(t) PROVE TypeInv'
  BY <1>11 DEF Guard
<1>12. ASSUME NEW t \in Tasks, VerifyIntro(t) PROVE TypeInv'
  BY <1>12 DEF VerifyIntro
<1>13. ASSUME NEW t \in Tasks, GenerateIntro(t) PROVE TypeInv'
  BY <1>13 DEF GenerateIntro
<1>14. ASSUME NEW t \in Tasks, ServerMakesLine(t) PROVE TypeInv'
  BY <1>14 DEF ServerMakesLine
<1>15. ASSUME NEW t \in Tasks, Answer(t) PROVE TypeInv'
  BY <1>15 DEF Answer
<1>16. ASSUME NEW t \in Tasks, PostFails(t) PROVE TypeInv'
  BY <1>16 DEF PostFails
<1>17. ASSUME NEW t \in Tasks, CheckBlocked(t) PROVE TypeInv'
  BY <1>17 DEF CheckBlocked
<1>18. ASSUME NEW t \in Tasks, LookUpChat(t) PROVE TypeInv'
  BY <1>18 DEF LookUpChat, PeerChats
<1>19. ASSUME NEW t \in Tasks, ReadRoute(t) PROVE TypeInv'
  BY <1>19 DEF ReadRoute
<1>20. ASSUME NEW t \in Tasks, ReadOldLine(t) PROVE TypeInv'
  BY <1>20 DEF ReadOldLine
<1>21. ASSUME NEW t \in Tasks, AddLine(t) PROVE TypeInv'
  BY <1>21 DEF AddLine
<1>22. ASSUME NEW t \in Tasks, JoinLine(t) PROVE TypeInv'
  BY <1>22 DEF JoinLine
<1>23. ASSUME NEW t \in Tasks, DeleteOldLine(t) PROVE TypeInv'
  BY <1>23 DEF DeleteOldLine
<1>24. ASSUME NEW t \in Tasks, DeleteOldKeys(t) PROVE TypeInv'
  BY <1>24 DEF DeleteOldKeys
<1>25. ASSUME NEW t \in Tasks, DeletePort(t) PROVE TypeInv'
  BY <1>25 DEF DeletePort
<1>26. ASSUME NEW t \in Tasks, CleanPort(t) PROVE TypeInv'
  BY <1>26 DEF CleanPort
<1>27. ASSUME NEW t \in Tasks, CleanKeys(t) PROVE TypeInv'
  BY <1>27 DEF CleanKeys
<1>28. ASSUME NEW t \in Tasks, DropLine(t) PROVE TypeInv'
  BY <1>28 DEF DropLine
<1>29. CASE BeginRound
  BY <1>29 DEF BeginRound
<1>30. CASE BlockPeer
  BY <1>30 DEF BlockPeer
<1>31. CASE BeginSweep
  BY <1>31 DEF BeginSweep
<1>32. CASE Crash
  BY <1>32 DEF Crash
<1>33. CASE UNCHANGED vars
  BY <1>33 DEF vars
<1>34. QED
  BY <1>1, <1>2, <1>3, <1>4, <1>5, <1>6, <1>7, <1>8, <1>9, <1>10, <1>11, <1>12, <1>13, <1>14, <1>15, <1>16, <1>17, <1>18, <1>19, <1>20, <1>21, <1>22, <1>23, <1>24, <1>25, <1>26, <1>27, <1>28, <1>29, <1>30, <1>31, <1>32, <1>33 DEF Next, UseStep

\* Every variable keeps the type the code gives it, whatever runs concurrently and
\* wherever the process is killed.
THEOREM TypeCorrect == Spec => []TypeOK
<1>1. TypeInv => TypeOK
  BY DEF TypeInv
<1>2. QED
  BY TypeInit, TypeStep, <1>1, PTL DEF Spec

-----------------------------------------------------------------------------
\* In the initial state no port was used, and an earlier chat has its line.
LEMMA OnceInit == Init => IInv
<1> SUFFICES ASSUME Init PROVE IInv
  OBVIOUS
<1>1. TypeInv
  BY TypeInit
<1>2. LocalsInv /\ PendingInv /\ JoinInv
  BY PortUseAssumption DEF Init, LocalsInv, PendingInv, JoinInv, Known, Late, Early, Read
<1>3. FreshInv /\ RouteInv /\ ChatHasLine
  BY PortUseAssumption DEF Init, FreshInv, RouteInv, ChatHasLine, Mentioned, ChatIds, Lines
<1>4. QED
  BY <1>1, <1>2, <1>3 DEF IInv

\* Every step keeps the invariant, when no two tasks share a port and the process is
\* not killed.
LEMMA OnceStep ==
  ASSUME OwnPort, MaxCrashes = 0, IInv, [Next]_vars PROVE IInv'
<1> DEFINE Rest == LocalsInv /\ PendingInv /\ FreshInv /\ RouteInv /\ JoinInv /\ ChatHasLine
<1>0. TypeInv'
  BY TypeStep DEF IInv
<1> USE PortUseAssumption, <1>0 DEF OwnPort, IInv, TypeInv, TypeOK, LocalsInv, PendingInv,
      FreshInv, RouteInv, JoinInv, ChatHasLine, Done, Mentioned, Early, Late, Known, Goto,
      db, locals, reading, sweeper, rest, ReadStages, GenStages, UseStages, Lines, ChatIds,
      Read, Readers
<1>1. ASSUME NEW p \in Ports, Accept(p) PROVE Rest'
  BY <1>1 DEF Accept
<1>2. ASSUME NEW p \in Ports, DeriveSecret(p) PROVE Rest'
  BY <1>2 DEF DeriveSecret
<1>3. ASSUME NEW p \in Ports, SaveReadPort(p) PROVE Rest'
  BY <1>3 DEF SaveReadPort
<1>4. ASSUME NEW p \in Ports, Disconnect(p) PROVE Rest'
  BY <1>4 DEF Disconnect
<1>5. ASSUME NEW p \in Ports, DiscardReadPort(p) PROVE Rest'
  BY <1>5 DEF DiscardReadPort
<1>6. ASSUME NEW p \in Ports, Expire(p) PROVE Rest'
  BY <1>6 DEF Expire
<1>7. ASSUME NEW p \in Ports, SweepPort(p) PROVE Rest'
  BY <1>7 DEF SweepPort
<1>8. ASSUME NEW p \in Ports, SweepKeys(p) PROVE Rest'
  BY <1>8 DEF SweepKeys
<1>9. ASSUME NEW t \in Tasks, StartReader(t) PROVE Rest'
  \* The lock leaves no task of the port at work, and the snapshot holds unused ports.
  <2>1. ~Mentioned(PortOf[t])
    BY <1>9 DEF StartReader
  <2>2. LocalsInv' /\ PendingInv' /\ FreshInv'
    BY <1>9, <2>1 DEF StartReader
  <2>3. RouteInv' /\ JoinInv' /\ ChatHasLine'
    BY <1>9 DEF StartReader
  <2>4. QED
    BY <2>2, <2>3
<1>10. ASSUME NEW t \in Tasks, NewChat(t) PROVE Rest'
  \* A port that still has a row was not used: no chat knows its line.
  <2>1. PortOf[t] \in portRow => ~Mentioned(PortOf[t])
    BY <1>10 DEF NewChat
  <2>2. LocalsInv' /\ PendingInv' /\ FreshInv'
    BY <1>10, <2>1 DEF NewChat
  <2>3. RouteInv' /\ JoinInv' /\ ChatHasLine'
    BY <1>10 DEF NewChat
  <2>4. QED
    BY <2>2, <2>3
<1>11. ASSUME NEW t \in Tasks, Guard(t) PROVE Rest'
  BY <1>11 DEF Guard
<1>12. ASSUME NEW t \in Tasks, VerifyIntro(t) PROVE Rest'
  BY <1>12 DEF VerifyIntro
<1>13. ASSUME NEW t \in Tasks, GenerateIntro(t) PROVE Rest'
  BY <1>13 DEF GenerateIntro
<1>14. ASSUME NEW t \in Tasks, ServerMakesLine(t) PROVE Rest'
  BY <1>14 DEF ServerMakesLine
<1>15. ASSUME NEW t \in Tasks, Answer(t) PROVE Rest'
  BY <1>15 DEF Answer
<1>16. ASSUME NEW t \in Tasks, PostFails(t) PROVE Rest'
  BY <1>16 DEF PostFails
<1>17. ASSUME NEW t \in Tasks, CheckBlocked(t) PROVE Rest'
  BY <1>17 DEF CheckBlocked
<1>18. ASSUME NEW t \in Tasks, LookUpChat(t) PROVE Rest'
  BY <1>18 DEF LookUpChat, PeerChats
<1>19. ASSUME NEW t \in Tasks, ReadRoute(t) PROVE Rest'
  \* At this moment the line it reads is the line of the chat it found, and of no other.
  <2>1. \A d \in ChatIds : chats[d] = chats[found[t]] /\ chats[d] # NoLine => d = found[t]
    BY <1>19 DEF ReadRoute
  <2>2. RouteInv'
    BY <1>19, <2>1 DEF ReadRoute
  <2>3. LocalsInv' /\ PendingInv' /\ FreshInv' /\ JoinInv' /\ ChatHasLine'
    BY <1>19 DEF ReadRoute
  <2>4. QED
    BY <2>2, <2>3
<1>20. ASSUME NEW t \in Tasks, ReadOldLine(t) PROVE Rest'
  BY <1>20 DEF ReadOldLine
<1>21. ASSUME NEW t \in Tasks, AddLine(t) PROVE Rest'
  BY <1>21 DEF AddLine
<1>22. ASSUME NEW t \in Tasks, JoinLine(t) PROVE Rest'
  <2> DEFINE c == IF found[t] = NoChat THEN t ELSE found[t]
  <2>1. lineId[t] = PortOf[t] /\ lines[PortOf[t]] # "none"
    BY <1>22 DEF JoinLine
  \* Nobody has ever seen the line that joins the chat.
  <2>2. ~Mentioned(PortOf[t])
    BY <1>22 DEF JoinLine
  <2>3. /\ chats' = [chats EXCEPT ![c] = PortOf[t]]
        /\ at' = [at EXCEPT ![t] = IF found[t] = NoChat THEN "delport" ELSE "oldline"]
        /\ UNCHANGED <<lines, route, found, lineId, portRow, todo, accepting, scanned>>
    BY <1>22, <2>1 DEF JoinLine
  <2>4. LocalsInv' /\ PendingInv' /\ FreshInv' /\ JoinInv'
    BY <1>22, <2>2, <2>3 DEF JoinLine
  <2>5. RouteInv'
    BY <1>22, <2>2, <2>3 DEF JoinLine
  <2>6. ChatHasLine'
    BY <2>1, <2>3
  <2>7. QED
    BY <2>4, <2>5, <2>6
<1>23. ASSUME NEW t \in Tasks, DeleteOldLine(t) PROVE Rest'
  \* The chat has left the line, and no other chat can have joined it since.
  <2>1. \A d \in ChatIds : chats[d] # NoLine => chats[d] # route[t]
    BY <1>23 DEF DeleteOldLine
  \* Nor is it about to: its task would still be unknown to everybody.
  <2>2. \A u \in Tasks : at[u] = "join" => PortOf[u] # route[t]
    BY <1>23 DEF DeleteOldLine
  <2>3. JoinInv' /\ ChatHasLine'
    BY <1>23, <2>1, <2>2 DEF DeleteOldLine
  <2>4. LocalsInv' /\ PendingInv' /\ FreshInv' /\ RouteInv'
    BY <1>23 DEF DeleteOldLine
  <2>5. QED
    BY <2>3, <2>4
<1>24. ASSUME NEW t \in Tasks, DeleteOldKeys(t) PROVE Rest'
  BY <1>24 DEF DeleteOldKeys
<1>25. ASSUME NEW t \in Tasks, DeletePort(t) PROVE Rest'
  BY <1>25 DEF DeletePort
<1>26. ASSUME NEW t \in Tasks, CleanPort(t) PROVE Rest'
  BY <1>26 DEF CleanPort
<1>27. ASSUME NEW t \in Tasks, CleanKeys(t) PROVE Rest'
  BY <1>27 DEF CleanKeys
<1>28. ASSUME NEW t \in Tasks, DropLine(t) PROVE Rest'
  \* A use() that fails has joined its line to no chat.
  <2>1. lineId[t] = PortOf[t] /\ ~Mentioned(PortOf[t])
    BY <1>28 DEF DropLine
  <2>2. \A u \in Tasks : at[u] = "join" => PortOf[u] # PortOf[t]
    BY <1>28 DEF DropLine
  <2>3. JoinInv' /\ ChatHasLine'
    BY <1>28, <2>1, <2>2 DEF DropLine
  <2>4. LocalsInv' /\ PendingInv' /\ FreshInv' /\ RouteInv'
    BY <1>28 DEF DropLine
  <2>5. QED
    BY <2>3, <2>4
<1>29. ASSUME BeginRound PROVE Rest'
  BY <1>29 DEF BeginRound, NoReader
<1>30. ASSUME BlockPeer PROVE Rest'
  BY <1>30 DEF BlockPeer
<1>31. ASSUME BeginSweep PROVE Rest'
  BY <1>31 DEF BeginSweep
<1>32. ASSUME Crash PROVE Rest'
  BY <1>32 DEF Crash
<1>33. ASSUME UNCHANGED vars PROVE Rest'
  BY <1>33 DEF vars
<1>34. QED
  BY <1>0, <1>1, <1>2, <1>3, <1>4, <1>5, <1>6, <1>7, <1>8, <1>9, <1>10, <1>11, <1>12,
     <1>13, <1>14, <1>15, <1>16, <1>17, <1>18, <1>19, <1>20, <1>21, <1>22, <1>23,
     <1>24, <1>25, <1>26, <1>27, <1>28, <1>29, <1>30, <1>31, <1>32, <1>33
     DEF Next, UseStep

\* While the process lives and no two tasks use the same port, every chat is routed
\* to a line that has a row, for any number of ports and concurrent calls of use().
THEOREM ChatKeepsItsLine ==
  ASSUME OwnPort, MaxCrashes = 0 PROVE Spec => []ChatHasLine
<1>1. Init => IInv
  BY OnceInit
<1>2. IInv /\ [Next]_vars => IInv'
  BY OnceStep
<1>3. IInv => ChatHasLine
  BY DEF IInv
<1>4. QED
  BY <1>1, <1>2, <1>3, PTL DEF Spec

-----------------------------------------------------------------------------
(* The keys. From the moment an intro was made or verified the port's keys are
   ready, and only four things take keys away: the clean-up of the port's own
   use(), which no chat and no local mentions; the user and the sweep, which
   spoil the port; and the deletion of a replaced line, which no chat is at and
   no task is about to join. *)

Armed == {"post", "answer", "block", "lookup", "route", "line", "add", "join"}

ReadyInv ==
  /\ \A t \in Tasks : at[t] \in Armed /\ PortOf[t] \notin spoiled => keys[PortOf[t]] = "ready"
  /\ \A c \in ChatIds : chats[c] \in Ports \ spoiled => keys[chats[c]] = "ready"

\* Only a task gives its port to a chat, and the line a task is replacing is no chat's.
UsedInv ==
  /\ \A c \in ChatIds : chats[c] \in Ports => \E t \in Tasks : PortOf[t] = chats[c]
  /\ \A u \in Tasks, d \in ChatIds :
       at[u] \in {"oldline", "oldkeys"} /\ chats[d] = route[u] => route[u] = NoLine
  /\ sweepKeys \subseteq spoiled

KInv == IInv /\ ReadyInv /\ UsedInv

\* In the initial state no port belongs to a chat.
LEMMA KeysInit == Init => KInv
<1> SUFFICES ASSUME Init PROVE KInv
  OBVIOUS
<1>1. IInv
  BY OnceInit
<1>2. ReadyInv /\ UsedInv
  BY PortUseAssumption DEF Init, ReadyInv, UsedInv, Armed, ChatIds, Lines
<1>3. QED
  BY <1>1, <1>2 DEF KInv

\* Every step keeps the keys of the lines in use, under the hypotheses of OnceStep.
LEMMA KeysStep ==
  ASSUME OwnPort, MaxCrashes = 0, KInv, [Next]_vars PROVE KInv'
<1> DEFINE Keep == ReadyInv /\ UsedInv
<1>0. IInv'
  BY OnceStep DEF KInv
<1> USE PortUseAssumption DEF OwnPort, KInv, IInv, TypeInv, TypeOK, LocalsInv, PendingInv,
      FreshInv, RouteInv, ReadyInv, UsedInv, Done, Mentioned, Early, Late, Known, Armed, Goto,
      db, locals, reading, sweeper, rest, ReadStages, GenStages, UseStages, Lines, ChatIds,
      Read, Readers
<1>1. ASSUME NEW p \in Ports, Accept(p) PROVE Keep'
  \* Nobody uses a port that was not scanned, and it is no chat's line.
  <2>1. \A t \in Tasks : PortOf[t] = p => at[t] = "idle" /\ ~Mentioned(p)
    BY <1>1 DEF Accept
  <2>2. \A c \in ChatIds : chats[c] # p
    BY <2>1
  <2>3. QED
    BY <1>1, <2>1, <2>2 DEF Accept
<1>2. ASSUME NEW p \in Ports, DeriveSecret(p) PROVE Keep'
  BY <1>2 DEF DeriveSecret
<1>3. ASSUME NEW p \in Ports, SaveReadPort(p) PROVE Keep'
  BY <1>3 DEF SaveReadPort
<1>4. ASSUME NEW p \in Ports, Disconnect(p) PROVE Keep'
  BY <1>4 DEF Disconnect
<1>5. ASSUME NEW p \in Ports, DiscardReadPort(p) PROVE Keep'
  BY <1>5 DEF DiscardReadPort
<1>6. ASSUME NEW p \in Ports, Expire(p) PROVE Keep'
  BY <1>6 DEF Expire
<1>7. ASSUME NEW p \in Ports, SweepPort(p) PROVE Keep'
  BY <1>7 DEF SweepPort
<1>8. ASSUME NEW p \in Ports, SweepKeys(p) PROVE Keep'
  BY <1>8 DEF SweepKeys
<1>9. ASSUME NEW t \in Tasks, StartReader(t) PROVE Keep'
  BY <1>9 DEF StartReader
<1>10. ASSUME NEW t \in Tasks, NewChat(t) PROVE Keep'
  BY <1>10 DEF NewChat
<1>11. ASSUME NEW t \in Tasks, Guard(t) PROVE Keep'
  BY <1>11 DEF Guard
<1>12. ASSUME NEW t \in Tasks, VerifyIntro(t) PROVE Keep'
  BY <1>12 DEF VerifyIntro
<1>13. ASSUME NEW t \in Tasks, GenerateIntro(t) PROVE Keep'
  BY <1>13 DEF GenerateIntro
<1>14. ASSUME NEW t \in Tasks, ServerMakesLine(t) PROVE Keep'
  BY <1>14 DEF ServerMakesLine
<1>15. ASSUME NEW t \in Tasks, Answer(t) PROVE Keep'
  BY <1>15 DEF Answer
<1>16. ASSUME NEW t \in Tasks, PostFails(t) PROVE Keep'
  BY <1>16 DEF PostFails
<1>17. ASSUME NEW t \in Tasks, CheckBlocked(t) PROVE Keep'
  BY <1>17 DEF CheckBlocked
<1>18. ASSUME NEW t \in Tasks, LookUpChat(t) PROVE Keep'
  BY <1>18 DEF LookUpChat, PeerChats
<1>19. ASSUME NEW t \in Tasks, ReadRoute(t) PROVE Keep'
  BY <1>19 DEF ReadRoute
<1>20. ASSUME NEW t \in Tasks, ReadOldLine(t) PROVE Keep'
  BY <1>20 DEF ReadOldLine
<1>21. ASSUME NEW t \in Tasks, AddLine(t) PROVE Keep'
  BY <1>21 DEF AddLine
<1>22. ASSUME NEW t \in Tasks, JoinLine(t) PROVE Keep'
  <2> DEFINE c == IF found[t] = NoChat THEN t ELSE found[t]
  <2>1. /\ lineId[t] = PortOf[t] /\ ~Mentioned(PortOf[t])
        /\ PortOf[t] \notin spoiled => keys[PortOf[t]] = "ready"
    BY <1>22 DEF JoinLine
  <2>2. /\ chats' = [chats EXCEPT ![c] = PortOf[t]]
        /\ at' = [at EXCEPT ![t] = IF found[t] = NoChat THEN "delport" ELSE "oldline"]
        /\ UNCHANGED <<keys, route, found, spoiled, sweepKeys>>
    BY <1>22, <2>1 DEF JoinLine
  <2>3. ReadyInv'
    BY <2>1, <2>2
  \* The chat it found has left the line it was routed to; no other chat was on it.
  <2>4. UsedInv'
    BY <1>22, <2>1, <2>2 DEF JoinLine
  <2>5. QED
    BY <2>3, <2>4
<1>23. ASSUME NEW t \in Tasks, DeleteOldLine(t) PROVE Keep'
  BY <1>23 DEF DeleteOldLine
<1>24. ASSUME NEW t \in Tasks, DeleteOldKeys(t) PROVE Keep'
  \* The replaced line is no chat's, and no task is about to join it.
  <2>1. \A d \in ChatIds : chats[d] \in Ports => chats[d] # route[t]
    BY <1>24 DEF DeleteOldKeys
  <2>2. \A u \in Tasks : at[u] \in Armed => PortOf[u] # route[t]
    BY <1>24 DEF DeleteOldKeys
  <2>3. ReadyInv'
    BY <1>24, <2>1, <2>2 DEF DeleteOldKeys
  <2>4. UsedInv'
    BY <1>24 DEF DeleteOldKeys
  <2>5. QED
    BY <2>3, <2>4
<1>25. ASSUME NEW t \in Tasks, DeletePort(t) PROVE Keep'
  BY <1>25 DEF DeletePort
<1>26. ASSUME NEW t \in Tasks, CleanPort(t) PROVE Keep'
  BY <1>26 DEF CleanPort
<1>27. ASSUME NEW t \in Tasks, CleanKeys(t) PROVE Keep'
  \* A use() that fails has joined its line to no chat.
  <2>1. ~Mentioned(PortOf[t])
    BY <1>27 DEF CleanKeys
  <2>2. QED
    BY <1>27, <2>1 DEF CleanKeys
<1>28. ASSUME NEW t \in Tasks, DropLine(t) PROVE Keep'
  BY <1>28 DEF DropLine
<1>29. ASSUME BeginRound PROVE Keep'
  BY <1>29 DEF BeginRound, NoReader
<1>30. ASSUME BlockPeer PROVE Keep'
  BY <1>30 DEF BlockPeer
<1>31. ASSUME BeginSweep PROVE Keep'
  BY <1>31 DEF BeginSweep
<1>32. ASSUME Crash PROVE Keep'
  BY <1>32 DEF Crash
<1>33. ASSUME UNCHANGED vars PROVE Keep'
  BY <1>33 DEF vars
<1>34. QED
  BY <1>0, <1>1, <1>2, <1>3, <1>4, <1>5, <1>6, <1>7, <1>8, <1>9, <1>10, <1>11, <1>12,
     <1>13, <1>14, <1>15, <1>16, <1>17, <1>18, <1>19, <1>20, <1>21, <1>22, <1>23, <1>24,
     <1>25, <1>26, <1>27, <1>28, <1>29, <1>30, <1>31, <1>32, <1>33
     DEF Next, UseStep

\* Under the hypotheses of ChatKeepsItsLine the line of a chat can encrypt, unless
\* the user or the sweep dropped its port while use() was at work on it: "don't clean
\* delete since permissions and crypto data references are still needed" is kept by
\* every way keys are deleted, for any number of ports and concurrent calls of use().
THEOREM LineKeepsKeys ==
  ASSUME OwnPort, MaxCrashes = 0 PROVE Spec => []LineHasKeys
<1>1. Init => KInv
  BY KeysInit
<1>2. KInv /\ [Next]_vars => KInv'
  BY KeysStep
<1>3. KInv => LineHasKeys
  BY DEF KInv, ReadyInv, LineHasKeys
<1>4. QED
  BY <1>1, <1>2, <1>3, PTL DEF Spec

\* The error path of use() never deletes the line of a formed chat: a use() that
\* fails has joined its line to no chat, and no other task may.
THEOREM FormedChatsStay ==
  ASSUME OwnPort, MaxCrashes = 0 PROVE Spec => FormedChatIsKept
<1>1. Init => IInv
  BY OnceInit
<1>2. IInv /\ [Next]_vars => IInv'
  BY OnceStep
<1>3. ASSUME IInv, NEW t \in Tasks, NEW c \in ChatIds, DropLine(t) PROVE chats[c] # lineId[t]
  BY <1>3 DEF DropLine, IInv, LocalsInv, FreshInv, Mentioned, Late, Known
<1>4. IInv /\ [Next]_vars =>
        [\A t \in Tasks, c \in ChatIds : DropLine(t) => chats[c] # lineId[t]]_vars
  BY <1>3
<1>5. QED
  BY <1>1, <1>2, <1>4, PTL DEF Spec, FormedChatIsKept
=============================================================================
