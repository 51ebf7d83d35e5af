-------------------------- MODULE SuperPort_proofs --------------------------
(***************************************************************************)
(* Proofs about SuperPort, for any lines, peers, loops, limits and number  *)
(* of incidents: the state stays well-typed; a line has the keys of its    *)
(* own peer unless another use derived a secret between the check and the  *)
(* copy; the count of connections is honest, and the limit holds as long   *)
(* as uses follow one another.                                             *)
(***************************************************************************)
EXTENDS SuperPort, FiniteSetTheorems, TLAPS

USE SuperPortAssumption

\* How many loops are in a given state is a number.
LEMMA CountType == ASSUME NEW S \in SUBSET Loops PROVE Cardinality(S) \in Nat
  BY FS_Subset, FS_CardinalityType

\* What a copy holds that nobody reads is a row of superPorts.
LEMMA UnreadType == Unread \in Ports
  BY DEF Unread, NewPort, Ports

\* What is written back is one too.
LEMMA WriteBackTypes ==
  ASSUME RowsOK, HistoryOK, NEW old \in Ports, WriteBack(old)
  PROVE  port' \in Ports /\ overwritten' \in BOOLEAN
  BY DEF RowsOK, HistoryOK, WriteBack, Ports

\* A write-back that is not recorded as one over a newer count finds the count it had read.
LEMMA WriteBackRecords ==
  ASSUME NEW old, WriteBack(old), ~overwritten'
  PROVE  ~overwritten /\ (port.exists => old.made = port.made)
<1>1. ~(overwritten \/ (port.exists /\ old.made # port.made))
  BY Zenon DEF WriteBack
<1> QED
  BY <1>1, Zenon

\* Places a use may go on to that ask for no chat.
Plain == Places \ {"route", "join"}

\* Moving on within a use keeps the locals well-typed.
LEMMA GotoLoops ==
  ASSUME LoopsOK, NEW k \in Loops, at[k] # "idle", NEW p \in Plain,
         Goto(k, p), UNCHANGED locals
  PROVE  LoopsOK'
<1>1. /\ at' \in [Loops -> Places]
      /\ \A j \in Loops : at'[j] \in {"route", "join"} => at[j] \in {"route", "join"}
      /\ \A j \in Loops : at'[j] # "idle" => at[j] # "idle"
  BY DEF LoopsOK, Goto, Plain
<1> QED
  BY <1>1 DEF LoopsOK, locals

\* So does an error that is thrown.
LEMMA ThrowLoops ==
  ASSUME LoopsOK, NEW k \in Loops, at[k] # "idle", Throw(k)
  PROVE  LoopsOK'
<1>1. /\ at' \in [Loops -> Places]
      /\ \A j \in Loops : at'[j] \in {"route", "join"} => j # k /\ at[j] \in {"route", "join"}
      /\ \A j \in Loops : at'[j] # "idle" => at[j] # "idle"
  BY DEF LoopsOK, Throw, Goto, Places
<1>2. /\ copy' \in [Loops -> Ports]
      /\ found' \in [Loops -> Chats \cup {Nobody}]
      /\ \A j \in Loops : j # k => found'[j] = found[j]
      /\ route' \in [Loops -> Lines \cup {Nobody}]
      /\ held' \in [Loops -> Peers \cup {Nobody}]
  BY UnreadType DEF LoopsOK, Throw, Forget
<1> QED
  BY <1>1, <1>2 DEF LoopsOK, Throw

\* The check of pause and limit goes on or throws.
LEMMA AdmitTypes ==
  ASSUME LoopsOK, NEW k \in Loops, at[k] # "idle", Admit(k), pausing \in {"no", "api", "local"}
  PROVE  LoopsOK' /\ pausing' \in {"no", "api", "local"}
<1>1. CASE GoOn(k, "derive") /\ UNCHANGED pausing
  BY <1>1, GotoLoops DEF GoOn, Plain, Places
<1>2. CASE StartPause /\ Throw(k)
  BY <1>2, ThrowLoops DEF StartPause
<1> QED
  BY <1>1, <1>2 DEF Admit

\* And the end of a use, which changes the server's queue and the count of incidents.
LEMMA FinishTypes ==
  ASSUME LoopsOK, ServerOK, HistoryOK, NEW k \in Loops, at[k] # "idle", Finish(k)
  PROVE  LoopsOK' /\ ServerOK' /\ incidents' \in 0..MaxIncidents
<1>1. /\ at' \in [Loops -> Places]
      /\ \A j \in Loops : at'[j] # "idle" => j # k /\ at[j] # "idle"
      /\ \A j \in Loops : at'[j] \in {"route", "join"} => j # k /\ at[j] \in {"route", "join"}
  BY DEF LoopsOK, Finish, Goto, Places
<1>2. /\ cur' \in [Loops -> Lines \cup {Nobody}]
      /\ \A j \in Loops : j # k => cur'[j] = cur[j]
  BY DEF LoopsOK, Finish
<1>3. /\ copy' \in [Loops -> Ports]
      /\ found' \in [Loops -> Chats \cup {Nobody}]
      /\ \A j \in Loops : j # k => found'[j] = found[j]
      /\ route' \in [Loops -> Lines \cup {Nobody}]
      /\ held' \in [Loops -> Peers \cup {Nobody}]
  BY UnreadType DEF LoopsOK, Finish, Forget
<1>4. LoopsOK'
  BY <1>1, <1>2, <1>3 DEF LoopsOK
<1>5. ServerOK' /\ incidents' \in 0..MaxIncidents
  BY DEF ServerOK, HistoryOK, Finish, Incident
<1> QED
  BY <1>4, <1>5

\* A fresh superport is well-typed.
THEOREM InitTypeOK == Init => TypeOK
<1> SUFFICES ASSUME Init PROVE TypeOK
  OBVIOUS
<1>1. port \in Ports /\ port.made = 0
  BY DEF Init, NewPort, Ports
<1>2. line \in [Lines -> {"none", "open", "cut"}]
  <2>1. PICK s \in {"open", "cut"} : line = [l \in Lines |-> IF l = Earlier THEN s ELSE "none"]
    BY DEF Init
  <2> QED
    BY <2>1
<1>3. chat \in [Chats -> Lines \cup {Nobody}]
  <2>1. PICK k \in Loops :
          chat = [c \in Chats |-> IF c = <<Earlier, k>> THEN Earlier ELSE Nobody]
    BY DEF Init
  <2> QED
    BY <2>1
<1>4. lineKey \in [Lines -> Peers \cup {Nobody}]
  BY DEF Init
<1>5. RowsOK
  BY <1>1, <1>2, <1>3, <1>4 DEF Init, RowsOK
<1>6. ServerOK /\ OwnerOK /\ HistoryOK
  <2>1. closed \in BOOLEAN /\ cleaning \in BOOLEAN /\ unlimited \in BOOLEAN
       /\ overwritten \in BOOLEAN /\ open \in BOOLEAN
    BY DEF Init
  <2>2. made \subseteq Lines /\ pending \subseteq made /\ mixed \subseteq Lines
    BY DEF Init
  <2>3. pausing = "no" /\ screen = Unread /\ incidents = 0 /\ formed = 0 /\ uncounted = 0
    BY DEF Init
  <2> QED
    BY <1>1, <2>1, <2>2, <2>3, UnreadType DEF ServerOK, OwnerOK, HistoryOK
<1>7. LoopsOK
  BY UnreadType DEF Init, LoopsOK, Places
<1> QED
  BY <1>5, <1>6, <1>7 DEF TypeOK

\* Every action leaves the state well-typed.
THEOREM NextTypeOK == TypeOK /\ [Next]_vars => TypeOK'
<1> SUFFICES ASSUME TypeOK, [Next]_vars PROVE TypeOK'
  OBVIOUS
<1> USE DEF TypeOK
<1>1. ASSUME NEW l \in Lines, MakeLine(l) PROVE TypeOK'
  <2>1. RowsOK' /\ ServerOK' /\ OwnerOK' /\ LoopsOK' /\ HistoryOK'
    BY <1>1 DEF MakeLine, RowsOK, ServerOK, OwnerOK, LoopsOK, HistoryOK, rows, server, owner, locals, history
  <2> QED
    BY <2>1
<1>2. ASSUME NEW l \in Lines, Disconnect(l) PROVE TypeOK'
  <2>1. RowsOK' /\ ServerOK' /\ OwnerOK' /\ LoopsOK' /\ HistoryOK'
    BY <1>2 DEF Disconnect, RowsOK, ServerOK, OwnerOK, LoopsOK, HistoryOK, rows, server, owner, locals, history, Incident
  <2> QED
    BY <2>1
<1>3. ASSUME NEW k \in Loops, NEW l \in Lines, Receive(k, l) PROVE TypeOK'
  <2>1. RowsOK' /\ ServerOK' /\ OwnerOK' /\ HistoryOK'
    BY <1>3 DEF Receive, RowsOK, ServerOK, OwnerOK, HistoryOK, rows, server, owner, locals, history
  <2>2. LoopsOK'
    BY <1>3 DEF Receive, Goto, LoopsOK, ServerOK, Places
  <2> QED
    BY <2>1, <2>2
<1>4. ASSUME NEW k \in Loops, Load(k) PROVE TypeOK'
  <2>1. RowsOK' /\ OwnerOK'
    BY <1>4 DEF Load, RowsOK, OwnerOK, rows, server, owner, locals, history
  <2>2. ServerOK' /\ LoopsOK' /\ HistoryOK'
    <3>1. CASE port.exists
      BY <1>4, <3>1 DEF Load, Goto, ServerOK, LoopsOK, RowsOK, HistoryOK, Places, server, history
    <3>2. CASE ~port.exists
      BY <1>4, <3>2, FinishTypes DEF Load, HistoryOK, history
    <3> QED
      BY <3>1, <3>2
  <2> QED
    BY <2>1, <2>2
<1>5. ASSUME NEW k \in Loops, Guard(k) PROVE TypeOK'
  <2>1. RowsOK'
    BY <1>5 DEF Guard, RowsOK, rows
  <2>2. UNCHANGED <<cleaning, open, screen>>
    BY <1>5 DEF Guard
  <2>3. ServerOK' /\ LoopsOK' /\ HistoryOK' /\ OwnerOK'
    <3>1. CASE line[cur[k]] # "none" /\ Finish(k) /\ UNCHANGED pausing
      BY <1>5, <2>2, <3>1, FinishTypes DEF Guard, HistoryOK, OwnerOK, history
    <3>2. CASE GoOn(k, "permit") /\ UNCHANGED <<pausing, server, incidents>>
      BY <1>5, <2>2, <3>2, GotoLoops
         DEF Guard, GoOn, Plain, Places, ServerOK, HistoryOK, OwnerOK, server, history
    <3>3. CASE Admit(k) /\ UNCHANGED <<server, incidents>>
      BY <1>5, <2>2, <3>3, AdmitTypes DEF Guard, ServerOK, HistoryOK, OwnerOK, server, history
    <3> QED
      BY <1>5, <3>1, <3>2, <3>3 DEF Guard
  <2> QED
    BY <2>1, <2>3
<1>5a. ASSUME NEW k \in Loops, CreatePermissions(k) PROVE TypeOK'
  <2>0. copy[k] \in Ports
    BY DEF LoopsOK
  <2>1. port' \in Ports /\ overwritten' \in BOOLEAN
    BY <1>5a, <2>0, WriteBackTypes DEF CreatePermissions
  <2>2. ServerOK' /\ OwnerOK' /\ RowsOK' /\ HistoryOK'
    BY <1>5a, <2>1 DEF CreatePermissions, RowsOK, ServerOK, OwnerOK, HistoryOK, server, owner
  <2>3. copy' \in [Loops -> Ports]
    BY <1>5a, <2>0 DEF CreatePermissions, LoopsOK, Ports
  <2>4. LoopsOK'
    BY <1>5a, <2>3 DEF CreatePermissions, Goto, LoopsOK, Places
  <2> QED
    BY <2>2, <2>4
<1>5b. ASSUME NEW k \in Loops, CheckLimit(k) PROVE TypeOK'
  <2>1. RowsOK' /\ ServerOK' /\ HistoryOK'
    BY <1>5b DEF CheckLimit, RowsOK, ServerOK, HistoryOK, rows, server, history
  <2>2. LoopsOK' /\ OwnerOK'
    BY <1>5b, AdmitTypes DEF CheckLimit, OwnerOK
  <2> QED
    BY <2>1, <2>2
<1>6. ASSUME NEW k \in Loops, Derive(k) PROVE TypeOK'
  <2>1. ServerOK' /\ OwnerOK'
    BY <1>6 DEF Derive, ServerOK, OwnerOK, rows, server, owner, locals, history
  <2>2. RowsOK'
    BY <1>6 DEF Derive, Peer, RowsOK, LoopsOK
  <2>3. LoopsOK'
    BY <1>6, GotoLoops, ThrowLoops DEF Derive, GoOn, Plain, Places
  <2>4. HistoryOK'
    <3>1. {cur[j] : j \in {i \in Loops \ {k} :
              at[i] \in {"lookup", "route", "oldLine", "copy"}}} \subseteq Lines
      BY DEF LoopsOK
    <3> QED
      BY <1>6, <3>1 DEF Derive, HistoryOK
  <2> QED
    BY <2>1, <2>2, <2>3, <2>4
<1>7. ASSUME NEW k \in Loops, Check(k) PROVE TypeOK'
  <2>1. RowsOK' /\ ServerOK' /\ OwnerOK' /\ HistoryOK'
    BY <1>7 DEF Check, RowsOK, ServerOK, OwnerOK, HistoryOK, rows, server, owner, locals, history
  <2>2. LoopsOK'
    BY <1>7, GotoLoops, ThrowLoops DEF Check, GoOn, Plain, Places
  <2> QED
    BY <2>1, <2>2
<1>8. ASSUME NEW k \in Loops, LookUpChat(k) PROVE TypeOK'
  <2>1. RowsOK' /\ ServerOK' /\ OwnerOK' /\ HistoryOK'
    BY <1>8 DEF LookUpChat, RowsOK, ServerOK, OwnerOK, HistoryOK, rows, server, owner, locals, history
  <2>2. LoopsOK'
    <3>1. CASE ChatsWith(Peer(k)) = {}
      BY <1>8, <3>1 DEF LookUpChat, Goto, LoopsOK, Places
    <3>2. CASE ChatsWith(Peer(k)) # {}
      <4>1. PICK c \in ChatsWith(Peer(k)) : found' = [found EXCEPT ![k] = c]
        BY <1>8, <3>2 DEF LookUpChat
      <4>2. c \in Chats
        BY DEF ChatsWith
      <4> QED
        BY <1>8, <3>2, <4>1, <4>2 DEF LookUpChat, Goto, LoopsOK, Places
    <3> QED
      BY <3>1, <3>2
  <2> QED
    BY <2>1, <2>2
<1>9. ASSUME NEW k \in Loops, ReadRoute(k) PROVE TypeOK'
  <2>1. RowsOK' /\ ServerOK' /\ OwnerOK' /\ HistoryOK'
    BY <1>9 DEF ReadRoute, RowsOK, ServerOK, OwnerOK, HistoryOK, rows, server, owner, locals, history
  <2>2. LoopsOK'
    BY <1>9 DEF ReadRoute, Goto, LoopsOK, RowsOK, Places
  <2> QED
    BY <2>1, <2>2
<1>10. ASSUME NEW k \in Loops, ReadOldLine(k) PROVE TypeOK'
  <2>1. RowsOK' /\ ServerOK' /\ OwnerOK' /\ HistoryOK'
    BY <1>10 DEF ReadOldLine, RowsOK, ServerOK, OwnerOK, HistoryOK, rows, server, owner, locals, history
  <2>2. LoopsOK'
    BY <1>10, GotoLoops, ThrowLoops DEF ReadOldLine, GoOn, Plain, Places
  <2> QED
    BY <2>1, <2>2
<1>11. ASSUME NEW k \in Loops, CopyKeys(k) PROVE TypeOK'
  <2>1. RowsOK' /\ ServerOK' /\ OwnerOK' /\ HistoryOK'
    BY <1>11 DEF CopyKeys, RowsOK, ServerOK, OwnerOK, HistoryOK, rows, server, owner, locals, history
  <2>2. LoopsOK'
    <3>1. CASE keys.exists
      BY <1>11, <3>1 DEF CopyKeys, Goto, LoopsOK, RowsOK, Places
    <3>2. CASE ~keys.exists
      BY <1>11, <3>2, ThrowLoops DEF CopyKeys
    <3> QED
      BY <3>1, <3>2
  <2> QED
    BY <2>1, <2>2
<1>12. ASSUME NEW k \in Loops, AddLine(k) PROVE TypeOK'
  <2>1. ServerOK' /\ OwnerOK' /\ HistoryOK'
    BY <1>12 DEF AddLine, ServerOK, OwnerOK, HistoryOK, rows, server, owner, locals, history
  <2>2. RowsOK'
    BY <1>12 DEF AddLine, RowsOK, LoopsOK
  <2>3. LoopsOK'
    BY <1>12 DEF AddLine, Goto, LoopsOK, Places
  <2> QED
    BY <2>1, <2>2, <2>3
<1>13. ASSUME NEW k \in Loops, JoinLine(k) PROVE TypeOK'
  <2>1. ServerOK' /\ OwnerOK' /\ HistoryOK'
    BY <1>13 DEF JoinLine, ServerOK, OwnerOK, HistoryOK, rows, server, owner, locals, history
  <2>2. RowsOK'
    BY <1>13 DEF JoinLine, RowsOK, LoopsOK
  <2>3. LoopsOK'
    BY <1>13 DEF JoinLine, Goto, LoopsOK, Places
  <2> QED
    BY <2>1, <2>2, <2>3
<1>14. ASSUME NEW k \in Loops, DeleteOldLine(k) PROVE TypeOK'
  <2>1. RowsOK' /\ ServerOK' /\ OwnerOK' /\ HistoryOK'
    BY <1>14 DEF DeleteOldLine, RowsOK, ServerOK, OwnerOK, HistoryOK, rows, server, owner, locals, history
  <2>2. LoopsOK'
    BY <1>14 DEF DeleteOldLine, Goto, LoopsOK, Places
  <2> QED
    BY <2>1, <2>2
<1>15. ASSUME NEW k \in Loops, AddChat(k) PROVE TypeOK'
  <2>1. ServerOK' /\ OwnerOK' /\ HistoryOK'
    BY <1>15 DEF AddChat, ServerOK, OwnerOK, HistoryOK, rows, server, owner, locals, history
  <2>2. RowsOK'
    BY <1>15 DEF AddChat, RowsOK, LoopsOK, Chats
  <2>3. LoopsOK'
    BY <1>15, GotoLoops DEF AddChat, Plain, Places
  <2> QED
    BY <2>1, <2>2, <2>3
<1>16. ASSUME NEW k \in Loops, Count(k) PROVE TypeOK'
  <2>1. RowsOK' /\ OwnerOK'
    BY <1>16 DEF Count, RowsOK, OwnerOK, Ports, StartPause
  <2>2. ServerOK' /\ LoopsOK' /\ HistoryOK'
    BY <1>16, FinishTypes DEF Count, HistoryOK, history
  <2> QED
    BY <2>1, <2>2
<1>17. ASSUME NEW k \in Loops, Drop(k) PROVE TypeOK'
  <2>1. RowsOK' /\ OwnerOK'
    BY <1>17 DEF Drop, RowsOK, OwnerOK, rows, server, owner, locals, history
  <2>2. ServerOK' /\ LoopsOK' /\ HistoryOK'
    BY <1>17, FinishTypes DEF Drop, HistoryOK, history
  <2> QED
    BY <2>1, <2>2
<1>18. ASSUME PauseRequest PROVE TypeOK'
  <2>1. RowsOK' /\ ServerOK' /\ OwnerOK' /\ LoopsOK' /\ HistoryOK'
    BY <1>18 DEF PauseRequest, RowsOK, ServerOK, OwnerOK, LoopsOK, HistoryOK, rows, server, owner, locals, history
  <2> QED
    BY <2>1
<1>19. ASSUME PauseRow PROVE TypeOK'
  <2>1. ServerOK' /\ LoopsOK' /\ HistoryOK'
    BY <1>19 DEF PauseRow, ServerOK, LoopsOK, HistoryOK, rows, server, owner, locals, history
  <2>2. RowsOK' /\ OwnerOK'
    BY <1>19 DEF PauseRow, RowsOK, OwnerOK, Ports
  <2> QED
    BY <2>1, <2>2
<1>20. ASSUME NEW n \in Limits, SetLimit(n) PROVE TypeOK'
  <2>1. ServerOK' /\ LoopsOK' /\ HistoryOK' /\ OwnerOK'
    BY <1>20 DEF SetLimit, ServerOK, LoopsOK, HistoryOK, OwnerOK, server, owner, locals
  <2>2. RowsOK'
    BY <1>20 DEF SetLimit, RowsOK, Ports
  <2> QED
    BY <2>1, <2>2
<1>20a. ASSUME OpenScreen \/ CloseScreen PROVE TypeOK'
  <2>1. RowsOK' /\ ServerOK' /\ LoopsOK' /\ HistoryOK'
    BY <1>20a
       DEF OpenScreen, CloseScreen, Incident, RowsOK, ServerOK, LoopsOK, HistoryOK, rows, server,
           locals, history
  <2>2. OwnerOK'
    BY <1>20a, UnreadType DEF OpenScreen, CloseScreen, OwnerOK, RowsOK
  <2> QED
    BY <2>1, <2>2
<1>20b. ASSUME SetPermissions PROVE TypeOK'
  <2>0. screen \in Ports
    BY DEF OwnerOK
  <2>1. port' \in Ports /\ overwritten' \in BOOLEAN
    BY <1>20b, <2>0, WriteBackTypes DEF SetPermissions
  <2>2. ServerOK' /\ LoopsOK' /\ RowsOK' /\ HistoryOK'
    BY <1>20b, <2>1
       DEF SetPermissions, ServerOK, LoopsOK, RowsOK, HistoryOK, server, locals
  <2>3. OwnerOK'
    BY <1>20b, <2>0 DEF SetPermissions, OwnerOK, Ports
  <2> QED
    BY <2>2, <2>3
<1>21. ASSUME CleanRow PROVE TypeOK'
  <2>1. ServerOK' /\ LoopsOK' /\ HistoryOK'
    BY <1>21 DEF CleanRow, ServerOK, LoopsOK, HistoryOK, rows, server, owner, locals, history, Incident
  <2>2. RowsOK' /\ OwnerOK'
    BY <1>21 DEF CleanRow, RowsOK, OwnerOK, Ports
  <2> QED
    BY <2>1, <2>2
<1>22. ASSUME CleanKeys PROVE TypeOK'
  <2>1. RowsOK' /\ ServerOK' /\ OwnerOK' /\ LoopsOK' /\ HistoryOK'
    BY <1>22 DEF CleanKeys, RowsOK, ServerOK, OwnerOK, LoopsOK, HistoryOK, rows, server, owner, locals, history
  <2> QED
    BY <2>1
<1>23. ASSUME Crash PROVE TypeOK'
  <2>1. RowsOK' /\ ServerOK'
    BY <1>23 DEF Crash, RowsOK, ServerOK, rows, server, owner, locals, history
  <2>2. OwnerOK'
    BY <1>23, UnreadType DEF Crash, OwnerOK
  <2>3. LoopsOK'
    BY <1>23, UnreadType DEF Crash, LoopsOK, Places
  <2>4. HistoryOK'
    <3>1. Cardinality({k \in Loops : at[k] \in {"deleteOld", "count"}}) \in Nat
      BY CountType
    <3> QED
      BY <1>23, <3>1 DEF Crash, Incident, HistoryOK
  <2> QED
    BY <2>1, <2>2, <2>3, <2>4
<1>24. ASSUME UNCHANGED vars PROVE TypeOK'
  BY <1>24 DEF vars, rows, server, owner, locals, history, RowsOK, ServerOK, OwnerOK, LoopsOK, HistoryOK
<1> QED
  BY <1>1, <1>2, <1>3, <1>4, <1>5, <1>5a, <1>5b, <1>6, <1>7, <1>8, <1>9, <1>10, <1>11,
     <1>12, <1>13, <1>14, <1>15, <1>16, <1>17, <1>18, <1>19, <1>20, <1>20a, <1>20b, <1>21,
     <1>22, <1>23, <1>24
     DEF Next, Use

\* The state is well-typed in every behaviour.
THEOREM TypeCorrect == Spec => []TypeOK
<1>1. Init => TypeOK
  BY InitTypeOK
<1>2. TypeOK /\ [Next]_vars => TypeOK'
  BY NextTypeOK
<1> QED
  BY <1>1, <1>2, PTL DEF Spec

-----------------------------------------------------------------------------
\* Where a use relies on the secret it has checked.
Relying == {"lookup", "route", "oldLine", "copy"}

\* Between its check and its copy a use finds the secret of its own peer in the row all
\* uses share, unless another use has derived one since.
SecretIsTheirs ==
  \A k \in Loops : at[k] \in Relying /\ cur[k] \notin mixed /\ keys.exists
                   => keys.secret = Peer(k)

\* What a use copied for its line is the secret of its peer, with the same exception.
HeldIsTheirs ==
  \A k \in Loops : at[k] = "addLine" /\ cur[k] \notin mixed => held[k] = Peer(k)

SecretInv == TypeOK /\ SecretIsTheirs /\ HeldIsTheirs /\ OwnSecret

\* A fresh superport has at most the line of an earlier chat, with its own keys.
LEMMA InitSecret == Init => SecretInv
<1> SUFFICES ASSUME Init PROVE SecretInv
  OBVIOUS
<1>1. SecretIsTheirs /\ HeldIsTheirs
  BY DEF Init, SecretIsTheirs, HeldIsTheirs, Relying
<1>2. OwnSecret
  <2>1. PICK s \in {"open", "cut"} : line = [l \in Lines |-> IF l = Earlier THEN s ELSE "none"]
    BY DEF Init
  <2>2. lineKey = [l \in Lines |-> IF l = Earlier THEN PeerOf[l] ELSE Nobody]
    BY DEF Init
  <2> QED
    BY <2>1, <2>2 DEF OwnSecret
<1> QED
  BY <1>1, <1>2, InitTypeOK DEF SecretInv

\* A loop's part in the two invariants can only end, as long as no secret is derived.
Relies(j) ==
  /\ at'[j] \in Relying => at[j] \in Relying /\ cur'[j] = cur[j]
  /\ at'[j] = "addLine" => at[j] = "addLine" /\ cur'[j] = cur[j] /\ held'[j] = held[j]

LEMMA SecretStays ==
  ASSUME SecretIsTheirs, HeldIsTheirs, mixed' = mixed, keys' = keys \/ ~keys'.exists,
         \A j \in Loops : Relies(j)
  PROVE  SecretIsTheirs' /\ HeldIsTheirs'
  BY DEF SecretIsTheirs, HeldIsTheirs, Peer, Relies

\* Every action keeps the secrets apart, or marks the lines whose secret it mixed.
LEMMA NextSecret == SecretInv /\ [Next]_vars => SecretInv'
<1> SUFFICES ASSUME SecretInv, [Next]_vars PROVE SecretInv'
  OBVIOUS
<1> USE DEF SecretInv
<1>t. TypeOK'
  BY NextTypeOK
<1>l. LoopsOK /\ RowsOK
  BY DEF TypeOK
<1>1. ASSUME NEW l \in Lines, MakeLine(l) PROVE SecretInv'
  <2>1. mixed' = mixed /\ (keys' = keys \/ ~keys'.exists)
    BY <1>1 DEF MakeLine, rows, history
  <2>2. ASSUME NEW j \in Loops PROVE Relies(j)
    BY <1>1, <1>l DEF MakeLine, LoopsOK, Relies, Relying, Places, locals
  <2>3. OwnSecret'
    BY <1>1, <1>l, <2>1 DEF MakeLine, OwnSecret, rows, RowsOK
  <2> QED
    BY <1>t, <2>1, <2>2, <2>3, SecretStays
<1>2. ASSUME NEW l \in Lines, Disconnect(l) PROVE SecretInv'
  <2>1. mixed' = mixed /\ (keys' = keys \/ ~keys'.exists)
    BY <1>2 DEF Disconnect, rows, history
  <2>2. ASSUME NEW j \in Loops PROVE Relies(j)
    BY <1>2, <1>l DEF Disconnect, LoopsOK, Relies, Relying, Places, locals
  <2>3. OwnSecret'
    BY <1>2, <1>l, <2>1 DEF Disconnect, OwnSecret, rows, RowsOK
  <2> QED
    BY <1>t, <2>1, <2>2, <2>3, SecretStays
<1>3. ASSUME NEW k \in Loops, NEW l \in Lines, Receive(k, l) PROVE SecretInv'
  <2>1. mixed' = mixed /\ (keys' = keys \/ ~keys'.exists)
    BY <1>3 DEF Receive, rows, history
  <2>2. ASSUME NEW j \in Loops PROVE Relies(j)
    BY <1>3, <1>l DEF Receive, Goto, LoopsOK, Relies, Relying, Places, locals
  <2>3. OwnSecret'
    BY <1>3, <1>l, <2>1 DEF Receive, OwnSecret, rows, RowsOK
  <2> QED
    BY <1>t, <2>1, <2>2, <2>3, SecretStays
<1>4. ASSUME NEW k \in Loops, Load(k) PROVE SecretInv'
  <2>1. mixed' = mixed /\ (keys' = keys \/ ~keys'.exists)
    BY <1>4 DEF Load, rows, history
  <2>2. ASSUME NEW j \in Loops PROVE Relies(j)
    BY <1>4, <1>l DEF Load, Finish, Forget, Goto, LoopsOK, Relies, Relying, Places, locals
  <2>3. OwnSecret'
    BY <1>4, <1>l, <2>1 DEF Load, OwnSecret, rows, RowsOK
  <2> QED
    BY <1>t, <2>1, <2>2, <2>3, SecretStays
<1>5. ASSUME NEW k \in Loops, Guard(k) PROVE SecretInv'
  <2>1. mixed' = mixed /\ (keys' = keys \/ ~keys'.exists)
    BY <1>5 DEF Guard, rows, history
  <2>2. ASSUME NEW j \in Loops PROVE Relies(j)
    BY <1>5, <1>l DEF Guard, Admit, Finish, Forget, Goto, Throw, GoOn, LoopsOK, Relies, Relying, Places, locals
  <2>3. OwnSecret'
    BY <1>5, <1>l, <2>1 DEF Guard, OwnSecret, rows, RowsOK
  <2> QED
    BY <1>t, <2>1, <2>2, <2>3, SecretStays
<1>5a. ASSUME NEW k \in Loops, CreatePermissions(k) PROVE SecretInv'
  <2>1. mixed' = mixed /\ (keys' = keys \/ ~keys'.exists)
    BY <1>5a DEF CreatePermissions, Goto, rows, history
  <2>2. ASSUME NEW j \in Loops PROVE Relies(j)
    BY <1>5a, <1>l DEF CreatePermissions, Goto, LoopsOK, Relies, Relying, Places, locals
  <2>3. OwnSecret'
    BY <1>5a, <1>l, <2>1 DEF CreatePermissions, Goto, OwnSecret, rows, RowsOK
  <2> QED
    BY <1>t, <2>1, <2>2, <2>3, SecretStays
<1>5b. ASSUME NEW k \in Loops, CheckLimit(k) PROVE SecretInv'
  <2>1. mixed' = mixed /\ (keys' = keys \/ ~keys'.exists)
    BY <1>5b DEF CheckLimit, Admit, Forget, Goto, Throw, GoOn, rows, history
  <2>2. ASSUME NEW j \in Loops PROVE Relies(j)
    BY <1>5b, <1>l DEF CheckLimit, Admit, Forget, Goto, Throw, GoOn, LoopsOK, Relies, Relying, Places, locals
  <2>3. OwnSecret'
    BY <1>5b, <1>l, <2>1 DEF CheckLimit, Admit, Forget, Goto, Throw, GoOn, OwnSecret, rows, RowsOK
  <2> QED
    BY <1>t, <2>1, <2>2, <2>3, SecretStays
<1>6. ASSUME NEW k \in Loops, Derive(k) PROVE SecretInv'
  <2>1. OwnSecret'
    BY <1>6 DEF Derive, OwnSecret
  <2>2. CASE keys.exists
    <3>1. /\ keys'.secret = Peer(k)
          /\ mixed \subseteq mixed' /\ cur' = cur /\ held' = held
          /\ at' = [at EXCEPT ![k] = "check"]
      BY <1>6, <2>2, <1>l DEF Derive, GoOn, Goto, locals, RowsOK
    <3>2. \A j \in Loops : j # k /\ at[j] \in Relying => cur[j] \in mixed'
      BY <1>6, <2>2 DEF Derive, Relying
    <3>3. SecretIsTheirs' /\ HeldIsTheirs'
      BY <3>1, <3>2, <1>l DEF SecretIsTheirs, HeldIsTheirs, Peer, Relying, LoopsOK
    <3> QED
      BY <1>t, <2>1, <3>3
  <2>3. CASE ~keys.exists
    <3>1. ASSUME NEW j \in Loops PROVE Relies(j)
      BY <1>6, <2>3, <1>l DEF Derive, Throw, Forget, Goto, LoopsOK, Relies, Relying
    <3>2. mixed' = mixed /\ keys' = keys
      BY <1>6, <2>3 DEF Derive
    <3> QED
      BY <1>t, <2>1, <3>1, <3>2, SecretStays
  <2> QED
    BY <2>2, <2>3
<1>7. ASSUME NEW k \in Loops, Check(k) PROVE SecretInv'
  <2>1. OwnSecret' /\ keys' = keys /\ mixed' = mixed
    BY <1>7 DEF Check, OwnSecret, rows, history
  <2>2. CASE keys.secret = Peer(k) /\ GoOn(k, "lookup")
    BY <1>t, <1>l, <2>1, <2>2
       DEF GoOn, Goto, locals, SecretIsTheirs, HeldIsTheirs, Peer, Relying, LoopsOK
  <2>3. CASE Throw(k)
    <3>1. ASSUME NEW j \in Loops PROVE Relies(j)
      BY <2>3, <1>l DEF Throw, Forget, Goto, LoopsOK, Relies, Relying
    <3> QED
      BY <1>t, <2>1, <3>1, SecretStays
  <2> QED
    BY <1>7, <2>2, <2>3 DEF Check
<1>8. ASSUME NEW k \in Loops, LookUpChat(k) PROVE SecretInv'
  <2>1. mixed' = mixed /\ (keys' = keys \/ ~keys'.exists)
    BY <1>8 DEF LookUpChat, rows, history
  <2>2. ASSUME NEW j \in Loops PROVE Relies(j)
    BY <1>8, <1>l DEF LookUpChat, Goto, LoopsOK, Relies, Relying, Places, locals
  <2>3. OwnSecret'
    BY <1>8, <1>l, <2>1 DEF LookUpChat, OwnSecret, rows, RowsOK
  <2> QED
    BY <1>t, <2>1, <2>2, <2>3, SecretStays
<1>9. ASSUME NEW k \in Loops, ReadRoute(k) PROVE SecretInv'
  <2>1. mixed' = mixed /\ (keys' = keys \/ ~keys'.exists)
    BY <1>9 DEF ReadRoute, rows, history
  <2>2. ASSUME NEW j \in Loops PROVE Relies(j)
    BY <1>9, <1>l DEF ReadRoute, Goto, LoopsOK, Relies, Relying, Places, locals
  <2>3. OwnSecret'
    BY <1>9, <1>l, <2>1 DEF ReadRoute, OwnSecret, rows, RowsOK
  <2> QED
    BY <1>t, <2>1, <2>2, <2>3, SecretStays
<1>10. ASSUME NEW k \in Loops, ReadOldLine(k) PROVE SecretInv'
  <2>1. mixed' = mixed /\ (keys' = keys \/ ~keys'.exists)
    BY <1>10 DEF ReadOldLine, rows, history
  <2>2. ASSUME NEW j \in Loops PROVE Relies(j)
    BY <1>10, <1>l DEF ReadOldLine, GoOn, Throw, Forget, Goto, LoopsOK, Relies, Relying, Places, locals
  <2>3. OwnSecret'
    BY <1>10, <1>l, <2>1 DEF ReadOldLine, OwnSecret, rows, RowsOK
  <2> QED
    BY <1>t, <2>1, <2>2, <2>3, SecretStays
<1>11. ASSUME NEW k \in Loops, CopyKeys(k) PROVE SecretInv'
  <2>1. OwnSecret' /\ keys' = keys /\ mixed' = mixed
    BY <1>11 DEF CopyKeys, OwnSecret, rows, history
  <2>2. CASE keys.exists
    <3>1. /\ held' = [held EXCEPT ![k] = keys.secret]
          /\ at' = [at EXCEPT ![k] = "addLine"] /\ cur' = cur /\ at[k] = "copy"
      BY <1>11, <2>2 DEF CopyKeys, Goto
    <3> QED
      BY <1>t, <1>l, <2>1, <2>2, <3>1
         DEF SecretIsTheirs, HeldIsTheirs, Peer, Relying, LoopsOK
  <2>3. CASE Throw(k)
    <3>1. ASSUME NEW j \in Loops PROVE Relies(j)
      BY <2>3, <1>l DEF Throw, Forget, Goto, LoopsOK, Relies, Relying
    <3> QED
      BY <1>t, <2>1, <3>1, SecretStays
  <2> QED
    BY <1>11, <2>2, <2>3 DEF CopyKeys
<1>12. ASSUME NEW k \in Loops, AddLine(k) PROVE SecretInv'
  <2>1. mixed' = mixed /\ keys' = keys
    BY <1>12 DEF AddLine, history
  <2>2. ASSUME NEW j \in Loops PROVE Relies(j)
    BY <1>12, <1>l DEF AddLine, Goto, LoopsOK, Relies, Relying
  <2>3. OwnSecret'
    BY <1>12, <1>l, <2>1 DEF AddLine, OwnSecret, HeldIsTheirs, Peer, RowsOK
  <2> QED
    BY <1>t, <2>1, <2>2, <2>3, SecretStays
<1>13. ASSUME NEW k \in Loops, JoinLine(k) PROVE SecretInv'
  <2>1. mixed' = mixed /\ (keys' = keys \/ ~keys'.exists)
    BY <1>13 DEF JoinLine, rows, history
  <2>2. ASSUME NEW j \in Loops PROVE Relies(j)
    BY <1>13, <1>l DEF JoinLine, Goto, LoopsOK, Relies, Relying, Places, locals
  <2>3. OwnSecret'
    BY <1>13, <1>l, <2>1 DEF JoinLine, OwnSecret, rows, RowsOK
  <2> QED
    BY <1>t, <2>1, <2>2, <2>3, SecretStays
<1>14. ASSUME NEW k \in Loops, DeleteOldLine(k) PROVE SecretInv'
  <2>1. mixed' = mixed /\ (keys' = keys \/ ~keys'.exists)
    BY <1>14 DEF DeleteOldLine, rows, history
  <2>2. ASSUME NEW j \in Loops PROVE Relies(j)
    BY <1>14, <1>l DEF DeleteOldLine, Goto, LoopsOK, Relies, Relying, Places, locals
  <2>3. OwnSecret'
    BY <1>14, <1>l, <2>1 DEF DeleteOldLine, OwnSecret, rows, RowsOK
  <2> QED
    BY <1>t, <2>1, <2>2, <2>3, SecretStays
<1>15. ASSUME NEW k \in Loops, AddChat(k) PROVE SecretInv'
  <2>1. mixed' = mixed /\ (keys' = keys \/ ~keys'.exists)
    BY <1>15 DEF AddChat, rows, history
  <2>2. ASSUME NEW j \in Loops PROVE Relies(j)
    BY <1>15, <1>l DEF AddChat, Goto, LoopsOK, Relies, Relying, Places, locals
  <2>3. OwnSecret'
    BY <1>15, <1>l, <2>1 DEF AddChat, OwnSecret, rows, RowsOK
  <2> QED
    BY <1>t, <2>1, <2>2, <2>3, SecretStays
<1>16. ASSUME NEW k \in Loops, Count(k) PROVE SecretInv'
  <2>1. mixed' = mixed /\ (keys' = keys \/ ~keys'.exists)
    BY <1>16 DEF Count, rows, history
  <2>2. ASSUME NEW j \in Loops PROVE Relies(j)
    BY <1>16, <1>l DEF Count, Finish, Forget, Goto, LoopsOK, Relies, Relying, Places, locals
  <2>3. OwnSecret'
    BY <1>16, <1>l, <2>1 DEF Count, OwnSecret, rows, RowsOK
  <2> QED
    BY <1>t, <2>1, <2>2, <2>3, SecretStays
<1>17. ASSUME NEW k \in Loops, Drop(k) PROVE SecretInv'
  <2>1. mixed' = mixed /\ (keys' = keys \/ ~keys'.exists)
    BY <1>17 DEF Drop, rows, history
  <2>2. ASSUME NEW j \in Loops PROVE Relies(j)
    BY <1>17, <1>l DEF Drop, Finish, Forget, Goto, LoopsOK, Relies, Relying, Places, locals
  <2>3. OwnSecret'
    BY <1>17, <1>l, <2>1 DEF Drop, OwnSecret, rows, RowsOK
  <2> QED
    BY <1>t, <2>1, <2>2, <2>3, SecretStays
<1>18. ASSUME PauseRequest PROVE SecretInv'
  <2>1. mixed' = mixed /\ (keys' = keys \/ ~keys'.exists)
    BY <1>18 DEF PauseRequest, rows, history
  <2>2. ASSUME NEW j \in Loops PROVE Relies(j)
    BY <1>18, <1>l DEF PauseRequest, LoopsOK, Relies, Relying, Places, locals
  <2>3. OwnSecret'
    BY <1>18, <1>l, <2>1 DEF PauseRequest, OwnSecret, rows, RowsOK
  <2> QED
    BY <1>t, <2>1, <2>2, <2>3, SecretStays
<1>19. ASSUME PauseRow PROVE SecretInv'
  <2>1. mixed' = mixed /\ (keys' = keys \/ ~keys'.exists)
    BY <1>19 DEF PauseRow, rows, history
  <2>2. ASSUME NEW j \in Loops PROVE Relies(j)
    BY <1>19, <1>l DEF PauseRow, LoopsOK, Relies, Relying, Places, locals
  <2>3. OwnSecret'
    BY <1>19, <1>l, <2>1 DEF PauseRow, OwnSecret, rows, RowsOK
  <2> QED
    BY <1>t, <2>1, <2>2, <2>3, SecretStays
<1>20. ASSUME NEW n \in Limits, SetLimit(n) PROVE SecretInv'
  <2>1. mixed' = mixed /\ (keys' = keys \/ ~keys'.exists)
    BY <1>20 DEF SetLimit, rows, history
  <2>2. ASSUME NEW j \in Loops PROVE Relies(j)
    BY <1>20, <1>l DEF SetLimit, LoopsOK, Relies, Relying, Places, locals
  <2>3. OwnSecret'
    BY <1>20, <1>l, <2>1 DEF SetLimit, OwnSecret, rows, RowsOK
  <2> QED
    BY <1>t, <2>1, <2>2, <2>3, SecretStays
<1>20a. ASSUME OpenScreen \/ CloseScreen PROVE SecretInv'
  <2>1. mixed' = mixed /\ (keys' = keys \/ ~keys'.exists)
    BY <1>20a DEF OpenScreen, CloseScreen, rows, history
  <2>2. ASSUME NEW j \in Loops PROVE Relies(j)
    BY <1>20a, <1>l DEF OpenScreen, CloseScreen, LoopsOK, Relies, Relying, Places, locals
  <2>3. OwnSecret'
    BY <1>20a, <1>l, <2>1 DEF OpenScreen, CloseScreen, OwnSecret, rows, RowsOK
  <2> QED
    BY <1>t, <2>1, <2>2, <2>3, SecretStays
<1>20b. ASSUME SetPermissions PROVE SecretInv'
  <2>1. mixed' = mixed /\ (keys' = keys \/ ~keys'.exists)
    BY <1>20b DEF SetPermissions, rows, history
  <2>2. ASSUME NEW j \in Loops PROVE Relies(j)
    BY <1>20b, <1>l DEF SetPermissions, LoopsOK, Relies, Relying, Places, locals
  <2>3. OwnSecret'
    BY <1>20b, <1>l, <2>1 DEF SetPermissions, OwnSecret, rows, RowsOK
  <2> QED
    BY <1>t, <2>1, <2>2, <2>3, SecretStays
<1>21. ASSUME CleanRow PROVE SecretInv'
  <2>1. mixed' = mixed /\ (keys' = keys \/ ~keys'.exists)
    BY <1>21 DEF CleanRow, rows, history
  <2>2. ASSUME NEW j \in Loops PROVE Relies(j)
    BY <1>21, <1>l DEF CleanRow, LoopsOK, Relies, Relying, Places, locals
  <2>3. OwnSecret'
    BY <1>21, <1>l, <2>1 DEF CleanRow, OwnSecret, rows, RowsOK
  <2> QED
    BY <1>t, <2>1, <2>2, <2>3, SecretStays
<1>22. ASSUME CleanKeys PROVE SecretInv'
  <2>1. mixed' = mixed /\ (keys' = keys \/ ~keys'.exists)
    BY <1>22 DEF CleanKeys, rows, history
  <2>2. ASSUME NEW j \in Loops PROVE Relies(j)
    BY <1>22, <1>l DEF CleanKeys, LoopsOK, Relies, Relying, Places, locals
  <2>3. OwnSecret'
    BY <1>22, <1>l, <2>1 DEF CleanKeys, OwnSecret, rows, RowsOK
  <2> QED
    BY <1>t, <2>1, <2>2, <2>3, SecretStays
<1>23. ASSUME Crash PROVE SecretInv'
  <2>1. mixed' = mixed /\ (keys' = keys \/ ~keys'.exists)
    BY <1>23 DEF Crash, rows, history
  <2>2. ASSUME NEW j \in Loops PROVE Relies(j)
    BY <1>23, <1>l DEF Crash, LoopsOK, Relies, Relying, Places, locals
  <2>3. OwnSecret'
    BY <1>23, <1>l, <2>1 DEF Crash, OwnSecret, rows, RowsOK
  <2> QED
    BY <1>t, <2>1, <2>2, <2>3, SecretStays
<1>24. ASSUME UNCHANGED vars PROVE SecretInv'
  BY <1>24, <1>t DEF vars, rows, locals, history, SecretIsTheirs, HeldIsTheirs, OwnSecret, Peer
<1> QED
  BY <1>1, <1>2, <1>3, <1>4, <1>5, <1>5a, <1>5b, <1>6, <1>7, <1>8, <1>9, <1>10, <1>11,
     <1>12, <1>13, <1>14, <1>15, <1>16, <1>17, <1>18, <1>19, <1>20, <1>20a, <1>20b, <1>21,
     <1>22, <1>23, <1>24
     DEF Next, Use

\* A line has the keys of its own peer, whatever uses run together, in every behaviour.
THEOREM OwnSecretHolds == Spec => []OwnSecret
<1>1. Init => SecretInv
  BY InitSecret
<1>2. SecretInv /\ [Next]_vars => SecretInv'
  BY NextSecret
<1>3. SecretInv => OwnSecret
  BY DEF SecretInv
<1> QED
  BY <1>1, <1>2, <1>3, PTL DEF Spec

-----------------------------------------------------------------------------
\* A use that does not come to, or leave, the counting leaves the sum as it is.
LEMMA CountStays ==
  ASSUME CountIsHonest, UNCHANGED <<formed, uncounted>>, overwritten => overwritten',
         port'.exists /\ ~overwritten' => port.exists /\ port'.made = port.made,
         \A j \in Loops : at'[j] \in {"deleteOld", "count"} <=> at[j] \in {"deleteOld", "count"}
  PROVE  CountIsHonest'
<1>1. Counting' = Counting
  BY DEF Counting
<1> QED
  BY <1>1 DEF CountIsHonest

\* One that forms its chat is one more of those that have not counted it.
LEMMA OneMoreCounts ==
  ASSUME TypeOK, CountIsHonest, NEW k \in Loops, NEW p \in {"deleteOld", "count"},
         at[k] \notin {"deleteOld", "count"}, at' = [at EXCEPT ![k] = p],
         port' = port, formed' = formed + 1, uncounted' = uncounted,
         overwritten' = overwritten
  PROVE  CountIsHonest'
<1>1. Counting' = Counting \cup {k} /\ k \notin Counting
  BY DEF Counting, TypeOK, LoopsOK
<1>2. IsFiniteSet(Counting) /\ Cardinality(Counting) \in Nat
  BY FS_Subset, CountType DEF Counting
<1>3. Cardinality(Counting') = Cardinality(Counting) + 1
  BY <1>1, <1>2, FS_AddElement
<1>4. formed \in Nat /\ uncounted \in Nat /\ port.made \in Nat
  BY DEF TypeOK, HistoryOK, RowsOK, Ports
<1> QED
  BY <1>2, <1>3, <1>4 DEF CountIsHonest

\* Every action keeps the count honest.
LEMMA NextCount == TypeOK /\ CountIsHonest /\ [Next]_vars => CountIsHonest'
<1> SUFFICES ASSUME TypeOK, CountIsHonest, [Next]_vars PROVE CountIsHonest'
  OBVIOUS
<1>t. LoopsOK /\ RowsOK /\ HistoryOK
  BY DEF TypeOK
<1>1. ASSUME NEW l \in Lines, MakeLine(l) \/ Disconnect(l) PROVE CountIsHonest'
  BY <1>1, CountStays DEF MakeLine, Disconnect, rows, history
<1>2. ASSUME NEW k \in Loops, NEW l \in Lines, Receive(k, l) PROVE CountIsHonest'
  BY <1>2, <1>t, CountStays DEF Receive, Goto, LoopsOK, rows
<1>3. ASSUME NEW k \in Loops, Load(k) \/ Guard(k) \/ Derive(k) \/ Check(k) PROVE CountIsHonest'
  <2>1. UNCHANGED <<port, formed, uncounted, overwritten>>
    BY <1>3 DEF Load, Guard, Derive, Check, rows, history
  <2>2. \A j \in Loops : at'[j] \in {"deleteOld", "count"} <=> at[j] \in {"deleteOld", "count"}
    BY <1>3, <1>t DEF Load, Guard, Admit, Derive, Check, Finish, Throw, GoOn, Goto, LoopsOK
  <2> QED
    BY <2>1, <2>2, CountStays
<1>3a. ASSUME NEW k \in Loops, CreatePermissions(k) PROVE CountIsHonest'
  BY <1>3a, <1>t, CountStays, WriteBackRecords
     DEF CreatePermissions, WriteBack, CountIsHonest, Goto, LoopsOK, Ports
<1>3b. ASSUME NEW k \in Loops, CheckLimit(k) PROVE CountIsHonest'
  BY <1>3b, <1>t, CountStays DEF CheckLimit, Admit, Throw, GoOn, Goto, LoopsOK, rows, history
<1>4. ASSUME NEW k \in Loops,
             LookUpChat(k) \/ ReadRoute(k) \/ ReadOldLine(k) \/ CopyKeys(k) \/ AddLine(k)
      PROVE  CountIsHonest'
  <2>1. UNCHANGED <<port, formed, uncounted, overwritten>>
    BY <1>4 DEF LookUpChat, ReadRoute, ReadOldLine, CopyKeys, AddLine, rows, history
  <2>2. \A j \in Loops : at'[j] \in {"deleteOld", "count"} <=> at[j] \in {"deleteOld", "count"}
    BY <1>4, <1>t
       DEF LookUpChat, ReadRoute, ReadOldLine, CopyKeys, AddLine, Throw, GoOn, Goto, LoopsOK
  <2> QED
    BY <2>1, <2>2, CountStays
<1>5. ASSUME NEW k \in Loops, JoinLine(k) PROVE CountIsHonest'
  BY <1>5, OneMoreCounts DEF JoinLine, Goto
<1>6. ASSUME NEW k \in Loops, AddChat(k) PROVE CountIsHonest'
  BY <1>6, OneMoreCounts DEF AddChat, Goto
<1>7. ASSUME NEW k \in Loops, DeleteOldLine(k) PROVE CountIsHonest'
  BY <1>7, <1>t, CountStays DEF DeleteOldLine, Goto, LoopsOK, history
<1>8. ASSUME NEW k \in Loops, Count(k) PROVE CountIsHonest'
  <2>1. at' = [at EXCEPT ![k] = "idle"] /\ at[k] = "count"
       /\ UNCHANGED <<formed, uncounted, overwritten>>
    BY <1>8 DEF Count, Finish, Goto, history
  <2>2. Counting' = Counting \ {k} /\ k \in Counting
    BY <2>1, <1>t DEF Counting, LoopsOK
  <2>3. IsFiniteSet(Counting) /\ Cardinality(Counting) \in Nat
    BY FS_Subset, CountType DEF Counting
  <2>4. Cardinality(Counting') = Cardinality(Counting) - 1
    BY <2>2, <2>3, FS_RemoveElement
  <2>5. formed \in Nat /\ uncounted \in Nat /\ port.made \in Nat
    BY <1>t DEF HistoryOK, RowsOK, Ports
  <2>6. port'.exists => port.exists /\ port'.made = port.made + 1
    BY <1>8, <1>t DEF Count, RowsOK, Ports
  <2> QED
    BY <2>1, <2>3, <2>4, <2>5, <2>6 DEF CountIsHonest
<1>9. ASSUME NEW k \in Loops, Drop(k) PROVE CountIsHonest'
  BY <1>9, <1>t, CountStays DEF Drop, Finish, Goto, LoopsOK, history
<1>10. ASSUME NEW n \in Limits, SetLimit(n) PROVE CountIsHonest'
  BY <1>10, <1>t, CountStays DEF SetLimit, RowsOK, Ports
<1>10a. CASE OpenScreen \/ CloseScreen
  BY <1>10a, CountStays DEF OpenScreen, CloseScreen, rows, history
<1>10b. CASE SetPermissions
  BY <1>10b, <1>t, CountStays, WriteBackRecords
     DEF SetPermissions, WriteBack, CountIsHonest, OwnerOK, Ports, TypeOK
<1>11. CASE PauseRequest \/ CleanKeys
  <2>1. UNCHANGED <<port, at, formed, uncounted, overwritten>>
    BY <1>11 DEF PauseRequest, CleanKeys, rows, history
  <2> QED
    BY <2>1, CountStays
<1>11a. CASE PauseRow
  BY <1>11a, <1>t, CountStays DEF PauseRow, RowsOK, Ports, history
<1>12. CASE CleanRow
  BY <1>12, <1>t, CountStays DEF CleanRow, RowsOK, Ports, history
<1>13. CASE Crash
  <2>1. Counting' = {}
    BY <1>13 DEF Crash, Counting
  <2>2. /\ port' = port /\ formed' = formed /\ uncounted' = uncounted + Cardinality(Counting)
        /\ overwritten' = overwritten
    BY <1>13 DEF Crash, Counting, rows
  <2>3. Cardinality(Counting') = 0 /\ Cardinality(Counting) \in Nat
    BY <2>1, FS_EmptySet, CountType DEF Counting
  <2>4. formed \in Nat /\ uncounted \in Nat /\ port.made \in Nat
    BY <1>t DEF HistoryOK, RowsOK, Ports
  <2> QED
    BY <2>2, <2>3, <2>4 DEF CountIsHonest
<1>14. CASE UNCHANGED vars
  BY <1>14, CountStays DEF vars, rows, history
<1> QED
  BY <1>1, <1>2, <1>3, <1>3a, <1>3b, <1>4, <1>5, <1>6, <1>7, <1>8, <1>9, <1>10, <1>10a,
     <1>10b, <1>11, <1>11a, <1>12, <1>13, <1>14
     DEF Next, Use

\* connectionsMade is the number of chats formed, whatever uses run together, in every
\* behaviour.
THEOREM CountHolds == Spec => []CountIsHonest
<1>1. Init => TypeOK /\ CountIsHonest
  <2>1. ASSUME Init PROVE CountIsHonest
    <3>1. Counting = {} /\ formed = 0 /\ uncounted = 0 /\ port.made = 0
      BY <2>1 DEF Init, Counting, NewPort
    <3> QED
      BY <3>1, FS_EmptySet DEF CountIsHonest
  <2> QED
    BY <2>1, InitTypeOK
<1>2. TypeOK /\ CountIsHonest /\ [Next]_vars => TypeOK' /\ CountIsHonest'
  BY NextTypeOK, NextCount
<1> QED
  BY <1>1, <1>2, PTL DEF Spec

-----------------------------------------------------------------------------
(* The limit. While uses follow one another, a use that is past its guard has
   room for one more chat: the copy it checked agreed with what was formed, a copy
   that is written back agrees with it still, and an owner who changes the limit
   under it leaves room for it. *)

\* Uses that have not formed their chat yet and will not look at the limit again.
Committed == {"derive", "check", "lookup", "route", "oldLine", "copy", "addLine", "join", "add"}

\* Uses that are about to look at it on their copy.
Looking == {"guard", "permit", "limit"}

OneUse == \A j, k \in Loops : at[j] # "idle" /\ at[k] # "idle" => j = k

\* The use that was let through has room, and the copy another will check is up to date.
Room ==
  /\ formed - uncounted <= port.limit
  /\ \A k \in Loops : at[k] \in Committed => formed - uncounted < port.limit
  /\ \A k \in Loops : at[k] \in Looking =>
       /\ copy[k].made <= copy[k].limit
       /\ copy[k].made < copy[k].limit => formed - uncounted < port.limit

LimitInv == TypeOK /\ CountIsHonest /\ (~unlimited /\ ~overwritten => OneUse /\ Room)

\* The numbers the limit is about.
LEMMA Numbers ==
  ASSUME TypeOK
  PROVE  formed \in Nat /\ uncounted \in Nat /\ port.made \in Nat /\ port.limit \in Nat
  BY DEF TypeOK, RowsOK, HistoryOK, Ports

\* A step that forms no chat, leaves the limit alone and starts no use keeps it.
LEMMA RoomStays ==
  ASSUME LoopsOK, ~unlimited, OneUse, Room, UNCHANGED <<formed, uncounted>>,
         port'.limit = port.limit,
         \A j \in Loops : at'[j] # "idle" => at[j] # "idle",
         \A j \in Loops : at'[j] \in Committed => at[j] \in Committed,
         \A j \in Loops : at'[j] \in Looking =>
           at[j] \in Looking /\ copy'[j].made = copy[j].made /\ copy'[j].limit = copy[j].limit
  PROVE  OneUse' /\ Room'
<1>1. OneUse'
  BY DEF OneUse
<1>2. Room'
  BY DEF Room
<1> QED
  BY <1>1, <1>2

\* A limit that leaves room for all that is made and under way keeps it.
LEMMA RoomWithin ==
  ASSUME TypeOK, CountIsHonest, OneUse, Room, ~overwritten, port.exists,
         NEW n \in Limits, ~(n < port.made + Cardinality(Active)), port'.limit = n,
         UNCHANGED <<at, copy, formed, uncounted>>
  PROVE  OneUse' /\ Room'
<1>n. /\ formed \in Nat /\ uncounted \in Nat /\ port.made \in Nat /\ port.limit \in Nat
      /\ n \in Nat
  BY Numbers
<1>2. Counting \subseteq Active /\ IsFiniteSet(Active)
  BY FS_Subset DEF Counting, Active
<1>3. /\ Cardinality(Counting) <= Cardinality(Active)
      /\ Cardinality(Counting) \in Nat /\ Cardinality(Active) \in Nat
  BY <1>2, FS_Subset, CountType DEF Counting, Active
<1>4. formed - uncounted = port.made + Cardinality(Counting)
  <2>1. port.made + Cardinality(Counting) + uncounted = formed
    BY DEF CountIsHonest
  <2> QED
    BY <2>1, <1>3, <1>n
<1>5. n >= port.made + Cardinality(Active)
  BY <1>3, <1>n
<1>6. formed - uncounted <= n
  BY <1>3, <1>4, <1>5, <1>n
\* A use that has not formed its chat is under way and none is counted.
<1>7. ASSUME NEW k \in Loops, at[k] \in Committed \cup Looking PROVE formed - uncounted < n
  <2>1. Counting = {} /\ k \in Active
    BY <1>7 DEF Counting, Active, OneUse, Committed, Looking
  <2>2. Cardinality(Counting) = 0 /\ Cardinality(Active) # 0
    BY <2>1, <1>2, FS_EmptySet
  <2> QED
    BY <2>2, <1>3, <1>4, <1>5, <1>n
<1>8. Room'
  BY <1>6, <1>7 DEF Room
<1> QED
  BY <1>8 DEF OneUse

\* The check on the copy lets a use through only when there is room.
LEMMA RoomAdmits ==
  ASSUME LoopsOK, OneUse, Room, ~unlimited, NEW k \in Loops, at[k] \in Looking, Admit(k),
         UNCHANGED <<port, formed, uncounted>>
  PROVE  OneUse' /\ Room'
<1>1. CASE Throw(k)
  BY <1>1, RoomStays DEF Throw, Forget, Goto, LoopsOK, Committed, Looking
<1>2. CASE GoOn(k, "derive") /\ ~(copy[k].made = copy[k].limit)
  <2>1. at' = [at EXCEPT ![k] = "derive"] /\ copy' = copy
    BY <1>2 DEF GoOn, Goto, locals
  <2>2. copy[k].made \in Nat /\ copy[k].limit \in Nat
    BY DEF LoopsOK, Ports
  <2>3. formed - uncounted < port.limit
    BY <1>2, <2>2 DEF Room
  <2>4. OneUse'
    BY <2>1 DEF OneUse, LoopsOK, Looking
  <2>5. Room'
    BY <2>1, <2>3 DEF Room, LoopsOK, Looking
  <2> QED
    BY <2>4, <2>5
<1> QED
  BY <1>1, <1>2 DEF Admit

\* Every action keeps the invariant.
LEMMA NextLimit == LimitInv /\ [Next]_vars => LimitInv'
<1> SUFFICES ASSUME LimitInv, [Next]_vars, ~unlimited', ~overwritten' PROVE OneUse' /\ Room'
  BY NextTypeOK, NextCount DEF LimitInv
<1>t. LoopsOK /\ RowsOK /\ HistoryOK /\ TypeOK /\ CountIsHonest
  BY DEF TypeOK, LimitInv
<1>n. formed \in Nat /\ uncounted \in Nat /\ port.made \in Nat /\ port.limit \in Nat
  BY <1>t, Numbers
<1>u. /\ UNCHANGED unlimited \/ (\E k \in Loops, l \in Lines : Receive(k, l))
                             \/ (\E n \in Limits : SetLimit(n)) \/ SetPermissions
      /\ UNCHANGED overwritten \/ (\E k \in Loops : WriteBack(copy[k])) \/ WriteBack(screen)
  BY DEF Next, Use, MakeLine, Disconnect, Receive, Load, Guard, CreatePermissions, CheckLimit,
         Derive, Check, LookUpChat, ReadRoute, ReadOldLine, CopyKeys, AddLine, JoinLine,
         DeleteOldLine, AddChat, Count, Drop, PauseRequest, PauseRow, OpenScreen, CloseScreen,
         SetLimit, SetPermissions, CleanRow, CleanKeys, Crash, vars, history
<1>w. ~unlimited /\ ~overwritten
  <2>1. \A k \in Loops, l \in Lines : Receive(k, l) => ~unlimited
    BY Zenon DEF Receive
  <2>2. (\A n \in Limits : SetLimit(n) => ~unlimited) /\ (SetPermissions => ~unlimited)
    BY Zenon DEF SetLimit, SetPermissions
  <2> QED
    BY <1>u, <2>1, <2>2, WriteBackRecords
<1>r. OneUse /\ Room
  BY <1>w DEF LimitInv
<1>1. ASSUME NEW l \in Lines, MakeLine(l) \/ Disconnect(l) PROVE OneUse' /\ Room'
  BY <1>1, <1>t, <1>w, <1>r, RoomStays DEF MakeLine, Disconnect, rows, locals, history
<1>2. ASSUME NEW k \in Loops, NEW l \in Lines, Receive(k, l) PROVE OneUse' /\ Room'
  \* No other use is under way.
  <2>1. \A j \in Loops : at[j] = "idle"
    BY <1>2 DEF Receive, Active
  <2>2. at' = [at EXCEPT ![k] = "load"] /\ UNCHANGED <<port, formed, uncounted>>
    BY <1>2 DEF Receive, Goto, rows
  <2>3. OneUse'
    BY <2>1, <2>2, <1>t DEF OneUse, LoopsOK
  <2>4. Room'
    BY <2>1, <2>2, <1>t, <1>r DEF Room, LoopsOK, Committed, Looking
  <2> QED
    BY <2>3, <2>4
<1>3. ASSUME NEW k \in Loops, Load(k) PROVE OneUse' /\ Room'
  <2>1. CASE port.exists
    <3>1. /\ at[k] = "load" /\ at' = [at EXCEPT ![k] = "guard"]
          /\ copy' = [copy EXCEPT ![k] = port] /\ UNCHANGED <<port, formed, uncounted>>
      BY <1>3, <2>1 DEF Load, Goto, rows, history
    \* What was formed was counted: no other use is under way.
    <3>2. Counting = {}
      BY <3>1, <1>r DEF Counting, OneUse
    <3>3. port.made = formed - uncounted
      BY <3>2, <2>1, <1>t, <1>n, <1>w, FS_EmptySet DEF CountIsHonest
    <3>4. OneUse'
      BY <3>1, <1>t, <1>r DEF OneUse, LoopsOK
    <3>5. \A j \in Loops : at'[j] # "idle" => j = k
      BY <3>1, <1>t, <1>r DEF OneUse, LoopsOK
    <3>6. copy'[k] = port /\ at'[k] = "guard"
      BY <3>1, <1>t DEF LoopsOK
    <3>7. Room'
      BY <3>1, <3>3, <3>5, <3>6, <1>t, <1>n, <1>r DEF Room, Committed, Looking
    <3> QED
      BY <3>4, <3>7
  <2>2. CASE ~port.exists
    BY <1>3, <2>2, <1>t, <1>w, <1>r, RoomStays
       DEF Load, Finish, Forget, Goto, LoopsOK, Committed, Looking, rows, history
  <2> QED
    BY <2>1, <2>2
<1>4. ASSUME NEW k \in Loops, Guard(k) PROVE OneUse' /\ Room'
  <2>0. UNCHANGED <<port, formed, uncounted>> /\ at[k] = "guard"
    BY <1>4 DEF Guard, rows, history
  <2>1. CASE Finish(k)
    BY <2>0, <2>1, <1>t, <1>w, <1>r, RoomStays
       DEF Finish, Forget, Goto, LoopsOK, Committed, Looking
  <2>2. CASE GoOn(k, "permit")
    BY <2>0, <2>2, <1>t, <1>w, <1>r, RoomStays
       DEF GoOn, Goto, LoopsOK, Committed, Looking, locals
  <2>3. CASE Admit(k)
    BY <2>0, <2>3, <1>t, <1>w, <1>r, RoomAdmits DEF Looking
  <2> QED
    BY <1>4, <2>1, <2>2, <2>3 DEF Guard
<1>4a. ASSUME NEW k \in Loops, CreatePermissions(k) PROVE OneUse' /\ Room'
  <2>1. /\ at[k] = "permit" /\ at' = [at EXCEPT ![k] = "limit"] /\ WriteBack(copy[k])
        /\ copy' = [copy EXCEPT ![k].permitted = TRUE] /\ UNCHANGED <<formed, uncounted>>
    BY <1>4a DEF CreatePermissions, Goto
  <2>2. \A j \in Loops : at'[j] # "idle" => j = k
    BY <2>1, <1>t, <1>r DEF OneUse, LoopsOK
  <2>3. /\ copy[k].made \in Nat /\ copy[k].limit \in Nat
        /\ copy'[k].made = copy[k].made /\ copy'[k].limit = copy[k].limit
    BY <2>1, <1>t DEF LoopsOK, Ports
  <2>4. copy[k].made <= copy[k].limit
    BY <2>1, <1>r DEF Room, Looking
  <2>5. /\ formed - uncounted <= port'.limit
        /\ copy[k].made < copy[k].limit => formed - uncounted < port'.limit
    <3>1. CASE port.exists
      \* The copy is not stale, and what was formed was counted.
      <4>1. port.made = copy[k].made /\ port'.limit = copy[k].limit
        BY <2>1, <3>1, <1>t, WriteBackRecords DEF WriteBack, LoopsOK, Ports
      <4>2. Counting = {}
        BY <2>1, <1>r DEF Counting, OneUse
      <4>3. port.made = formed - uncounted
        BY <4>2, <3>1, <1>t, <1>n, <1>w, FS_EmptySet DEF CountIsHonest
      <4> QED
        BY <4>1, <4>3, <2>3, <2>4
    <3>2. CASE ~port.exists
      BY <3>2, <2>1, <1>r DEF WriteBack, Room, Looking
    <3> QED
      BY <3>1, <3>2
  <2>6. at'[k] = "limit"
    BY <2>1, <1>t DEF LoopsOK
  <2>7. Room'
    BY <2>1, <2>2, <2>3, <2>4, <2>5, <2>6 DEF Room, Committed, Looking
  <2> QED
    BY <2>2, <2>7 DEF OneUse
<1>4b. ASSUME NEW k \in Loops, CheckLimit(k) PROVE OneUse' /\ Room'
  BY <1>4b, <1>t, <1>w, <1>r, RoomAdmits DEF CheckLimit, Looking, rows, history
<1>5. ASSUME NEW k \in Loops,
             \/ Derive(k) \/ Check(k) \/ LookUpChat(k) \/ ReadRoute(k) \/ ReadOldLine(k)
             \/ CopyKeys(k) \/ AddLine(k)
      PROVE  OneUse' /\ Room'
  <2>1. UNCHANGED <<port, formed, uncounted>>
    BY <1>5 DEF Derive, Check, LookUpChat, ReadRoute, ReadOldLine, CopyKeys, AddLine, rows, history
  <2>2. /\ at[k] \in Committed
        /\ \A j \in Loops : at'[j] # at[j] => j = k /\ at'[j] \in Committed \cup {"drop"}
        /\ \A j \in Loops : j # k => copy'[j] = copy[j]
    BY <1>5, <1>t
       DEF Derive, Check, LookUpChat, ReadRoute, ReadOldLine, CopyKeys, AddLine, Throw, Forget,
           GoOn, Goto, LoopsOK, Committed, locals
  <2> QED
    BY <2>1, <2>2, <1>t, <1>w, <1>r, RoomStays DEF Committed, Looking
<1>6. ASSUME NEW k \in Loops, JoinLine(k) \/ AddChat(k) PROVE OneUse' /\ Room'
  <2>1. /\ at[k] \in Committed /\ port' = port /\ formed' = formed + 1 /\ uncounted' = uncounted
    BY <1>6 DEF JoinLine, AddChat, Committed
  <2>2. /\ \A j \in Loops : j # k => at'[j] = at[j]
        /\ at'[k] \in {"deleteOld", "count"}
    BY <1>6, <1>t DEF JoinLine, AddChat, Goto, LoopsOK
  <2>3. \A j \in Loops : at'[j] # "idle" => j = k
    BY <2>1, <2>2, <1>r DEF OneUse, Committed
  <2>4. formed - uncounted < port.limit
    BY <2>1, <1>r DEF Room
  <2>5. formed' - uncounted' <= port'.limit
    BY <2>1, <2>4, <1>n
  <2> QED
    BY <2>2, <2>3, <2>5 DEF OneUse, Room, Committed, Looking
<1>7. ASSUME NEW k \in Loops, DeleteOldLine(k) PROVE OneUse' /\ Room'
  BY <1>7, <1>t, <1>w, <1>r, RoomStays
     DEF DeleteOldLine, Goto, LoopsOK, Committed, Looking, history
<1>8. ASSUME NEW k \in Loops, Count(k) \/ Drop(k) PROVE OneUse' /\ Room'
  <2>1. port'.limit = port.limit /\ UNCHANGED <<formed, uncounted>>
    BY <1>8, <1>t DEF Count, Drop, RowsOK, Ports, history
  <2>2. Finish(k) /\ at[k] \in {"count", "drop"}
    BY <1>8 DEF Count, Drop
  <2> QED
    BY <2>1, <2>2, <1>t, <1>w, <1>r, RoomStays
       DEF Finish, Forget, Goto, LoopsOK, Committed, Looking
<1>9. ASSUME NEW n \in Limits, SetLimit(n) PROVE OneUse' /\ Room'
  <2>0. UNCHANGED <<at, copy, formed, uncounted>>
    BY <1>9 DEF SetLimit, locals
  <2>1. CASE port.exists
    <3>1. port'.limit = n /\ ~(n < port.made + Cardinality(Active))
      BY <1>9, <2>1, <1>t DEF SetLimit, RowsOK, Ports
    <3> QED
      BY <2>0, <2>1, <3>1, <1>t, <1>w, <1>r, RoomWithin
  <2>2. CASE ~port.exists
    BY <1>9, <2>0, <2>2, <1>t, <1>w, <1>r, RoomStays DEF SetLimit, RowsOK, Ports
  <2> QED
    BY <2>1, <2>2
<1>9a. CASE SetPermissions
  <2>0. UNCHANGED <<at, copy, formed, uncounted>>
    BY <1>9a DEF SetPermissions, locals
  <2>1. CASE port.exists
    <3>1. /\ screen.limit \in Limits /\ port'.limit = screen.limit
          /\ ~(screen.limit < port.made + Cardinality(Active))
      BY <1>9a, <2>1, <1>t DEF SetPermissions, WriteBack, TypeOK, OwnerOK, Ports
    <3> QED
      BY <2>0, <2>1, <3>1, <1>t, <1>w, <1>r, RoomWithin
  <2>2. CASE ~port.exists
    BY <1>9a, <2>0, <2>2, <1>t, <1>w, <1>r, RoomStays DEF SetPermissions, WriteBack
  <2> QED
    BY <2>1, <2>2
<1>9b. CASE OpenScreen \/ CloseScreen
  BY <1>9b, <1>t, <1>w, <1>r, RoomStays DEF OpenScreen, CloseScreen, rows, locals, history
<1>10. CASE PauseRequest \/ PauseRow \/ CleanRow \/ CleanKeys
  BY <1>10, <1>t, <1>w, <1>r, RoomStays
     DEF PauseRequest, PauseRow, CleanRow, CleanKeys, RowsOK, Ports, rows, locals, history
<1>11. CASE Crash
  <2>1. \A j \in Loops : at'[j] = "idle"
    BY <1>11 DEF Crash
  <2>2. port' = port /\ formed' = formed /\ uncounted' = uncounted + Cardinality(Counting)
    BY <1>11 DEF Crash, Counting, rows
  <2>3. Cardinality(Counting) \in Nat
    BY CountType DEF Counting
  <2>4. formed' - uncounted' <= port'.limit
    BY <2>2, <2>3, <1>n, <1>r DEF Room
  <2> QED
    BY <2>1, <2>4 DEF OneUse, Room, Committed, Looking
<1>12. CASE UNCHANGED vars
  BY <1>12, <1>t, <1>w, <1>r, RoomStays DEF vars, rows, locals, history
<1> QED
  BY <1>1, <1>2, <1>3, <1>4, <1>4a, <1>4b, <1>5, <1>6, <1>7, <1>8, <1>9, <1>9a, <1>9b, <1>10,
     <1>11, <1>12 DEF Next, Use

\* While uses follow one another, no limit is set or written back below what is made or
\* under way and no copy is written back over a newer count, the guard on the loaded copy and the count in place keep the number of
\* chats within the limit, for any limit and any number of readers; what crashes left
\* uncounted comes on top.
THEOREM LimitKept == Spec => []LimitHolds
<1>1. Init => LimitInv
  <2>1. ASSUME Init PROVE CountIsHonest /\ OneUse /\ Room
    <3>1. Counting = {} /\ formed = 0 /\ uncounted = 0 /\ port.made = 0 /\ port.limit \in Nat
      BY <2>1 DEF Init, Counting, NewPort
    <3>2. CountIsHonest
      BY <3>1, FS_EmptySet DEF CountIsHonest
    <3>3. OneUse /\ Room
      BY <2>1, <3>1 DEF Init, OneUse, Room, Committed, Looking
    <3> QED
      BY <3>2, <3>3
  <2> QED
    BY <2>1, InitTypeOK DEF LimitInv
<1>2. LimitInv => LimitHolds
  BY DEF LimitInv, Room, LimitHolds
<1> QED
  BY <1>1, <1>2, NextLimit, PTL DEF Spec
=============================================================================
