------------------------------ MODULE SuperPort ------------------------------
(***************************************************************************)
(* A superport: one port through which many peers may form a chat with its *)
(* owner, up to a limit the owner may change.  The server makes a line for *)
(* every reader and a NewChat message about it; each message is handled by *)
(* use() on a copy of the port's row, loaded for it.                       *)
(*                                                                         *)
(* All uses share two rows: that of the port, with the number of           *)
(* connections made, and that of its keys, in which the secret shared with *)
(* one peer is derived and checked before it is copied for the new line.   *)
(* A port from before there were permissions has its whole row written     *)
(* back, from the copy, when a use or the settings screen gives it some.   *)
(***************************************************************************)
EXTENDS Integers, FiniteSets

CONSTANTS Lines,       \* lines the server may make, each with its NewChat message
          Peers,
          PeerOf,      \* the reader a line was made for
          Loops,       \* loops over received messages that may be under way together
          Earlier,     \* the line of an earlier chat with its peer, or Nobody
          FirstLimit,  \* the limit the port was made with
          Limits,      \* limits the owner may choose
          WithPermissions,  \* FALSE of a port from before there were permissions
          Nobody,      \* no line, no peer
          MaxIncidents \* bound: crashes, lost acknowledgements, disconnections, and how often
                       \* the owner opens the settings or deletes the port, together

ASSUME SuperPortAssumption == /\ PeerOf \in [Lines -> Peers]
                              /\ Nobody \notin Lines \cup Peers
                              /\ Earlier \in Lines \cup {Nobody}
                              /\ Limits \subseteq Nat /\ FirstLimit \in Limits
                              /\ WithPermissions \in BOOLEAN
                              /\ IsFiniteSet(Loops) /\ MaxIncidents \in Nat

\* A chat is named by the message and the loop that added it.
Chats == Lines \X Loops

VARIABLES
  port,         \* row of superPorts: [exists, limit, made, paused, permitted]
  keys,         \* its row of cryptoData: [exists, secret], the peer the secret is shared with
  line,         \* rows of lines
  lineKey,      \* the peer whose secret is in the keys made for each line
  chat,         \* connections: the line each chat is on
  closed,       \* the server makes no more lines: it was paused or deleted there
  made,         \* lines the server has made
  pending,      \* NewChat messages it has not been told to forget
  pausing,      \* how far the un-awaited pause() has come
  cleaning,     \* whether clean() still has the keys to delete
  open,         \* whether the settings screen is open ...
  screen,       \* ... and the copy of the port's row it works on
  at, cur,      \* where each loop is suspended, in the use() of which line
  copy,         \* its loaded copy of the port's row
  found,        \* associatedChatId
  route,        \* lineData.lineId, the line of that chat
  held,         \* the secret it copied
  incidents,    \* what MaxIncidents counts
  formed,       \* history: how often a chat was formed or put on a new line ...
  uncounted,    \* ... and how often a crash came before that was counted
  unlimited,    \* history: two uses were under way together, or a limit was set or
                \* written back below what was made or under way
  overwritten,  \* history: a copy was written back over a count that had changed since
  mixed         \* history: lines for which another secret was derived after their check

rows    == <<port, keys, line, lineKey, chat>>
server  == <<closed, made, pending>>
owner   == <<pausing, cleaning, open, screen>>
locals  == <<cur, copy, found, route, held>>
history == <<formed, uncounted, unlimited, overwritten, mixed>>
vars    == <<rows, server, owner, at, locals, incidents, history>>

Places == {"idle", "load", "guard", "permit", "limit", "derive", "check", "lookup", "route",
           "oldLine", "copy", "addLine", "join", "deleteOld", "add", "count", "drop"}
Ports  == [exists : BOOLEAN, limit : Limits, made : Nat, paused : BOOLEAN, permitted : BOOLEAN]

\* The rows of the port, the keys, the lines and the connections.
RowsOK ==
  /\ port \in Ports
  /\ keys \in [exists : BOOLEAN, secret : Peers \cup {Nobody}]
  /\ line \in [Lines -> {"none", "open", "cut"}]
  /\ lineKey \in [Lines -> Peers \cup {Nobody}]
  /\ chat \in [Chats -> Lines \cup {Nobody}]

ServerOK ==
  /\ closed \in BOOLEAN
  /\ made \subseteq Lines /\ pending \subseteq made

OwnerOK ==
  /\ pausing \in {"no", "api", "local"}
  /\ cleaning \in BOOLEAN
  /\ open \in BOOLEAN /\ screen \in Ports

\* A use that is under way has the line, and where it needs one the chat, it works on.
LoopsOK ==
  /\ at \in [Loops -> Places]
  /\ cur \in [Loops -> Lines \cup {Nobody}]
  /\ \A k \in Loops : at[k] # "idle" => cur[k] \in Lines
  /\ copy \in [Loops -> Ports]
  /\ found \in [Loops -> Chats \cup {Nobody}]
  /\ \A k \in Loops : at[k] \in {"route", "join"} => found[k] \in Chats
  /\ route \in [Loops -> Lines \cup {Nobody}]
  /\ held \in [Loops -> Peers \cup {Nobody}]

HistoryOK ==
  /\ incidents \in 0..MaxIncidents
  /\ formed \in Nat /\ uncounted \in Nat
  /\ unlimited \in BOOLEAN /\ overwritten \in BOOLEAN
  /\ mixed \subseteq Lines

TypeOK == RowsOK /\ ServerOK /\ OwnerOK /\ LoopsOK /\ HistoryOK

NewPort(n) == [exists |-> TRUE, limit |-> n, made |-> 0, paused |-> FALSE,
               permitted |-> WithPermissions]

\* What a copy that nobody will read holds.
Unread == NewPort(FirstLimit)

\* The port has not been used; there may be an earlier chat with one of the readers.
Init ==
  /\ port = NewPort(FirstLimit)
  /\ keys = [exists |-> TRUE, secret |-> Nobody]
  /\ \E s \in {"open", "cut"} : line = [l \in Lines |-> IF l = Earlier THEN s ELSE "none"]
  /\ lineKey = [l \in Lines |-> IF l = Earlier THEN PeerOf[l] ELSE Nobody]
  /\ \E k \in Loops : chat = [c \in Chats |-> IF c = <<Earlier, k>> THEN Earlier ELSE Nobody]
  /\ closed = FALSE /\ made = Lines \cap {Earlier} /\ pending = {}
  /\ pausing = "no" /\ cleaning = FALSE /\ open = FALSE /\ screen = Unread
  /\ at = [k \in Loops |-> "idle"] /\ cur = [k \in Loops |-> Nobody]
  /\ copy = [k \in Loops |-> Unread]
  /\ found = [k \in Loops |-> Nobody] /\ route = [k \in Loops |-> Nobody]
  /\ held = [k \in Loops |-> Nobody]
  /\ incidents = 0 /\ formed = 0 /\ uncounted = 0
  /\ unlimited = FALSE /\ overwritten = FALSE /\ mixed = {}

-----------------------------------------------------------------------------
(* Helpers *)

\* One of the things MaxIncidents counts happens.
Incident == incidents < MaxIncidents /\ incidents' = incidents + 1

Goto(k, place) == at' = [at EXCEPT ![k] = place]

Peer(k) == PeerOf[cur[k]]

\* Loops in the middle of a use().
Active == {k \in Loops : at[k] # "idle"}

\* The locals of a use that will read them no more.
Forget(k) ==
  /\ copy' = [copy EXCEPT ![k] = Unread]
  /\ found' = [found EXCEPT ![k] = Nobody] /\ route' = [route EXCEPT ![k] = Nobody]
  /\ held' = [held EXCEPT ![k] = Nobody]

\* The message is done with; the acknowledgement may be lost.
Finish(k) ==
  /\ \/ pending' = pending \ {cur[k]} /\ UNCHANGED incidents
     \/ pending' = pending /\ Incident
  /\ Goto(k, "idle")
  /\ cur' = [cur EXCEPT ![k] = Nobody]
  /\ Forget(k)
  /\ UNCHANGED <<closed, made>>

\* An error is thrown: only the catch block is left.
Throw(k) == Goto(k, "drop") /\ Forget(k) /\ UNCHANGED cur

\* Or the use goes on.
GoOn(k, place) == Goto(k, place) /\ UNCHANGED locals

\* this.pause(), not awaited; one that is under way stands for a second one too,
\* because nothing resumes a superport.
StartPause == pausing' = IF pausing = "no" THEN "api" ELSE pausing

ChatsWith(peer) == {c \in Chats : chat[c] # Nobody /\ PeerOf[chat[c]] = peer}

-----------------------------------------------------------------------------
(* The server and the peers *)

\* A reader uses the superport: the server makes a line and tells the owner.
MakeLine(l) ==
  /\ ~closed /\ l \notin made
  /\ made' = made \cup {l} /\ pending' = pending \cup {l}
  /\ UNCHANGED <<rows, closed, owner, at, locals, incidents, history>>

\* A chat is disconnected by either side.
Disconnect(l) ==
  /\ Incident
  /\ line[l] = "open" /\ \E c \in Chats : chat[c] = l
  /\ line' = [line EXCEPT ![l] = "cut"]
  /\ UNCHANGED <<port, keys, lineKey, chat, server, owner, at, locals, history>>

-----------------------------------------------------------------------------
(* use() *)

\* Mutant: the handler does not pass the line's id on.
ReceiveWithoutId(k, l) ==
  /\ at[k] = "idle" /\ l \in pending
  /\ Goto(k, "load")
  /\ UNCHANGED <<rows, server, owner, locals, incidents, history>>

\* NewChatOverSuperport.performAction
Receive(k, l) ==
  /\ at[k] = "idle" /\ l \in pending
  /\ cur' = [cur EXCEPT ![k] = l]
  /\ Goto(k, "load")
  /\ unlimited' = (unlimited \/ Active # {})
  /\ UNCHANGED <<rows, server, owner, copy, found, route, held, incidents, formed, uncounted,
                 overwritten, mixed>>

\* fromPortId: the copy every later check is made on, or NoSuchSuperPort.
Load(k) ==
  /\ at[k] = "load"
  /\ IF port.exists
     THEN /\ copy' = [copy EXCEPT ![k] = port]
          /\ Goto(k, "guard")
          /\ UNCHANGED <<server, cur, found, route, held>>
          /\ UNCHANGED incidents
     ELSE Finish(k)
  /\ UNCHANGED <<rows, owner, history>>

\* Mutant: the number of connections made is not looked at.
AdmitPausedOnly(k) ==
  IF copy[k].paused THEN StartPause /\ Throw(k)
                    ELSE GoOn(k, "derive") /\ UNCHANGED pausing

\* On the loaded copy, the pause and the limit.
Admit(k) ==
  IF copy[k].paused \/ copy[k].made = copy[k].limit
  THEN StartPause /\ Throw(k)
  ELSE GoOn(k, "derive") /\ UNCHANGED pausing

\* checkLineExists; a port that has permissions is looked at at once.
Guard(k) ==
  /\ at[k] = "guard"
  /\ \/ line[cur[k]] # "none" /\ Finish(k) /\ UNCHANGED pausing
     \/ /\ line[cur[k]] = "none"
        /\ IF copy[k].permitted THEN Admit(k) ELSE GoOn(k, "permit") /\ UNCHANGED pausing
        /\ UNCHANGED <<server, incidents>>
  /\ UNCHANGED <<rows, cleaning, open, screen, history>>

\* createPermissions() of a loaded copy: updateSuperportData writes all of the copy.
WriteBack(old) ==
  /\ port' = IF port.exists THEN [old EXCEPT !.permitted = TRUE] ELSE port
  /\ overwritten' = (overwritten \/ (port.exists /\ old.made # port.made))

CreatePermissions(k) ==
  /\ at[k] = "permit"
  /\ WriteBack(copy[k])
  /\ copy' = [copy EXCEPT ![k].permitted = TRUE]
  /\ Goto(k, "limit")
  /\ UNCHANGED <<keys, line, lineKey, chat, server, owner, cur, found, route, held, incidents,
                 formed, uncounted, unlimited, mixed>>

CheckLimit(k) ==
  /\ at[k] = "limit"
  /\ Admit(k)
  /\ UNCHANGED <<rows, server, cleaning, open, screen, incidents, history>>

\* updateSharedSecret writes the row that all uses share.
Derive(k) ==
  /\ at[k] = "derive"
  /\ IF keys.exists
     THEN /\ keys' = [keys EXCEPT !.secret = Peer(k)]
          /\ mixed' = mixed \cup {cur[j] : j \in {i \in Loops \ {k} :
                        at[i] \in {"lookup", "route", "oldLine", "copy"}}}
          /\ GoOn(k, "check")
     ELSE Throw(k) /\ UNCHANGED <<keys, mixed>>
  /\ UNCHANGED <<port, line, lineKey, chat, server, owner, incidents, formed, uncounted,
                 unlimited, overwritten>>

\* Mutant: the content of the intro message is not verified.
Unchecked(k) ==
  /\ at[k] = "check"
  /\ (keys.exists /\ GoOn(k, "lookup")) \/ Throw(k)
  /\ UNCHANGED <<rows, server, owner, incidents, history>>

\* verifyIntroMessage decrypts with what the row holds by now; isUserBlocked asks
\* whether the owner has blocked this peer.
Check(k) ==
  /\ at[k] = "check"
  /\ (keys.exists /\ keys.secret = Peer(k) /\ GoOn(k, "lookup")) \/ Throw(k)
  /\ UNCHANGED <<rows, server, owner, incidents, history>>

\* getChatIdFromPairHash
LookUpChat(k) ==
  /\ at[k] = "lookup"
  /\ IF ChatsWith(Peer(k)) = {}
     THEN Goto(k, "copy") /\ UNCHANGED found
     ELSE /\ \E c \in ChatsWith(Peer(k)) : found' = [found EXCEPT ![k] = c]
          /\ Goto(k, "route")
  /\ UNCHANGED <<rows, server, owner, cur, copy, route, held, incidents, history>>

ReadRoute(k) ==
  /\ at[k] = "route"
  /\ route' = [route EXCEPT ![k] = chat[found[k]]]
  /\ Goto(k, "oldLine")
  /\ UNCHANGED <<rows, server, owner, cur, copy, found, held, incidents, history>>

\* Only a chat whose line is disconnected is put on the new one.
ReadOldLine(k) ==
  /\ at[k] = "oldLine"
  /\ IF line[route[k]] = "cut" THEN GoOn(k, "copy") ELSE Throw(k)
  /\ UNCHANGED <<rows, server, owner, incidents, history>>

\* superportCryptoDriver.getData()
CopyKeys(k) ==
  /\ at[k] = "copy"
  /\ IF keys.exists
     THEN /\ held' = [held EXCEPT ![k] = keys.secret]
          /\ Goto(k, "addLine")
          /\ UNCHANGED <<cur, copy, found, route>>
     ELSE Throw(k)
  /\ UNCHANGED <<rows, server, owner, incidents, history>>

\* An INSERT is refused when the line has a row.
AddLine(k) ==
  /\ at[k] = "addLine"
  /\ IF line[cur[k]] = "none"
     THEN /\ line' = [line EXCEPT ![cur[k]] = "open"]
          /\ lineKey' = [lineKey EXCEPT ![cur[k]] = held[k]]
     ELSE UNCHANGED <<line, lineKey>>
  /\ Goto(k, IF found[k] = Nobody THEN "add" ELSE "join")
  /\ held' = [held EXCEPT ![k] = Nobody]
  /\ UNCHANGED <<port, keys, chat, server, owner, cur, copy, found, route, incidents, history>>

JoinLine(k) ==
  /\ at[k] = "join"
  /\ chat' = [chat EXCEPT ![found[k]] = cur[k]]
  /\ formed' = formed + 1
  /\ found' = [found EXCEPT ![k] = Nobody]
  /\ Goto(k, "deleteOld")
  /\ UNCHANGED <<port, keys, line, lineKey, server, owner, cur, copy, route, held, incidents,
                 uncounted, unlimited, overwritten, mixed>>

\* cleanDeleteLine of the replaced line
DeleteOldLine(k) ==
  /\ at[k] = "deleteOld"
  /\ line' = [line EXCEPT ![route[k]] = "none"]
  /\ lineKey' = [lineKey EXCEPT ![route[k]] = Nobody]
  /\ route' = [route EXCEPT ![k] = Nobody]
  /\ Goto(k, "count")
  /\ UNCHANGED <<port, keys, chat, server, owner, cur, copy, found, held, incidents, history>>

AddChat(k) ==
  /\ at[k] = "add"
  /\ chat' = [chat EXCEPT ![<<cur[k], k>>] = cur[k]]
  /\ formed' = formed + 1
  /\ Goto(k, "count")
  /\ UNCHANGED <<port, keys, line, lineKey, server, owner, locals, incidents, uncounted,
                 unlimited, overwritten, mixed>>

\* Mutant: the count is written from the copy instead of incremented in place.
CountFromCopy(k) ==
  /\ at[k] = "count"
  /\ port' = [port EXCEPT !.made = IF port.exists THEN copy[k].made + 1 ELSE @]
  /\ IF copy[k].made + 1 = copy[k].limit THEN StartPause ELSE UNCHANGED pausing
  /\ Finish(k)
  /\ UNCHANGED <<keys, line, lineKey, chat, cleaning, open, screen, history>>

\* incrementConnectionsMade in place, and on the copy, which decides on the pause.
Count(k) ==
  /\ at[k] = "count"
  /\ port' = [port EXCEPT !.made = IF port.exists THEN @ + 1 ELSE @]
  /\ IF copy[k].made + 1 = copy[k].limit THEN StartPause ELSE UNCHANGED pausing
  /\ Finish(k)
  /\ UNCHANGED <<keys, line, lineKey, chat, cleaning, open, screen, history>>

\* The catch block: cleanDeleteLine of whatever row the new line has.
Drop(k) ==
  /\ at[k] = "drop"
  /\ line' = [line EXCEPT ![cur[k]] = "none"]
  /\ lineKey' = [lineKey EXCEPT ![cur[k]] = Nobody]
  /\ Finish(k)
  /\ UNCHANGED <<port, keys, chat, owner, history>>

Use(k) ==
  \/ Load(k) \/ Guard(k) \/ CreatePermissions(k) \/ CheckLimit(k) \/ Derive(k) \/ Check(k)
  \/ LookUpChat(k) \/ ReadRoute(k) \/ ReadOldLine(k) \/ CopyKeys(k)
  \/ AddLine(k) \/ JoinLine(k) \/ DeleteOldLine(k) \/ AddChat(k) \/ Count(k) \/ Drop(k)

-----------------------------------------------------------------------------
(* pause(), which nobody awaits; the settings screen; clean() *)

PauseRequest ==
  /\ pausing = "api"
  /\ \/ closed' = TRUE /\ pausing' = "local"
     \/ closed' \in {closed, TRUE} /\ pausing' = "no"
  /\ UNCHANGED <<rows, made, pending, cleaning, open, screen, at, locals, incidents, history>>

PauseRow ==
  /\ pausing = "local"
  /\ port' = [port EXCEPT !.paused = IF port.exists THEN TRUE ELSE @]
  /\ pausing' = "no"
  /\ UNCHANGED <<keys, line, lineKey, chat, server, cleaning, open, screen, at, locals,
                 incidents, history>>

\* The settings screen works on a copy of its own, loaded with the list of ports.
OpenScreen ==
  /\ Incident
  /\ ~open /\ port.exists
  /\ open' = TRUE /\ screen' = port
  /\ UNCHANGED <<rows, server, pausing, cleaning, at, locals, history>>

CloseScreen ==
  /\ open
  /\ open' = FALSE /\ screen' = Unread
  /\ UNCHANGED <<rows, server, pausing, cleaning, at, locals, incidents, history>>

\* updateSuperPortLimit compares with the copy and writes the limit alone.
SetLimit(n) ==
  /\ open /\ n >= screen.made
  /\ port' = [port EXCEPT !.limit = IF port.exists THEN n ELSE @]
  /\ unlimited' = (unlimited \/ n < port.made + Cardinality(Active))
  /\ UNCHANGED <<keys, line, lineKey, chat, server, owner, at, locals, incidents, formed,
                 uncounted, overwritten, mixed>>

\* updateSuperPortPermissions, of a copy that has none.
SetPermissions ==
  /\ open /\ ~screen.permitted
  /\ WriteBack(screen)
  /\ screen' = [screen EXCEPT !.permitted = TRUE]
  /\ unlimited' = (unlimited \/ screen.limit < port.made + Cardinality(Active))
  /\ UNCHANGED <<keys, line, lineKey, chat, server, pausing, cleaning, open, at, locals,
                 incidents, formed, uncounted, mixed>>

\* clean(): the server first, then the row ...
CleanRow ==
  /\ Incident
  /\ port.exists
  /\ closed' = TRUE
  /\ port' = [port EXCEPT !.exists = FALSE]
  /\ cleaning' = TRUE
  /\ UNCHANGED <<keys, line, lineKey, chat, made, pending, pausing, open, screen, at, locals,
                 history>>

\* ... and at last the keys.
CleanKeys ==
  /\ cleaning
  /\ keys' = [exists |-> FALSE, secret |-> Nobody]
  /\ cleaning' = FALSE
  /\ UNCHANGED <<port, line, lineKey, chat, server, pausing, open, screen, at, locals, incidents,
                 history>>

-----------------------------------------------------------------------------
\* The process is killed: the database and the server's queue survive.
Crash ==
  /\ Incident
  /\ uncounted' = uncounted + Cardinality({k \in Loops : at[k] \in {"deleteOld", "count"}})
  /\ at' = [k \in Loops |-> "idle"] /\ cur' = [k \in Loops |-> Nobody]
  /\ copy' = [k \in Loops |-> Unread]
  /\ found' = [k \in Loops |-> Nobody] /\ route' = [k \in Loops |-> Nobody]
  /\ held' = [k \in Loops |-> Nobody]
  /\ pausing' = "no" /\ cleaning' = FALSE /\ open' = FALSE /\ screen' = Unread
  /\ UNCHANGED <<rows, server, formed, unlimited, overwritten, mixed>>

Next ==
  \/ \E l \in Lines : MakeLine(l) \/ Disconnect(l)
  \/ \E k \in Loops : Use(k) \/ \E l \in Lines : Receive(k, l)
  \/ PauseRequest \/ PauseRow
  \/ OpenScreen \/ CloseScreen \/ SetPermissions \/ \E n \in Limits : SetLimit(n)
  \/ CleanRow \/ CleanKeys
  \/ Crash

Spec == Init /\ [][Next]_vars

-----------------------------------------------------------------------------
\* Uses that have formed their chat and not counted it yet.
Counting == {k \in Loops : at[k] \in {"deleteOld", "count"}}

\* connectionsMade is the number of times a chat was formed, whatever uses run
\* together, and falls behind only by uses killed between the two statements, unless
\* permissions were created from a copy whose count had been overtaken.
CountIsHonest ==
  port.exists /\ ~overwritten => port.made + Cardinality(Counting) + uncounted = formed

\* As long as uses follow one another, no more chats are formed than the limit allows,
\* although pause() is not awaited and may fail, messages come again, permissions are
\* created from a copy and the process is killed; each crash between a chat and its count
\* allows one more, and there is no limit any more once one was set or written back
\* below what is made or under way, or a copy was written back over a newer count.
LimitHolds == ~unlimited /\ ~overwritten => formed - uncounted <= port.limit

\* A line that has keys has those of its own peer, although all uses derive the secret
\* in one row: a secret derived by another use is noticed before the check, and only
\* one derived between the check and the copy is not.
OwnSecret == \A l \in Lines : line[l] # "none" /\ l \notin mixed => lineKey[l] = PeerOf[l]
=============================================================================
