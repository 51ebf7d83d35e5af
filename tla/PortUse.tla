------------------------------ MODULE PortUse ------------------------------
(***************************************************************************)
(* One client turning single-use ports into chats with one peer.           *)
(*                                                                         *)
(* A port is generated here and read by the peer, or read here. The        *)
(* server answers the reader's request with a new line (at most one per    *)
(* port) and sends the generator a NewChat message. On either side use()   *)
(* then runs through a dozen awaits: it looks for a chat with the peer,    *)
(* adds a row to lines, joins the line to the chat or adds a chat, and     *)
(* deletes the port; an error deletes the port, its keys and the line.     *)
(*                                                                         *)
(* Concurrently the server disconnects lines, the user discards pending    *)
(* ports, and the start-up sweep deletes generated ports that expired.     *)
(* Calls of use() for read ports are serialised by bundleProcessLock;      *)
(* calls for generated ports, made by whichever loop receives the NewChat, *)
(* are not. A line is named by its port. Contacts, folders, permissions    *)
(* and the first messages of a chat are left out.                          *)
(***************************************************************************)
EXTENDS Naturals, FiniteSets

CONSTANTS Tasks,      \* invocations of use() that may be alive together
          Ports,
          Generated,  \* the ports this client generated; it reads the others
          PortOf,     \* the port of each task
          Old,        \* the line of an earlier chat with the peer, disconnected
          HadChat,    \* whether there may be such a chat: a set of Booleans
          NoLine, NoChat,
          MayDisturb, \* whether ports expire, pending ports are discarded, the peer blocked
          MaxCrashes  \* bound: how often the process may be killed

Read == Ports \ Generated
Readers == {t \in Tasks : PortOf[t] \in Read}
Lines == Ports \cup {Old}
ChatIds == Tasks \cup {Old}  \* a chat is named by the task that adds it

ASSUME PortUseAssumption == /\ Generated \subseteq Ports
                            /\ PortOf \in [Tasks -> Ports]
                            /\ Old \notin Ports \cup Tasks
                            /\ NoLine \notin Lines
                            /\ NoChat \notin ChatIds
                            /\ HadChat \cup {MayDisturb} \subseteq BOOLEAN
                            /\ MaxCrashes \in Nat

VARIABLES
  portRow,   \* ports with a row in myPorts or readPorts
  keys,      \* the crypto row of each line: absent, without or with a shared secret
  lines,     \* the row of each line in lines
  chats,     \* connections: the routingId of each chat with the peer
  blocked,   \* the peer is in blockedUsers
  accepting, \* read ports whose accept() has not reached newReadPort()
  deriving,  \* read ports whose shared secret is being derived, un-awaited
  scanned,   \* read ports accept() was called for
  todo,      \* read ports the holder of bundleProcessLock still has to use
  at,        \* the await each use() is suspended at
  lineId,    \* its local lineId
  found,     \* its local associatedChatId
  route,     \* the routingId of that chat, then its lineData
  sweep,     \* generated ports the sweep still has to look at
  sweepKeys, \* expired ports whose crypto row the sweep has still to delete
  expired,   \* generated ports past their expiryTimestamp
  made,      \* history: ports the server has made a line of
  spoiled,   \* history: ports the sweep or the user dropped, or whose use() was
             \* killed after it had added the line
  crashes

db      == <<portRow, keys, lines, chats>>
locals  == <<lineId, found, route>>
reading == <<accepting, deriving, scanned>>
sweeper == <<sweep, sweepKeys>>
rest    == <<blocked, expired, made, spoiled, crashes>>
vars == <<db, locals, reading, sweeper, rest, todo, at>>

ReadStages == {"intro", "post", "answer"}
GenStages  == {"guard", "verify"}
UseStages  == {"block", "lookup", "route", "line", "add", "join", "oldline",
               "oldkeys", "delport", "cleanport", "cleankeys", "dropline"}

\* The line has its row already, and the port still has one.
Joining == {"join", "oldline", "oldkeys", "delport"}

TypeOK ==
  /\ portRow \subseteq Ports
  /\ keys \in [Lines -> {"none", "bare", "ready"}]
  /\ lines \in [Lines -> {"none", "open", "closed"}]
  /\ chats \in [ChatIds -> Lines \cup {NoLine}]
  /\ blocked \in BOOLEAN
  /\ accepting \subseteq scanned /\ deriving \subseteq scanned /\ scanned \subseteq Read
  /\ todo \subseteq Read
  /\ at \in [Tasks -> {"idle"} \cup ReadStages \cup GenStages \cup UseStages]
  /\ lineId \in [Tasks -> Ports \cup {NoLine}]
  /\ found \in [Tasks -> ChatIds \cup {NoChat}]
  /\ route \in [Tasks -> Lines \cup {NoLine}]
  /\ sweep \subseteq Generated /\ sweepKeys \subseteq Generated
  /\ expired \subseteq Generated
  /\ made \subseteq Ports /\ spoiled \subseteq Ports
  /\ crashes \in 0..MaxCrashes

\* create() has saved and shared every generated port; nothing is read yet.
Init ==
  /\ portRow = Generated
  /\ \E had \in HadChat :
       /\ keys = [l \in Lines |-> IF l \in Generated THEN "bare"
                                  ELSE IF l = Old /\ had THEN "ready" ELSE "none"]
       /\ lines = [l \in Lines |-> IF l = Old /\ had THEN "closed" ELSE "none"]
       /\ chats = [c \in ChatIds |-> IF c = Old /\ had THEN Old ELSE NoLine]
  /\ blocked = FALSE
  /\ accepting = {} /\ deriving = {} /\ scanned = {} /\ todo = {}
  /\ at = [t \in Tasks |-> "idle"]
  /\ lineId = [t \in Tasks |-> NoLine]
  /\ found = [t \in Tasks |-> NoChat]
  /\ route = [t \in Tasks |-> NoLine]
  /\ sweep = {} /\ sweepKeys = {}
  /\ expired = {} /\ made = {} /\ spoiled = {}
  /\ crashes = 0

-----------------------------------------------------------------------------
\* accept(): the crypto row first, with its derivation left running; then the port row.

Accept(p) ==
  /\ p \in Read \ scanned
  /\ scanned' = scanned \cup {p}
  /\ accepting' = accepting \cup {p}
  /\ deriving' = deriving \cup {p}
  /\ keys' = [keys EXCEPT ![p] = "bare"]
  /\ UNCHANGED <<portRow, lines, chats, locals, sweeper, rest, todo, at>>

DeriveSecret(p) ==
  /\ p \in deriving
  /\ deriving' = deriving \ {p}
  /\ keys' = [keys EXCEPT ![p] = IF @ = "none" THEN @ ELSE "ready"]
  /\ UNCHANGED <<portRow, lines, chats, accepting, scanned, locals, sweeper, rest, todo, at>>

SaveReadPort(p) ==
  /\ p \in accepting
  /\ accepting' = accepting \ {p}
  /\ portRow' = portRow \cup {p}
  /\ UNCHANGED <<keys, lines, chats, deriving, scanned, locals, sweeper, rest, todo, at>>

-----------------------------------------------------------------------------
\* How a use() begins.

NoReader == todo = {} /\ \A t \in Readers : at[t] = "idle"

\* processReadBundles() takes the lock and reads all read ports.
BeginRound ==
  /\ NoReader
  /\ portRow \cap Read # {}
  /\ todo' = portRow \cap Read
  /\ UNCHANGED <<db, locals, reading, sweeper, rest, at>>

\* The loop loads the next bundle from its snapshot, not from the table.
StartReader(t) ==
  /\ t \in Readers /\ PortOf[t] \in todo
  /\ \A u \in Readers : at[u] = "idle"
  /\ todo' = todo \ {PortOf[t]}
  /\ at' = [at EXCEPT ![t] = "intro"]
  /\ lineId' = [lineId EXCEPT ![t] = NoLine]
  /\ found' = [found EXCEPT ![t] = NoChat]
  /\ route' = [route EXCEPT ![t] = NoLine]
  /\ UNCHANGED <<db, reading, sweeper, rest>>

\* A NewChat message, perhaps not for the first time: fromPortId() throws away
\* one for a port that has no row, and tells nobody.
NewChat(t) ==
  /\ PortOf[t] \in Generated
  /\ at[t] = "idle"
  /\ made' = made \cup {PortOf[t]}
  /\ at' = [at EXCEPT ![t] = IF PortOf[t] \in portRow THEN "guard" ELSE @]
  /\ lineId' = [lineId EXCEPT ![t] = PortOf[t]]
  /\ found' = [found EXCEPT ![t] = NoChat]
  /\ route' = [route EXCEPT ![t] = NoLine]
  /\ UNCHANGED <<db, reading, sweeper, todo, blocked, expired, spoiled, crashes>>

-----------------------------------------------------------------------------
\* The generator's own steps.

Goto(t, stage) == at' = [at EXCEPT ![t] = stage]

\* Mutant: use() does not look whether the line exists.
UnguardedUse(t) ==
  /\ at[t] = "guard"
  /\ Goto(t, IF PortOf[t] \in expired THEN "cleanport" ELSE "verify")
  /\ UNCHANGED <<db, locals, reading, sweeper, rest, todo>>

\* checkLineExists() returns from use(); hasExpired() is evaluated right after it.
Guard(t) ==
  /\ at[t] = "guard"
  /\ Goto(t, IF lines[lineId[t]] # "none" THEN "idle"
             ELSE IF PortOf[t] \in expired THEN "cleanport" ELSE "verify")
  /\ UNCHANGED <<db, locals, reading, sweeper, rest, todo>>

\* verifyIntroMessage() needs the keys and stores the shared secret.
VerifyIntro(t) ==
  /\ at[t] = "verify"
  /\ LET p == PortOf[t] IN
       \/ /\ keys[p] = "none" /\ Goto(t, "cleanport") /\ UNCHANGED keys
       \/ /\ keys[p] # "none" /\ Goto(t, "block")
          /\ keys' = [keys EXCEPT ![p] = "ready"]
  /\ UNCHANGED <<portRow, lines, chats, locals, reading, sweeper, rest, todo>>

-----------------------------------------------------------------------------
\* The reader's own steps. A bundle of version 1.0.0 carries no expiry.

GenerateIntro(t) ==
  /\ at[t] = "intro"
  /\ Goto(t, IF keys[PortOf[t]] = "ready" THEN "post" ELSE "cleanport")
  /\ UNCHANGED <<db, locals, reading, sweeper, rest, todo>>

\* The server makes one line of a port and refuses every later request for it.
ServerMakesLine(t) ==
  /\ at[t] = "post"
  /\ PortOf[t] \notin made
  /\ made' = made \cup {PortOf[t]}
  /\ Goto(t, "answer")
  /\ UNCHANGED <<db, locals, reading, sweeper, todo, blocked, expired, spoiled, crashes>>

Answer(t) ==
  /\ at[t] = "answer"
  /\ lineId' = [lineId EXCEPT ![t] = PortOf[t]]
  /\ Goto(t, "block")
  /\ UNCHANGED <<db, found, route, reading, sweeper, rest, todo>>

\* No answer, or a refusal: the read port is kept for the next round.
PostFails(t) ==
  /\ at[t] \in {"post", "answer"}
  /\ Goto(t, "idle")
  /\ UNCHANGED <<db, locals, reading, sweeper, rest, todo>>

-----------------------------------------------------------------------------
\* What both sides do once the line is known.

CheckBlocked(t) ==
  /\ at[t] = "block"
  /\ Goto(t, IF blocked THEN "cleanport" ELSE "lookup")
  /\ UNCHANGED <<db, locals, reading, sweeper, rest, todo>>

PeerChats == {c \in ChatIds : chats[c] # NoLine}

\* getChatIdFromPairHash()
LookUpChat(t) ==
  /\ at[t] = "lookup"
  /\ \/ /\ PeerChats = {} /\ UNCHANGED found /\ Goto(t, "add")
     \/ \E c \in PeerChats : found' = [found EXCEPT ![t] = c] /\ Goto(t, "route")
  /\ UNCHANGED <<db, lineId, route, reading, sweeper, rest, todo>>

ReadRoute(t) ==
  /\ at[t] = "route"
  /\ route' = [route EXCEPT ![t] = chats[found[t]]]
  /\ Goto(t, "line")
  /\ UNCHANGED <<db, lineId, found, reading, sweeper, rest, todo>>

\* readLineData() throws when there is no row, use() when the line is connected.
ReadOldLine(t) ==
  /\ at[t] = "line"
  /\ Goto(t, IF lines[route[t]] = "closed" THEN "add" ELSE "cleanport")
  /\ UNCHANGED <<db, locals, reading, sweeper, rest, todo>>

\* An INSERT that clashes with the primary key is logged and dropped.
AddLine(t) ==
  /\ at[t] = "add"
  /\ lines' = [lines EXCEPT ![lineId[t]] = IF @ = "none" THEN "open" ELSE @]
  /\ Goto(t, "join")
  /\ UNCHANGED <<portRow, keys, chats, locals, reading, sweeper, rest, todo>>

\* Mutant: routingId is set to the id of the chat, not of the line.
JoinByChatId(t) ==
  /\ at[t] = "join"
  /\ IF found[t] = NoChat
     THEN chats' = [chats EXCEPT ![t] = t] /\ Goto(t, "delport")
     ELSE chats' = [chats EXCEPT ![found[t]] = found[t]] /\ Goto(t, "oldline")
  /\ UNCHANGED <<portRow, keys, lines, locals, reading, sweeper, rest, todo>>

\* updateConnectionOnNewMessage() or addConnection()
JoinLine(t) ==
  /\ at[t] = "join"
  /\ IF found[t] = NoChat
     THEN chats' = [chats EXCEPT ![t] = lineId[t]] /\ Goto(t, "delport")
     ELSE chats' = [chats EXCEPT ![found[t]] = lineId[t]] /\ Goto(t, "oldline")
  /\ UNCHANGED <<portRow, keys, lines, locals, reading, sweeper, rest, todo>>

\* cleanDeleteLine() of the line that was replaced: its row, then its keys
DeleteOldLine(t) ==
  /\ at[t] = "oldline"
  /\ lines' = [lines EXCEPT ![route[t]] = "none"]
  /\ Goto(t, "oldkeys")
  /\ UNCHANGED <<portRow, keys, chats, locals, reading, sweeper, rest, todo>>

DeleteOldKeys(t) ==
  /\ at[t] = "oldkeys"
  /\ keys' = [keys EXCEPT ![route[t]] = "none"]
  /\ Goto(t, "delport")
  /\ UNCHANGED <<portRow, lines, chats, locals, reading, sweeper, rest, todo>>

\* Mutant: the port is clean-deleted, keys and all.
DeletePortAndKeys(t) ==
  /\ at[t] = "delport"
  /\ portRow' = portRow \ {PortOf[t]}
  /\ keys' = [keys EXCEPT ![PortOf[t]] = "none"]
  /\ Goto(t, "idle")
  /\ UNCHANGED <<lines, chats, locals, reading, sweeper, rest, todo>>

\* The port's row goes, the keys stay: they are the line's now.
DeletePort(t) ==
  /\ at[t] = "delport"
  /\ portRow' = portRow \ {PortOf[t]}
  /\ Goto(t, "idle")
  /\ UNCHANGED <<keys, lines, chats, locals, reading, sweeper, rest, todo>>

-----------------------------------------------------------------------------
\* The catch block of use(): clean() deletes the port and its keys, and
\* cleanDeleteLine() the row of the line, when the line is known. The call that
\* informs the server is not awaited, and its failure is logged and dropped.

CleanPort(t) ==
  /\ at[t] = "cleanport"
  /\ portRow' = portRow \ {PortOf[t]}
  /\ Goto(t, "cleankeys")
  /\ UNCHANGED <<keys, lines, chats, locals, reading, sweeper, rest, todo>>

CleanKeys(t) ==
  /\ at[t] = "cleankeys"
  /\ keys' = [keys EXCEPT ![PortOf[t]] = "none"]
  /\ Goto(t, IF lineId[t] = NoLine THEN "idle" ELSE "dropline")
  /\ UNCHANGED <<portRow, lines, chats, locals, reading, sweeper, rest, todo>>

DropLine(t) ==
  /\ at[t] = "dropline"
  /\ lines' = [lines EXCEPT ![lineId[t]] = "none"]
  /\ Goto(t, "idle")
  /\ UNCHANGED <<portRow, keys, chats, locals, reading, sweeper, rest, todo>>

UseStep(t) ==
  \/ Guard(t) \/ VerifyIntro(t)
  \/ GenerateIntro(t) \/ ServerMakesLine(t) \/ Answer(t) \/ PostFails(t)
  \/ CheckBlocked(t) \/ LookUpChat(t) \/ ReadRoute(t) \/ ReadOldLine(t)
  \/ AddLine(t) \/ JoinLine(t) \/ DeleteOldLine(t) \/ DeleteOldKeys(t) \/ DeletePort(t)
  \/ CleanPort(t) \/ CleanKeys(t) \/ DropLine(t)

-----------------------------------------------------------------------------
\* What goes on around use().

\* A Deletion from the server, or the user disconnecting: no row, no effect.
Disconnect(l) ==
  /\ l \in made
  /\ lines[l] = "open"
  /\ lines' = [lines EXCEPT ![l] = "closed"]
  /\ UNCHANGED <<portRow, keys, chats, locals, reading, sweeper, rest, todo, at>>

BlockPeer ==
  /\ MayDisturb
  /\ ~blocked
  /\ blocked' = TRUE
  /\ UNCHANGED <<db, locals, reading, sweeper, todo, at, expired, made, spoiled, crashes>>

\* cleanDeleteReadPort(): the user throws away a port that is still pending.
DiscardReadPort(p) ==
  /\ MayDisturb
  /\ p \in Read \cap portRow
  /\ portRow' = portRow \ {p}
  /\ keys' = [keys EXCEPT ![p] = "none"]
  /\ spoiled' = spoiled \cup {p}
  /\ UNCHANGED <<lines, chats, locals, reading, sweeper, todo, at,
                 blocked, expired, made, crashes>>

Expire(p) ==
  /\ MayDisturb
  /\ p \in Generated \ expired
  /\ expired' = expired \cup {p}
  /\ UNCHANGED <<db, locals, reading, sweeper, todo, at, blocked, made, spoiled, crashes>>

\* cleanUpExpiredGeneratedPorts(): a snapshot, then row and keys of each expired port
BeginSweep ==
  /\ sweep = {} /\ sweepKeys = {}
  /\ expired # {}  \* bound: a sweep that finds nothing changes nothing
  /\ sweep' = portRow \cap Generated
  /\ UNCHANGED <<db, locals, reading, rest, todo, at, sweepKeys>>

SweepPort(p) ==
  /\ p \in sweep /\ sweepKeys = {}
  /\ sweep' = sweep \ {p}
  /\ IF p \in expired
     THEN portRow' = portRow \ {p} /\ sweepKeys' = {p} /\ spoiled' = spoiled \cup {p}
     ELSE UNCHANGED <<portRow, sweepKeys, spoiled>>
  /\ UNCHANGED <<keys, lines, chats, locals, reading, todo, at, blocked, expired, made, crashes>>

SweepKeys(p) ==
  /\ p \in sweepKeys
  /\ keys' = [keys EXCEPT ![p] = "none"]
  /\ sweepKeys' = {}
  /\ UNCHANGED <<portRow, lines, chats, locals, reading, rest, todo, at, sweep>>

\* Only the database survives.
Crash ==
  /\ crashes < MaxCrashes
  /\ crashes' = crashes + 1
  /\ at' = [t \in Tasks |-> "idle"]
  /\ accepting' = {} /\ deriving' = {} /\ todo' = {}
  /\ sweep' = {} /\ sweepKeys' = {}
  /\ spoiled' = spoiled \cup {PortOf[t] : t \in {u \in Tasks : at[u] \in Joining}}
  /\ UNCHANGED <<db, locals, scanned, blocked, expired, made>>

Next ==
  \/ \E p \in Ports : Accept(p) \/ DeriveSecret(p) \/ SaveReadPort(p)
  \/ BeginRound
  \/ \E t \in Tasks : StartReader(t) \/ NewChat(t) \/ UseStep(t)
  \/ \E p \in Ports : Disconnect(p) \/ DiscardReadPort(p) \/ Expire(p)
  \/ BlockPeer
  \/ BeginSweep
  \/ \E p \in Ports : SweepPort(p) \/ SweepKeys(p)
  \/ Crash

Spec == Init /\ [][Next]_vars

-----------------------------------------------------------------------------
\* Every chat is routed to a line that has a row, whatever else runs and wherever
\* the process is killed. Without the row a send throws 'No such line', and so
\* does every later use() for the same peer: the chat could never be repaired.
\* Relates the order of addLine(), addConnection() and the deletion of the old
\* line in use() to the guard that stops a second use() of the same port.
ChatHasLine == \A c \in ChatIds : chats[c] # NoLine => lines[chats[c]] # "none"

\* "don't clean delete since permissions and crypto data references are still
\* needed": the line of a chat can encrypt, unless its port expired, the user
\* discarded it, or the process was killed, while it was being used. Fails if use()
\* gives up a port that another use() is turning into a chat.
LineHasKeys ==
  \A c \in ChatIds : chats[c] \in Ports \ spoiled /\ lines[chats[c]] = "open"
                       => keys[chats[c]] = "ready"

\* "if chat is already formed, this guard prevents retrying new chat over
\* generated port": the error path of use() never deletes the line of a formed
\* chat, neither when the use of the other port runs at the same time nor when
\* the process was killed and the NewChat is processed again.  Holds for tasks
\* of different ports; two loops over the same NewChat break it.
FormedChatIsKept ==
  [][\A t \in Tasks, c \in ChatIds :
       DropLine(t) => chats[c] # lineId[t]]_vars
=============================================================================
