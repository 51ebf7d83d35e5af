------------------------------- MODULE Groups -------------------------------
(***************************************************************************)
(* One group on the phone of one of its members: the rows of groups,       *)
(* groupMembers, connections and cryptoData, and the roster the server     *)
(* keeps.                                                                   *)
(*                                                                         *)
(* Three things write the rows: the receive actions, for what the server   *)
(* tells of its roster; Group.join, when a group port was read, with the   *)
(* roster of the server's answer; and the user, who removes or promotes a  *)
(* member, leaves, or deletes the group.  Each of them is a series of      *)
(* single statements, and all of them may be under way together.           *)
(*                                                                         *)
(* With every member the phone shares a secret, derived from its own keys  *)
(* for the group and those the member joined with.                         *)
(***************************************************************************)
EXTENDS Integers, FiniteSets

CONSTANTS Members,      \* the other people who may be in the group
          Loops,        \* loops over received messages that may be under way together
          Self, Nobody, \* this user; no member
          None,         \* no keys, no event
          MaxChanges,   \* bound: changes of the roster
          MaxJoins,     \* bound: group ports read
          MaxIncidents, \* bound: crashes and lost answers, together
          MaxTurns      \* bound: changes, crashes and lost answers, together

ASSUME GroupsAssumption == /\ Self \notin Members /\ Nobody \notin Members \cup {Self}
                           /\ MaxChanges \in Nat /\ MaxJoins \in Nat \ {0}
                           /\ MaxIncidents \in Nat /\ MaxTurns \in Nat
                           /\ "port" \notin Loops

Everyone == Members \cup {Self}

VARIABLES
  \* the server
  inGroup,   \* this user is a member there
  admin,     \* and an administrator
  myKey,     \* the number of the join whose public key it has for this user
  roster,    \* the other members, [key, admin]; key is 0 for who is not a member
  joins,     \* how often each of them has joined
  changes,   \* how often the roster has changed
  pending,   \* events it keeps for this user
  \* the database
  conn,      \* there is a connection with the group's id
  group,     \* row of groups, [row, connected, admin, self]; self is the join it has keys of
  selfKeys,  \* rows of cryptoData with keys of this user, one for each join
  member,    \* rows of groupMembers, [row, key, admin]
  keys,      \* rows of cryptoData with secrets shared with members; those that nothing
             \* refers to any more are never deleted and left out here
  \* what is under way
  at, cur,   \* where each loop is suspended, in handling which event
  fresh,     \* the keys it has just saved for a new member
  ports, used, cleaning, \* the numbers of the joins whose read port has a row, the join whose
             \* port is to be deleted now that there is a chat, those of ports whose keys are
  jat,       \* where Group.join is suspended
  jkey, answer, jnew, todo, jm, old, \* its keys, the answered roster, whether the chat is new,
             \* the members still to save, the one being saved and the keys its row had
  act,       \* what the user is doing to a member, [kind, who]
  dat, dself, left, dm, \* where Group.delete is suspended, the group's own keys, the members
             \* left and the one it deletes
  incidents,
  \* history
  upTo,      \* the newest change about each person that was begun to be handled
  excused,   \* people whose row may differ from the roster for good, see below
  torn,      \* members whose keys were deleted and whose row was not written before a crash
  lost,      \* the joins whose keys were deleted with their read port
  broken     \* a crash inside delete() left a connection without a group

server  == <<inGroup, admin, myKey, roster, joins, changes, pending>>
rows    == <<conn, group, selfKeys, member, keys>>
loops   == <<at, cur, fresh>>
porting == <<ports, used, cleaning>>
joining == <<jat, jkey, answer, jnew, todo, jm, old>>
deleting == <<dat, dself, left, dm>>
history == <<upTo, excused, torn, lost, broken>>
vars == <<server, rows, loops, joining, porting, act, deleting, incidents, history>>

\* Keys are told apart by who made them, and by a number no row
\* that may still be deleted has.
Keys == [of : Members, mine : 1..MaxJoins, theirs : 1..MaxChanges + 1,
         by : Loops \cup {"port"}, nr : 0..2]
ASSUME NoneAssumption == None \notin Keys

Places == [Members -> 0..MaxChanges + 1]
Entry == [key : 0..MaxChanges + 1, admin : BOOLEAN]
Row == [row : {"none", "active", "deleted"}, key : Keys \cup {None}, admin : BOOLEAN]
Kinds == {"newMember", "removedMember", "promotedMember", "demotedMember",
          "removedFromGroup", "promotion", "demotion"}
Event == [n : 1..MaxChanges, kind : Kinds, who : Everyone, entry : Entry]
ASSUME EventAssumption == None \notin Event

NoRow == [row |-> "none", key |-> None, admin |-> FALSE]
NoGroup == [row |-> FALSE, connected |-> FALSE, admin |-> FALSE, self |-> 0]
Out == [key |-> 0, admin |-> FALSE]
Idle == [kind |-> "none", who |-> Nobody]

TypeOK ==
  /\ inGroup \in BOOLEAN /\ admin \in BOOLEAN
  /\ myKey \in 0..MaxJoins
  /\ roster \in [Members -> Entry] /\ joins \in Places
  /\ \A m \in Members : roster[m].key \in {0, joins[m]}
  /\ changes \in 0..MaxChanges
  /\ pending \subseteq Event /\ \A e \in pending : e.n <= changes
  /\ conn \in BOOLEAN
  /\ group \in [row : BOOLEAN, connected : BOOLEAN, admin : BOOLEAN, self : 0..myKey]
  /\ group.row => group.self # 0
  /\ selfKeys \subseteq 1..myKey
  /\ member \in [Members -> Row]
  /\ \A m \in Members : (member[m].row = "none") <=> (member[m].key = None)
  /\ keys \subseteq Keys
  /\ at \in [Loops -> {"idle", "load", "insert", "write"}]
  /\ cur \in [Loops -> Event \cup {None}]
  /\ fresh \in [Loops -> Keys \cup {None}]
  /\ jat \in {"idle", "chat", "group", "add", "update", "member", "old", "write", "insert",
              "conn"}
  /\ jkey \in 0..myKey
  /\ answer \in [Members -> Entry] /\ jnew \in BOOLEAN
  /\ todo \subseteq Members /\ jm \in Members \cup {Nobody} /\ old \in Keys \cup {None}
  /\ act \in [kind : {"none", "remove", "promote", "demote", "leave"},
              who : Everyone \cup {Nobody}]
  /\ dat \in {"idle", "ids", "member", "keys", "row", "self", "members", "group", "conn"}
  /\ dself \in 0..myKey /\ left \subseteq Members /\ dm \in Members \cup {Nobody}
  /\ incidents \in 0..MaxIncidents
  /\ upTo \in [Everyone -> 0..MaxChanges]
  /\ ports \subseteq 1..myKey /\ used \in 0..myKey /\ cleaning \subseteq 1..myKey
  /\ excused \subseteq Everyone /\ torn \subseteq Members /\ lost \subseteq 1..myKey
  /\ broken \in BOOLEAN

MemberKey(m, mine, entry, by, nr) ==
  [of |-> m, mine |-> mine, theirs |-> entry.key, by |-> by, nr |-> nr]

\* Some are in the group already, others were. This user has joined it, once, or not yet.
Init ==
  /\ \E there \in SUBSET Members, gone \in SUBSET Members, admins \in SUBSET Members,
        joined \in BOOLEAN, amAdmin \in BOOLEAN :
       /\ there \cap gone = {} /\ admins \subseteq there /\ (amAdmin => joined)
       /\ joins = [m \in Members |-> IF m \in there \cup gone THEN 1 ELSE 0]
       /\ roster = [m \in Members |-> IF m \in there THEN [key |-> 1, admin |-> m \in admins]
                                     ELSE Out]
       /\ inGroup = joined /\ admin = amAdmin /\ conn = joined
       /\ myKey = IF joined THEN 1 ELSE 0
       /\ selfKeys = 1..myKey
       /\ group = IF joined THEN [row |-> TRUE, connected |-> TRUE, admin |-> amAdmin, self |-> 1]
                            ELSE NoGroup
       /\ member = [m \in Members |->
            IF joined /\ joins[m] = 1
            THEN [row |-> IF m \in there THEN "active" ELSE "deleted", admin |-> m \in admins,
                  key |-> MemberKey(m, 1, [Out EXCEPT !.key = 1], "port", 0)]
            ELSE NoRow]
       /\ keys = {member[m].key : m \in Members} \ {None}
  /\ changes = 0 /\ pending = {}
  /\ at = [k \in Loops |-> "idle"] /\ cur = [k \in Loops |-> None]
  /\ fresh = [k \in Loops |-> None]
  /\ jat = "idle" /\ jkey = 0 /\ answer = [m \in Members |-> Out] /\ jnew = FALSE /\ todo = {}
  /\ jm = Nobody /\ old = None
  /\ act = Idle /\ dat = "idle" /\ dself = 0 /\ left = {} /\ dm = Nobody
  /\ incidents = 0
  /\ upTo = [p \in Everyone |-> 0] /\ excused = {} /\ torn = {} /\ lost = {} /\ broken = FALSE
  /\ ports = {} /\ used = 0 /\ cleaning = {}

-----------------------------------------------------------------------------
(* The server: what other members and administrators do *)

\* One more of the things MaxTurns counts may happen.
OneMore == changes + incidents < MaxTurns

\* The roster changes ...
Change == changes < MaxChanges /\ OneMore /\ changes' = changes + 1

\* ... and this user is told of it, as a member.
Tell(kind, who, entry) ==
  /\ Change
  /\ pending' = IF inGroup
                THEN pending \cup {[n |-> changes', kind |-> kind, who |-> who, entry |-> entry]}
                ELSE pending

MemberJoins(m) ==
  /\ roster[m].key = 0
  /\ joins' = [joins EXCEPT ![m] = @ + 1]
  /\ roster' = [roster EXCEPT ![m] = [key |-> joins'[m], admin |-> FALSE]]
  /\ Tell("newMember", m, roster'[m])
  /\ UNCHANGED <<inGroup, admin, myKey, rows, loops, joining, act, deleting, porting, incidents,
                 history>>

\* Removed by an administrator, or left by themselves.
MemberGoes(m) ==
  /\ roster[m].key # 0
  /\ roster' = [roster EXCEPT ![m] = Out]
  /\ Tell("removedMember", m, Out)
  /\ UNCHANGED <<inGroup, admin, myKey, joins, rows, loops, joining, act, deleting, porting,
                 incidents, history>>

MemberAdmin(m) ==
  /\ roster[m].key # 0
  /\ roster' = [roster EXCEPT ![m].admin = ~@]
  /\ Tell(IF roster[m].admin THEN "demotedMember" ELSE "promotedMember", m, roster'[m])
  /\ UNCHANGED <<inGroup, admin, myKey, joins, rows, loops, joining, act, deleting, porting,
                 incidents, history>>

SelfAdmin ==
  /\ inGroup
  /\ admin' = ~admin
  /\ Tell(IF admin THEN "demotion" ELSE "promotion", Self, Out)
  /\ UNCHANGED <<inGroup, myKey, roster, joins, rows, loops, joining, act, deleting, porting,
                 incidents, history>>

SelfRemoved ==
  /\ inGroup
  /\ inGroup' = FALSE /\ admin' = FALSE
  /\ Tell("removedFromGroup", Self, Out)
  /\ UNCHANGED <<myKey, roster, joins, rows, loops, joining, act, deleting, porting, incidents,
                 history>>

-----------------------------------------------------------------------------
(* Receive actions *)

Incident == incidents < MaxIncidents /\ OneMore /\ incidents' = incidents + 1

Goto(k, place) == at' = [at EXCEPT ![k] = place]

\* Handled, or dropped with an error: the server may then be told to forget it.
Finish(k) ==
  /\ pending' \in {pending, pending \ {cur[k]}}
  /\ Goto(k, "idle")
  /\ cur' = [cur EXCEPT ![k] = None] /\ fresh' = [fresh EXCEPT ![k] = None]
  /\ UNCHANGED <<inGroup, admin, myKey, roster, joins, changes>>

\* An event is not in order when a newer one about the same person was begun, or an
\* older one is still to be handled, or a join or another write about them is under way.
OutOfOrder(e) ==
  \/ e.n < upTo[e.who]
  \/ \E f \in (pending \cup {cur[j] : j \in Loops}) \ {None} :
       f.who = e.who /\ upTo[e.who] < f.n /\ f.n < e.n
  \/ \E j \in Loops : cur[j] # None /\ cur[j].who = e.who /\ cur[j].n < e.n
  \/ jat # "idle" \/ act.who = e.who \/ ~conn \/ dat # "idle"

\* A batch or a push brings an event the server keeps, perhaps again.
Receive(k, e) ==
  /\ at[k] = "idle" /\ e \in pending
  /\ cur' = [cur EXCEPT ![k] = e]
  /\ Goto(k, "load")
  /\ excused' = IF OutOfOrder(e) THEN excused \cup {e.who} ELSE excused
  /\ upTo' = [upTo EXCEPT ![e.who] = IF @ < e.n THEN e.n ELSE @]
  /\ UNCHANGED <<server, rows, fresh, joining, act, deleting, porting, incidents, torn, lost,
                 broken>>

\* The group is found by the id of its connection, and loaded.
Loaded == conn /\ group.row

\* Keys that are new for the member of an event.
NewKeys(e, k) ==
  LET key(nr) == MemberKey(e.who, group.self, e.entry, k, nr)
  IN key(CHOOSE nr \in 0..2 : key(nr) \notin {old, member[e.who].key})

\* AddMember: the secret shared with the new member is derived and saved, unless the group
\* has no keys of its own any more.
AddMemberKeys(k) ==
  /\ at[k] = "load" /\ cur[k].kind = "newMember"
  /\ IF Loaded /\ group.self \in selfKeys
     THEN /\ fresh' = [fresh EXCEPT ![k] = NewKeys(cur[k], k)]
          /\ keys' = keys \cup {fresh'[k]}
          /\ Goto(k, "insert")
          /\ UNCHANGED <<cur, server, excused>>
     ELSE /\ Finish(k)
          /\ excused' = IF Loaded /\ group.self \in lost THEN excused \cup {cur[k].who} ELSE excused
          /\ UNCHANGED keys
  /\ UNCHANGED <<conn, group, selfKeys, member, joining, act, deleting, porting, incidents, upTo,
                 torn, lost, broken>>

\* saveGroupMember: the INSERT is refused when the member has a row, also one that is
\* marked as deleted, and runSimpleQuery swallows the error.
AddMemberRow(k) ==
  LET m == cur[k].who
      new == [row |-> "active", admin |-> cur[k].entry.admin, key |-> fresh[k]]
  IN /\ at[k] = "insert"
     /\ member' = IF member[m].row = "none" THEN [member EXCEPT ![m] = new] ELSE member
     /\ keys' = IF member[m].row = "none" THEN keys ELSE keys \ {fresh[k]}
     /\ torn' = IF member[m].row = "none" THEN torn \ {m} ELSE torn
     /\ excused' = IF \/ member'[m].row # "active"
                      \/ member'[m].key.theirs # new.key.theirs
                   THEN excused \cup {m} ELSE excused
     /\ Finish(k)
     /\ UNCHANGED <<conn, group, selfKeys, joining, act, deleting, porting, incidents, upTo,
                    lost, broken>>

\* RemoveMember, PromoteMember, DemoteMember: a member without a row is NoSuchMember.
LoadMember(k) ==
  /\ at[k] = "load" /\ cur[k].kind \in {"removedMember", "promotedMember", "demotedMember"}
  /\ IF Loaded /\ member[cur[k].who].row # "none"
     THEN Goto(k, "write") /\ UNCHANGED <<cur, fresh, server>>
     ELSE Finish(k)
  /\ UNCHANGED <<rows, joining, act, deleting, porting, incidents, history>>

\* Mutant: a removed member has no row any more, yet keeps its keys.
MarkedGone(m, kind) ==
  IF member[m].row = "none" THEN member
  ELSE CASE kind \in {"removedMember", "remove"} -> [member EXCEPT ![m].row = "none"]
         [] kind \in {"promotedMember", "promote"} -> [member EXCEPT ![m].admin = TRUE]
         [] OTHER -> [member EXCEPT ![m].admin = FALSE]

\* UPDATE groupMembers
Marked(m, kind) ==
  IF member[m].row = "none" THEN member
  ELSE CASE kind \in {"removedMember", "remove"} -> [member EXCEPT ![m].row = "deleted"]
         [] kind \in {"promotedMember", "promote"} -> [member EXCEPT ![m].admin = TRUE]
         [] OTHER -> [member EXCEPT ![m].admin = FALSE]

WriteMember(k) ==
  /\ at[k] = "write"
  /\ member' = Marked(cur[k].who, cur[k].kind)
  /\ Finish(k)
  /\ UNCHANGED <<conn, group, selfKeys, keys, joining, act, deleting, porting, incidents,
                 history>>

\* RemoveSelf, AdminPromotion, AdminDemotion
UpdateSelf(k) ==
  /\ at[k] = "load" /\ cur[k].who = Self
  /\ group' = IF ~Loaded THEN group
              ELSE IF cur[k].kind = "removedFromGroup" THEN [group EXCEPT !.connected = FALSE]
              ELSE [group EXCEPT !.admin = (cur[k].kind = "promotion")]
  /\ Finish(k)
  /\ UNCHANGED <<conn, selfKeys, member, keys, joining, act, deleting, porting, incidents,
                 history>>

Handle(k) == \/ AddMemberKeys(k) \/ AddMemberRow(k) \/ LoadMember(k) \/ WriteMember(k)
             \/ UpdateSelf(k)

-----------------------------------------------------------------------------
(* GroupPortReader.use: Group.join, and what becomes of the read port *)

\* People whose rows some handler is about to write.
Handled == {cur[k].who : k \in {j \in Loops : cur[j] # None}}

\* The server takes this user in again, by a read port with keys of its own. Nothing but
\* that port refers to its keys before, so a port and its keys appear here. Only one port
\* is used at a time (bundleProcessLock).
Accept ==
  /\ jat = "idle" /\ used = 0
  /\ ~inGroup /\ myKey < MaxJoins /\ Change
  /\ inGroup' = TRUE /\ admin' = FALSE /\ myKey' = myKey + 1
  /\ ports' = ports \cup {myKey'} /\ selfKeys' = selfKeys \cup {myKey'}
  /\ UNCHANGED <<roster, joins, pending, used, cleaning>>

\* The request is answered with the roster, and the secrets with all members are saved.
\* Members who went while this user was away keep an active row.
Join ==
  LET there == {m \in Members : roster[m].key # 0}
  IN /\ Accept
     /\ jat' = "chat" /\ jkey' = myKey' /\ answer' = roster /\ todo' = there
     /\ keys' = keys \cup {MemberKey(m, myKey', roster[m], "port", 0) : m \in there}
     /\ upTo' = [p \in Everyone |-> changes']
     /\ excused' = IF dat # "idle" \/ act # Idle THEN Everyone
                   ELSE Handled \cup {m \in Members \ there : member[m].row = "active"}
     /\ UNCHANGED <<conn, group, member, loops, jnew, jm, old, act, deleting, incidents, torn,
                    lost, broken>>

\* The answer is lost, or the secrets cannot be derived. The port stays, but the server
\* will refuse it.
JoinUnanswered ==
  /\ Accept /\ Incident
  /\ excused' = Everyone
  /\ UNCHANGED <<conn, group, member, keys, loops, joining, act, deleting, upTo, torn, lost,
                 broken>>

GotoJ(place) == jat' = place /\ UNCHANGED <<jkey, answer, jnew, todo, jm, old>>

\* join() returns or is killed.
JoinEnds ==
  /\ jat' = "idle" /\ jkey' = 0 /\ answer' = [m \in Members |-> Out] /\ todo' = {}
  /\ jnew' = FALSE /\ jm' = Nobody /\ old' = None

\* getChatIdFromRoutingId
FindChat ==
  /\ jat = "chat"
  /\ jat' = IF conn THEN "group" ELSE "add"
  /\ jnew' = ~conn
  /\ UNCHANGED <<jkey, answer, todo, jm, old>>
  /\ UNCHANGED <<server, rows, loops, act, deleting, porting, incidents, history>>

\* A group that is connected is left as it is, with keys the server no longer knows.
FindGroup ==
  /\ jat = "group"
  /\ IF group.row /\ group.connected
     THEN /\ JoinEnds /\ used' = jkey /\ excused' = Everyone
          /\ keys' = keys \ {MemberKey(m, jkey, answer[m], "port", 0) : m \in todo}
     ELSE GotoJ("update") /\ UNCHANGED <<keys, used, excused>>
  /\ UNCHANGED <<server, conn, group, selfKeys, member, loops, ports, cleaning, act, deleting,
                 incidents, upTo, torn, lost, broken>>

Joined == [row |-> TRUE, connected |-> TRUE, admin |-> FALSE, self |-> jkey]

\* save(): a row that a crash has left refuses the INSERT.
AddGroup ==
  /\ jat = "add"
  /\ group' = IF group.row THEN group ELSE Joined
  /\ excused' = IF group.row THEN Everyone ELSE excused
  /\ GotoJ("member")
  /\ UNCHANGED <<server, conn, selfKeys, member, keys, loops, act, deleting, porting, incidents,
                 upTo, torn, lost, broken>>

\* Mutant: the UPDATE leaves the group's own keys as they were.
UpdateGroupOnly ==
  /\ jat = "update"
  /\ group' = IF group.row THEN [Joined EXCEPT !.self = group.self] ELSE group
  /\ GotoJ("member")
  /\ UNCHANGED <<server, conn, selfKeys, member, keys, loops, act, deleting, porting, incidents,
                 history>>

\* resave(): an UPDATE.
UpdateGroup ==
  /\ jat = "update"
  /\ group' = IF group.row THEN Joined ELSE group
  /\ GotoJ("member")
  /\ UNCHANGED <<server, conn, selfKeys, member, keys, loops, act, deleting, porting, incidents,
                 history>>

\* GroupMember.save loads the row, whether it is marked as deleted or not.
SaveMember(m) ==
  /\ jat = "member" /\ m \in todo
  /\ todo' = todo \ {m} /\ jm' = m
  /\ old' = member[m].key
  /\ jat' = IF member[m].row = "none" THEN "insert" ELSE "old"
  /\ UNCHANGED <<jkey, answer, jnew, server, rows, loops, act, deleting, porting, incidents,
                 history>>

NewKey == MemberKey(jm, jkey, answer[jm], "port", 0)
Saved == [row |-> "active", key |-> NewKey, admin |-> answer[jm].admin]

\* The keys of the old row are deleted first ...
DeleteOldKeys ==
  /\ jat = "old"
  /\ keys' = keys \ {old}
  /\ GotoJ("write")
  /\ UNCHANGED <<server, conn, group, selfKeys, member, loops, act, deleting, porting, incidents,
                 history>>

\* Mutant: the UPDATE does not name the keys.
UpdateMemberOnly ==
  /\ jat = "write"
  /\ IF member[jm].row = "none"
     THEN GotoJ("insert") /\ UNCHANGED <<member, torn>>
     ELSE /\ member' = [member EXCEPT ![jm] = [Saved EXCEPT !.key = member[jm].key]]
          /\ torn' = torn \ {jm}
          /\ jat' = "member" /\ jm' = Nobody /\ old' = None
          /\ UNCHANGED <<jkey, answer, jnew, todo>>
  /\ UNCHANGED <<server, conn, group, selfKeys, keys, loops, act, deleting, porting, incidents,
                 upTo, excused, lost, broken>>

\* Mutant: the UPDATE does not name the mark of deletion.
UpdateKeepsMark ==
  /\ jat = "write"
  /\ IF member[jm].row = "none"
     THEN GotoJ("insert") /\ UNCHANGED <<member, torn>>
     ELSE /\ member' = [member EXCEPT ![jm] = [Saved EXCEPT !.row = member[jm].row]]
          /\ torn' = torn \ {jm}
          /\ jat' = "member" /\ jm' = Nobody /\ old' = None
          /\ UNCHANGED <<jkey, answer, jnew, todo>>
  /\ UNCHANGED <<server, conn, group, selfKeys, keys, loops, act, deleting, porting, incidents,
                 upTo, excused, lost, broken>>

\* ... then the row gets the new ones, unless it was deleted meanwhile.
UpdateMember ==
  /\ jat = "write"
  /\ IF member[jm].row = "none"
     THEN GotoJ("insert") /\ UNCHANGED <<member, torn>>
     ELSE /\ member' = [member EXCEPT ![jm] = Saved] /\ torn' = torn \ {jm}
          /\ jat' = "member" /\ jm' = Nobody /\ old' = None
          /\ UNCHANGED <<jkey, answer, jnew, todo>>
  /\ UNCHANGED <<server, conn, group, selfKeys, keys, loops, act, deleting, porting, incidents,
                 upTo, excused, lost, broken>>

InsertMember ==
  /\ jat = "insert"
  /\ member' = IF member[jm].row = "none" THEN [member EXCEPT ![jm] = Saved] ELSE member
  /\ torn' = IF member[jm].row = "none" THEN torn \ {jm} ELSE torn
  /\ excused' = IF member[jm].row = "none" THEN excused ELSE excused \cup {jm}
  /\ jat' = "member" /\ jm' = Nobody /\ old' = None
  /\ UNCHANGED <<jkey, answer, jnew, todo, server, conn, group, selfKeys, keys, loops, act,
                 deleting, porting, incidents, upTo, lost, broken>>

\* addConnection, or the chat is moved to the port's folder.
AddConnection ==
  /\ jat = "member" /\ todo = {}
  /\ conn' = (conn \/ jnew)
  /\ JoinEnds /\ used' = jkey
  /\ UNCHANGED <<server, group, selfKeys, member, keys, loops, ports, cleaning, act, deleting,
                 incidents, history>>

\* Mutant: the used port is cleaned like one that is given up.
CleanUsedPort ==
  /\ used # 0
  /\ ports' = ports \ {used} /\ selfKeys' = selfKeys \ {used} /\ used' = 0
  /\ UNCHANGED <<cleaning, server, conn, group, member, keys, loops, joining, act, deleting,
                 incidents, history>>

\* deleteReadPortData, once there is a chat.
DeletePort ==
  /\ used # 0
  /\ ports' = ports \ {used} /\ used' = 0
  /\ UNCHANGED <<cleaning, server, rows, loops, joining, act, deleting, incidents, history>>

\* A port that still has its row is cleaned: the server refuses it when it is used again, the
\* user discards it, or it has expired. First the row ...
CleanPort(n) ==
  /\ n \in ports
  /\ ports' = ports \ {n} /\ cleaning' = cleaning \cup {n}
  /\ UNCHANGED <<used, server, rows, loops, joining, act, deleting, incidents, history>>

\* ... then the keys, whether a group was formed with them or not.
DeletePortKeys(n) ==
  /\ n \in cleaning
  /\ cleaning' = cleaning \ {n}
  /\ selfKeys' = selfKeys \ {n} /\ lost' = lost \cup {n}
  /\ UNCHANGED <<ports, used, server, conn, group, member, keys, loops, joining, act, deleting,
                 incidents, upTo, excused, torn, broken>>

Clean(n) == CleanPort(n) \/ DeletePortKeys(n)

-----------------------------------------------------------------------------
(* The user *)

\* removeMember, promoteMember, demoteMember: an administrator asks the server ...
Ask(kind, m) ==
  /\ act = Idle /\ Loaded /\ group.admin /\ member[m].row = "active"
  /\ kind = (IF member[m].admin THEN "demote" ELSE "promote") \/ kind = "remove"
  /\ inGroup /\ admin /\ roster[m].key # 0 /\ Change
  /\ roster' = [roster EXCEPT ![m] = IF kind = "remove" THEN Out
                                     ELSE [@ EXCEPT !.admin = (kind = "promote")]]
  /\ UNCHANGED <<inGroup, admin, myKey, joins, pending>>

\* leaveGroup
AskToLeave ==
  /\ act = Idle /\ Loaded /\ group.connected
  /\ inGroup /\ Change
  /\ inGroup' = FALSE /\ admin' = FALSE
  /\ UNCHANGED <<myKey, roster, joins, pending>>

\* ... which does it; unless the answer is lost, the row is written next.
Asked(kind, who) ==
  /\ \/ act' = [kind |-> kind, who |-> who] /\ UNCHANGED incidents
        /\ excused' = IF who \in Handled \/ jat # "idle" THEN excused \cup {who} ELSE excused
     \/ act' = act /\ Incident /\ excused' = excused \cup {who}
  /\ upTo' = [upTo EXCEPT ![who] = changes']
  /\ UNCHANGED <<rows, loops, joining, deleting, porting, torn, lost, broken>>

Act(kind, m) == Ask(kind, m) /\ Asked(kind, m)
Leave == AskToLeave /\ Asked("leave", Self)

WriteAct ==
  /\ act # Idle /\ act' = Idle
  /\ IF act.kind = "leave"
     THEN /\ group' = IF group.row THEN [group EXCEPT !.connected = FALSE] ELSE group
          /\ UNCHANGED member
     ELSE member' = Marked(act.who, act.kind) /\ UNCHANGED group
  /\ UNCHANGED <<server, conn, selfKeys, keys, loops, joining, deleting, porting, incidents,
                 history>>

-----------------------------------------------------------------------------
(* Group.delete *)

GotoD(place) == dat' = place /\ UNCHANGED <<dself, left, dm>>

\* Only a disconnected group is deleted.
DeleteLoad ==
  /\ dat = "idle" /\ Loaded /\ ~group.connected
  /\ dat' = "ids" /\ dself' = group.self /\ UNCHANGED <<left, dm>>
  /\ excused' = IF jat # "idle" \/ act # Idle THEN Everyone ELSE excused \cup Handled
  /\ UNCHANGED <<server, rows, loops, joining, act, porting, incidents, upTo, torn, lost, broken>>

\* getAllMemberIds
DeleteIds ==
  /\ dat = "ids"
  /\ left' = {m \in Members : member[m].row # "none"}
  /\ dat' = "member" /\ UNCHANGED <<dself, dm>>
  /\ UNCHANGED <<server, rows, loops, joining, act, porting, incidents, history>>

\* GroupMember.delete: the keys of the loaded row, then the row.
DeleteMemberKeys(m) ==
  /\ dat = "member" /\ m \in left
  /\ left' = left \ {m}
  /\ keys' = keys \ {member[m].key}
  /\ IF member[m].row = "none" THEN UNCHANGED <<dat, dm>> ELSE dat' = "row" /\ dm' = m
  /\ UNCHANGED <<dself, server, conn, group, selfKeys, member, loops, joining, act, porting,
                 incidents, history>>

DeleteMemberRow ==
  /\ dat = "row"
  /\ member' = [member EXCEPT ![dm] = NoRow]
  /\ dat' = "member" /\ dm' = Nobody
  /\ UNCHANGED <<dself, left, server, conn, group, selfKeys, keys, loops, joining, act, porting,
                 incidents, history>>

DeleteSelfKeys ==
  /\ dat = "member" /\ left = {}
  /\ selfKeys' = selfKeys \ {dself}
  /\ dat' = "members" /\ dself' = 0 /\ UNCHANGED <<left, dm>>
  /\ UNCHANGED <<server, conn, group, member, keys, loops, joining, act, porting, incidents,
                 history>>

\* Mutant: the group's row is deleted before those of its members.
DeleteGroupFirst ==
  /\ dat = "members"
  /\ group' = NoGroup
  /\ GotoD("group")
  /\ UNCHANGED <<server, conn, selfKeys, member, keys, loops, joining, act, porting, incidents,
                 history>>

\* deleteGroupData: the rows of all members, then the group's.
DeleteMembers ==
  /\ dat = "members"
  /\ member' = [m \in Members |-> NoRow]
  /\ GotoD("group")
  /\ UNCHANGED <<server, conn, group, selfKeys, keys, loops, joining, act, porting, incidents,
                 history>>

DeleteGroup ==
  /\ dat = "group"
  /\ group' = NoGroup
  /\ GotoD("conn")
  /\ UNCHANGED <<server, conn, selfKeys, member, keys, loops, joining, act, porting, incidents,
                 history>>

DeleteConnection ==
  /\ dat = "conn"
  /\ conn' = FALSE
  /\ GotoD("idle")
  /\ UNCHANGED <<server, group, selfKeys, member, keys, loops, joining, act, porting, incidents,
                 history>>

Delete == \/ DeleteLoad \/ DeleteIds \/ DeleteMemberRow \/ DeleteSelfKeys \/ DeleteMembers
          \/ DeleteGroup \/ DeleteConnection

-----------------------------------------------------------------------------
\* The keys of a member are deleted, and the row is to be written or deleted next.
Halfway(m) == (jat = "write" /\ jm = m) \/ (dat = "row" /\ dm = m)

\* The process is killed.
Crash ==
  /\ Incident
  /\ at' = [k \in Loops |-> "idle"] /\ cur' = [k \in Loops |-> None]
  /\ fresh' = [k \in Loops |-> None]
  /\ JoinEnds /\ used' = 0 /\ cleaning' = {} /\ act' = Idle
  /\ dat' = "idle" /\ dself' = 0 /\ left' = {} /\ dm' = Nobody
  /\ excused' = IF jat # "idle" THEN Everyone ELSE excused \cup ({act.who} \ {Nobody})
  /\ torn' = torn \cup {m \in Members : Halfway(m)}
  /\ broken' = (broken \/ dat = "conn")
  /\ keys' = keys \cap {member[m].key : m \in Members}
  /\ UNCHANGED <<server, conn, group, selfKeys, member, ports, upTo, lost>>

Next ==
  \/ \E m \in Members : \/ MemberJoins(m) \/ MemberGoes(m) \/ MemberAdmin(m)
                         \/ SaveMember(m) \/ DeleteMemberKeys(m)
                         \/ \E kind \in {"remove", "promote", "demote"} : Act(kind, m)
  \/ SelfAdmin \/ SelfRemoved
  \/ \E k \in Loops : Handle(k) \/ \E e \in pending : Receive(k, e)
  \/ Join \/ JoinUnanswered \/ FindChat \/ FindGroup \/ AddGroup \/ UpdateGroup
  \/ DeleteOldKeys \/ UpdateMember \/ InsertMember \/ AddConnection
  \/ DeletePort \/ \E n \in 1..MaxJoins : Clean(n)
  \/ Leave \/ WriteAct
  \/ Delete
  \/ Crash

Spec == Init /\ [][Next]_vars

-----------------------------------------------------------------------------
\* The secret shared with an active member can be loaded, so that a message to the group
\* can be encrypted for everybody; only a crash between the two statements that replace
\* a member's keys, or that delete a member, can leave a row without them.
KeysHeld ==
  \A m \in Members :
    member[m].row = "active" => member[m].key \in keys \/ m \in torn \/ Halfway(m)

\* Nothing is under way that could still change what is known of a person.
Settled(p) ==
  /\ \A k \in Loops : at[k] = "idle"
  /\ jat = "idle" /\ dat = "idle" /\ act = Idle
  /\ \A e \in pending : e.who # p

\* The phone has the same members as the server, with the same administrators, and shares
\* with each a secret of the keys both have now: after any series of changes, handled
\* once or more, before or after a crash, between joins, leaves and deletions.
RosterAgrees ==
  \A m \in Members \ excused :
    Settled(m) /\ conn /\ group.row /\ group.connected /\ inGroup =>
      IF roster[m].key = 0 THEN member[m].row # "active"
      ELSE /\ member[m].row = "active" /\ member[m].admin = roster[m].admin
           /\ member[m].key.mine = myKey /\ member[m].key.theirs = roster[m].key

\* The phone knows whether this user is in the group, is an administrator, and which keys
\* the others use, and has those keys: over rejoins, deletions and ports that are cleaned
\* only keys that went with their own read port (DeletePortKeys) are missing.
SelfAgrees ==
  Settled(Self) /\ Self \notin excused /\ conn /\ group.row =>
    /\ group.connected = inGroup
    /\ inGroup => /\ group.admin = admin /\ group.self = myKey
                  /\ group.self \in selfKeys \cup lost

\* A chat of the home screen can be opened: it has its group, unless a crash came between
\* the last two statements of a deletion.
ChatLoads == conn => group.row \/ dat = "conn" \/ broken

\* A member who is announced, in order, is in the member list afterwards, with the keys the
\* announcement came with.
AddedIsListed ==
  [][\A k \in Loops : AddMemberRow(k) /\ cur[k].who \notin excused =>
       /\ member'[cur[k].who].row = "active"
       /\ member'[cur[k].who].key.theirs = cur[k].entry.key]_vars
=============================================================================
