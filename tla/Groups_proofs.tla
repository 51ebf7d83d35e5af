--------------------------- MODULE Groups_proofs ---------------------------
(***************************************************************************)
(* Proofs about Groups, for any members, loops, changes of the roster,     *)
(* joins and incidents: the state stays well-typed, a chat that is listed  *)
(* has its group; the secrets shared with members are kept apart, so that  *)
(* none is deleted that a row still needs; and what the server keeps of    *)
(* the changes about a person leads from what the rows say to its roster.  *)
(***************************************************************************)
EXTENDS Groups, TLAPS

USE GroupsAssumption, NoneAssumption, EventAssumption

-----------------------------------------------------------------------------
(* Types: the parts of TypeOK, strengthened where a later step needs it. *)

About == [newMember |-> Members, removedMember |-> Members, promotedMember |-> Members,
          demotedMember |-> Members, removedFromGroup |-> {Self}, promotion |-> {Self},
          demotion |-> {Self}]

\* Who an event is about goes with its kind; a new member has keys.
Events == {e \in Event : /\ e.who \in About[e.kind]
                         /\ e.kind = "newMember" => e.entry.key # 0}

ServerOK ==
  /\ inGroup \in BOOLEAN /\ admin \in BOOLEAN
  /\ myKey \in 0..MaxJoins
  /\ roster \in [Members -> Entry] /\ joins \in [Members -> Nat]
  /\ \A m \in Members : roster[m].key \in {0, joins[m]} /\ joins[m] <= changes + 1
  /\ changes \in 0..MaxChanges
  /\ pending \subseteq Events /\ \A e \in pending : e.n <= changes

GroupOK ==
  /\ conn \in BOOLEAN
  /\ group \in [row : BOOLEAN, connected : BOOLEAN, admin : BOOLEAN, self : 0..myKey]
  /\ group.row => group.self # 0
  /\ selfKeys \subseteq 1..myKey

MembersOK ==
  /\ member \in [Members -> Row]
  /\ \A m \in Members : (member[m].row = "none") <=> (member[m].key = None)
  /\ keys \subseteq Keys

LoopsOK ==
  /\ at \in [Loops -> {"idle", "load", "insert", "write"}]
  /\ cur \in [Loops -> Events \cup {None}]
  /\ fresh \in [Loops -> Keys \cup {None}]
  /\ \A k \in Loops : at[k] # "idle" => cur[k] \in Events
  /\ \A k \in Loops : at[k] \in {"insert", "write"} => cur[k].who \in Members
  /\ \A k \in Loops : at[k] = "insert" => fresh[k] \in Keys

JoinOK ==
  /\ jat \in {"idle", "chat", "group", "add", "update", "member", "old", "write", "insert",
              "conn"}
  /\ jkey \in 0..myKey /\ (jat # "idle" => jkey # 0)
  /\ answer \in [Members -> Entry] /\ jnew \in BOOLEAN
  /\ todo \subseteq Members /\ \A m \in todo : answer[m].key # 0
  /\ jm \in Members \cup {Nobody} /\ old \in Keys \cup {None}
  /\ jm \in Members => answer[jm].key # 0
  /\ IF jat \in {"old", "write", "insert"} THEN jm \in Members ELSE jm = Nobody

UserOK ==
  /\ \/ act = Idle
     \/ act = [kind |-> "leave", who |-> Self]
     \/ \E kind \in {"remove", "promote", "demote"}, m \in Members :
          act = [kind |-> kind, who |-> m]
  /\ dat \in {"idle", "ids", "member", "keys", "row", "self", "members", "group", "conn"}
  /\ dself \in 0..myKey /\ left \subseteq Members /\ dm \in Members \cup {Nobody}
  /\ dat = "row" => dm \in Members

HistoryOK ==
  /\ incidents \in 0..MaxIncidents
  /\ upTo \in [Everyone -> 0..MaxChanges]
  /\ excused \subseteq Everyone /\ torn \subseteq Members /\ broken \in BOOLEAN

Types == ServerOK /\ GroupOK /\ MembersOK /\ LoopsOK /\ JoinOK /\ UserOK /\ HistoryOK

\* Read ports are told apart by the number of the join they are used for.
PortOK ==
  /\ ports \subseteq 1..myKey /\ used \in 0..myKey /\ cleaning \subseteq 1..myKey
  /\ lost \subseteq 1..myKey

\* What becomes of a read port after its join.
PortStep == DeletePort \/ \E n \in 1..MaxJoins : Clean(n)

LEMMA TypesImplyTypeOK == Types /\ PortOK => TypeOK
<1> SUFFICES ASSUME Types, PortOK PROVE TypeOK
  OBVIOUS
<1>1. joins \in Places
  BY DEF Types, ServerOK, Places
<1>2. /\ pending \subseteq Event
      /\ cur \in [Loops -> Event \cup {None}]
  <2>1. Events \subseteq Event
    BY DEF Events
  <2> QED
    BY <2>1 DEF Types, ServerOK, LoopsOK
<1>3. act \in [kind : {"none", "remove", "promote", "demote", "leave"},
               who : Everyone \cup {Nobody}]
  BY DEF Types, UserOK, Idle, Everyone
<1>4. /\ inGroup \in BOOLEAN /\ admin \in BOOLEAN /\ myKey \in 0..MaxJoins
      /\ roster \in [Members -> Entry] /\ \A m \in Members : roster[m].key \in {0, joins[m]}
      /\ changes \in 0..MaxChanges /\ \A e \in pending : e.n <= changes
  BY DEF Types, ServerOK
<1>5. /\ at \in [Loops -> {"idle", "load", "insert", "write"}]
      /\ fresh \in [Loops -> Keys \cup {None}]
  BY DEF Types, LoopsOK
<1> QED
  BY <1>1, <1>2, <1>3, <1>4, <1>5
  DEF Types, TypeOK, GroupOK, MembersOK, JoinOK, UserOK, HistoryOK, PortOK

LEMMA InitTypes == Init => Types
<1> SUFFICES ASSUME Init PROVE Types
  OBVIOUS
<1>1. PICK there \in SUBSET Members, gone \in SUBSET Members, admins \in SUBSET Members,
           joined \in BOOLEAN, amAdmin \in BOOLEAN :
       /\ there \cap gone = {} /\ admins \subseteq there /\ (amAdmin => joined)
       /\ joins = [m \in Members |-> IF m \in there \cup gone THEN 1 ELSE 0]
       /\ roster = [m \in Members |-> IF m \in there THEN [key |-> 1, admin |-> m \in admins]
                                     ELSE Out]
       /\ inGroup = joined /\ admin = amAdmin /\ conn = joined
       /\ myKey = IF joined THEN 1 ELSE 0
       /\ selfKeys = 1..myKey
       /\ group = IF joined THEN [row |-> TRUE, connected |-> TRUE, admin |-> amAdmin, self |-> 1]
                            ELSE NoGroup
       /\ member = [m \in Members |->
            IF joined /\ joins[m] = 1
            THEN [row |-> IF m \in there THEN "active" ELSE "deleted", admin |-> m \in admins,
                  key |-> MemberKey(m, 1, [Out EXCEPT !.key = 1], "port", 0)]
            ELSE NoRow]
       /\ keys = {member[m].key : m \in Members} \ {None}
  BY DEF Init
<1>2. ServerOK
  <2>1. roster \in [Members -> Entry]
    BY <1>1 DEF Entry, Out
  <2>2. \A m \in Members : roster[m].key \in {0, joins[m]} /\ joins[m] <= 1
    BY <1>1 DEF Out
  <2> QED
    BY <1>1, <2>1, <2>2 DEF Init, ServerOK
<1>3. GroupOK
  BY <1>1 DEF GroupOK, NoGroup
<1>4. MembersOK
  <2>1. \A m \in Members : MemberKey(m, 1, [Out EXCEPT !.key = 1], "port", 0) \in Keys
    BY DEF MemberKey, Keys, Out
  <2>2. /\ member \in [Members -> Row]
        /\ \A m \in Members : (member[m].row = "none") <=> (member[m].key = None)
    BY <1>1, <2>1 DEF Row, NoRow
  <2>3. keys \subseteq Keys
    BY <1>1, <2>2 DEF Row
  <2> QED
    BY <2>2, <2>3 DEF MembersOK
<1>5. LoopsOK
  BY DEF Init, LoopsOK
<1>6. JoinOK
  <2>1. answer \in [Members -> Entry]
    BY DEF Init, Entry, Out
  <2>2. \A n \in Nat : 0 \in 0..n
    OBVIOUS
  <2> QED
    BY <1>2, <2>1, <2>2 DEF Init, JoinOK, ServerOK
<1>7. UserOK
  BY <1>2 DEF Init, UserOK, ServerOK
<1>8. HistoryOK
  <2>1. 0 \in 0..MaxIncidents /\ 0 \in 0..MaxChanges
    OBVIOUS
  <2>2. upTo \in [Everyone -> 0..MaxChanges]
    BY <2>1 DEF Init
  <2>3. incidents = 0 /\ excused = {} /\ torn = {} /\ broken = FALSE
    BY DEF Init
  <2> QED
    BY <2>1, <2>2, <2>3 DEF HistoryOK
<1> QED
  BY <1>2, <1>3, <1>4, <1>5, <1>6, <1>7, <1>8 DEF Types

\* An action on the roster, which may tell this user of it.
LEMMA TellTypes ==
  ASSUME ServerOK, NEW kind \in Kinds, NEW who \in About[kind], NEW entry \in Entry,
         kind = "newMember" => entry.key # 0, Tell(kind, who, entry)
  PROVE  /\ changes' = changes + 1 /\ changes' \in 0..MaxChanges
         /\ pending' \subseteq Events /\ \A e \in pending' : e.n <= changes'
<1> DEFINE e == [n |-> changes', kind |-> kind, who |-> who, entry |-> entry]
<1>1. changes' = changes + 1 /\ changes' \in 1..MaxChanges
  BY DEF ServerOK, Tell, Change
<1>2. who \in Everyone
  BY DEF About, Kinds, Everyone
<1>3. e \in Event
  BY <1>1, <1>2 DEF Event
<1>4. e \in Events
  BY <1>3 DEF Events
<1>5. pending' \subseteq pending \cup {e}
  BY DEF Tell
<1>6. e.n = changes'
  OBVIOUS
<1>7. \A f \in pending : f.n <= changes /\ f.n \in Nat /\ changes \in Nat
  BY DEF ServerOK, Events, Event
<1> HIDE DEF e
<1>8. pending' \subseteq Events
  BY <1>4, <1>5 DEF ServerOK
<1>9. \A f \in pending' : f.n <= changes'
  BY <1>1, <1>5, <1>6, <1>7
<1> QED
  BY <1>1, <1>8, <1>9

\* What the parts other than the server's need of it.
LEMMA Others ==
  ASSUME GroupOK, MembersOK, LoopsOK, JoinOK, UserOK, HistoryOK, myKey' = myKey,
         UNCHANGED <<rows, loops, joining, act, deleting, incidents, history>>
  PROVE  GroupOK' /\ MembersOK' /\ LoopsOK' /\ JoinOK' /\ UserOK' /\ HistoryOK'
<1>1. GroupOK' /\ MembersOK'
  BY DEF rows, GroupOK, MembersOK
<1>2. LoopsOK'
  BY DEF loops, LoopsOK
<1>3. JoinOK'
  BY DEF joining, JoinOK
<1>4. UserOK' /\ HistoryOK'
  BY DEF deleting, history, UserOK, HistoryOK
<1> QED
  BY <1>1, <1>2, <1>3, <1>4

LEMMA ServerTypes ==
  ASSUME Types, \/ \E m \in Members : MemberJoins(m) \/ MemberGoes(m) \/ MemberAdmin(m)
                \/ SelfAdmin \/ SelfRemoved
  PROVE  Types'
<1> USE DEF Types
<1>1. ASSUME NEW m \in Members, MemberJoins(m) PROVE Types'
  <2>1. joins' \in [Members -> Nat] /\ joins'[m] = joins[m] + 1 /\ joins'[m] <= changes + 2
    BY <1>1 DEF MemberJoins, ServerOK
  <2>2. changes + 2 <= MaxChanges + 1 /\ changes \in Nat
    BY <1>1 DEF MemberJoins, Tell, Change, ServerOK
  <2>3. joins'[m] \in 1..MaxChanges + 1
    BY <1>1, <2>1, <2>2 DEF ServerOK
  <2>4. roster'[m] \in Entry /\ roster'[m].key = joins'[m] /\ roster' \in [Members -> Entry]
    BY <1>1, <2>3 DEF MemberJoins, ServerOK, Entry
  <2>5. Tell("newMember", m, roster'[m])
    BY <1>1 DEF MemberJoins
  <2>6. /\ changes' = changes + 1 /\ changes' \in 0..MaxChanges
        /\ pending' \subseteq Events /\ \A e \in pending' : e.n <= changes'
    <3>1. "newMember" \in Kinds /\ m \in About["newMember"] /\ roster'[m].key # 0
      BY <2>3, <2>4 DEF Kinds, About
    <3> QED
      BY <2>4, <2>5, <3>1, TellTypes
  <2>7. \A n \in Members : roster'[n].key \in {0, joins'[n]} /\ joins'[n] <= changes' + 1
    <3>1. joins'[m] <= changes' + 1
      BY <2>1, <2>2, <2>6
    <3>2. \A n \in Members : n # m => roster'[n] = roster[n] /\ joins'[n] = joins[n]
      BY <1>1 DEF MemberJoins, ServerOK
    <3> QED
      BY <2>2, <2>4, <2>6, <3>1, <3>2 DEF ServerOK
  <2>8. ServerOK'
    BY <1>1, <2>1, <2>4, <2>6, <2>7 DEF ServerOK, MemberJoins
  <2> QED
    BY <1>1, <2>8, Others DEF MemberJoins
<1>2. ASSUME NEW m \in Members, MemberGoes(m) PROVE Types'
  <2>1. Out \in Entry /\ Out.key = 0
    BY DEF Out, Entry
  <2>2. roster' \in [Members -> Entry] /\ \A n \in Members : roster'[n].key \in {0, joins[n]}
    BY <1>2, <2>1 DEF MemberGoes, ServerOK
  <2>3. /\ changes' = changes + 1 /\ changes' \in 0..MaxChanges
        /\ pending' \subseteq Events /\ \A e \in pending' : e.n <= changes'
    <3>1. "removedMember" \in Kinds /\ m \in About["removedMember"]
      BY DEF Kinds, About
    <3> QED
      BY <1>2, <2>1, <3>1, TellTypes DEF MemberGoes
  <2>4. ServerOK'
    BY <1>2, <2>2, <2>3 DEF ServerOK, MemberGoes
  <2> QED
    BY <1>2, <2>4, Others DEF MemberGoes
<1>3. ASSUME NEW m \in Members, MemberAdmin(m) PROVE Types'
  <2>1. /\ roster' \in [Members -> Entry]
        /\ \A n \in Members : roster'[n].key = roster[n].key
    BY <1>3 DEF MemberAdmin, ServerOK, Entry
  <2>2. /\ changes' = changes + 1 /\ changes' \in 0..MaxChanges
        /\ pending' \subseteq Events /\ \A e \in pending' : e.n <= changes'
    <3>1. /\ {"demotedMember", "promotedMember"} \subseteq Kinds
          /\ m \in About["demotedMember"] /\ m \in About["promotedMember"]
      BY DEF Kinds, About
    <3> QED
      BY <1>3, <2>1, <3>1, TellTypes DEF MemberAdmin
  <2>3. ServerOK'
    BY <1>3, <2>1, <2>2 DEF ServerOK, MemberAdmin
  <2> QED
    BY <1>3, <2>3, Others DEF MemberAdmin
<1>4. ASSUME SelfAdmin \/ SelfRemoved PROVE Types'
  <2>1. Out \in Entry
    BY DEF Out, Entry
  <2>2. /\ changes' = changes + 1 /\ changes' \in 0..MaxChanges
        /\ pending' \subseteq Events /\ \A e \in pending' : e.n <= changes'
    <3>1. /\ {"demotion", "promotion", "removedFromGroup"} \subseteq Kinds
          /\ Self \in About["demotion"] /\ Self \in About["promotion"]
          /\ Self \in About["removedFromGroup"]
      BY DEF Kinds, About
    <3> QED
      BY <1>4, <2>1, <3>1, TellTypes DEF SelfAdmin, SelfRemoved
  <2>3. /\ inGroup' \in BOOLEAN /\ admin' \in BOOLEAN
        /\ UNCHANGED <<myKey, roster, joins>>
    BY <1>4 DEF ServerOK, SelfAdmin, SelfRemoved
  <2>4. \A m \in Members : joins[m] <= changes' + 1
    BY <2>2 DEF ServerOK
  <2>5. ServerOK'
    BY <2>2, <2>3, <2>4 DEF ServerOK
  <2> QED
    BY <1>4, <2>5, Others DEF SelfAdmin, SelfRemoved
<1> QED
  BY <1>1, <1>2, <1>3, <1>4

-----------------------------------------------------------------------------
\* The end of a handler.
LEMMA FinishTypes ==
  ASSUME ServerOK, LoopsOK, NEW k \in Loops, Finish(k)
  PROVE  ServerOK' /\ LoopsOK' /\ myKey' = myKey
<1>1. ServerOK' /\ myKey' = myKey
  BY DEF Finish, ServerOK
<1>2. /\ at' \in [Loops -> {"idle", "load", "insert", "write"}]
      /\ cur' \in [Loops -> Events \cup {None}] /\ fresh' \in [Loops -> Keys \cup {None}]
      /\ \A j \in Loops : at'[j] # "idle" => j # k
      /\ \A j \in Loops : j # k => at'[j] = at[j] /\ cur'[j] = cur[j] /\ fresh'[j] = fresh[j]
  BY DEF Finish, Goto, LoopsOK
<1> QED
  BY <1>1, <1>2 DEF LoopsOK

\* Writing a mark leaves rows well-typed.
LEMMA MarkedTypes ==
  ASSUME MembersOK, NEW m \in Members, NEW kind
  PROVE  /\ Marked(m, kind) \in [Members -> Row]
         /\ \A n \in Members : /\ Marked(m, kind)[n].key = member[n].key
                               /\ Marked(m, kind)[n].row = "none" <=> member[n].row = "none"
<1>1. CASE member[m].row = "none"
  BY <1>1 DEF Marked, MembersOK
<1>2. CASE member[m].row # "none"
  <2>1. \/ Marked(m, kind) = [member EXCEPT ![m].row = "deleted"]
        \/ Marked(m, kind) = [member EXCEPT ![m].admin = TRUE]
        \/ Marked(m, kind) = [member EXCEPT ![m].admin = FALSE]
    BY <1>2 DEF Marked
  <2>2. /\ [member EXCEPT ![m].row = "deleted"] \in [Members -> Row]
        /\ [member EXCEPT ![m].admin = TRUE] \in [Members -> Row]
        /\ [member EXCEPT ![m].admin = FALSE] \in [Members -> Row]
    BY DEF MembersOK, Row
  <2>3. CASE Marked(m, kind) = [member EXCEPT ![m].row = "deleted"]
    BY <1>2, <2>2, <2>3 DEF MembersOK, Row
  <2>4. CASE Marked(m, kind) = [member EXCEPT ![m].admin = TRUE]
    BY <1>2, <2>2, <2>4 DEF MembersOK, Row
  <2>5. CASE Marked(m, kind) = [member EXCEPT ![m].admin = FALSE]
    BY <1>2, <2>2, <2>5 DEF MembersOK, Row
  <2> QED
    BY <2>1, <2>3, <2>4, <2>5
<1> QED
  BY <1>1, <1>2

\* There is a number that makes the keys of a new member new.
LEMMA NewKeysTypes ==
  ASSUME Types, NEW k \in Loops, at[k] = "load", cur[k].kind = "newMember", group.row
  PROVE  /\ cur[k] \in Events /\ cur[k].who \in Members
         /\ NewKeys(cur[k], k) \in Keys
         /\ NewKeys(cur[k], k) \notin {old, member[cur[k].who].key}
         /\ NewKeys(cur[k], k).of = cur[k].who /\ NewKeys(cur[k], k).by = k
         /\ NewKeys(cur[k], k).mine <= myKey
<1> DEFINE key(nr) == MemberKey(cur[k].who, group.self, cur[k].entry, k, nr)
           N == CHOOSE nr \in 0..2 : key(nr) \notin {old, member[cur[k].who].key}
<1>1. cur[k] \in Events /\ cur[k] \in Event /\ cur[k].who \in About["newMember"] /\ cur[k].entry.key # 0
  BY DEF Types, LoopsOK, Events
<1>2. cur[k].who \in Members /\ cur[k].entry.key \in 1..MaxChanges + 1
  BY <1>1 DEF About, Event, Entry
<1>3. group.self \in 1..myKey /\ myKey <= MaxJoins /\ myKey \in Nat
  BY DEF Types, GroupOK, ServerOK
<1>4. \A nr \in 0..2 : key(nr) \in Keys
  BY <1>2, <1>3 DEF MemberKey, Keys
<1>5. key(0) # key(1) /\ key(0) # key(2) /\ key(1) # key(2)
  BY DEF MemberKey
<1>6. \E nr \in 0..2 : key(nr) \notin {old, member[cur[k].who].key}
  BY <1>5
<1>7. N \in 0..2 /\ key(N) \notin {old, member[cur[k].who].key}
  BY <1>6
<1>8. NewKeys(cur[k], k) = key(N)
  BY DEF NewKeys
<1>9. key(N).of = cur[k].who /\ key(N).by = k /\ key(N).mine = group.self
  BY DEF MemberKey
<1>10. key(N).mine <= myKey
  BY <1>3, <1>9
<1> HIDE DEF N, key
<1>11. key(N) \in Keys
  BY <1>4, <1>7
<1> QED
  BY <1>1, <1>2, <1>7, <1>8, <1>9, <1>10, <1>11

\* Received messages.
LEMMA HandleTypes ==
  ASSUME Types, NEW k \in Loops, Handle(k) \/ \E e \in pending : Receive(k, e)
  PROVE  Types'
<1> USE DEF Types
<1>1. ASSUME NEW e \in pending, Receive(k, e) PROVE Types'
  <2>1. e \in Events /\ e.who \in Everyone /\ e.n \in 1..MaxChanges
    BY DEF ServerOK, Events, Event
  <2>2. ServerOK' /\ myKey' = myKey
    BY <1>1 DEF Receive, server, ServerOK
  <2>3. GroupOK' /\ MembersOK'
    BY <1>1, <2>2 DEF Receive, rows, GroupOK, MembersOK
  <2>4. LoopsOK'
    <3>1. /\ at' \in [Loops -> {"idle", "load", "insert", "write"}]
          /\ cur' \in [Loops -> Events \cup {None}]
      BY <1>1, <2>1 DEF Receive, Goto, LoopsOK
    <3>2. at'[k] = "load" /\ cur'[k] \in Events /\ fresh' = fresh
      BY <1>1, <2>1 DEF Receive, Goto, LoopsOK
    <3>3. \A j \in Loops : j # k => at'[j] = at[j] /\ cur'[j] = cur[j]
      BY <1>1 DEF Receive, Goto, LoopsOK
    <3> QED
      BY <3>1, <3>2, <3>3 DEF LoopsOK
  <2>5. JoinOK' /\ UserOK'
    BY <1>1, <2>2 DEF Receive, joining, deleting, JoinOK, UserOK
  <2>6. HistoryOK'
    <3>1. upTo' \in [Everyone -> 0..MaxChanges]
      BY <1>1, <2>1 DEF Receive, HistoryOK
    <3>2. excused' \subseteq Everyone
      BY <1>1, <2>1 DEF Receive, HistoryOK
    <3> QED
      BY <1>1, <3>1, <3>2 DEF Receive, HistoryOK
  <2> QED
    BY <2>2, <2>3, <2>4, <2>5, <2>6
<1>2. ASSUME AddMemberKeys(k) PROVE Types'
  <2>1. JoinOK' /\ UserOK' /\ HistoryOK'
    <3>1. myKey' = myKey
      BY <1>2 DEF AddMemberKeys, Finish, server
    <3>2. cur[k].who \in Everyone
      BY <1>2 DEF AddMemberKeys, LoopsOK, Events, Event
    <3>3. excused' \subseteq Everyone
      BY <1>2, <3>2 DEF AddMemberKeys, HistoryOK
    <3> QED
      BY <1>2, <3>1, <3>3 DEF AddMemberKeys, joining, deleting, JoinOK, UserOK, HistoryOK
  <2>2. CASE Loaded /\ group.self \in selfKeys
    <3>1. ServerOK' /\ myKey' = myKey
      BY <1>2, <2>2 DEF AddMemberKeys, server, ServerOK
    <3>2. GroupOK'
      BY <1>2, <3>1 DEF AddMemberKeys, GroupOK
    <3>3. NewKeys(cur[k], k) \in Keys /\ cur[k] \in Events /\ cur[k].who \in Members
      BY <1>2, <2>2, NewKeysTypes DEF AddMemberKeys, Loaded
    <3>4. fresh' = [fresh EXCEPT ![k] = NewKeys(cur[k], k)]
      BY <1>2, <2>2 DEF AddMemberKeys
    <3>5. fresh'[k] = NewKeys(cur[k], k) /\ fresh' \in [Loops -> Keys \cup {None}]
      BY <3>3, <3>4 DEF LoopsOK
    <3>6. MembersOK'
      BY <1>2, <2>2, <3>3, <3>5 DEF AddMemberKeys, MembersOK
    <3>7. /\ at' = [at EXCEPT ![k] = "insert"] /\ cur' = cur
      BY <1>2, <2>2 DEF AddMemberKeys, Goto
    <3>8. LoopsOK'
      BY <3>3, <3>4, <3>5, <3>7 DEF LoopsOK
    <3> QED
      BY <2>1, <3>1, <3>2, <3>6, <3>8
  <2>3. CASE ~(Loaded /\ group.self \in selfKeys)
    <3>1. Finish(k) /\ UNCHANGED <<keys, conn, group, selfKeys, member>>
      BY <1>2, <2>3 DEF AddMemberKeys
    <3>2. ServerOK' /\ LoopsOK' /\ myKey' = myKey
      BY <3>1, FinishTypes
    <3> QED
      BY <2>1, <3>1, <3>2 DEF GroupOK, MembersOK
  <2> QED
    BY <2>2, <2>3
<1>3. ASSUME AddMemberRow(k) PROVE Types'
  <2>1. Finish(k)
    BY <1>3 DEF AddMemberRow
  <2>2. ServerOK' /\ LoopsOK' /\ myKey' = myKey
    BY <2>1, FinishTypes
  <2>3. /\ cur[k] \in Event /\ cur[k].who \in Members /\ cur[k].entry \in Entry
        /\ fresh[k] \in Keys
    BY <1>3 DEF AddMemberRow, LoopsOK, Events, Event
  <2>4. MembersOK'
    <3>1. [row |-> "active", admin |-> cur[k].entry.admin, key |-> fresh[k]] \in Row
      BY <2>3 DEF Row, Entry
    <3>2. \/ member' = member
          \/ member' = [member EXCEPT ![cur[k].who] =
                         [row |-> "active", admin |-> cur[k].entry.admin, key |-> fresh[k]]]
      BY <1>3 DEF AddMemberRow
    <3>3. keys' \subseteq keys
      BY <1>3 DEF AddMemberRow
    <3> QED
      BY <2>3, <3>1, <3>2, <3>3 DEF MembersOK
  <2>5. GroupOK' /\ JoinOK' /\ UserOK'
    BY <1>3, <2>2 DEF AddMemberRow, joining, deleting, GroupOK, JoinOK, UserOK
  <2>6. HistoryOK'
    <3>1. excused' \subseteq Everyone /\ torn' \subseteq Members
      BY <1>3, <2>3 DEF AddMemberRow, HistoryOK, Everyone
    <3> QED
      BY <1>3, <3>1 DEF AddMemberRow, HistoryOK
  <2> QED
    BY <2>2, <2>4, <2>5, <2>6
<1>4. ASSUME LoadMember(k) PROVE Types'
  <2>1. ServerOK' /\ LoopsOK' /\ myKey' = myKey
    <3>1. CASE Finish(k)
      BY <3>1, FinishTypes
    <3>2. CASE Goto(k, "write") /\ UNCHANGED <<cur, fresh, server>>
      <4>1. cur[k] \in Events /\ cur[k].who \in Members
        BY <1>4 DEF LoadMember, LoopsOK, Events, About
      <4>2. ServerOK' /\ myKey' = myKey
        BY <3>2 DEF server, ServerOK
      <4> QED
        BY <3>2, <4>1, <4>2 DEF Goto, LoopsOK
    <3> QED
      BY <1>4, <3>1, <3>2 DEF LoadMember
  <2> QED
    BY <1>4, <2>1 DEF LoadMember, rows, joining, deleting, history,
                      GroupOK, MembersOK, JoinOK, UserOK, HistoryOK
<1>5. ASSUME WriteMember(k) PROVE Types'
  <2>1. Finish(k)
    BY <1>5 DEF WriteMember
  <2>2. ServerOK' /\ LoopsOK' /\ myKey' = myKey
    BY <2>1, FinishTypes
  <2>3. cur[k].who \in Members
    BY <1>5 DEF WriteMember, LoopsOK
  <2>4. MembersOK'
    <3>1. member' = Marked(cur[k].who, cur[k].kind) /\ keys' = keys
      BY <1>5 DEF WriteMember
    <3> QED
      BY <2>3, <3>1, MarkedTypes DEF MembersOK
  <2> QED
    BY <1>5, <2>2, <2>4 DEF WriteMember, joining, deleting, history,
                            GroupOK, JoinOK, UserOK, HistoryOK
<1>6. ASSUME UpdateSelf(k) PROVE Types'
  <2>1. Finish(k)
    BY <1>6 DEF UpdateSelf
  <2>2. ServerOK' /\ LoopsOK' /\ myKey' = myKey
    BY <2>1, FinishTypes
  <2>3. \/ group' = group
        \/ group' = [group EXCEPT !.connected = FALSE]
        \/ group' = [group EXCEPT !.admin = (cur[k].kind = "promotion")]
    BY <1>6 DEF UpdateSelf
  <2>4. GroupOK'
    BY <1>6, <2>2, <2>3 DEF UpdateSelf, GroupOK
  <2> QED
    BY <1>6, <2>2, <2>4 DEF UpdateSelf, joining, deleting, history,
                            MembersOK, JoinOK, UserOK, HistoryOK
<1> QED
  BY <1>1, <1>2, <1>3, <1>4, <1>5, <1>6 DEF Handle

\* Group.join is over.
LEMMA JoinEndsTypes ==
  ASSUME JoinOK, myKey' \in Nat, JoinEnds
  PROVE  JoinOK'
<1>1. answer' \in [Members -> Entry]
  BY DEF JoinEnds, Entry, Out
<1>2. jkey' \in 0..myKey'
  BY DEF JoinEnds
<1> QED
  BY <1>1, <1>2 DEF JoinEnds, JoinOK

\* The keys of the row Group.join is about to save.
LEMMA PortKeyTypes ==
  ASSUME ServerOK, NEW m \in Members, NEW mine \in 1..myKey', myKey' \in 0..MaxJoins,
         NEW entry \in Entry, entry.key # 0
  PROVE  MemberKey(m, mine, entry, "port", 0) \in Keys
<1>1. entry.key \in 1..MaxChanges + 1 /\ mine \in 1..MaxJoins
  BY DEF Entry
<1> QED
  BY <1>1 DEF MemberKey, Keys

LEMMA AcceptTypes ==
  ASSUME ServerOK, Accept
  PROVE  /\ ServerOK' /\ myKey' = myKey + 1 /\ changes' \in 0..MaxChanges
         /\ myKey' \in 1..MaxJoins /\ 0..myKey \subseteq 0..myKey' /\ 1..myKey \subseteq 1..myKey'
<1>1. changes' = changes + 1 /\ changes' \in 0..MaxChanges
  BY DEF ServerOK, Accept, Change
<1>2. myKey' = myKey + 1 /\ myKey' \in 1..MaxJoins
  BY DEF ServerOK, Accept
<1>3. \A m \in Members : joins[m] <= changes' + 1
  BY <1>1 DEF ServerOK
<1>4. \A e \in pending : e.n <= changes'
  BY <1>1 DEF ServerOK, Events, Event
<1>5. inGroup' = TRUE /\ admin' = FALSE /\ UNCHANGED <<roster, joins, pending>>
  BY DEF Accept
<1>6. ServerOK'
  <2>1. myKey' \in 0..MaxJoins
    BY <1>2
  <2>2. roster' \in [Members -> Entry] /\ joins' \in [Members -> Nat]
        /\ \A m \in Members : roster'[m].key \in {0, joins'[m]} /\ joins'[m] <= changes' + 1
    BY <1>3, <1>5 DEF ServerOK
  <2>3. pending' \subseteq Events /\ \A e \in pending' : e.n <= changes'
    BY <1>4, <1>5 DEF ServerOK
  <2> QED
    BY <1>1, <1>5, <2>1, <2>2, <2>3 DEF ServerOK
<1> QED
  BY <1>1, <1>2, <1>6 DEF ServerOK

LEMMA HandledType ==
  ASSUME LoopsOK PROVE Handled \subseteq Everyone
  BY DEF LoopsOK, Handled, Events, Event

\* Reading a group port.
LEMMA JoinTypes ==
  ASSUME Types,
         \/ Join \/ JoinUnanswered \/ FindChat \/ FindGroup \/ AddGroup \/ UpdateGroup
         \/ \E m \in Members : SaveMember(m)
         \/ DeleteOldKeys \/ UpdateMember \/ InsertMember \/ AddConnection
  PROVE  Types'
<1> USE DEF Types
<1>a. myKey \in Nat
  BY DEF ServerOK
<1>b. jat # "idle" => jkey \in 1..myKey
  BY <1>a DEF JoinOK
<1>c. jat \in {"old", "write", "insert"} => NewKey \in Keys /\ Saved \in Row
  <2>1. ASSUME jat \in {"old", "write", "insert"} PROVE NewKey \in Keys /\ Saved \in Row
    <3>1. jkey \in 1..MaxJoins
      BY <1>b, <2>1 DEF ServerOK
    <3>2. jm \in Members /\ answer[jm] \in Entry /\ answer[jm].key # 0
      BY <2>1 DEF JoinOK
    <3>3. answer[jm].key \in 1..MaxChanges + 1 /\ answer[jm].admin \in BOOLEAN
      BY <3>2 DEF Entry
    <3>4. NewKey \in Keys
      BY <3>1, <3>2, <3>3 DEF NewKey, MemberKey, Keys
    <3> QED
      BY <3>3, <3>4 DEF Saved, Row
  <2> QED
    BY <2>1
<1>d. jat # "idle" => Joined \in [row : BOOLEAN, connected : BOOLEAN, admin : BOOLEAN,
                                  self : 0..myKey]
                      /\ Joined.row /\ Joined.self # 0
  BY <1>a, <1>b DEF Joined
<1>1. CASE Join
  <2> USE <1>1
  <2> DEFINE there == {m \in Members : roster[m].key # 0}
  <2>1. /\ ServerOK' /\ myKey' = myKey + 1 /\ changes' \in 0..MaxChanges
        /\ myKey' \in 1..MaxJoins /\ 0..myKey \subseteq 0..myKey' /\ 1..myKey \subseteq 1..myKey'
    BY AcceptTypes DEF Join
  <2>2. GroupOK'
    <3>1. group' = group /\ conn' = conn /\ selfKeys' = selfKeys \cup {myKey'}
      BY DEF Join, Accept
    <3>2. group' \in [row : BOOLEAN, connected : BOOLEAN, admin : BOOLEAN, self : 0..myKey']
      BY <2>1, <3>1 DEF GroupOK
    <3>3. selfKeys \subseteq 1..myKey /\ myKey' \in 1..myKey'
      BY <2>1 DEF GroupOK
    <3>4. selfKeys' \subseteq 1..myKey'
      BY <2>1, <3>1, <3>3
    <3> QED
      BY <3>1, <3>2, <3>4 DEF GroupOK
  <2>3. MembersOK'
    <3>1. \A m \in there : MemberKey(m, myKey', roster[m], "port", 0) \in Keys
      BY <2>1, PortKeyTypes DEF ServerOK
    <3>2. keys' = keys \cup {MemberKey(m, myKey', roster[m], "port", 0) : m \in there}
      BY DEF Join
    <3> HIDE DEF there
    <3>3. keys' \subseteq Keys
      BY <3>1, <3>2 DEF MembersOK
    <3> QED
      BY <3>3 DEF Join, MembersOK
  <2>4. LoopsOK'
    BY DEF Join, loops, LoopsOK
  <2>5. JoinOK'
    <3>1. /\ jat = "idle" /\ jat' = "chat" /\ jkey' = myKey' /\ answer' = roster /\ todo' = there
          /\ UNCHANGED <<jnew, jm, old>>
      BY DEF Join, Accept
    <3>2. jm = Nobody /\ jnew \in BOOLEAN /\ old \in Keys \cup {None}
      BY <3>1 DEF JoinOK
    <3>3. answer' \in [Members -> Entry] /\ todo' \subseteq Members
          /\ \A m \in todo' : answer'[m].key # 0
      BY <3>1 DEF ServerOK
    <3> HIDE DEF there
    <3> QED
      BY <2>1, <3>1, <3>2, <3>3 DEF JoinOK
  <2>6. UserOK'
    BY <2>1 DEF Join, deleting, UserOK
  <2>7. HistoryOK'
    <3>1. upTo' \in [Everyone -> 0..MaxChanges]
      BY <2>1 DEF Join
    <3>2. excused' \subseteq Everyone
      BY HandledType DEF Join, Everyone
    <3> QED
      BY <3>1, <3>2 DEF Join, HistoryOK
  <2> QED
    BY <2>1, <2>2, <2>3, <2>4, <2>5, <2>6, <2>7
<1>2. CASE JoinUnanswered
  <2> USE <1>2
  <2>1. /\ ServerOK' /\ myKey' = myKey + 1 /\ changes' \in 0..MaxChanges
        /\ myKey' \in 1..MaxJoins /\ 0..myKey \subseteq 0..myKey' /\ 1..myKey \subseteq 1..myKey'
    BY AcceptTypes DEF JoinUnanswered
  <2>2. GroupOK' /\ MembersOK'
    <3>1. selfKeys' = selfKeys \cup {myKey'} /\ UNCHANGED <<conn, group, member, keys>>
      BY DEF JoinUnanswered, Accept
    <3>2. selfKeys' \subseteq 1..myKey'
      <4>1. selfKeys \subseteq 1..myKey /\ myKey' \in 1..myKey'
        BY <2>1 DEF GroupOK
      <4> QED
        BY <2>1, <3>1, <4>1
    <3>3. group' \in [row : BOOLEAN, connected : BOOLEAN, admin : BOOLEAN, self : 0..myKey']
      BY <2>1, <3>1 DEF GroupOK
    <3>4. MembersOK'
      BY <3>1 DEF MembersOK
    <3> QED
      BY <3>1, <3>2, <3>3, <3>4 DEF GroupOK
  <2>3. LoopsOK'
    BY DEF JoinUnanswered, loops, LoopsOK
  <2>4. JoinOK' /\ UserOK'
    BY <2>1 DEF JoinUnanswered, joining, deleting, JoinOK, UserOK
  <2>5. HistoryOK'
    <3>1. incidents' \in 0..MaxIncidents
      BY DEF JoinUnanswered, Incident, HistoryOK
    <3> QED
      BY <3>1 DEF JoinUnanswered, HistoryOK
  <2> QED
    BY <2>1, <2>2, <2>3, <2>4, <2>5
<1>3. CASE FindChat
  BY <1>3 DEF FindChat, server, rows, loops, deleting, history, ServerOK, GroupOK, MembersOK,
              LoopsOK, JoinOK, UserOK, HistoryOK
<1>4. CASE FindGroup
  <2> USE <1>4
  <2>1. ServerOK' /\ GroupOK' /\ LoopsOK' /\ UserOK'
    BY DEF FindGroup, server, loops, deleting, ServerOK, GroupOK, LoopsOK, UserOK
  <2>2. MembersOK' /\ HistoryOK'
    BY DEF FindGroup, MembersOK, HistoryOK
  <2>3. JoinOK'
    <3>1. myKey' \in Nat
      BY <2>1 DEF ServerOK
    <3>2. CASE JoinEnds
      BY <3>1, <3>2, JoinEndsTypes
    <3>3. CASE GotoJ("update")
      BY <3>3 DEF FindGroup, GotoJ, server, JoinOK
    <3> QED
      BY <3>2, <3>3 DEF FindGroup
  <2> QED
    BY <2>1, <2>2, <2>3
<1>5. CASE AddGroup \/ UpdateGroup
  <2> USE <1>5
  <2>1. ServerOK' /\ MembersOK' /\ LoopsOK' /\ UserOK' /\ myKey' = myKey
    BY DEF AddGroup, UpdateGroup, server, loops, deleting, ServerOK, MembersOK, LoopsOK, UserOK
  <2>2. jat # "idle" /\ group' \in {group, Joined} /\ selfKeys' = selfKeys /\ conn' = conn
    BY DEF AddGroup, UpdateGroup
  <2>3. GroupOK'
    BY <1>d, <2>1, <2>2 DEF GroupOK
  <2>4. JoinOK'
    BY <2>1 DEF AddGroup, UpdateGroup, GotoJ, JoinOK
  <2>5. HistoryOK'
    BY DEF AddGroup, UpdateGroup, history, HistoryOK
  <2> QED
    BY <2>1, <2>3, <2>4, <2>5
<1>6. ASSUME NEW m \in Members, SaveMember(m) PROVE Types'
  <2> USE <1>6
  <2>1. ServerOK' /\ GroupOK' /\ MembersOK' /\ LoopsOK' /\ UserOK' /\ HistoryOK' /\ myKey' = myKey
    BY DEF SaveMember, server, rows, loops, deleting, history, ServerOK, GroupOK, MembersOK,
           LoopsOK, UserOK, HistoryOK
  <2>2. old' \in Keys \cup {None}
    BY DEF SaveMember, MembersOK, Row
  <2>3. answer[m].key # 0
    BY DEF SaveMember, JoinOK
  <2>4. jat' \in {"insert", "old"} /\ jm' = m /\ todo' \subseteq todo
    BY DEF SaveMember
  <2>5. JoinOK'
    BY <1>b, <2>1, <2>2, <2>3, <2>4 DEF SaveMember, JoinOK
  <2> QED
    BY <2>1, <2>5
<1>7. CASE DeleteOldKeys
  BY <1>7 DEF DeleteOldKeys, GotoJ, server, loops, deleting, history, ServerOK, GroupOK, MembersOK,
              LoopsOK, JoinOK, UserOK, HistoryOK
<1>8. CASE UpdateMember \/ InsertMember
  <2> USE <1>8
  <2>0. UNCHANGED <<server, conn, group, selfKeys, loops, act, deleting>>
    BY DEF UpdateMember, InsertMember
  <2>1. ServerOK' /\ GroupOK' /\ LoopsOK' /\ UserOK' /\ myKey' = myKey
    BY <2>0 DEF server, loops, deleting, ServerOK, GroupOK, LoopsOK, UserOK
  <2>2. jat \in {"write", "insert"} /\ jm \in Members
    BY DEF UpdateMember, InsertMember, JoinOK
  <2>3. Saved \in Row /\ Saved.row = "active" /\ Saved.key # None
    BY <1>c, <2>2 DEF Saved
  <2>4. \/ member' = member
        \/ member' = [member EXCEPT ![jm] = Saved]
    BY DEF UpdateMember, InsertMember
  <2>5. MembersOK'
    <3>1. keys' = keys
      BY DEF UpdateMember, InsertMember
    <3> HIDE DEF Saved
    <3> QED
      BY <2>2, <2>3, <2>4, <3>1 DEF MembersOK
  <2>6. JoinOK'
    <3>1. CASE GotoJ("insert")
      BY <2>1, <2>2, <3>1 DEF GotoJ, JoinOK
    <3>2. CASE /\ jat' = "member" /\ jm' = Nobody /\ old' = None
               /\ UNCHANGED <<jkey, answer, jnew, todo>>
      BY <2>1, <2>2, <3>2 DEF JoinOK
    <3> QED
      BY <3>1, <3>2 DEF UpdateMember, InsertMember
  <2>7. HistoryOK'
    <3>1. excused' \subseteq Everyone
      BY <2>2 DEF UpdateMember, InsertMember, HistoryOK, Everyone
    <3>2. torn' \subseteq torn
      BY DEF UpdateMember, InsertMember
    <3> QED
      BY <3>1, <3>2 DEF UpdateMember, InsertMember, HistoryOK
  <2> QED
    BY <2>1, <2>5, <2>6, <2>7
<1>9. CASE AddConnection
  <2> USE <1>9
  <2>1. ServerOK' /\ MembersOK' /\ LoopsOK' /\ UserOK' /\ HistoryOK'
    BY DEF AddConnection, server, loops, deleting, history, ServerOK, MembersOK, LoopsOK, UserOK,
           HistoryOK
  <2>2. GroupOK'
    BY DEF AddConnection, server, GroupOK, JoinOK
  <2>3. JoinOK'
    BY <1>a, JoinEndsTypes DEF AddConnection, server
  <2> QED
    BY <2>1, <2>2, <2>3
<1> QED
  BY <1>1, <1>2, <1>3, <1>4, <1>5, <1>6, <1>7, <1>8, <1>9

\* What the user asks for.
LEMMA UserTypes ==
  ASSUME Types,
         \/ \E m \in Members, kind \in {"remove", "promote", "demote"} : Act(kind, m)
         \/ Leave \/ WriteAct
  PROVE  Types'
<1> USE DEF Types
<1>1. ASSUME NEW who \in Everyone, NEW kind, Asked(kind, who), changes' \in 0..MaxChanges,
             myKey' = myKey,
             \/ kind = "leave" /\ who = Self
             \/ kind \in {"remove", "promote", "demote"} /\ who \in Members
      PROVE  GroupOK' /\ MembersOK' /\ LoopsOK' /\ JoinOK' /\ UserOK' /\ HistoryOK'
  <2>1. GroupOK' /\ MembersOK' /\ LoopsOK' /\ JoinOK'
    BY <1>1 DEF Asked, rows, loops, joining, GroupOK, MembersOK, LoopsOK, JoinOK
  <2>2. act' = act \/ act' = [kind |-> kind, who |-> who]
    BY <1>1 DEF Asked
  <2>3. UserOK'
    BY <1>1, <2>2 DEF Asked, deleting, UserOK
  <2>4. HistoryOK'
    <3>1. upTo' \in [Everyone -> 0..MaxChanges] /\ excused' \subseteq Everyone
      BY <1>1 DEF Asked, HistoryOK
    <3>2. incidents' \in 0..MaxIncidents
      BY <1>1 DEF Asked, Incident, HistoryOK
    <3> QED
      BY <1>1, <3>1, <3>2 DEF Asked, HistoryOK
  <2> QED
    BY <2>1, <2>3, <2>4
<1>2. ASSUME NEW m \in Members, NEW kind \in {"remove", "promote", "demote"}, Act(kind, m)
      PROVE  Types'
  <2>1. changes' = changes + 1 /\ changes' \in 0..MaxChanges
    BY <1>2 DEF Act, Ask, Change, ServerOK
  <2>2. /\ UNCHANGED <<inGroup, admin, myKey, joins, pending>>
        /\ roster' = [roster EXCEPT ![m] = IF kind = "remove" THEN Out
                                           ELSE [@ EXCEPT !.admin = (kind = "promote")]]
    BY <1>2 DEF Act, Ask
  <2>3. /\ roster' \in [Members -> Entry]
        /\ \A n \in Members : roster'[n].key \in {0, joins[n]}
    <3>1. Out \in Entry /\ Out.key = 0
      BY DEF Out, Entry
    <3>2. [roster[m] EXCEPT !.admin = (kind = "promote")] \in Entry
      BY DEF ServerOK, Entry
    <3>3. [roster[m] EXCEPT !.admin = (kind = "promote")].key = roster[m].key
      BY DEF ServerOK, Entry
    <3> QED
      BY <2>2, <3>1, <3>2, <3>3 DEF ServerOK
  <2>4. \A n \in Members : joins[n] <= changes' + 1
    BY <2>1 DEF ServerOK
  <2>5. \A e \in pending : e.n <= changes'
    BY <2>1 DEF ServerOK, Events, Event
  <2>6. ServerOK'
    BY <2>1, <2>2, <2>3, <2>4, <2>5 DEF ServerOK
  <2>7. Asked(kind, m) /\ m \in Everyone
    BY <1>2 DEF Act, Everyone
  <2> QED
    BY <1>1, <2>1, <2>2, <2>6, <2>7
<1>3. CASE Leave
  <2>1. changes' = changes + 1 /\ changes' \in 0..MaxChanges
    BY <1>3 DEF Leave, AskToLeave, Change, ServerOK
  <2>2. /\ inGroup' = FALSE /\ admin' = FALSE
        /\ UNCHANGED <<myKey, roster, joins, pending>>
    BY <1>3 DEF Leave, AskToLeave
  <2>3. \A n \in Members : joins[n] <= changes' + 1
    BY <2>1 DEF ServerOK
  <2>4. \A e \in pending : e.n <= changes'
    BY <2>1 DEF ServerOK, Events, Event
  <2>5. ServerOK'
    BY <2>1, <2>2, <2>3, <2>4 DEF ServerOK
  <2>6. Asked("leave", Self) /\ Self \in Everyone
    BY <1>3 DEF Leave, Everyone
  <2> QED
    BY <1>1, <2>1, <2>2, <2>5, <2>6
<1>4. CASE WriteAct
  <2> USE <1>4
  <2>1. ServerOK' /\ LoopsOK' /\ JoinOK' /\ HistoryOK' /\ myKey' = myKey
    BY DEF WriteAct, server, loops, joining, history, ServerOK, LoopsOK, JoinOK, HistoryOK
  <2>2. UserOK'
    BY <2>1 DEF WriteAct, deleting, UserOK
  <2>3. group' = group \/ group' = [group EXCEPT !.connected = FALSE]
    BY DEF WriteAct
  <2>4. GroupOK'
    BY <2>1, <2>3 DEF WriteAct, GroupOK
  <2>5. MembersOK'
    <3>1. CASE act.kind = "leave"
      BY <3>1 DEF WriteAct, MembersOK
    <3>2. CASE act.kind # "leave"
      <4>1. act.who \in Members
        BY <3>2 DEF WriteAct, UserOK
      <4>2. member' = Marked(act.who, act.kind) /\ keys' = keys
        BY <3>2 DEF WriteAct
      <4> QED
        BY <4>1, <4>2, MarkedTypes DEF MembersOK
    <3> QED
      BY <3>1, <3>2
  <2> QED
    BY <2>1, <2>2, <2>4, <2>5
<1> QED
  BY <1>2, <1>3, <1>4

\* Deleting the group, and a crash.
LEMMA DeleteTypes ==
  ASSUME Types, Delete \/ \E m \in Members : DeleteMemberKeys(m)
  PROVE  Types'
<1> USE DEF Types
<1>1. ServerOK' /\ LoopsOK' /\ JoinOK' /\ act' = act /\ myKey' = myKey
  <2>1. UNCHANGED <<server, loops, joining, act>>
    BY DEF Delete, DeleteLoad, DeleteIds, DeleteMemberKeys, DeleteMemberRow, DeleteSelfKeys,
           DeleteMembers, DeleteGroup, DeleteConnection
  <2> QED
    BY <2>1 DEF server, loops, joining, ServerOK, LoopsOK, JoinOK
<1>2. CASE DeleteLoad
  <2>1. excused' \subseteq Everyone
    BY <1>2, HandledType DEF DeleteLoad, HistoryOK
  <2> QED
    BY <1>1, <1>2, <2>1 DEF DeleteLoad, rows, GroupOK, MembersOK, UserOK, HistoryOK
<1>3. CASE DeleteIds
  BY <1>1, <1>3 DEF DeleteIds, rows, history, GroupOK, MembersOK, UserOK, HistoryOK
<1>4. ASSUME NEW m \in Members, DeleteMemberKeys(m) PROVE Types'
  BY <1>1, <1>4 DEF DeleteMemberKeys, history, GroupOK, MembersOK, UserOK, HistoryOK
<1>5. CASE DeleteMemberRow
  <2>1. MembersOK'
    BY <1>5 DEF DeleteMemberRow, MembersOK, NoRow, Row
  <2> QED
    BY <1>1, <1>5, <2>1 DEF DeleteMemberRow, history, GroupOK, UserOK, HistoryOK
<1>6. CASE DeleteSelfKeys
  <2>1. 0 \in 0..myKey
    BY DEF ServerOK
  <2> QED
    BY <1>1, <1>6, <2>1 DEF DeleteSelfKeys, history, GroupOK, MembersOK, UserOK, HistoryOK
<1>7. CASE DeleteMembers
  <2>1. MembersOK'
    BY <1>7 DEF DeleteMembers, MembersOK, NoRow, Row
  <2> QED
    BY <1>1, <1>7, <2>1 DEF DeleteMembers, GotoD, history, GroupOK, UserOK, HistoryOK
<1>8. CASE DeleteGroup
  <2>1. GroupOK'
    BY <1>1, <1>8 DEF DeleteGroup, GroupOK, ServerOK, NoGroup
  <2> QED
    BY <1>1, <1>8, <2>1 DEF DeleteGroup, GotoD, history, MembersOK, UserOK, HistoryOK
<1>9. CASE DeleteConnection
  BY <1>1, <1>9 DEF DeleteConnection, GotoD, history, GroupOK, MembersOK, UserOK, HistoryOK
<1> QED
  BY <1>2, <1>3, <1>4, <1>5, <1>6, <1>7, <1>8, <1>9 DEF Delete

LEMMA CrashTypes == Types /\ Crash => Types'
<1> SUFFICES ASSUME Types, Crash PROVE Types'
  OBVIOUS
<1> USE DEF Types
<1>1. ServerOK' /\ GroupOK' /\ myKey' = myKey /\ myKey \in Nat
  BY DEF Crash, server, ServerOK, GroupOK
<1>2. MembersOK'
  BY DEF Crash, MembersOK
<1>3. LoopsOK'
  BY DEF Crash, LoopsOK
<1>4. JoinOK'
  BY <1>1, JoinEndsTypes DEF Crash
<1>5. UserOK'
  BY <1>1 DEF Crash, UserOK
<1>6. HistoryOK'
  <2>1. act.who \in Everyone \cup {Nobody}
    BY DEF UserOK, Idle, Everyone
  <2>2. excused' \subseteq Everyone
    BY <2>1 DEF Crash, HistoryOK
  <2>3. incidents' \in 0..MaxIncidents
    BY DEF Crash, Incident, HistoryOK
  <2> QED
    BY <2>2, <2>3 DEF Crash, HistoryOK
<1> QED
  BY <1>1, <1>2, <1>3, <1>4, <1>5, <1>6

LEMMA StutterTypes == Types /\ UNCHANGED vars => Types'
<1> SUFFICES ASSUME Types, UNCHANGED vars PROVE Types'
  OBVIOUS
<1>1. ServerOK' /\ myKey' = myKey
  BY DEF Types, vars, server, ServerOK
<1>2. UNCHANGED <<rows, loops, joining, act, deleting, incidents, history>>
  BY DEF vars
<1> QED
  BY <1>1, <1>2, Others DEF Types

\* What becomes of a port changes nothing else than the group's own keys, and those that
\* go are noted as lost.
LEMMA PortFrame ==
  ASSUME PortStep
  PROVE  /\ UNCHANGED <<server, conn, group, member, keys, loops, joining, act, deleting,
                        incidents, upTo, excused, torn, broken>>
         /\ selfKeys' \subseteq selfKeys /\ selfKeys \subseteq selfKeys' \cup lost'
         /\ lost \subseteq lost'
<1>1. CASE DeletePort
  BY <1>1 DEF DeletePort, rows, history
<1>2. CASE \E n \in 1..MaxJoins : CleanPort(n)
  BY <1>2 DEF CleanPort, rows, history
<1>3. CASE \E n \in 1..MaxJoins : DeletePortKeys(n)
  BY <1>3 DEF DeletePortKeys
<1> QED
  BY <1>1, <1>2, <1>3 DEF PortStep, Clean

LEMMA PortTypes == Types /\ PortStep => Types'
<1> SUFFICES ASSUME Types, PortStep PROVE Types'
  OBVIOUS
<1> USE PortFrame DEF Types
<1>1. ServerOK' /\ myKey' = myKey
  BY DEF server, ServerOK
<1>2. GroupOK' /\ MembersOK'
  BY <1>1 DEF GroupOK, MembersOK
<1>3. LoopsOK'
  BY DEF loops, LoopsOK
<1>4. JoinOK' /\ UserOK' /\ HistoryOK'
  BY <1>1 DEF joining, deleting, JoinOK, UserOK, HistoryOK
<1> QED
  BY <1>1, <1>2, <1>3, <1>4

THEOREM NextTypes == Types /\ [Next]_vars => Types'
  BY ServerTypes, HandleTypes, JoinTypes, UserTypes, DeleteTypes, CrashTypes, PortTypes,
     StutterTypes DEF Next, PortStep

LEMMA NextPorts == Types /\ PortOK /\ [Next]_vars => PortOK'
<1> SUFFICES ASSUME Types, PortOK, [Next]_vars PROVE PortOK'
  OBVIOUS
<1>0. myKey \in Nat
  BY DEF Types, ServerOK
<1>1. CASE UNCHANGED <<myKey, porting, lost>>
  BY <1>1 DEF porting, PortOK
<1>2. CASE \E m \in Members : MemberJoins(m) \/ MemberGoes(m) \/ MemberAdmin(m)
  BY <1>1, <1>2 DEF MemberJoins, MemberGoes, MemberAdmin, history
<1>3. CASE SelfAdmin \/ SelfRemoved
  BY <1>1, <1>3 DEF SelfAdmin, SelfRemoved, history
<1>4. ASSUME NEW k \in Loops, Handle(k) \/ \E e \in pending : Receive(k, e) PROVE PortOK'
  <2>1. myKey' = myKey
    BY <1>4 DEF Handle, AddMemberKeys, AddMemberRow, LoadMember, WriteMember, UpdateSelf, Receive,
                Finish, server
  <2>2. UNCHANGED <<porting, lost>>
    BY <1>4 DEF Handle, AddMemberKeys, AddMemberRow, LoadMember, WriteMember, UpdateSelf, Receive,
                history
  <2> QED
    BY <1>1, <2>1, <2>2
<1>5. CASE Join \/ JoinUnanswered
  <2>1. Accept /\ lost' = lost
    BY <1>5 DEF Join, JoinUnanswered
  <2>2. /\ myKey' = myKey + 1 /\ ports' = ports \cup {myKey'}
        /\ UNCHANGED <<used, cleaning>>
    BY <2>1 DEF Accept
  <2> QED
    BY <1>0, <2>1, <2>2 DEF PortOK
<1>6. CASE FindChat \/ AddGroup \/ UpdateGroup \/ DeleteOldKeys \/ UpdateMember \/ InsertMember
           \/ \E m \in Members : SaveMember(m)
  BY <1>1, <1>6 DEF FindChat, AddGroup, UpdateGroup, DeleteOldKeys, UpdateMember, InsertMember,
                    SaveMember, server, history
<1>7. CASE FindGroup \/ AddConnection
  <2>1. used' \in {used, jkey} /\ UNCHANGED <<ports, cleaning, lost, myKey>>
    BY <1>7 DEF FindGroup, AddConnection, server, history
  <2>2. jkey \in 0..myKey
    BY DEF Types, JoinOK
  <2> QED
    BY <2>1, <2>2 DEF PortOK
<1>8. CASE DeletePort
  BY <1>0, <1>8 DEF DeletePort, server, history, PortOK
<1>9. ASSUME NEW n \in 1..MaxJoins, Clean(n) PROVE PortOK'
  BY <1>9 DEF Clean, CleanPort, DeletePortKeys, server, history, PortOK
<1>10. CASE Leave \/ \E m \in Members, kind \in {"remove", "promote", "demote"} : Act(kind, m)
  BY <1>1, <1>10 DEF Leave, AskToLeave, Act, Ask, Asked
<1>11. CASE WriteAct
  BY <1>1, <1>11 DEF WriteAct, server, history
<1>12. CASE Delete \/ \E m \in Members : DeleteMemberKeys(m)
  BY <1>1, <1>12 DEF Delete, DeleteLoad, DeleteIds, DeleteMemberKeys, DeleteMemberRow,
     DeleteSelfKeys, DeleteMembers, DeleteGroup, DeleteConnection, server, history
<1>13. CASE Crash
  BY <1>0, <1>13 DEF Crash, server, PortOK
<1>14. CASE UNCHANGED vars
  BY <1>1, <1>14 DEF vars, server, history
<1> QED
  BY <1>2, <1>3, <1>4, <1>5, <1>6, <1>7, <1>8, <1>9, <1>10, <1>11, <1>12, <1>13, <1>14 DEF Next

\* Every variable keeps its type.
THEOREM TypeCorrect == Spec => []TypeOK
<1>1. Spec => []Types
  BY InitTypes, NextTypes, PTL DEF Spec
<1>2. Init => PortOK
  <2>1. \A n \in Nat : 0 \in 0..n
    OBVIOUS
  <2> QED
    BY <2>1, InitTypes DEF Init, PortOK, Types, ServerOK
<1>3. Spec => []PortOK
  BY <1>1, <1>2, NextPorts, PTL DEF Spec
<1> QED
  BY <1>1, <1>3, TypesImplyTypeOK, PTL

-----------------------------------------------------------------------------
(* A chat that can be opened *)

\* Group.delete has a connection until its last statement; Group.join adds one only for a
\* new chat, after the group's row.
ChatInv ==
  /\ dat # "idle" => conn
  /\ jat = "add" => jnew
  /\ jnew => ~conn /\ jat \in {"add", "member", "old", "write", "insert"}
  /\ jnew /\ jat # "add" => group.row
  /\ ChatLoads

LEMMA ChatStep == Types /\ ChatInv /\ [Next]_vars => ChatInv'
<1> SUFFICES ASSUME Types, ChatInv, [Next]_vars PROVE ChatInv'
  OBVIOUS
<1> USE DEF ChatInv, ChatLoads
<1>1. CASE UNCHANGED <<conn, group, jat, jnew, dat, broken>>
  BY <1>1
<1>2. CASE \E m \in Members : MemberJoins(m) \/ MemberGoes(m) \/ MemberAdmin(m)
  <2>1. UNCHANGED <<rows, joining, deleting, history>>
    BY <1>2 DEF MemberJoins, MemberGoes, MemberAdmin
  <2> QED
    BY <1>1, <2>1 DEF rows, joining, deleting, history
<1>3. CASE SelfAdmin \/ SelfRemoved
  <2>1. UNCHANGED <<rows, joining, deleting, history>>
    BY <1>3 DEF SelfAdmin, SelfRemoved
  <2> QED
    BY <1>1, <2>1 DEF rows, joining, deleting, history
<1>4. ASSUME NEW k \in Loops, Handle(k) \/ \E e \in pending : Receive(k, e) PROVE ChatInv'
  <2>1. UNCHANGED <<conn, joining, deleting, broken>>
    BY <1>4 DEF Handle, AddMemberKeys, AddMemberRow, LoadMember, WriteMember, UpdateSelf, Receive,
                rows, history
  <2>2. group'.row = group.row
    <3>1. CASE UpdateSelf(k)
      <4>1. \/ group' = group
            \/ group' = [group EXCEPT !.connected = FALSE]
            \/ group' = [group EXCEPT !.admin = (cur[k].kind = "promotion")]
        BY <3>1 DEF UpdateSelf
      <4> QED
        BY <4>1 DEF Types, GroupOK
    <3>2. CASE ~UpdateSelf(k)
      BY <1>4, <3>2 DEF Handle, AddMemberKeys, AddMemberRow, LoadMember, WriteMember, Receive, rows
    <3> QED
      BY <3>1, <3>2
  <2> QED
    BY <2>1, <2>2 DEF joining, deleting
<1>5. CASE Join \/ JoinUnanswered
  BY <1>5 DEF Join, JoinUnanswered, Accept, joining, deleting
<1>6. CASE FindChat
  BY <1>6 DEF FindChat, rows, deleting, history
<1>7. CASE FindGroup
  BY <1>7 DEF FindGroup, JoinEnds, GotoJ, deleting
<1>8. CASE AddGroup
  BY <1>8 DEF AddGroup, GotoJ, Joined, deleting
<1>9. CASE UpdateGroup
  BY <1>9 DEF UpdateGroup, GotoJ, Joined, deleting, history
<1>10. ASSUME NEW m \in Members, SaveMember(m) PROVE ChatInv'
  BY <1>10 DEF SaveMember, rows, deleting, history
<1>11. CASE DeleteOldKeys
  BY <1>11 DEF DeleteOldKeys, GotoJ, deleting, history
<1>12. CASE UpdateMember \/ InsertMember
  BY <1>12 DEF UpdateMember, InsertMember, GotoJ, deleting
<1>13. CASE AddConnection
  BY <1>13 DEF AddConnection, JoinEnds, deleting, history, Types, GroupOK, JoinOK
<1>14. CASE Leave \/ \E m \in Members, kind \in {"remove", "promote", "demote"} : Act(kind, m)
  BY <1>1, <1>14 DEF Leave, Act, Asked, rows, joining, deleting
<1>15. CASE WriteAct
  <2>1. group' = group \/ group' = [group EXCEPT !.connected = FALSE]
    BY <1>15 DEF WriteAct
  <2>2. group'.row = group.row
    BY <2>1 DEF Types, GroupOK
  <2> QED
    BY <1>15, <2>2 DEF WriteAct, joining, deleting, history
<1>16. CASE DeleteLoad \/ DeleteIds
  BY <1>16 DEF DeleteLoad, DeleteIds, Loaded, rows, joining, history
<1>17. CASE DeleteMemberRow \/ DeleteSelfKeys \/ DeleteMembers
            \/ \E m \in Members : DeleteMemberKeys(m)
  BY <1>17 DEF DeleteMemberKeys, DeleteMemberRow, DeleteSelfKeys, DeleteMembers, GotoD, joining,
               history
<1>18. CASE DeleteGroup
  BY <1>18 DEF DeleteGroup, GotoD, NoGroup, joining, history
<1>19. CASE DeleteConnection
  BY <1>19 DEF DeleteConnection, GotoD, joining, history
<1>20. CASE Crash
  BY <1>20 DEF Crash, JoinEnds, Types, HistoryOK
<1>21. CASE PortStep
  BY <1>1, <1>21, PortFrame DEF joining, deleting
<1>22. CASE UNCHANGED vars
  BY <1>1, <1>22 DEF vars, rows, joining, deleting, history
<1> QED
  BY <1>2, <1>3, <1>4, <1>5, <1>6, <1>7, <1>8, <1>9, <1>10, <1>11, <1>12, <1>13, <1>14, <1>15,
     <1>16, <1>17, <1>18, <1>19, <1>20, <1>21, <1>22 DEF Next, Delete, PortStep

\* A chat of the home screen has its group, however joins, deletions and events meet, but
\* for a crash between the last two statements of a deletion.
THEOREM ChatLoadsHolds == Spec => []ChatLoads
<1>1. Init => ChatInv
  <2> SUFFICES ASSUME Init PROVE ChatInv
    OBVIOUS
  <2>1. conn => group.row
    BY DEF Init
  <2> QED
    BY <2>1 DEF Init, ChatInv, ChatLoads
<1>2. Spec => []Types
  BY InitTypes, NextTypes, PTL DEF Spec
<1>3. Spec => []ChatInv
  BY <1>1, <1>2, ChatStep, PTL DEF Spec
<1>4. ChatInv => ChatLoads
  BY DEF ChatInv
<1> QED
  BY <1>3, <1>4, PTL

-----------------------------------------------------------------------------
(* The secrets shared with members *)

PortKey(m) == MemberKey(m, jkey, answer[m], "port", 0)

\* The keys of a row are its member's, are of a join that has been, and are saved, but for
\* rows whose keys were deleted to be replaced or to delete the row.
MemberKeysOK ==
  \A m \in Members :
    member[m].row # "none" => /\ member[m].key.of = m /\ member[m].key.mine <= myKey
                              /\ member[m].key \in keys \/ m \in torn \/ Halfway(m)

\* Those a loop has saved for a new member are its own: no row has them yet and nobody is
\* about to delete them.
LoopKeysOK ==
  \A k \in Loops :
    at[k] = "insert" => /\ fresh[k] \in keys /\ fresh[k].by = k
                        /\ fresh[k].of = cur[k].who /\ fresh[k].mine <= myKey
                        /\ fresh[k] # old /\ \A m \in Members : fresh[k] # member[m].key

\* So are those Group.join has saved for the members it still has to save; the keys it is
\* about to delete are of the member it is saving.
JoinKeysOK ==
  /\ \A m \in todo \cup ({jm} \ {Nobody}) :
       PortKey(m) \in keys /\ PortKey(m) # member[m].key /\ PortKey(m) # old
  /\ jm \notin todo
  /\ CASE jat \in {"old", "write"} -> old # None /\ old.of = jm
       [] jat = "insert" -> TRUE
       [] OTHER -> old = None

KeyInv == MemberKeysOK /\ LoopKeysOK /\ JoinKeysOK
locals == <<at, cur, fresh, jat, jkey, answer, todo, jm, old, dat, dm>>

\* A step that touches no keys preserves all this, also when this user joins once more.
LEMMA KeyFrame ==
  ASSUME Types, KeyInv, UNCHANGED <<keys, torn, locals>>, myKey' \in Nat, myKey <= myKey',
         member' \in [Members -> Row],
         \A m \in Members : member'[m].key = member[m].key
                            /\ (member'[m].row = "none" <=> member[m].row = "none")
  PROVE  KeyInv'
<1>0. myKey \in Nat /\ \A m \in Members : Halfway(m)' = Halfway(m)
  BY DEF Types, ServerOK, Halfway, locals
<1>1. MemberKeysOK'
  <2> SUFFICES ASSUME NEW m \in Members, member'[m].row # "none"
               PROVE  /\ member'[m].key.of = m /\ member'[m].key.mine <= myKey'
                      /\ member'[m].key \in keys' \/ m \in torn' \/ Halfway(m)'
    BY DEF MemberKeysOK
  <2>1. /\ member[m].key.of = m /\ member[m].key.mine <= myKey
        /\ member[m].key \in keys \/ m \in torn \/ Halfway(m)
    BY DEF KeyInv, MemberKeysOK
  <2>2. member[m].key \in Keys
    BY DEF Types, MembersOK, Row
  <2>3. member[m].key.mine \in Nat
    BY <2>2 DEF Keys
  <2> QED
    BY <1>0, <2>1, <2>3
<1>2. LoopKeysOK'
  <2> SUFFICES ASSUME NEW k \in Loops, at[k] = "insert"
               PROVE  /\ fresh[k] \in keys /\ fresh[k].by = k
                      /\ fresh[k].of = cur[k].who /\ fresh[k].mine <= myKey'
                      /\ fresh[k] # old /\ \A m \in Members : fresh[k] # member[m].key
    BY DEF LoopKeysOK, locals
  <2>1. fresh[k] \in Keys
    BY DEF Types, LoopsOK
  <2>2. fresh[k].mine \in Nat
    BY <2>1 DEF Keys
  <2> QED
    BY <1>0, <2>2 DEF KeyInv, LoopKeysOK
<1>3. JoinKeysOK'
  <2>1. \A m \in Members : PortKey(m)' = PortKey(m)
    BY DEF PortKey, MemberKey, locals
  <2>2. todo \cup ({jm} \ {Nobody}) \subseteq Members
    BY DEF Types, JoinOK
  <2> QED
    BY <2>1, <2>2 DEF KeyInv, JoinKeysOK, locals
<1> QED
  BY <1>1, <1>2, <1>3 DEF KeyInv

\* Rows keep or lose their keys, or one gets keys that are saved, none of a loop's, and
\* none that are still to be saved.
LEMMA RowKeys ==
  ASSUME Types, KeyInv
  PROVE  /\ \A m \in Members : member[m].row # "none" => member[m].key \in Keys
         /\ \A k \in Loops : at[k] = "insert" => fresh[k] \in Keys /\ cur[k].who \in Members
         /\ \A m \in Members : PortKey(m).of = m /\ PortKey(m).by = "port" /\ PortKey(m).mine = jkey
         /\ todo \cup ({jm} \ {Nobody}) \subseteq Members
         /\ jkey <= myKey /\ myKey \in Nat /\ jkey \in Nat
<1>1. \A m \in Members : member[m].row # "none" => member[m].key \in Keys
  BY DEF Types, MembersOK, Row
<1>2. \A k \in Loops : at[k] = "insert" => fresh[k] \in Keys /\ cur[k].who \in Members
  BY DEF Types, LoopsOK
<1>3. \A m \in Members : PortKey(m).of = m /\ PortKey(m).by = "port" /\ PortKey(m).mine = jkey
  BY DEF PortKey, MemberKey
<1>4. todo \cup ({jm} \ {Nobody}) \subseteq Members
  BY DEF Types, JoinOK
<1>5. jkey <= myKey /\ myKey \in Nat /\ jkey \in Nat
  BY DEF Types, JoinOK, ServerOK
<1> QED
  BY <1>1, <1>2, <1>3, <1>4, <1>5

\* The loops: only saving a new member touches keys.
LEMMA FinishKeys ==
  ASSUME Types, KeyInv, NEW k \in Loops, Finish(k), LoopsOK', ServerOK',
         UNCHANGED <<keys, torn, joining, deleting>>,
         member' \in [Members -> Row],
         \A m \in Members : member'[m].key = member[m].key
                            /\ (member'[m].row = "none" <=> member[m].row = "none")
  PROVE  KeyInv'
<1>1. myKey' = myKey
  BY DEF Finish
<1>2. MemberKeysOK'
  <2>1. \A m \in Members : Halfway(m)' = Halfway(m)
    BY DEF Halfway, joining, deleting
  <2> QED
    BY <1>1, <2>1 DEF KeyInv, MemberKeysOK
<1>3. LoopKeysOK'
  <2>1. \A j \in Loops : at'[j] = "insert" =>
          at[j] = "insert" /\ fresh'[j] = fresh[j] /\ cur'[j] = cur[j]
    BY DEF Finish, Goto, Types, LoopsOK
  <2>2. old' = old
    BY DEF joining
  <2> QED
    BY <1>1, <2>1, <2>2 DEF KeyInv, LoopKeysOK
<1>4. JoinKeysOK'
  <2>1. \A m \in Members : PortKey(m)' = PortKey(m)
    BY DEF PortKey, MemberKey, joining
  <2>2. UNCHANGED <<todo, jm, jat, old>>
    BY DEF joining
  <2> QED
    BY <2>1, <2>2, RowKeys DEF KeyInv, JoinKeysOK
<1> QED
  BY <1>2, <1>3, <1>4 DEF KeyInv

LEMMA HandleKeys ==
  ASSUME Types, KeyInv, Types', NEW k \in Loops, Handle(k) \/ \E e \in pending : Receive(k, e)
  PROVE  KeyInv'
<1>0. ServerOK' /\ LoopsOK' /\ MembersOK'
  BY DEF Types
<1>1. ASSUME NEW e \in pending, Receive(k, e) PROVE KeyInv'
  <2>1. MemberKeysOK'
    <3>1. \A m \in Members : Halfway(m)' = Halfway(m)
      BY <1>1 DEF Receive, Halfway, joining, deleting
    <3> QED
      BY <1>1, <3>1 DEF Receive, server, rows, KeyInv, MemberKeysOK
  <2>2. LoopKeysOK'
    <3>1. \A j \in Loops : at'[j] = "insert" =>
            at[j] = "insert" /\ fresh'[j] = fresh[j] /\ cur'[j] = cur[j]
      BY <1>1 DEF Receive, Goto, Types, LoopsOK
    <3> QED
      BY <1>1, <3>1 DEF Receive, server, rows, joining, KeyInv, LoopKeysOK
  <2>3. JoinKeysOK'
    <3>1. \A m \in Members : PortKey(m)' = PortKey(m)
      BY <1>1 DEF Receive, PortKey, MemberKey, joining
    <3> QED
      BY <1>1, <3>1, RowKeys DEF Receive, joining, rows, KeyInv, JoinKeysOK
  <2> QED
    BY <2>1, <2>2, <2>3 DEF KeyInv
<1>2. CASE AddMemberKeys(k) /\ Loaded /\ group.self \in selfKeys
  <2> USE <1>2
  <2>1. /\ cur[k] \in Events /\ cur[k].who \in Members
        /\ NewKeys(cur[k], k) \in Keys
        /\ NewKeys(cur[k], k) \notin {old, member[cur[k].who].key}
        /\ NewKeys(cur[k], k).of = cur[k].who /\ NewKeys(cur[k], k).by = k
        /\ NewKeys(cur[k], k).mine <= myKey
    BY NewKeysTypes DEF AddMemberKeys, Loaded
  <2>2. /\ fresh' = [fresh EXCEPT ![k] = NewKeys(cur[k], k)] /\ keys' = keys \cup {fresh'[k]}
        /\ at' = [at EXCEPT ![k] = "insert"] /\ UNCHANGED <<cur, server>>
        /\ UNCHANGED <<member, joining, deleting, torn>>
    BY DEF AddMemberKeys, Goto, history
  <2>3. fresh'[k] = NewKeys(cur[k], k) /\ \A j \in Loops : j # k => fresh'[j] = fresh[j]
    BY <2>2 DEF Types, LoopsOK
  <2>4. MemberKeysOK'
    <3>1. \A m \in Members : Halfway(m)' = Halfway(m)
      BY <2>2 DEF Halfway, joining, deleting
    <3> QED
      BY <2>2, <3>1 DEF server, KeyInv, MemberKeysOK
  <2>5. LoopKeysOK'
    <3> SUFFICES ASSUME NEW j \in Loops, at'[j] = "insert"
                 PROVE  /\ fresh'[j] \in keys' /\ fresh'[j].by = j
                        /\ fresh'[j].of = cur[j].who /\ fresh'[j].mine <= myKey
                        /\ fresh'[j] # old /\ \A m \in Members : fresh'[j] # member[m].key
      BY <2>2 DEF LoopKeysOK, server, joining
    <3>1. CASE j = k
      <4>1. \A m \in Members : m # cur[k].who => NewKeys(cur[k], k) # member[m].key
        <5> SUFFICES ASSUME NEW m \in Members, m # cur[k].who
                     PROVE  NewKeys(cur[k], k) # member[m].key
          OBVIOUS
        <5>1. member[m].row = "none" => member[m].key = None
          BY DEF Types, MembersOK
        <5>2. member[m].row # "none" => member[m].key.of = m
          BY DEF KeyInv, MemberKeysOK
        <5> QED
          BY <2>1, <5>1, <5>2
      <4> QED
        BY <2>1, <2>2, <2>3, <3>1, <4>1
    <3>2. CASE j # k
      <4>1. at[j] = "insert"
        BY <2>2, <3>2 DEF Types, LoopsOK
      <4> QED
        BY <2>2, <2>3, <3>2, <4>1 DEF KeyInv, LoopKeysOK
    <3> QED
      BY <3>1, <3>2
  <2>6. JoinKeysOK'
    <3>1. \A m \in Members : PortKey(m)' = PortKey(m)
      BY <2>2 DEF PortKey, MemberKey, joining
    <3> QED
      BY <2>2, <3>1, RowKeys DEF joining, KeyInv, JoinKeysOK
  <2> QED
    BY <2>4, <2>5, <2>6 DEF KeyInv
<1>3. CASE AddMemberKeys(k) /\ ~(Loaded /\ group.self \in selfKeys)
  <2>1. Finish(k) /\ UNCHANGED <<member, keys, torn, joining, deleting>>
    BY <1>3 DEF AddMemberKeys, history
  <2> QED
    BY <1>0, <2>1, FinishKeys DEF MembersOK
<1>4. CASE AddMemberRow(k)
  <2> USE <1>4
  <2> DEFINE m == cur[k].who
             new == [row |-> "active", admin |-> cur[k].entry.admin, key |-> fresh[k]]
  <2>1. /\ at[k] = "insert" /\ m \in Members
        /\ fresh[k] \in keys /\ fresh[k].by = k /\ fresh[k].of = m /\ fresh[k].mine <= myKey
        /\ fresh[k] # old /\ \A n \in Members : fresh[k] # member[n].key
    BY RowKeys DEF AddMemberRow, KeyInv, LoopKeysOK
  <2>2. \A j \in Loops : at'[j] = "insert" =>
          j # k /\ at[j] = "insert" /\ fresh'[j] = fresh[j] /\ cur'[j] = cur[j]
    BY DEF AddMemberRow, Finish, Goto, Types, LoopsOK
  <2>3. UNCHANGED <<myKey, joining, deleting>>
    BY DEF AddMemberRow, Finish
  <2>4. \A n \in Members : Halfway(n)' = Halfway(n) /\ PortKey(n)' = PortKey(n)
    BY <2>3 DEF Halfway, PortKey, MemberKey, joining, deleting
  <2>5. \A j \in Loops : at[j] = "insert" /\ j # k => fresh[j] # fresh[k]
    BY <2>1 DEF KeyInv, LoopKeysOK
  <2>6. \A n \in Members : PortKey(n) # fresh[k]
    BY <2>1, RowKeys
  <2>7. CASE member[m].row = "none"
    <3>1. member' = [member EXCEPT ![m] = new] /\ keys' = keys /\ torn' = torn \ {m}
      BY <2>7 DEF AddMemberRow
    <3>2. /\ member'[m].key = fresh[k]
          /\ \A n \in Members : n # m => member'[n] = member[n]
      BY <2>1, <3>1 DEF Types, MembersOK
    <3>3. MemberKeysOK'
      BY <2>1, <2>3, <2>4, <3>1, <3>2 DEF KeyInv, MemberKeysOK
    <3>4. LoopKeysOK'
      BY <2>2, <2>3, <2>5, <3>1, <3>2 DEF KeyInv, LoopKeysOK, joining
    <3>5. JoinKeysOK'
      BY <2>3, <2>4, <2>6, <3>1, <3>2, RowKeys DEF KeyInv, JoinKeysOK, joining
    <3> QED
      BY <3>3, <3>4, <3>5 DEF KeyInv
  <2>8. CASE member[m].row # "none"
    <3>1. member' = member /\ keys' = keys \ {fresh[k]} /\ torn' = torn
      BY <2>8 DEF AddMemberRow
    <3>2. MemberKeysOK'
      BY <2>1, <2>3, <2>4, <3>1 DEF KeyInv, MemberKeysOK
    <3>3. LoopKeysOK'
      BY <2>2, <2>3, <2>5, <3>1 DEF KeyInv, LoopKeysOK, joining
    <3>4. JoinKeysOK'
      BY <2>3, <2>4, <2>6, <3>1, RowKeys DEF KeyInv, JoinKeysOK, joining
    <3> QED
      BY <3>2, <3>3, <3>4 DEF KeyInv
  <2> QED
    BY <2>7, <2>8
<1>5. CASE LoadMember(k)
  <2>1. UNCHANGED <<member, keys, torn, joining, deleting>>
    BY <1>5 DEF LoadMember, rows, history
  <2>2. CASE Finish(k)
    BY <1>0, <2>1, <2>2, FinishKeys DEF MembersOK
  <2>3. CASE Goto(k, "write") /\ UNCHANGED <<cur, fresh, server>>
    <3>1. \A j \in Loops : at'[j] = "insert" => at[j] = "insert"
      BY <2>3 DEF Goto, Types, LoopsOK
    <3>2. \A m \in Members : Halfway(m)' = Halfway(m) /\ PortKey(m)' = PortKey(m)
      BY <2>1 DEF Halfway, PortKey, MemberKey, joining, deleting
    <3>3. MemberKeysOK'
      BY <2>1, <2>3, <3>2 DEF server, KeyInv, MemberKeysOK
    <3>4. LoopKeysOK'
      BY <2>1, <2>3, <3>1 DEF server, joining, KeyInv, LoopKeysOK
    <3>5. JoinKeysOK'
      BY <2>1, <3>2, RowKeys DEF joining, KeyInv, JoinKeysOK
    <3> QED
      BY <3>3, <3>4, <3>5 DEF KeyInv
  <2> QED
    BY <1>5, <2>2, <2>3 DEF LoadMember
<1>6. CASE WriteMember(k)
  <2>1. Finish(k) /\ UNCHANGED <<keys, torn, joining, deleting>>
    BY <1>6 DEF WriteMember, history
  <2>2. member' = Marked(cur[k].who, cur[k].kind) /\ cur[k].who \in Members
    BY <1>6 DEF WriteMember, Types, LoopsOK
  <2>3. /\ member' \in [Members -> Row]
        /\ \A m \in Members : member'[m].key = member[m].key
                              /\ (member'[m].row = "none" <=> member[m].row = "none")
    BY <2>2, MarkedTypes DEF Types
  <2> QED
    BY <1>0, <2>1, <2>3, FinishKeys
<1>7. CASE UpdateSelf(k)
  <2>1. Finish(k) /\ UNCHANGED <<member, keys, torn, joining, deleting>>
    BY <1>7 DEF UpdateSelf, history
  <2> QED
    BY <1>0, <2>1, FinishKeys DEF MembersOK
<1> QED
  BY <1>1, <1>2, <1>3, <1>4, <1>5, <1>6, <1>7 DEF Handle

\* Group.join goes on without a key.
LEMMA MoveJoinKeys ==
  ASSUME Types, KeyInv,
         jat \in {"chat", "group", "add", "update"}, jat' \in {"group", "add", "update", "member"},
         UNCHANGED <<jkey, answer, todo, jm, old, myKey, member, keys, loops, deleting, torn>>
  PROVE  KeyInv'
<1>1. \A m \in Members : Halfway(m)' = Halfway(m) /\ PortKey(m)' = PortKey(m)
  BY DEF Halfway, PortKey, deleting
<1>2. MemberKeysOK' /\ LoopKeysOK'
  BY <1>1 DEF KeyInv, MemberKeysOK, LoopKeysOK, loops
<1>3. JoinKeysOK'
  BY <1>1, RowKeys DEF KeyInv, JoinKeysOK
<1> QED
  BY <1>2, <1>3 DEF KeyInv

LEMMA JoinKeys ==
  ASSUME Types, KeyInv, Types',
         \/ Join \/ JoinUnanswered \/ FindChat \/ FindGroup \/ AddGroup \/ UpdateGroup
         \/ \E m \in Members : SaveMember(m)
         \/ DeleteOldKeys \/ UpdateMember \/ InsertMember \/ AddConnection
  PROVE  KeyInv'
<1>0. myKey \in Nat /\ myKey' \in Nat /\ MembersOK'
  BY DEF Types, ServerOK
<1>1. CASE Join
  <2> USE <1>1
  <2> DEFINE there == {m \in Members : roster[m].key # 0}
             new == {MemberKey(m, myKey', roster[m], "port", 0) : m \in there}
  <2>1. /\ jat = "idle" /\ jat' = "chat" /\ jkey' = myKey' /\ answer' = roster /\ todo' = there
        /\ myKey' = myKey + 1
        /\ keys' = keys \cup new
        /\ UNCHANGED <<member, loops, jm, old, deleting, torn>>
    BY DEF Join, Accept
  <2>2. jm = Nobody /\ old = None
    BY <2>1 DEF Types, JoinOK, KeyInv, JoinKeysOK
  <2>3. \A m \in Members : Halfway(m)' = Halfway(m)
    BY <2>1 DEF Halfway, deleting
  <2> HIDE DEF new
  <2>4. MemberKeysOK'
    <3> SUFFICES ASSUME NEW m \in Members, member[m].row # "none"
                 PROVE  /\ member[m].key.of = m /\ member[m].key.mine <= myKey'
                        /\ member[m].key \in keys' \/ m \in torn \/ Halfway(m)
      BY <2>1, <2>3 DEF MemberKeysOK
    <3>1. member[m].key.mine \in Nat
      BY RowKeys DEF Keys
    <3> QED
      BY <1>0, <2>1, <3>1 DEF KeyInv, MemberKeysOK
  <2>5. LoopKeysOK'
    <3> SUFFICES ASSUME NEW k \in Loops, at[k] = "insert"
                 PROVE  /\ fresh[k] \in keys' /\ fresh[k].by = k
                        /\ fresh[k].of = cur[k].who /\ fresh[k].mine <= myKey'
                        /\ fresh[k] # old /\ \A m \in Members : fresh[k] # member[m].key
      BY <2>1 DEF LoopKeysOK, loops
    <3>1. fresh[k].mine \in Nat
      BY RowKeys DEF Keys
    <3> QED
      BY <1>0, <2>1, <3>1 DEF KeyInv, LoopKeysOK
  <2>6. JoinKeysOK'
    <3> SUFFICES ASSUME NEW m \in there
                 PROVE  PortKey(m)' \in keys' /\ PortKey(m)' # member[m].key /\ PortKey(m)' # None
      BY <2>1, <2>2 DEF JoinKeysOK
    <3>1. PortKey(m)' = MemberKey(m, myKey', roster[m], "port", 0)
      BY <2>1 DEF PortKey
    <3>2. PortKey(m)' \in keys'
      BY <2>1, <3>1 DEF new
    <3>3. PortKey(m)' # None
      BY <1>0, <3>2 DEF MembersOK
    <3>4. PortKey(m)' # member[m].key
      <4>1. PortKey(m)'.mine = myKey + 1
        BY <2>1, <3>1 DEF MemberKey
      <4>2. CASE member[m].row = "none"
        BY <3>3, <4>2 DEF Types, MembersOK
      <4>3. CASE member[m].row # "none"
        <5>1. member[m].key.mine <= myKey /\ member[m].key.mine \in Nat
          BY <4>3, RowKeys DEF KeyInv, MemberKeysOK, Keys
        <5> QED
          BY <1>0, <4>1, <5>1
      <4> QED
        BY <4>2, <4>3
    <3> QED
      BY <3>2, <3>3, <3>4
  <2> QED
    BY <2>4, <2>5, <2>6 DEF KeyInv
<1>2. CASE JoinUnanswered
  <2>1. myKey' = myKey + 1
    BY <1>2 DEF JoinUnanswered, Accept
  <2>2. UNCHANGED <<keys, member, torn, locals>>
    BY <1>2 DEF JoinUnanswered, loops, joining, deleting, locals
  <2> QED
    BY <1>0, <2>1, <2>2, KeyFrame DEF MembersOK
<1>3. CASE FindChat
  <2>1. /\ jat = "chat" /\ jat' \in {"group", "add"} /\ UNCHANGED <<jkey, answer, todo, jm, old>>
        /\ UNCHANGED <<myKey, member, keys, loops, deleting, torn>>
    BY <1>3 DEF FindChat, server, rows, history
  <2> QED
    BY <2>1, MoveJoinKeys
<1>4. CASE FindGroup
  <2>1. /\ jat = "group" /\ UNCHANGED <<myKey, member, loops, deleting, torn>>
    BY <1>4 DEF FindGroup, server
  <2>2. \A m \in Members : Halfway(m)' = Halfway(m)
    BY <1>4, <2>1 DEF FindGroup, GotoJ, JoinEnds, Halfway, deleting
  <2>3. CASE GotoJ("update") /\ UNCHANGED keys
    BY <2>1, <2>3, MoveJoinKeys DEF GotoJ
  <2>4. CASE JoinEnds /\ keys' = keys \ {MemberKey(m, jkey, answer[m], "port", 0) : m \in todo}
    <3>1. \A key \in keys : (\A m \in todo : key # PortKey(m)) => key \in keys'
      BY <2>4 DEF PortKey
    <3>2. MemberKeysOK'
      <4> SUFFICES ASSUME NEW n \in Members, member[n].row # "none", member[n].key \in keys
                   PROVE  member[n].key \in keys'
        BY <2>1, <2>2 DEF KeyInv, MemberKeysOK
      <4>1. \A m \in todo : member[n].key # PortKey(m)
        <5> SUFFICES ASSUME NEW m \in todo PROVE member[n].key # PortKey(m)
          OBVIOUS
        <5>1. m \in Members /\ PortKey(m).of = m /\ member[n].key.of = n
          BY RowKeys DEF KeyInv, MemberKeysOK
        <5>2. m = n => PortKey(m) # member[n].key
          BY DEF KeyInv, JoinKeysOK
        <5> QED
          BY <5>1, <5>2
      <4> QED
        BY <3>1, <4>1
    <3>3. LoopKeysOK'
      <4> SUFFICES ASSUME NEW k \in Loops, at[k] = "insert"
                   PROVE  fresh[k] \in keys' /\ fresh[k] # old'
        BY <2>1 DEF KeyInv, LoopKeysOK, loops
      <4>1. fresh[k] # old'
        BY <2>4, RowKeys DEF JoinEnds
      <4>2. fresh[k] \in keys /\ \A m \in todo : fresh[k] # PortKey(m)
        BY RowKeys DEF KeyInv, LoopKeysOK
      <4> QED
        BY <3>1, <4>1, <4>2
    <3>4. JoinKeysOK'
      BY <2>4 DEF JoinEnds, JoinKeysOK
    <3> QED
      BY <3>2, <3>3, <3>4 DEF KeyInv
  <2> QED
    BY <1>4, <2>3, <2>4 DEF FindGroup
<1>5. CASE AddGroup \/ UpdateGroup
  <2>1. /\ jat \in {"add", "update"} /\ jat' = "member" /\ UNCHANGED <<jkey, answer, todo, jm, old>>
        /\ UNCHANGED <<myKey, member, keys, loops, deleting, torn>>
    BY <1>5 DEF AddGroup, UpdateGroup, GotoJ, server, history
  <2> QED
    BY <2>1, MoveJoinKeys
<1>6. ASSUME NEW m \in Members, SaveMember(m) PROVE KeyInv'
  <2> USE <1>6
  <2>1. /\ jat = "member" /\ m \in todo /\ todo' = todo \ {m} /\ jm' = m /\ old' = member[m].key
        /\ jat' = IF member[m].row = "none" THEN "insert" ELSE "old"
        /\ UNCHANGED <<jkey, answer, myKey, member, keys, loops, deleting, torn>>
    BY DEF SaveMember, server, rows, history
  <2>2. jm = Nobody
    BY <2>1 DEF Types, JoinOK
  <2>3. \A n \in Members : Halfway(n)' = Halfway(n) /\ PortKey(n)' = PortKey(n)
    BY <2>1 DEF Halfway, PortKey, deleting
  <2>4. MemberKeysOK'
    BY <2>1, <2>3 DEF KeyInv, MemberKeysOK
  <2>5. LoopKeysOK'
    BY <2>1 DEF KeyInv, LoopKeysOK, loops
  <2>6. JoinKeysOK'
    <3>1. \A n \in todo : n # m => PortKey(n) # member[m].key
      <4> SUFFICES ASSUME NEW n \in todo, n # m PROVE PortKey(n) # member[m].key
        OBVIOUS
      <4>1. n \in Members /\ PortKey(n).of = n /\ PortKey(n) \in keys
        BY RowKeys DEF KeyInv, JoinKeysOK
      <4>2. CASE member[m].row = "none"
        BY <4>1, <4>2 DEF Types, MembersOK
      <4>3. CASE member[m].row # "none"
        BY <4>1, <4>3 DEF KeyInv, MemberKeysOK
      <4> QED
        BY <4>2, <4>3
    <3>2. \A n \in todo : /\ n \in Members /\ PortKey(n) \in keys
                          /\ PortKey(n) # member[n].key /\ PortKey(n) # member[m].key
      BY <3>1, RowKeys DEF KeyInv, JoinKeysOK
    <3>3. member[m].row # "none" => old' # None /\ old'.of = m
      BY <2>1 DEF Types, MembersOK, KeyInv, MemberKeysOK
    <3>4. todo' \cup ({jm'} \ {Nobody}) \subseteq todo /\ jm' \notin todo'
      BY <2>1
    <3>5. jat' = "insert" \/ (jat' = "old" /\ old' # None /\ old'.of = jm')
      BY <2>1, <3>3
    <3>6. \A n \in todo' \cup ({jm'} \ {Nobody}) :
            PortKey(n)' \in keys' /\ PortKey(n)' # member'[n].key /\ PortKey(n)' # old'
      BY <2>1, <2>3, <3>2, <3>4
    <3> QED
      BY <3>4, <3>5, <3>6 DEF JoinKeysOK
  <2> QED
    BY <2>4, <2>5, <2>6 DEF KeyInv
<1>7. CASE DeleteOldKeys
  <2> USE <1>7
  <2>1. /\ jat = "old" /\ jat' = "write" /\ keys' = keys \ {old}
        /\ UNCHANGED <<jkey, answer, todo, jm, old, myKey, member, loops, deleting, torn>>
    BY DEF DeleteOldKeys, GotoJ, server, history
  <2>2. old # None /\ old.of = jm /\ jm \in Members
    BY <2>1 DEF KeyInv, JoinKeysOK, Types, JoinOK
  <2>3. \A n \in Members : PortKey(n)' = PortKey(n) /\ (Halfway(n) => Halfway(n)')
    BY <2>1 DEF Halfway, PortKey, deleting
  <2>4. Halfway(jm)'
    BY <2>1 DEF Halfway
  <2>5. MemberKeysOK'
    <3> SUFFICES ASSUME NEW m \in Members, member[m].row # "none", member[m].key \in keys, m # jm
                 PROVE  member[m].key \in keys'
      BY <2>1, <2>2, <2>3, <2>4 DEF KeyInv, MemberKeysOK
    <3>1. member[m].key.of = m
      BY DEF KeyInv, MemberKeysOK
    <3> QED
      BY <2>1, <2>2, <3>1
  <2>6. LoopKeysOK'
    BY <2>1 DEF KeyInv, LoopKeysOK, loops
  <2>7. JoinKeysOK'
    BY <2>1, <2>2, <2>3, RowKeys DEF KeyInv, JoinKeysOK
  <2> QED
    BY <2>5, <2>6, <2>7 DEF KeyInv
<1>8. CASE UpdateMember /\ member[jm].row = "none"
  <2> USE <1>8
  <2>1. /\ jat = "write" /\ jat' = "insert"
        /\ UNCHANGED <<jkey, answer, todo, jm, old, myKey, member, keys, loops, deleting, torn>>
    BY DEF UpdateMember, GotoJ, server
  <2>2. \A n \in Members : PortKey(n)' = PortKey(n)
    BY <2>1 DEF PortKey
  <2>3. MemberKeysOK'
    <3> SUFFICES ASSUME NEW m \in Members, member[m].row # "none", Halfway(m)
                 PROVE  Halfway(m)'
      BY <2>1 DEF KeyInv, MemberKeysOK
    <3> QED
      BY <2>1 DEF Halfway, deleting
  <2>4. LoopKeysOK'
    BY <2>1 DEF KeyInv, LoopKeysOK, loops
  <2>5. JoinKeysOK'
    BY <2>1, <2>2, RowKeys DEF KeyInv, JoinKeysOK
  <2> QED
    BY <2>3, <2>4, <2>5 DEF KeyInv
<1>9. CASE /\ jat \in {"write", "insert"} /\ member' = [member EXCEPT ![jm] = Saved]
           /\ torn' = torn \ {jm} /\ jat' = "member" /\ jm' = Nobody /\ old' = None
           /\ UNCHANGED <<jkey, answer, todo, myKey, keys, loops, deleting>>
  <2> USE <1>9
  <2>1. jm \in Members /\ Saved.key = PortKey(jm) /\ Saved.row = "active"
    BY DEF Types, JoinOK, Saved, NewKey, PortKey
  <2>2. /\ member'[jm].key = PortKey(jm)
        /\ \A n \in Members : n # jm => member'[n] = member[n]
    BY <2>1 DEF Types, MembersOK
  <2>3. PortKey(jm) \in keys /\ jm \notin todo
    BY <2>1 DEF KeyInv, JoinKeysOK
  <2>4. \A n \in Members : PortKey(n)' = PortKey(n) /\ (n # jm /\ Halfway(n) => Halfway(n)')
    BY DEF Halfway, PortKey, deleting
  <2>5. MemberKeysOK'
    <3> SUFFICES ASSUME NEW m \in Members, member'[m].row # "none"
                 PROVE  /\ member'[m].key.of = m /\ member'[m].key.mine <= myKey
                        /\ member'[m].key \in keys \/ m \in torn' \/ Halfway(m)'
      BY DEF MemberKeysOK
    <3>1. CASE m = jm
      BY <2>1, <2>2, <2>3, <3>1, RowKeys
    <3>2. CASE m # jm
      BY <2>2, <2>4, <3>2 DEF KeyInv, MemberKeysOK
    <3> QED
      BY <3>1, <3>2
  <2>6. LoopKeysOK'
    <3> SUFFICES ASSUME NEW k \in Loops, at[k] = "insert"
                 PROVE  fresh[k] # None /\ \A m \in Members : fresh[k] # member'[m].key
      BY DEF KeyInv, LoopKeysOK, loops
    <3>1. fresh[k] \in Keys /\ fresh[k].by = k /\ \A m \in Members : fresh[k] # member[m].key
      BY RowKeys DEF KeyInv, LoopKeysOK
    <3>2. PortKey(jm).by = "port"
      BY <2>1, RowKeys
    <3>3. fresh[k] # PortKey(jm)
      BY <3>1, <3>2
    <3> QED
      BY <2>1, <2>2, <3>1, <3>3
  <2>7. JoinKeysOK'
    <3>1. \A n \in todo : PortKey(n) \in keys /\ PortKey(n) # member'[n].key /\ PortKey(n) # None
      <4> SUFFICES ASSUME NEW n \in todo
                   PROVE  PortKey(n) \in keys /\ PortKey(n) # member'[n].key /\ PortKey(n) # None
        OBVIOUS
      <4>1. n \in Members /\ n # jm /\ PortKey(n) \in keys /\ PortKey(n) # member[n].key
        BY <2>3, RowKeys DEF KeyInv, JoinKeysOK
      <4> QED
        BY <2>2, <4>1 DEF Types, MembersOK
    <3> QED
      BY <2>4, <3>1, RowKeys DEF JoinKeysOK, Types, JoinOK
  <2> QED
    BY <2>5, <2>6, <2>7 DEF KeyInv
<1>10. CASE InsertMember /\ member[jm].row # "none"
  <2> USE <1>10
  <2>1. /\ jat = "insert" /\ jat' = "member" /\ jm' = Nobody /\ old' = None
        /\ UNCHANGED <<jkey, answer, todo, myKey, member, keys, loops, deleting, torn>>
    BY DEF InsertMember, server
  <2>2. \A n \in Members : PortKey(n)' = PortKey(n) /\ Halfway(n)' = Halfway(n)
    BY <2>1 DEF PortKey, Halfway, deleting
  <2>3. MemberKeysOK'
    BY <2>1, <2>2 DEF KeyInv, MemberKeysOK
  <2>4. LoopKeysOK'
    BY <2>1, RowKeys DEF KeyInv, LoopKeysOK, loops
  <2>5. JoinKeysOK'
    <3>1. \A n \in todo : n \in Members /\ PortKey(n) \in keys /\ PortKey(n) # member[n].key
      BY RowKeys DEF KeyInv, JoinKeysOK
    <3>2. \A n \in todo : PortKey(n) # None
      BY <3>1 DEF Types, MembersOK
    <3>3. Nobody \notin todo
      BY <3>1
    <3> QED
      BY <2>1, <2>2, <3>1, <3>2, <3>3 DEF JoinKeysOK
  <2> QED
    BY <2>3, <2>4, <2>5 DEF KeyInv
<1>11. CASE AddConnection
  <2> USE <1>11
  <2>1. /\ jat = "member" /\ JoinEnds /\ UNCHANGED <<myKey, member, keys, loops, deleting, torn>>
    BY DEF AddConnection, server, history
  <2>2. \A n \in Members : Halfway(n)' = Halfway(n)
    BY <2>1 DEF JoinEnds, Halfway, deleting
  <2>3. MemberKeysOK'
    BY <2>1, <2>2 DEF KeyInv, MemberKeysOK
  <2>4. LoopKeysOK'
    BY <2>1, RowKeys DEF JoinEnds, KeyInv, LoopKeysOK, loops
  <2>5. JoinKeysOK'
    BY <2>1 DEF JoinEnds, JoinKeysOK
  <2> QED
    BY <2>3, <2>4, <2>5 DEF KeyInv
<1>12. CASE UpdateMember /\ member[jm].row # "none"
  BY <1>9, <1>12 DEF UpdateMember, server
<1>13. CASE InsertMember /\ member[jm].row = "none"
  BY <1>9, <1>13 DEF InsertMember, server
<1> QED
  BY <1>1, <1>2, <1>3, <1>4, <1>5, <1>6, <1>7, <1>8, <1>10, <1>11, <1>12, <1>13

LEMMA UserKeys ==
  ASSUME Types, KeyInv, Types',
         \/ \E m \in Members : MemberJoins(m) \/ MemberGoes(m) \/ MemberAdmin(m)
         \/ SelfAdmin \/ SelfRemoved \/ UNCHANGED vars
         \/ \E m \in Members, kind \in {"remove", "promote", "demote"} : Act(kind, m)
         \/ Leave \/ WriteAct
  PROVE  KeyInv'
<1>0. myKey' \in Nat /\ myKey \in Nat /\ MembersOK'
  BY DEF Types, ServerOK
<1>1. UNCHANGED <<keys, torn, locals, myKey>>
  <2>1. CASE \/ \E m \in Members : MemberJoins(m) \/ MemberGoes(m) \/ MemberAdmin(m)
             \/ SelfAdmin \/ SelfRemoved
    BY <2>1 DEF MemberJoins, MemberGoes, MemberAdmin, SelfAdmin, SelfRemoved,
                rows, loops, joining, deleting, history, locals
  <2>2. CASE UNCHANGED vars
    BY <2>2 DEF vars, server, rows, loops, joining, deleting, history, locals
  <2>3. CASE Leave \/ \E m \in Members, kind \in {"remove", "promote", "demote"} : Act(kind, m)
    BY <2>3 DEF Leave, AskToLeave, Act, Ask, Asked, rows, loops, joining, deleting, locals
  <2>4. CASE WriteAct
    BY <2>4 DEF WriteAct, server, loops, joining, deleting, history, locals
  <2> QED
    BY <2>1, <2>2, <2>3, <2>4
<1>2. /\ member' \in [Members -> Row]
      /\ \A m \in Members : member'[m].key = member[m].key
                            /\ (member'[m].row = "none" <=> member[m].row = "none")
  <2>1. CASE member' = member
    BY <2>1 DEF Types, MembersOK
  <2>2. CASE WriteAct /\ act.kind # "leave"
    <3>1. member' = Marked(act.who, act.kind) /\ act.who \in Members
      BY <2>2 DEF WriteAct, Types, UserOK
    <3> QED
      BY <3>1, MarkedTypes DEF Types
  <2>3. ~WriteAct => member' = member
    BY DEF MemberJoins, MemberGoes, MemberAdmin, SelfAdmin, SelfRemoved, vars, Leave, Act, Asked,
           rows
  <2>4. WriteAct /\ act.kind = "leave" => member' = member
    BY DEF WriteAct
  <2> QED
    BY <2>1, <2>2, <2>3, <2>4
<1> QED
  BY <1>0, <1>1, <1>2, KeyFrame

LEMMA DeleteKeys ==
  ASSUME Types, KeyInv, Types', Delete \/ \E m \in Members : DeleteMemberKeys(m)
  PROVE  KeyInv'
<1>0. /\ UNCHANGED <<myKey, loops, joining, torn>>
      /\ \A m \in Members : PortKey(m)' = PortKey(m)
  <2>1. UNCHANGED <<server, loops, joining, torn>>
    BY DEF Delete, DeleteLoad, DeleteIds, DeleteMemberKeys, DeleteMemberRow, DeleteSelfKeys,
           DeleteMembers, DeleteGroup, DeleteConnection, history
  <2> QED
    BY <2>1 DEF server, joining, PortKey
<1>1. ASSUME member' = member, keys' = keys, dat # "row" \/ UNCHANGED <<dat, dm>> PROVE KeyInv'
  <2>1. \A m \in Members : Halfway(m) => Halfway(m)'
    BY <1>0, <1>1 DEF Halfway, joining
  <2>2. MemberKeysOK'
    BY <1>0, <1>1, <2>1 DEF KeyInv, MemberKeysOK
  <2>3. LoopKeysOK'
    BY <1>0, <1>1 DEF KeyInv, LoopKeysOK, loops, joining
  <2>4. JoinKeysOK'
    BY <1>0, <1>1, RowKeys DEF KeyInv, JoinKeysOK, joining
  <2> QED
    BY <2>2, <2>3, <2>4 DEF KeyInv
<1>2. CASE DeleteLoad \/ DeleteIds \/ DeleteSelfKeys \/ DeleteGroup \/ DeleteConnection
  BY <1>1, <1>2 DEF DeleteLoad, DeleteIds, DeleteSelfKeys, DeleteGroup, DeleteConnection, rows
<1>3. ASSUME NEW m \in Members, DeleteMemberKeys(m) PROVE KeyInv'
  <2>1. dat = "member" /\ member' = member /\ keys' = keys \ {member[m].key}
    BY <1>3 DEF DeleteMemberKeys
  <2>2. CASE member[m].row = "none"
    <3>1. member[m].key = None
      BY <2>2 DEF Types, MembersOK
    <3>2. keys' = keys
      BY <2>1, <3>1 DEF Types, MembersOK
    <3> QED
      BY <1>1, <2>1, <3>2
  <2>3. CASE member[m].row # "none"
    <3>1. Halfway(m)' /\ \A n \in Members : Halfway(n) => Halfway(n)'
      BY <1>0, <1>3, <2>1, <2>3 DEF DeleteMemberKeys, Halfway, joining
    <3>2. MemberKeysOK'
      <4> SUFFICES ASSUME NEW n \in Members, member[n].row # "none", member[n].key \in keys, n # m
                   PROVE  member[n].key \in keys'
        BY <1>0, <2>1, <3>1 DEF KeyInv, MemberKeysOK
      <4>1. member[n].key.of = n /\ member[m].key.of = m
        BY <2>3 DEF KeyInv, MemberKeysOK
      <4> QED
        BY <2>1, <4>1
    <3>3. LoopKeysOK'
      BY <1>0, <2>1 DEF KeyInv, LoopKeysOK, loops, joining
    <3>4. JoinKeysOK'
      <4>1. \A n \in todo \cup ({jm} \ {Nobody}) : PortKey(n) # member[m].key
        <5> SUFFICES ASSUME NEW n \in todo \cup ({jm} \ {Nobody}) PROVE PortKey(n) # member[m].key
          OBVIOUS
        <5>1. n \in Members /\ PortKey(n).of = n /\ PortKey(n) # member[n].key
          BY RowKeys DEF KeyInv, JoinKeysOK
        <5>2. member[m].key.of = m
          BY <2>3 DEF KeyInv, MemberKeysOK
        <5> QED
          BY <5>1, <5>2
      <4> QED
        BY <1>0, <2>1, <4>1, RowKeys DEF KeyInv, JoinKeysOK, joining
    <3> QED
      BY <3>2, <3>3, <3>4 DEF KeyInv
  <2> QED
    BY <2>2, <2>3
<1>4. ASSUME keys' = keys, NEW gone \in SUBSET Members,
             \A m \in Members : member'[m] = IF m \in gone THEN NoRow ELSE member[m],
             \A m \in Members \ gone : Halfway(m) => Halfway(m)'
      PROVE  KeyInv'
  <2>1. MemberKeysOK'
    BY <1>0, <1>4 DEF KeyInv, MemberKeysOK, NoRow
  <2>2. LoopKeysOK'
    <3> SUFFICES ASSUME NEW k \in Loops, at[k] = "insert", NEW m \in Members
                 PROVE  fresh[k] # member'[m].key
      BY <1>0, <1>4 DEF KeyInv, LoopKeysOK, loops, joining
    <3> QED
      BY <1>4, RowKeys DEF KeyInv, LoopKeysOK, NoRow
  <2>3. JoinKeysOK'
    <3>1. \A m \in todo \cup ({jm} \ {Nobody}) : PortKey(m) # member'[m].key
      <4> SUFFICES ASSUME NEW m \in todo \cup ({jm} \ {Nobody}) PROVE PortKey(m) # member'[m].key
        OBVIOUS
      <4>1. m \in Members /\ PortKey(m) \in keys /\ PortKey(m) # member[m].key
        BY RowKeys DEF KeyInv, JoinKeysOK
      <4>2. PortKey(m) # None
        BY <4>1 DEF Types, MembersOK
      <4> QED
        BY <1>4, <4>1, <4>2 DEF NoRow
    <3> QED
      BY <1>0, <1>4, <3>1, RowKeys DEF KeyInv, JoinKeysOK, joining
  <2> QED
    BY <2>1, <2>2, <2>3 DEF KeyInv
<1>5. CASE DeleteMemberRow
  <2>1. dat = "row" /\ dm \in Members
    BY <1>5 DEF DeleteMemberRow, Types, UserOK
  <2>2. \A m \in Members : member'[m] = IF m \in {dm} THEN NoRow ELSE member[m]
    BY <1>5, <2>1 DEF DeleteMemberRow, Types, MembersOK
  <2>3. \A m \in Members \ {dm} : Halfway(m) => Halfway(m)'
    BY <1>0 DEF Halfway, joining
  <2> QED
    BY <1>4, <1>5, <2>1, <2>2, <2>3 DEF DeleteMemberRow
<1>6. CASE DeleteMembers
  <2>1. keys' = keys /\ \A m \in Members : member'[m] = IF m \in Members THEN NoRow ELSE member[m]
    BY <1>6 DEF DeleteMembers
  <2> QED
    BY <1>4, <2>1
<1> QED
  BY <1>2, <1>3, <1>5, <1>6 DEF Delete

LEMMA CrashKeys == Types /\ KeyInv /\ Crash => KeyInv'
<1> SUFFICES ASSUME Types, KeyInv, Crash PROVE KeyInv'
  OBVIOUS
<1>1. /\ UNCHANGED <<myKey, member>> /\ torn' = torn \cup {m \in Members : Halfway(m)}
      /\ keys' = keys \cap {member[m].key : m \in Members}
      /\ JoinEnds /\ at' = [k \in Loops |-> "idle"]
  BY DEF Crash, server
<1>2. MemberKeysOK'
  BY <1>1 DEF KeyInv, MemberKeysOK
<1>3. LoopKeysOK'
  BY <1>1 DEF LoopKeysOK
<1>4. JoinKeysOK'
  BY <1>1 DEF JoinEnds, JoinKeysOK
<1> QED
  BY <1>2, <1>3, <1>4 DEF KeyInv

LEMMA InitKeys == Init => KeyInv
<1> SUFFICES ASSUME Init PROVE KeyInv
  OBVIOUS
<1>0. PICK there \in SUBSET Members, gone \in SUBSET Members, admins \in SUBSET Members,
           joined \in BOOLEAN, amAdmin \in BOOLEAN :
       /\ there \cap gone = {} /\ admins \subseteq there /\ (amAdmin => joined)
       /\ joins = [m \in Members |-> IF m \in there \cup gone THEN 1 ELSE 0]
       /\ roster = [m \in Members |-> IF m \in there THEN [key |-> 1, admin |-> m \in admins]
                                     ELSE Out]
       /\ inGroup = joined /\ admin = amAdmin /\ conn = joined
       /\ myKey = IF joined THEN 1 ELSE 0
       /\ selfKeys = 1..myKey
       /\ group = IF joined THEN [row |-> TRUE, connected |-> TRUE, admin |-> amAdmin, self |-> 1]
                            ELSE NoGroup
       /\ member = [m \in Members |->
            IF joined /\ joins[m] = 1
            THEN [row |-> IF m \in there THEN "active" ELSE "deleted", admin |-> m \in admins,
                  key |-> MemberKey(m, 1, [Out EXCEPT !.key = 1], "port", 0)]
            ELSE NoRow]
       /\ keys = {member[m].key : m \in Members} \ {None}
  BY DEF Init
<1>1. /\ myKey = IF joined THEN 1 ELSE 0
      /\ \A m \in Members : member[m].row # "none" =>
           joined /\ member[m].key = MemberKey(m, 1, [Out EXCEPT !.key = 1], "port", 0)
  BY <1>0 DEF NoRow
<1>2. Types
  BY InitTypes
<1>3. MemberKeysOK
  <2> SUFFICES ASSUME NEW m \in Members, member[m].row # "none"
               PROVE  /\ member[m].key.of = m /\ member[m].key.mine <= myKey
                      /\ member[m].key \in keys
    BY DEF MemberKeysOK
  <2>1. myKey = 1 /\ member[m].key = MemberKey(m, 1, [Out EXCEPT !.key = 1], "port", 0)
    BY <1>1
  <2>2. member[m].key # None
    BY <1>2 DEF Types, MembersOK
  <2>3. member[m].key \in keys
    BY <1>0, <2>2
  <2> QED
    BY <2>1, <2>3 DEF MemberKey
<1>4. LoopKeysOK /\ JoinKeysOK
  BY DEF Init, LoopKeysOK, JoinKeysOK
<1> QED
  BY <1>3, <1>4 DEF KeyInv

LEMMA KeyStep == Types /\ KeyInv /\ [Next]_vars => KeyInv'
<1> SUFFICES ASSUME Types, KeyInv, [Next]_vars PROVE KeyInv'
  OBVIOUS
<1>1. Types'
  BY NextTypes
<1>2. CASE PortStep
  <2>1. UNCHANGED <<keys, torn, locals, myKey, member>>
    BY <1>2, PortFrame DEF server, loops, joining, deleting, locals
  <2> QED
    BY <2>1, KeyFrame DEF Types, ServerOK, MembersOK
<1> QED
  BY <1>1, <1>2, HandleKeys, JoinKeys, UserKeys, DeleteKeys, CrashKeys DEF Next, PortStep

\* The secret shared with an active member can be loaded, for any number of loops, joins,
\* deletions and crashes: no two of them ever hold or delete the same keys.
THEOREM KeysHeldHolds == Spec => []KeysHeld
<1>1. Spec => []Types
  BY InitTypes, NextTypes, PTL DEF Spec
<1>2. Spec => []KeyInv
  BY <1>1, InitKeys, KeyStep, PTL DEF Spec
<1>3. KeyInv => KeysHeld
  BY DEF KeyInv, MemberKeysOK, KeysHeld
<1> QED
  BY <1>2, <1>3, PTL
-----------------------------------------------------------------------------
(* The rows and the roster.  What the server keeps of the changes about a  *)
(* person, taken in order, leads from what the phone knows to the roster.  *)

Adjusting == {"promotedMember", "demotedMember", "promotion", "demotion"}

\* What an event says of the person it is about; this user has no keys there.
Told(e) == IF e.who # Self THEN e.entry
           ELSE IF e.kind = "removedFromGroup" THEN Out
           ELSE [key |-> 1, admin |-> e.kind = "promotion"]

\* An event comes after t, [key, admin], was the case ...
Applies(t, e) == /\ e.kind = "newMember" => t = Out
                 /\ e.kind \in Adjusting => t.key = Told(e).key

\* ... and is the first in S after the change n.
Nearest(n, S, e) == e \in S /\ n < e.n /\ \A f \in S : n < f.n => e.n <= f.n

\* From t, which change n has left, the events of S lead to r.
Leads(n, t, S, r) == /\ \A e \in S : Nearest(n, S, e) => Applies(t, e)
                     /\ (\A e \in S : e.n <= n) => t = r

\* One more change.
LEMMA LeadsOn ==
  ASSUME NEW n \in Nat, NEW t, NEW S, NEW r, Leads(n, t, S, r),
         \A e \in S : e.n \in Nat,
         NEW f, f.n \in Nat, n < f.n, \A e \in S : e.n < f.n, Applies(r, f)
  PROVE  Leads(n, t, S \cup {f}, Told(f))
<1>1. ASSUME NEW e \in S \cup {f}, Nearest(n, S \cup {f}, e) PROVE Applies(t, e)
  <2>1. CASE e = f
    <3>1. \A g \in S : g.n <= n
      BY <1>1, <2>1 DEF Nearest
    <3> QED
      BY <2>1, <3>1 DEF Leads
  <2>2. CASE e \in S
    BY <1>1, <2>2 DEF Nearest, Leads
  <2> QED
    BY <2>1, <2>2
<1>2. ~\A e \in S \cup {f} : e.n <= n
  OBVIOUS
<1> QED
  BY <1>1, <1>2 DEF Leads

\* One that was dealt with is forgotten.
LEMMA LeadsWithout ==
  ASSUME NEW n \in Nat, NEW t, NEW S, NEW r, Leads(n, t, S, r), NEW T \in SUBSET S,
         \A e \in S : e.n \in Nat, \A e \in S \ T : e.n <= n
  PROVE  Leads(n, t, T, r)
<1>1. ASSUME NEW e \in T, Nearest(n, T, e) PROVE Nearest(n, S, e)
  BY <1>1 DEF Nearest
<1>2. (\A e \in T : e.n <= n) => \A e \in S : e.n <= n
  OBVIOUS
<1> QED
  BY <1>1, <1>2 DEF Leads

-----------------------------------------------------------------------------
(* Events *)

\* Those the server keeps, and those being handled.
Seen == pending \cup ({cur[k] : k \in Loops} \ {None})

SeenOK ==
  /\ \A e \in Seen : /\ e.n <= changes
                     /\ e.kind = "removedMember" => e.entry = Out
                     /\ e.kind \in {"promotedMember", "demotedMember"} =>
                          e.entry.key # 0 /\ e.entry.admin = (e.kind = "promotedMember")
  /\ \A e, f \in Seen : e.n = f.n => e = f

RosterOK == /\ \A m \in Members : roster[m].key = 0 => roster[m] = Out
            /\ \A p \in Everyone : upTo[p] <= changes
            /\ jat # "idle" => jkey = myKey

SuspendedOK ==
  \A k \in Loops :
    /\ at[k] = "idle" <=> cur[k] = None
    /\ at[k] = "insert" => cur[k].kind = "newMember" /\ fresh[k].theirs = cur[k].entry.key
    /\ at[k] = "write" => cur[k].kind \in {"removedMember", "promotedMember", "demotedMember"}

LEMMA EventTypes ==
  ASSUME NEW e \in Events
  PROVE  /\ e.n \in Nat /\ e.kind \in Kinds /\ e.entry \in Entry /\ e.who \in Everyone
         /\ e.who = Self <=> e.kind \in {"removedFromGroup", "promotion", "demotion"}
         /\ e.kind = "newMember" => e.entry.key # 0
<1>1. /\ e.n \in 1..MaxChanges /\ e.kind \in Kinds /\ e.entry \in Entry /\ e.who \in Everyone
      /\ e.who \in About[e.kind] /\ (e.kind = "newMember" => e.entry.key # 0)
  BY DEF Events, Event
<1>2. e.n \in Nat
  BY <1>1
<1>3. e.who = Self <=> e.kind \in {"removedFromGroup", "promotion", "demotion"}
  BY <1>1 DEF About, Kinds
<1> QED
  BY <1>1, <1>2, <1>3

LEMMA SeenTypes == Types => Seen \subseteq Events
  BY DEF Types, ServerOK, LoopsOK, Seen

\* The server tells of a change.
LEMMA TellSeen ==
  ASSUME Types, SeenOK, NEW kind, NEW who, NEW entry, Tell(kind, who, entry), cur' = cur,
         kind = "removedMember" => entry = Out,
         kind \in {"promotedMember", "demotedMember"} =>
           entry.key # 0 /\ entry.admin = (kind = "promotedMember")
  PROVE  SeenOK'
<1> PICK f : f = [n |-> changes', kind |-> kind, who |-> who, entry |-> entry]
  OBVIOUS
<1>1. changes \in Nat /\ changes' = changes + 1
  BY DEF Types, ServerOK, Tell, Change
<1>2. Seen' \subseteq Seen \cup {f}
  BY DEF Seen, Tell
<1>3. \A e \in Seen : e.n \in Nat /\ e.n <= changes
  BY SeenTypes, EventTypes DEF SeenOK
<1>4. f.n = changes' /\ f.kind = kind /\ f.entry = entry
  OBVIOUS
<1>5. \A e \in Seen' : /\ e.n <= changes'
                       /\ e.kind = "removedMember" => e.entry = Out
                       /\ e.kind \in {"promotedMember", "demotedMember"} =>
                            e.entry.key # 0 /\ e.entry.admin = (e.kind = "promotedMember")
  <2> SUFFICES ASSUME NEW e \in Seen'
               PROVE  /\ e.n <= changes'
                      /\ e.kind = "removedMember" => e.entry = Out
                      /\ e.kind \in {"promotedMember", "demotedMember"} =>
                           e.entry.key # 0 /\ e.entry.admin = (e.kind = "promotedMember")
    OBVIOUS
  <2>1. CASE e \in Seen
    BY <1>1, <1>3, <2>1 DEF SeenOK
  <2>2. CASE e = f
    BY <1>1, <1>4, <2>2
  <2> QED
    BY <1>2, <2>1, <2>2
<1>6. \A d, e \in Seen' : d.n = e.n => d = e
  <2>1. \A e \in Seen : e.n # f.n
    BY <1>1, <1>3, <1>4
  <2> QED
    BY <1>2, <2>1 DEF SeenOK
<1> QED
  BY <1>5, <1>6 DEF SeenOK

LEMMA FewerSeen ==
  ASSUME Types, SeenOK, Seen' \subseteq Seen, changes' \in {changes, changes + 1}
  PROVE  SeenOK'
<1>1. \A e \in Seen : e.n \in Nat /\ e.n <= changes /\ e.n <= changes'
  BY SeenTypes, EventTypes DEF SeenOK, Types, ServerOK
<1> QED
  BY <1>1 DEF SeenOK

\* What handling an event ends with.
LEMMA FinishShape ==
  ASSUME Types, NEW k \in Loops, Finish(k)
  PROVE  /\ pending' \subseteq pending /\ pending \ {cur[k]} \subseteq pending'
         /\ at'[k] = "idle" /\ cur'[k] = None
         /\ \A j \in Loops : j # k => at'[j] = at[j] /\ cur'[j] = cur[j] /\ fresh'[j] = fresh[j]
         /\ UNCHANGED <<inGroup, admin, myKey, roster, joins, changes>>
  BY DEF Types, LoopsOK, Finish, Goto

LEMMA SeenStep ==
  ASSUME Types, SeenOK, RosterOK, Next, ~PortStep
  PROVE  SeenOK'
<1>1. ASSUME NEW m \in Members, MemberJoins(m) \/ MemberGoes(m) \/ MemberAdmin(m) PROVE SeenOK'
  <2>1. cur' = cur
    BY <1>1 DEF MemberJoins, MemberGoes, MemberAdmin, loops
  <2>2. CASE MemberJoins(m)
    BY <2>1, <2>2, TellSeen DEF MemberJoins
  <2>3. CASE MemberGoes(m)
    BY <2>1, <2>3, TellSeen DEF MemberGoes
  <2>4. CASE MemberAdmin(m)
    <3>1. roster'[m].key # 0 /\ roster'[m].admin = ~roster[m].admin /\ roster[m].admin \in BOOLEAN
      BY <2>4 DEF MemberAdmin, Types, ServerOK, Entry
    <3>2. CASE roster[m].admin
      <4>1. Tell("demotedMember", m, roster'[m])
        BY <2>4, <3>2 DEF MemberAdmin
      <4> QED
        BY <2>1, <3>1, <3>2, <4>1, TellSeen
    <3>3. CASE ~roster[m].admin
      <4>1. Tell("promotedMember", m, roster'[m])
        BY <2>4, <3>3 DEF MemberAdmin
      <4> QED
        BY <2>1, <3>1, <3>3, <4>1, TellSeen
    <3> QED
      BY <3>2, <3>3
  <2> QED
    BY <1>1, <2>2, <2>3, <2>4
<1>2. CASE SelfAdmin \/ SelfRemoved
  <2>1. cur' = cur
    BY <1>2 DEF SelfAdmin, SelfRemoved, loops
  <2>2. PICK kind \in {"promotion", "demotion", "removedFromGroup"} : Tell(kind, Self, Out)
    BY <1>2 DEF SelfAdmin, SelfRemoved
  <2> QED
    BY <2>1, <2>2, TellSeen
<1>3. ASSUME NEW k \in Loops, Handle(k) PROVE SeenOK'
  <2>1. CASE Finish(k)
    <3>1. Seen' \subseteq Seen
      BY <2>1, FinishShape DEF Seen
    <3>2. changes' = changes
      BY <2>1, FinishShape
    <3> QED
      BY <3>1, <3>2, FewerSeen
  <2>2. CASE ~Finish(k)
    <3>1. UNCHANGED <<cur, server>>
      BY <1>3, <2>2 DEF Handle, AddMemberKeys, AddMemberRow, LoadMember, WriteMember, UpdateSelf
    <3> QED
      BY <3>1, FewerSeen DEF Seen, server
  <2> QED
    BY <2>1, <2>2
<1>4. ASSUME NEW k \in Loops, NEW e \in pending, Receive(k, e) PROVE SeenOK'
  <2>1. pending' = pending /\ cur' = [cur EXCEPT ![k] = e] /\ changes' = changes
    BY <1>4 DEF Receive, server
  <2>2. Seen' \subseteq Seen
    BY <2>1 DEF Seen, Types, LoopsOK
  <2> QED
    BY <2>1, <2>2, FewerSeen
<1>5. CASE Crash
  <2>1. Seen' \subseteq Seen /\ changes' = changes
    BY <1>5 DEF Crash, Seen, server
  <2> QED
    BY <2>1, FewerSeen
<1>6. CASE \/ \E m \in Members, kind \in {"remove", "promote", "demote"} : Act(kind, m)
           \/ Leave \/ Join \/ JoinUnanswered
  <2>1. UNCHANGED <<pending, cur>> /\ changes' = changes + 1
    BY <1>6 DEF Act, Ask, Asked, Leave, AskToLeave, Join, JoinUnanswered, Accept, Change, loops
  <2> QED
    BY <2>1, FewerSeen DEF Seen
<1>7. CASE \/ \E m \in Members : SaveMember(m) \/ DeleteMemberKeys(m)
           \/ FindChat \/ FindGroup \/ AddGroup \/ UpdateGroup \/ DeleteOldKeys
           \/ UpdateMember \/ InsertMember \/ AddConnection \/ WriteAct \/ Delete
  <2>1. UNCHANGED <<server, loops>>
    BY <1>7 DEF SaveMember, DeleteMemberKeys, FindChat, FindGroup, AddGroup, UpdateGroup,
      DeleteOldKeys, UpdateMember, InsertMember, AddConnection, WriteAct, Delete, DeleteLoad,
      DeleteIds, DeleteMemberRow, DeleteSelfKeys, DeleteMembers, DeleteGroup, DeleteConnection
  <2> QED
    BY <2>1, FewerSeen DEF Seen, server, loops
<1> QED
  BY <1>1, <1>2, <1>3, <1>4, <1>5, <1>6, <1>7 DEF Next, PortStep

LEMMA RosterStep ==
  ASSUME Types, SeenOK, RosterOK, Next, ~PortStep
  PROVE  RosterOK'
<1>1. changes \in Nat /\ \A p \in Everyone : upTo[p] \in Nat /\ upTo[p] <= changes
  BY DEF Types, ServerOK, HistoryOK, RosterOK
<1>2. changes' \in {changes, changes + 1}
  BY DEF Next, PortStep, MemberJoins, MemberGoes, MemberAdmin, SelfAdmin, SelfRemoved, Tell, Change,
    Handle, AddMemberKeys, AddMemberRow, LoadMember, WriteMember, UpdateSelf, Finish, Receive,
    Act, Ask, Asked, Leave, AskToLeave, Join, JoinUnanswered, Accept,
    SaveMember, DeleteMemberKeys, FindChat, FindGroup, AddGroup, UpdateGroup,
    DeleteOldKeys, UpdateMember, InsertMember, AddConnection, WriteAct, Delete, DeleteLoad,
    DeleteIds, DeleteMemberRow, DeleteSelfKeys, DeleteMembers, DeleteGroup, DeleteConnection,
    Crash, server
<1>3. \A m \in Members : roster'[m].key = 0 => roster'[m] = Out
  <2>1. ASSUME NEW m \in Members, roster' = [roster EXCEPT ![m] = roster'[m]],
               roster'[m].key = 0 => roster'[m] = Out
        PROVE  \A n \in Members : roster'[n].key = 0 => roster'[n] = Out
    BY <2>1 DEF RosterOK, Types, ServerOK
  <2>2. CASE roster' = roster
    BY <2>2 DEF RosterOK
  <2>3. ASSUME NEW m \in Members, MemberJoins(m)
        PROVE \A n \in Members : roster'[n].key = 0 => roster'[n] = Out
    <3>0. PICK r : r = [key |-> joins'[m], admin |-> FALSE]
      OBVIOUS
    <3>1. joins'[m] # 0 /\ roster' = [roster EXCEPT ![m] = r]
      BY <2>3, <3>0 DEF MemberJoins, Types, ServerOK
    <3>2. roster'[m] = r /\ r.key # 0
      BY <3>0, <3>1 DEF Types, ServerOK
    <3> QED
      BY <2>1, <3>1, <3>2
  <2>4. ASSUME NEW m \in Members, MemberGoes(m)
        PROVE \A n \in Members : roster'[n].key = 0 => roster'[n] = Out
    <3>1. roster' = [roster EXCEPT ![m] = Out] /\ roster'[m] = Out
      BY <2>4 DEF MemberGoes, Types, ServerOK
    <3> QED
      BY <2>1, <3>1
  <2>5. ASSUME NEW m \in Members, NEW to \in BOOLEAN, roster[m].key # 0,
               roster' = [roster EXCEPT ![m] = [@ EXCEPT !.admin = to]]
        PROVE  \A n \in Members : roster'[n].key = 0 => roster'[n] = Out
    <3>1. roster'[m].key = roster[m].key
      BY <2>5 DEF Types, ServerOK, Entry
    <3>2. \A n \in Members : n # m => roster'[n] = roster[n]
      BY <2>5 DEF Types, ServerOK
    <3> QED
      BY <2>5, <3>1, <3>2 DEF RosterOK
  <2>6. ASSUME NEW m \in Members, MemberAdmin(m)
        PROVE \A n \in Members : roster'[n].key = 0 => roster'[n] = Out
    <3>1. roster[m].admin \in BOOLEAN
      BY DEF Types, ServerOK, Entry
    <3>2. roster' = [roster EXCEPT ![m] = [@ EXCEPT !.admin = ~roster[m].admin]] /\ roster[m].key # 0
      BY <2>6 DEF MemberAdmin
    <3> QED
      BY <2>5, <3>1, <3>2
  <2>7. ASSUME NEW m \in Members, NEW kind, Ask(kind, m)
        PROVE \A n \in Members : roster'[n].key = 0 => roster'[n] = Out
    <3>1. CASE kind = "remove"
      <4>1. roster' = [roster EXCEPT ![m] = Out] /\ roster'[m] = Out
        BY <2>7, <3>1 DEF Ask, Types, ServerOK
      <4> QED
        BY <2>1, <4>1
    <3>2. CASE kind # "remove"
      <4>1. roster' = [roster EXCEPT ![m] = [@ EXCEPT !.admin = (kind = "promote")]] /\ roster[m].key # 0
        BY <2>7, <3>2 DEF Ask
      <4> QED
        BY <2>5, <4>1
    <3> QED
      BY <3>1, <3>2
  <2> QED
    BY <2>2, <2>3, <2>4, <2>6, <2>7
    DEF Next, PortStep, SelfAdmin, SelfRemoved,
    Handle, AddMemberKeys, AddMemberRow, LoadMember, WriteMember, UpdateSelf, Finish, Receive,
    Act, Leave, AskToLeave, Join, JoinUnanswered, Accept,
    SaveMember, DeleteMemberKeys, FindChat, FindGroup, AddGroup, UpdateGroup,
    DeleteOldKeys, UpdateMember, InsertMember, AddConnection, WriteAct, Delete, DeleteLoad,
    DeleteIds, DeleteMemberRow, DeleteSelfKeys, DeleteMembers, DeleteGroup, DeleteConnection,
    Crash, server
<1>4. \A p \in Everyone : upTo'[p] <= changes'
  <2>0. changes' \in Nat /\ changes <= changes'
    BY <1>1, <1>2
  <2>1. CASE upTo' = upTo
    BY <1>1, <2>0, <2>1
  <2>2. ASSUME NEW k \in Loops, NEW e \in pending, Receive(k, e)
        PROVE  \A p \in Everyone : upTo'[p] <= changes'
    <3>1. e.n \in Nat /\ e.n <= changes
      BY SeenTypes, EventTypes DEF SeenOK, Seen
    <3>2. \A p \in Everyone : upTo'[p] \in {upTo[p], e.n}
      BY <2>2 DEF Receive, Types, HistoryOK
    <3> QED
      BY <1>1, <2>0, <3>1, <3>2
  <2>3. ASSUME NEW who, NEW kind, Asked(kind, who)
        PROVE  \A p \in Everyone : upTo'[p] <= changes'
    <3>1. \A p \in Everyone : upTo'[p] \in {upTo[p], changes'}
      BY <2>3 DEF Asked, Types, HistoryOK
    <3> QED
      BY <1>1, <2>0, <3>1
  <2>4. CASE Join
    BY <2>0, <2>4 DEF Join
  <2> QED
    BY <2>1, <2>2, <2>3, <2>4
    DEF Next, PortStep, MemberJoins, MemberGoes, MemberAdmin, SelfAdmin, SelfRemoved,
    Handle, AddMemberKeys, AddMemberRow, LoadMember, WriteMember, UpdateSelf, Act, Leave,
    JoinUnanswered, SaveMember, DeleteMemberKeys, FindChat, FindGroup, AddGroup, UpdateGroup,
    DeleteOldKeys, UpdateMember, InsertMember, AddConnection, WriteAct, Delete, DeleteLoad,
    DeleteIds, DeleteMemberRow, DeleteSelfKeys, DeleteMembers, DeleteGroup, DeleteConnection,
    Crash, history
<1>5. jat' # "idle" => jkey' = myKey'
  <2>1. CASE Join
    BY <2>1 DEF Join
  <2>2. CASE Crash
    BY <2>2 DEF Crash, JoinEnds
  <2>3. CASE JoinUnanswered
    BY <2>3 DEF JoinUnanswered, Accept, joining
  <2>4. CASE /\ myKey' = myKey
             /\ \/ UNCHANGED joining
                \/ jat # "idle" /\ jkey' = jkey
                \/ JoinEnds
    BY <2>4 DEF RosterOK, joining, JoinEnds
  <2>5. CASE \/ FindChat \/ FindGroup \/ AddGroup \/ UpdateGroup \/ DeleteOldKeys
             \/ UpdateMember \/ InsertMember \/ AddConnection \/ \E m \in Members : SaveMember(m)
    BY <2>4, <2>5 DEF SaveMember, FindChat, FindGroup, AddGroup, UpdateGroup, GotoJ,
      DeleteOldKeys, UpdateMember, InsertMember, AddConnection, server
  <2> QED
    BY <2>1, <2>2, <2>3, <2>4, <2>5
    DEF Next, PortStep, MemberJoins, MemberGoes, MemberAdmin, SelfAdmin, SelfRemoved,
    Handle, AddMemberKeys, AddMemberRow, LoadMember, WriteMember, UpdateSelf, Finish, Receive,
    Act, Ask, Asked, Leave, AskToLeave, DeleteMemberKeys, WriteAct, Delete, DeleteLoad,
    DeleteIds, DeleteMemberRow, DeleteSelfKeys, DeleteMembers, DeleteGroup, DeleteConnection,
    server
<1> QED
  BY <1>3, <1>4, <1>5 DEF RosterOK

LEMMA NewKeysShape ==
  ASSUME NEW e, NEW k
  PROVE  NewKeys(e, k).mine = group.self /\ NewKeys(e, k).theirs = e.entry.key
  BY DEF NewKeys, MemberKey

LEMMA SuspendedStep ==
  ASSUME Types, SuspendedOK, Next, ~PortStep
  PROVE  SuspendedOK'
<1>1. CASE UNCHANGED loops
  BY <1>1 DEF loops, SuspendedOK
<1>2. ASSUME NEW k \in Loops, NEW e \in pending, Receive(k, e) PROVE SuspendedOK'
  <2>1. e # None
    BY DEF Types, ServerOK, Events
  <2>2. at' = [at EXCEPT ![k] = "load"] /\ cur' = [cur EXCEPT ![k] = e] /\ fresh' = fresh
    BY <1>2 DEF Receive, Goto
  <2> QED
    BY <2>1, <2>2 DEF SuspendedOK, Types, LoopsOK
<1>3. ASSUME NEW k \in Loops, Handle(k) PROVE SuspendedOK'
  <2>1. CASE Finish(k)
    BY <2>1, FinishShape DEF SuspendedOK
  <2>2. CASE ~Finish(k)
    <3>1. CASE AddMemberKeys(k)
      <4>1. /\ at[k] = "load" /\ cur[k].kind = "newMember"
            /\ fresh' = [fresh EXCEPT ![k] = NewKeys(cur[k], k)]
            /\ at' = [at EXCEPT ![k] = "insert"] /\ cur' = cur
        BY <2>2, <3>1 DEF AddMemberKeys, Goto
      <4>2. fresh'[k].theirs = cur[k].entry.key
        BY <4>1, NewKeysShape DEF Types, LoopsOK
      <4> QED
        BY <4>1, <4>2 DEF SuspendedOK, Types, LoopsOK
    <3>2. CASE LoadMember(k)
      <4>1. /\ at[k] = "load" /\ cur[k].kind \in {"removedMember", "promotedMember", "demotedMember"}
            /\ at' = [at EXCEPT ![k] = "write"] /\ cur' = cur /\ fresh' = fresh
        BY <2>2, <3>2 DEF LoadMember, Goto
      <4> QED
        BY <4>1 DEF SuspendedOK, Types, LoopsOK
    <3> QED
      BY <1>3, <2>2, <3>1, <3>2 DEF Handle, AddMemberRow, WriteMember, UpdateSelf
  <2> QED
    BY <2>1, <2>2
<1>4. CASE Crash
  BY <1>4 DEF Crash, SuspendedOK
<1> QED
  BY <1>1, <1>2, <1>3, <1>4
  DEF Next, PortStep, MemberJoins, MemberGoes, MemberAdmin, SelfAdmin, SelfRemoved, Asked,
    Act, Leave, Join, JoinUnanswered, SaveMember, DeleteMemberKeys, FindChat, FindGroup, AddGroup,
    UpdateGroup, DeleteOldKeys, UpdateMember, InsertMember, AddConnection, WriteAct, Delete,
    DeleteLoad, DeleteIds, DeleteMemberRow, DeleteSelfKeys, DeleteMembers, DeleteGroup,
    DeleteConnection

-----------------------------------------------------------------------------
(* What may be under way together about a person whose row is to be right *)

\* Where Group.join has not written the group's row yet.
Entering == {"chat", "group", "add", "update"}

Alone(p) ==
  /\ \A k \in Loops : cur[k] # None /\ cur[k].who = p =>
       cur[k].n = upTo[p] /\ jat = "idle" /\ dat = "idle" /\ act.who # p /\ conn
  /\ jat # "idle" => dat = "idle" /\ act.who # p
  /\ dat # "idle" => ~group.connected
  /\ inGroup /\ group.row /\ group.connected /\ jat \notin Entering => group.self = myKey
  /\ jat # "idle" \/ (inGroup /\ group.row /\ group.connected) => myKey \in selfKeys \cup lost

AllAlone == \A p \in Everyone \ excused : Alone(p)

LEMMA AloneFrame ==
  ASSUME NEW p, Alone(p), upTo'[p] = upTo[p],
         \A k \in Loops : cur'[k] # None /\ cur'[k].who = p => cur'[k] = cur[k],
         UNCHANGED <<jat, dat, conn, myKey>>,
         myKey \in selfKeys \cup lost => myKey \in (selfKeys \cup lost)',
         act'.who = p => act.who = p,
         inGroup' => inGroup, group'.row => group.row, group'.connected => group.connected,
         group'.self = group.self
  PROVE  Alone(p)'
  BY DEF Alone

LEMMA HandleAlone ==
  ASSUME Types, AllAlone, NEW k \in Loops, Handle(k) \/ \E e \in pending : Receive(k, e)
  PROVE  AllAlone'
<1>1. CASE Handle(k)
  <2>1. /\ excused \subseteq excused'
        /\ UNCHANGED <<conn, selfKeys, joining, act, deleting, upTo, lost>>
        /\ Finish(k) \/ UNCHANGED <<server, cur>>
    BY <1>1 DEF Handle, AddMemberKeys, AddMemberRow, LoadMember, WriteMember, UpdateSelf, rows,
                history
  <2>2. /\ group'.row = group.row /\ group'.self = group.self
        /\ group'.connected => group.connected
    <3>1. CASE UpdateSelf(k)
      <4>1. \/ group' = group
            \/ group' = [group EXCEPT !.connected = FALSE]
            \/ group' = [group EXCEPT !.admin = (cur[k].kind = "promotion")]
        BY <3>1 DEF UpdateSelf
      <4> QED
        BY <4>1 DEF Types, GroupOK
    <3>2. CASE ~UpdateSelf(k)
      BY <1>1, <3>2 DEF Handle, AddMemberKeys, AddMemberRow, LoadMember, WriteMember, rows
    <3> QED
      BY <3>1, <3>2
  <2>3. /\ \A j \in Loops : cur'[j] # None => cur'[j] = cur[j]
        /\ UNCHANGED <<inGroup, myKey>>
    BY <2>1, FinishShape DEF server
  <2> QED
    BY <2>1, <2>2, <2>3, AloneFrame DEF AllAlone, joining, deleting
<1>2. ASSUME NEW e \in pending, Receive(k, e) PROVE AllAlone'
  <2> SUFFICES ASSUME NEW p \in Everyone, p \notin excused' PROVE Alone(p)'
    BY DEF AllAlone
  <2>1. /\ cur' = [cur EXCEPT ![k] = e]
        /\ upTo' = [upTo EXCEPT ![e.who] = IF @ < e.n THEN e.n ELSE @]
        /\ excused' = IF OutOfOrder(e) THEN excused \cup {e.who} ELSE excused
        /\ UNCHANGED <<server, rows, joining, act, deleting, lost>>
    BY <1>2 DEF Receive
  <2>2. UNCHANGED <<inGroup, myKey, conn, group, selfKeys, jat, dat, act, lost>>
    BY <2>1 DEF server, rows, joining, deleting
  <2>3. \A j \in Loops : cur'[j] = IF j = k THEN e ELSE cur[j]
    BY <2>1 DEF Types, LoopsOK
  <2>4. Alone(p)
    BY <2>1 DEF AllAlone
  <2>5. CASE e.who # p
    <3>1. upTo'[p] = upTo[p]
      BY <2>1, <2>5 DEF Types, HistoryOK
    <3> QED
      BY <2>2, <2>3, <2>4, <2>5, <3>1, AloneFrame
  <2>6. CASE e.who = p
    <3>1. ~OutOfOrder(e)
      BY <2>1, <2>6
    <3>2. /\ e.n \in Nat /\ upTo[p] \in Nat
      BY EventTypes DEF Types, ServerOK, HistoryOK
    <3>3. /\ ~(e.n < upTo[p]) /\ jat = "idle" /\ act.who # p /\ conn /\ dat = "idle"
          /\ \A j \in Loops : cur[j] # None /\ cur[j].who = p => ~(cur[j].n < e.n)
      BY <2>6, <3>1 DEF OutOfOrder
    <3>4. upTo'[p] = e.n
      BY <2>1, <2>6, <3>2, <3>3 DEF Types, HistoryOK
    <3>5. \A j \in Loops : cur[j] # None /\ cur[j].who = p => cur[j].n = e.n
      BY <2>4, <3>2, <3>3 DEF Alone
    <3> QED
      BY <2>2, <2>3, <2>4, <2>6, <3>3, <3>4, <3>5 DEF Alone
  <2> QED
    BY <2>5, <2>6
<1> QED
  BY <1>1, <1>2

LEMMA JoinAlone ==
  ASSUME Types, RosterOK, AllAlone,
         \/ Join \/ JoinUnanswered \/ FindChat \/ FindGroup \/ AddGroup \/ UpdateGroup
         \/ \E m \in Members : SaveMember(m)
         \/ DeleteOldKeys \/ UpdateMember \/ InsertMember \/ AddConnection
  PROVE  AllAlone'
<1> SUFFICES ASSUME NEW p \in Everyone, p \notin excused' PROVE Alone(p)'
  BY DEF AllAlone
<1>1. CASE Join
  <2>1. /\ dat = "idle" /\ act = Idle /\ p \notin Handled
        /\ jat' = "chat" /\ UNCHANGED <<cur, dat, act>>
        /\ myKey' \in selfKeys'
    BY <1>1 DEF Join, Accept, loops, deleting
  <2>2. \A k \in Loops : cur'[k] # None => cur'[k].who # p
    BY <2>1 DEF Handled
  <2>3. act'.who # p
    BY <2>1 DEF Idle, Everyone
  <2> QED
    BY <2>1, <2>2, <2>3 DEF Alone, Entering
<1>2. CASE JoinUnanswered
  BY <1>2 DEF JoinUnanswered
<1>3. CASE FindChat \/ FindGroup \/ AddGroup \/ UpdateGroup
  <2>1. /\ jat \in Entering
        /\ UNCHANGED <<cur, upTo, dat, act, conn, selfKeys, lost, myKey, inGroup>>
        /\ excused \subseteq excused' \/ excused' = Everyone
    BY <1>3 DEF FindChat, FindGroup, AddGroup, UpdateGroup, Entering, server, rows, loops, deleting,
                history
  <2>2. Alone(p) /\ jkey = myKey /\ jat # "idle"
    BY <2>1 DEF AllAlone, RosterOK, Entering
  <2>3. /\ dat = "idle" /\ act.who # p /\ myKey \in selfKeys \cup lost
        /\ \A k \in Loops : cur[k] # None => cur[k].who # p
    BY <2>2 DEF Alone
  <2>4. /\ jat' # "idle"
        /\ group'.row /\ group'.connected /\ jat' \notin Entering => group'.self = myKey
    <3>1. CASE FindChat
      BY <3>1 DEF FindChat, Entering
    <3>2. CASE FindGroup
      BY <3>2 DEF FindGroup, GotoJ, Entering
    <3>3. CASE AddGroup
      BY <2>2, <3>3 DEF AddGroup, GotoJ, Joined
    <3>4. CASE UpdateGroup
      BY <2>2, <3>4 DEF UpdateGroup, GotoJ, Joined
    <3> QED
      BY <1>3, <3>1, <3>2, <3>3, <3>4
  <2> QED
    BY <2>1, <2>3, <2>4 DEF Alone
<1>4. CASE \/ \E m \in Members : SaveMember(m)
           \/ DeleteOldKeys \/ UpdateMember \/ InsertMember \/ AddConnection
  <2>1. /\ jat \notin Entering \cup {"idle"} /\ jat' \notin Entering
        /\ UNCHANGED <<cur, upTo, dat, act, group, selfKeys, lost, myKey, inGroup>>
        /\ excused \subseteq excused'
    BY <1>4 DEF SaveMember, DeleteOldKeys, UpdateMember, InsertMember, AddConnection, JoinEnds,
                GotoJ, Entering, server, rows, loops, deleting, history
  <2>2. Alone(p)
    BY <2>1 DEF AllAlone
  <2> QED
    BY <2>1, <2>2 DEF Alone
<1> QED
  BY <1>1, <1>2, <1>3, <1>4

LEMMA UserAlone ==
  ASSUME Types, AllAlone,
         \/ \E m \in Members, kind \in {"remove", "promote", "demote"} : Act(kind, m)
         \/ Leave \/ WriteAct
  PROVE  AllAlone'
<1> SUFFICES ASSUME NEW p \in Everyone, p \notin excused' PROVE Alone(p)'
  BY DEF AllAlone
<1>1. ASSUME NEW who \in Everyone, NEW kind, Asked(kind, who), UNCHANGED myKey, inGroup' => inGroup
      PROVE  Alone(p)'
  <2>1. /\ excused \subseteq excused' /\ upTo' = [upTo EXCEPT ![who] = changes']
        /\ UNCHANGED <<rows, loops, joining, deleting, lost>>
    BY <1>1 DEF Asked
  <2>2. /\ UNCHANGED <<cur, jat, dat, conn, selfKeys, lost, group>>
        /\ Alone(p)
    BY <2>1 DEF rows, loops, joining, deleting, AllAlone
  <2>3. CASE who = p
    <3>1. p \notin Handled /\ jat = "idle"
      BY <1>1, <2>3 DEF Asked
    <3> QED
      BY <1>1, <2>2, <3>1 DEF Alone, Handled
  <2>4. CASE who # p
    <3>1. upTo'[p] = upTo[p] /\ (act'.who = p => act.who = p)
      BY <1>1, <2>1, <2>4 DEF Asked, Types, HistoryOK
    <3> QED
      BY <1>1, <2>2, <3>1, AloneFrame
  <2> QED
    BY <2>3, <2>4
<1>2. ASSUME NEW m \in Members, NEW kind, Act(kind, m) PROVE Alone(p)'
  BY <1>1, <1>2 DEF Act, Ask, Everyone
<1>3. CASE Leave
  BY <1>1, <1>3 DEF Leave, AskToLeave, Everyone
<1>4. CASE WriteAct
  <2>1. /\ UNCHANGED <<server, conn, selfKeys, loops, joining, deleting, history>>
        /\ act' = Idle
        /\ group' = group \/ group' = [group EXCEPT !.connected = FALSE]
    BY <1>4 DEF WriteAct
  <2>2. /\ group'.row = group.row /\ group'.self = group.self
        /\ group'.connected => group.connected
    BY <2>1 DEF Types, GroupOK
  <2>3. Idle.who # p
    BY DEF Idle, Everyone
  <2>4. UNCHANGED <<cur, jat, dat, conn, selfKeys, lost, myKey, inGroup, upTo, excused>>
    BY <2>1 DEF server, loops, joining, deleting, history
  <2> QED
    BY <2>1, <2>2, <2>3, <2>4, AloneFrame DEF AllAlone
<1> QED
  BY <1>2, <1>3, <1>4

LEMMA DeleteAlone ==
  ASSUME Types, AllAlone, Delete \/ \E m \in Members : DeleteMemberKeys(m)
  PROVE  AllAlone'
<1> SUFFICES ASSUME NEW p \in Everyone, p \notin excused' PROVE Alone(p)'
  BY DEF AllAlone
<1>1. /\ UNCHANGED <<server, loops, joining, act, upTo, lost>>
      /\ excused \subseteq excused' \/ excused' = Everyone
  BY DEF Delete, DeleteLoad, DeleteIds, DeleteMemberKeys, DeleteMemberRow, DeleteSelfKeys,
         DeleteMembers, DeleteGroup, DeleteConnection, rows, history
<1>2. UNCHANGED <<myKey, inGroup, cur, jat, act, upTo, lost>> /\ Alone(p)
  BY <1>1 DEF server, loops, joining, AllAlone
<1>3. CASE DeleteLoad
  <2>1. /\ jat = "idle" /\ p \notin Handled /\ ~group.connected
        /\ UNCHANGED <<conn, group, selfKeys>>
    BY <1>3 DEF DeleteLoad, rows
  <2> QED
    BY <1>2, <2>1 DEF Alone, Handled
<1>4. CASE ~DeleteLoad
  <2>1. /\ dat # "idle"
        /\ group' = group \/ ~group'.connected
    BY <1>4 DEF Delete, DeleteIds, DeleteMemberKeys, DeleteMemberRow, DeleteSelfKeys,
         DeleteMembers, DeleteGroup, DeleteConnection, rows, NoGroup
  <2>2. jat = "idle" /\ ~group'.connected /\ \A k \in Loops : cur[k] # None => cur[k].who # p
    BY <1>2, <2>1 DEF Alone
  <2> QED
    BY <1>2, <2>2 DEF Alone
<1> QED
  BY <1>3, <1>4

LEMMA AloneStep ==
  ASSUME Types, RosterOK, AllAlone, Next, ~PortStep
  PROVE  AllAlone'
<1>1. CASE \/ \E m \in Members : MemberJoins(m) \/ MemberGoes(m) \/ MemberAdmin(m)
           \/ SelfAdmin \/ SelfRemoved
  <2>1. UNCHANGED <<rows, loops, joining, act, deleting, history, myKey>> /\ (inGroup' => inGroup)
    BY <1>1 DEF MemberJoins, MemberGoes, MemberAdmin, SelfAdmin, SelfRemoved
  <2> QED
    BY <2>1, AloneFrame DEF rows, loops, joining, deleting, history, AllAlone
<1>2. CASE Crash
  <2> SUFFICES ASSUME NEW p \in Everyone, p \notin excused' PROVE Alone(p)'
    BY DEF AllAlone
  <2>1. /\ jat = "idle" /\ p \notin excused
        /\ \A k \in Loops : cur'[k] = None
        /\ jat' = "idle" /\ dat' = "idle"
        /\ UNCHANGED <<inGroup, myKey, group, selfKeys, lost>>
    BY <1>2 DEF Crash, JoinEnds, server
  <2>2. Alone(p)
    BY <2>1 DEF AllAlone
  <2> QED
    BY <2>1, <2>2 DEF Alone
<1> QED
  BY <1>1, <1>2, HandleAlone, JoinAlone, UserAlone, DeleteAlone DEF Next, PortStep

-----------------------------------------------------------------------------
(* What is known of a person is on the way to the roster *)

\* What the server has of a person, and what the phone's rows say; in the group one has a key.
Actual(p) == IF p # Self THEN roster[p]
             ELSE IF inGroup THEN [key |-> 1, admin |-> admin] ELSE Out
Known(p) == IF p # Self
            THEN IF member[p].row = "active"
                 THEN [key |-> member[p].key.theirs, admin |-> member[p].admin] ELSE Out
            ELSE IF group.connected THEN [key |-> 1, admin |-> group.admin] ELSE Out

\* The secret shared with a member is of this user's newest keys.
Mine(p) == p # Self /\ member[p].row = "active" => member[p].key.mine = myKey
Agrees(p, t) == Known(p) = t /\ Mine(p)

\* Still to be handled, for the first time or again.
News(p) == {e \in pending : e.who = p}
Again(p) == {e \in News(p) : e.n = upTo[p]}

\* Handling the event makes the rows agree with it.
Ready(p, e) == /\ e.kind = "newMember" => Known(p) = Out \/ Agrees(p, Told(e))
               /\ e.kind \in Adjusting => Known(p).key = Told(e).key /\ Mine(p)

\* Group.join saves what the server has answered.
Answered(p) == IF p # Self THEN answer[p] ELSE [key |-> 1, admin |-> FALSE]
Written(p) == IF p # Self THEN p \notin todo \cup {jm} ELSE jat \notin Entering /\ group.row

WhileJoining(p) ==
  /\ Again(p) = {} /\ Leads(upTo[p], Answered(p), News(p), Actual(p))
  /\ Written(p) => Agrees(p, Answered(p))

\* The user has asked for a change, the server has made it.
Outcome(p) == IF act.kind \in {"remove", "leave"} THEN Out
              ELSE [key |-> Known(p).key, admin |-> act.kind = "promote"]

WhileActing(p) ==
  /\ Again(p) = {} /\ Leads(upTo[p], Outcome(p), News(p), Actual(p))
  /\ Mine(p) /\ (act.kind \in {"promote", "demote"} => Known(p).key # 0)

\* Several loops may handle the same event, again and again.
WhileHandling(p) ==
  /\ Again(p) = {} => Leads(upTo[p], Known(p), News(p), Actual(p)) /\ Mine(p)
  /\ \A e \in Again(p) : Ready(p, e)
  /\ \A k \in Loops : cur[k] # None /\ cur[k].who = p =>
       /\ cur[k] \in News(p) \/ Agrees(p, Told(cur[k]))
       /\ at[k] = "insert" => fresh[k].mine = myKey

Chained(p) ==
  \A e \in News(p) : upTo[p] <= e.n => Leads(e.n, Told(e), News(p), Actual(p))

OnCourse(p) ==
  /\ Chained(p)
  /\ jat # "idle" => WhileJoining(p)
  /\ jat = "idle" /\ act.who = p => WhileActing(p)
  /\ jat = "idle" /\ act.who # p => WhileHandling(p)

\* The server tells of all changes, the group is not disconnected, and no event was passed
\* over for a newer one.
Live(p) ==
  /\ p # Self => inGroup
  /\ jat = "idle" => group.row /\ (p # Self => group.connected)
  /\ \A e \in News(p) : upTo[p] <= e.n

AllOnCourse == \A p \in Everyone \ excused : Live(p) => OnCourse(p)

LEMMA CourseFrame ==
  ASSUME NEW p \in Everyone, OnCourse(p),
         Actual(p)' = Actual(p), Known(p)' = Known(p), Mine(p) => Mine(p)',
         News(p)' = News(p), upTo'[p] = upTo[p], myKey' = myKey,
         UNCHANGED joining,
         act' = act \/ (act'.who # p /\ act.who # p),
         \A k \in Loops : cur'[k] # None /\ cur'[k].who = p =>
           cur'[k] = cur[k] /\ at'[k] = at[k] /\ fresh'[k] = fresh[k],
         p = Self => group'.row = group.row
  PROVE  OnCourse(p)'
<1>1. /\ UNCHANGED <<jat, answer, todo, jm>> /\ Answered(p)' = Answered(p)
      /\ Written(p)' => Written(p)
      /\ Again(p)' = Again(p)
  BY DEF joining, Answered, Written, Again
<1>2. \A t : Agrees(p, t) => Known(p)' = t /\ Mine(p)'
  BY DEF Agrees
<1>3. Chained(p)'
  BY DEF OnCourse, Chained
<1>4. ASSUME jat' # "idle" PROVE WhileJoining(p)'
  BY <1>1, <1>2, <1>4 DEF OnCourse, WhileJoining, Agrees
<1>5. ASSUME jat' = "idle", act'.who = p PROVE WhileActing(p)'
  <2>1. act' = act /\ Outcome(p)' = Outcome(p) /\ WhileActing(p)
    BY <1>1, <1>5 DEF OnCourse, Outcome
  <2> QED
    BY <1>1, <2>1 DEF WhileActing
<1>6. ASSUME jat' = "idle", act'.who # p PROVE WhileHandling(p)'
  <2>1. WhileHandling(p)
    BY <1>1, <1>6 DEF OnCourse
  <2>2. Again(p)' = {} => Leads(upTo'[p], Known(p)', News(p)', Actual(p)') /\ Mine(p)'
    BY <1>1, <2>1 DEF WhileHandling
  <2>3. \A e \in Again(p)' : Ready(p, e)'
    <3>1. \A e : Ready(p, e) => Ready(p, e)'
      BY DEF Ready, Agrees
    <3> QED
      BY <1>1, <2>1, <3>1 DEF WhileHandling
  <2>4. \A k \in Loops : cur'[k] # None /\ cur'[k].who = p =>
          /\ cur'[k] \in News(p)' \/ Agrees(p, Told(cur[k]))'
          /\ at'[k] = "insert" => fresh'[k].mine = myKey'
    BY <1>2, <2>1 DEF WhileHandling, Agrees
  <2> QED
    BY <2>2, <2>3, <2>4 DEF WhileHandling
<1> QED
  BY <1>3, <1>4, <1>5, <1>6 DEF OnCourse

LEMMA NewsTypes ==
  ASSUME Types, SeenOK, NEW p \in Everyone
  PROVE  /\ News(p) \subseteq Events /\ \A e \in News(p) : e.n \in Nat /\ e.n <= changes
         /\ News(p) \subseteq Seen
         /\ upTo[p] \in Nat /\ changes \in Nat
  BY EventTypes DEF News, Seen, SeenOK, Types, ServerOK, HistoryOK

\* The server makes a change and tells of it.
LEMMA TellCourse ==
  ASSUME Types, SeenOK, RosterOK, NEW p \in Everyone, OnCourse(p),
         NEW f, f.n \in Nat, changes < f.n,
         News(p)' = News(p) \cup {f}, Applies(Actual(p), f), Actual(p)' = Told(f),
         UNCHANGED <<rows, loops, joining, act, upTo, myKey>>
  PROVE  OnCourse(p)'
<1>1. /\ \A e \in News(p) : e.n \in Nat /\ e.n < f.n
      /\ upTo[p] \in Nat /\ upTo[p] < f.n
  BY NewsTypes DEF RosterOK, Types, ServerOK
<1>2. \A n, t : n \in Nat /\ n < f.n /\ Leads(n, t, News(p), Actual(p)) =>
                  Leads(n, t, News(p)', Actual(p)')
  BY <1>1, LeadsOn
<1>3. Again(p)' = Again(p)
  BY <1>1 DEF Again
<1>4. UNCHANGED <<conn, group, member, at, cur, fresh, jat, answer, todo, jm>>
  BY DEF rows, loops, joining
<1>5. /\ Known(p)' = Known(p) /\ Mine(p)' = Mine(p) /\ Answered(p)' = Answered(p)
      /\ Written(p)' = Written(p) /\ Outcome(p)' = Outcome(p)
  BY <1>4 DEF Known, Mine, Answered, Written, Outcome
<1>6. Chained(p)'
  <2> SUFFICES ASSUME NEW e \in News(p)', upTo[p] <= e.n
               PROVE  Leads(e.n, Told(e), News(p)', Actual(p)')
    BY DEF Chained
  <2>1. CASE e \in News(p)
    BY <1>1, <1>2, <2>1 DEF OnCourse, Chained
  <2>2. CASE e = f
    <3>1. \A g \in News(p)' : ~(f.n < g.n)
      BY <1>1
    <3> QED
      BY <2>2, <3>1 DEF Leads, Nearest
  <2> QED
    BY <2>1, <2>2
<1>7. jat' # "idle" => WhileJoining(p)'
  BY <1>1, <1>2, <1>3, <1>4, <1>5 DEF OnCourse, WhileJoining, Agrees
<1>8. jat' = "idle" /\ act'.who = p => WhileActing(p)'
  BY <1>1, <1>2, <1>3, <1>4, <1>5 DEF OnCourse, WhileActing
<1>9. ASSUME jat' = "idle", act'.who # p PROVE WhileHandling(p)'
  <2>1. WhileHandling(p)
    BY <1>4, <1>9 DEF OnCourse
  <2>2. Again(p)' = {} => Leads(upTo'[p], Known(p)', News(p)', Actual(p)') /\ Mine(p)'
    BY <1>1, <1>2, <1>3, <1>5, <2>1 DEF WhileHandling
  <2>3. \A e \in Again(p)' : Ready(p, e)'
    BY <1>3, <1>5, <2>1 DEF WhileHandling, Ready, Agrees
  <2>4. \A k \in Loops : cur'[k] # None /\ cur'[k].who = p =>
          /\ cur'[k] \in News(p)' \/ Agrees(p, Told(cur[k]))'
          /\ at'[k] = "insert" => fresh'[k].mine = myKey'
    BY <1>4, <1>5, <2>1 DEF WhileHandling, Agrees
  <2> QED
    BY <1>4, <2>2, <2>3, <2>4 DEF WhileHandling
<1> QED
  BY <1>6, <1>7, <1>8, <1>9 DEF OnCourse

LEMMA ServerCourse ==
  ASSUME Types, SeenOK, RosterOK, AllOnCourse,
         \/ \E m \in Members : MemberJoins(m) \/ MemberGoes(m) \/ MemberAdmin(m)
         \/ SelfAdmin \/ SelfRemoved
  PROVE  AllOnCourse'
<1> SUFFICES ASSUME NEW p \in Everyone, p \notin excused', Live(p)' PROVE OnCourse(p)'
  BY DEF AllOnCourse
<1>1. /\ UNCHANGED <<rows, loops, joining, act, history, myKey>> /\ (inGroup' => inGroup)
      /\ pending \subseteq pending'
  BY DEF MemberJoins, MemberGoes, MemberAdmin, SelfAdmin, SelfRemoved, Tell
<1>2. UNCHANGED <<conn, group, member, upTo, excused, jat>>
  BY <1>1 DEF rows, joining, history
<1>3. Live(p)
  BY <1>1, <1>2 DEF Live, News
<1>4. OnCourse(p)
  BY <1>2, <1>3 DEF AllOnCourse
<1>5. Known(p)' = Known(p) /\ Mine(p)' = Mine(p)
  BY <1>1, <1>2 DEF Known, Mine
<1>6. ASSUME Actual(p)' = Actual(p), News(p)' = News(p) PROVE OnCourse(p)'
  BY <1>1, <1>2, <1>4, <1>5, <1>6, CourseFrame DEF loops
<1>7. ASSUME NEW kind, NEW entry, Tell(kind, p, entry), inGroup,
             \A f : f.kind = kind /\ f.who = p /\ f.entry = entry =>
               Applies(Actual(p), f) /\ Actual(p)' = Told(f)
      PROVE  OnCourse(p)'
  <2> PICK f : f = [n |-> changes', kind |-> kind, who |-> p, entry |-> entry]
    OBVIOUS
  <2>1. News(p)' = News(p) \cup {f}
    BY <1>7 DEF Tell, News
  <2>2. f.n \in Nat /\ changes < f.n
    BY <1>7 DEF Tell, Change, Types, ServerOK
  <2>3. Applies(Actual(p), f) /\ Actual(p)' = Told(f)
    BY <1>7
  <2> QED
    BY <1>1, <1>2, <1>4, <2>1, <2>2, <2>3, TellCourse
<1>8. ASSUME NEW kind, NEW who, NEW entry, Tell(kind, who, entry), who # p
      PROVE  News(p)' = News(p)
  BY <1>8 DEF Tell, News
<1>9. ASSUME NEW m \in Members, MemberJoins(m) \/ MemberGoes(m) \/ MemberAdmin(m)
      PROVE  OnCourse(p)'
  <2>1. UNCHANGED <<inGroup, admin>> /\ \A n \in Members : n # m => roster'[n] = roster[n]
    BY <1>9 DEF MemberJoins, MemberGoes, MemberAdmin, Types, ServerOK
  <2>2. PICK kind, entry : Tell(kind, m, entry)
    BY <1>9 DEF MemberJoins, MemberGoes, MemberAdmin
  <2>3. CASE p # m
    <3>1. Actual(p)' = Actual(p)
      BY <2>1, <2>3 DEF Actual, Everyone
    <3> QED
      BY <1>6, <1>8, <2>2, <2>3, <3>1
  <2>4. CASE p = m
    <3>1. inGroup /\ p # Self /\ Actual(p) = roster[m] /\ Actual(p)' = roster'[m]
      BY <2>1, <2>4 DEF Live, Actual
    <3>2. CASE MemberJoins(m)
      <4>1. roster[m] = Out /\ Tell("newMember", m, roster'[m])
        BY <3>2 DEF MemberJoins, RosterOK
      <4>2. \A f : f.kind = "newMember" /\ f.who = p /\ f.entry = roster'[m] =>
               Applies(Actual(p), f) /\ Actual(p)' = Told(f)
        BY <3>1, <4>1 DEF Applies, Told, Adjusting
      <4> QED
        BY <1>7, <2>4, <3>1, <4>1, <4>2
    <3>3. CASE MemberGoes(m)
      <4>1. roster'[m] = Out /\ Tell("removedMember", m, Out)
        BY <3>3 DEF MemberGoes, Types, ServerOK
      <4>2. \A f : f.kind = "removedMember" /\ f.who = p /\ f.entry = Out =>
               Applies(Actual(p), f) /\ Actual(p)' = Told(f)
        BY <3>1, <4>1 DEF Applies, Told, Adjusting
      <4> QED
        BY <1>7, <2>4, <3>1, <4>1, <4>2
    <3>4. CASE MemberAdmin(m)
      <4>1. PICK kind2 \in {"promotedMember", "demotedMember"} : Tell(kind2, m, roster'[m])
        BY <3>4 DEF MemberAdmin
      <4>2. roster'[m].key = roster[m].key
        BY <3>4 DEF MemberAdmin, Types, ServerOK, Entry
      <4>3. \A f : f.kind = kind2 /\ f.who = p /\ f.entry = roster'[m] =>
               Applies(Actual(p), f) /\ Actual(p)' = Told(f)
        BY <3>1, <4>1, <4>2 DEF Applies, Told, Adjusting
      <4> QED
        BY <1>7, <2>4, <3>1, <4>1, <4>3
    <3> QED
      BY <1>9, <3>2, <3>3, <3>4
  <2> QED
    BY <2>3, <2>4
<1>10. CASE SelfAdmin
  <2>1. inGroup /\ inGroup' /\ roster' = roster /\ admin' = ~admin /\ admin \in BOOLEAN
    BY <1>10 DEF SelfAdmin, Types, ServerOK
  <2>2. PICK kind : /\ kind = (IF admin THEN "demotion" ELSE "promotion")
                    /\ Tell(kind, Self, Out)
    BY <1>10 DEF SelfAdmin
  <2>3. CASE p # Self
    <3>1. Actual(p)' = Actual(p)
      BY <2>1, <2>3 DEF Actual
    <3> QED
      BY <1>6, <1>8, <2>2, <2>3, <3>1
  <2>4. CASE p = Self
    <3>1. Actual(p).key = 1 /\ Actual(p)' = [key |-> 1, admin |-> (kind = "promotion")]
      BY <2>1, <2>2, <2>4 DEF Actual
    <3>2. \A f : f.kind = kind /\ f.who = p /\ f.entry = Out =>
             Applies(Actual(p), f) /\ Actual(p)' = Told(f)
      BY <2>2, <2>4, <3>1 DEF Applies, Told, Adjusting
    <3> QED
      BY <1>7, <2>1, <2>2, <2>4, <3>2
  <2> QED
    BY <2>3, <2>4
<1>11. CASE SelfRemoved
  <2>1. inGroup /\ ~inGroup' /\ Tell("removedFromGroup", Self, Out)
    BY <1>11 DEF SelfRemoved
  <2>2. p = Self
    BY <2>1 DEF Live
  <2>3. Actual(p)' = Out
    BY <2>1, <2>2 DEF Actual
  <2>4. \A f : f.kind = "removedFromGroup" /\ f.who = p /\ f.entry = Out =>
           Applies(Actual(p), f) /\ Actual(p)' = Told(f)
    BY <2>2, <2>3 DEF Applies, Told, Adjusting
  <2> QED
    BY <1>7, <2>1, <2>2, <2>4
<1> QED
  BY <1>9, <1>10, <1>11

\* What marking a member leaves of its row.
LEMMA MarkedShape ==
  ASSUME MembersOK, NEW m \in Members, NEW kind
  PROVE  /\ \A n \in Members : n # m => Marked(m, kind)[n] = member[n]
         /\ Marked(m, kind)[m].key = member[m].key
         /\ kind \in {"removedMember", "remove"} => Marked(m, kind)[m].row # "active"
         /\ kind \notin {"removedMember", "remove"} =>
              /\ Marked(m, kind)[m].row = member[m].row
              /\ member[m].row # "none" =>
                   Marked(m, kind)[m].admin = (kind \in {"promotedMember", "promote"})
<1>1. member[m] \in Row /\ member \in [Members -> Row]
  BY DEF MembersOK
<1>2. CASE member[m].row = "none"
  BY <1>1, <1>2 DEF Marked
<1>3. CASE member[m].row # "none" /\ kind \in {"removedMember", "remove"}
  <2>1. Marked(m, kind) = [member EXCEPT ![m].row = "deleted"]
    BY <1>3 DEF Marked
  <2> QED
    BY <1>1, <1>3, <2>1 DEF Row
<1>4. CASE member[m].row # "none" /\ kind \notin {"removedMember", "remove"}
  <2>1. ASSUME NEW to \in BOOLEAN, Marked(m, kind) = [member EXCEPT ![m].admin = to]
        PROVE  /\ \A n \in Members : n # m => Marked(m, kind)[n] = member[n]
               /\ Marked(m, kind)[m].key = member[m].key
               /\ Marked(m, kind)[m].row = member[m].row
               /\ Marked(m, kind)[m].admin = to
    <3>1. PICK R, K : Row = [row : R, key : K, admin : BOOLEAN]
      BY DEF Row
    <3> QED
      BY <1>1, <2>1, <3>1
  <2>2. CASE kind \in {"promotedMember", "promote"}
    <3>1. Marked(m, kind) = [member EXCEPT ![m].admin = TRUE]
      BY <1>4, <2>2 DEF Marked
    <3>2. /\ \A n \in Members : n # m => Marked(m, kind)[n] = member[n]
          /\ Marked(m, kind)[m].key = member[m].key
          /\ Marked(m, kind)[m].row = member[m].row
          /\ Marked(m, kind)[m].admin = TRUE
      BY <2>1, <3>1
    <3> QED
      BY <1>4, <2>2, <3>2
  <2>3. CASE kind \notin {"promotedMember", "promote"}
    <3>1. Marked(m, kind) = [member EXCEPT ![m].admin = FALSE]
      BY <1>4, <2>3 DEF Marked
    <3>2. /\ \A n \in Members : n # m => Marked(m, kind)[n] = member[n]
          /\ Marked(m, kind)[m].key = member[m].key
          /\ Marked(m, kind)[m].row = member[m].row
          /\ Marked(m, kind)[m].admin = FALSE
      BY <2>1, <3>1
    <3>3. (kind \in {"promotedMember", "promote"}) = FALSE
      BY <2>3
    <3> QED
      BY <1>4, <3>2, <3>3
  <2> QED
    BY <2>2, <2>3
<1> QED
  BY <1>2, <1>3, <1>4

\* An event was handled, or one that was handled before is dropped.
LEMMA FinishCourse ==
  ASSUME Types, SeenOK, NEW p \in Everyone, Alone(p), OnCourse(p),
         NEW k \in Loops, NEW e, e = cur[k], e # None, e.who = p, Finish(k),
         UNCHANGED <<jat, act, upTo>>,
         Agrees(p, Told(e))'
  PROVE  OnCourse(p)'
<1>1. /\ e.n = upTo[p] /\ jat = "idle" /\ act.who # p
      /\ \A j \in Loops : cur[j] # None /\ cur[j].who = p => cur[j].n = e.n
      /\ WhileHandling(p)
  BY DEF Alone, OnCourse
<1>2. \A f \in Seen : f.n = e.n => f = e
  BY DEF SeenOK, Seen
<1>3. /\ News(p)' \subseteq News(p) /\ \A f \in News(p) \ News(p)' : f = e
      /\ Actual(p)' = Actual(p)
  BY FinishShape DEF News, Actual
<1>4. \A f \in News(p) : f.n \in Nat
  BY NewsTypes
<1>5. \A n, t : n \in Nat /\ e.n <= n /\ Leads(n, t, News(p), Actual(p)) =>
                  Leads(n, t, News(p)', Actual(p)')
  BY <1>3, <1>4, LeadsWithout
<1>6. upTo'[p] = e.n /\ e.n \in Nat
  BY <1>1, NewsTypes
<1>7. Chained(p)'
  BY <1>1, <1>3, <1>4, <1>5, <1>6 DEF OnCourse, Chained
<1>8. Again(p)' \subseteq {e}
  BY <1>2, <1>3, <1>6, NewsTypes DEF Again
<1>9. Known(p)' = Told(e) /\ Mine(p)'
  BY DEF Agrees
<1>10. ASSUME Again(p)' = {} PROVE Leads(upTo'[p], Known(p)', News(p)', Actual(p)') /\ Mine(p)'
  <2>1. CASE e \in News(p)
    <3>1. Leads(e.n, Told(e), News(p), Actual(p))
      BY <1>1, <1>6, <2>1 DEF OnCourse, Chained
    <3> QED
      BY <1>5, <1>6, <1>9, <3>1
  <2>2. CASE e \notin News(p)
    <3>1. Again(p) = {}
      BY <1>1, <1>2, <2>2, NewsTypes DEF Again
    <3>2. Leads(upTo[p], Known(p), News(p), Actual(p)) /\ Known(p) = Told(e)
      BY <1>1, <2>2, <3>1 DEF WhileHandling, Agrees
    <3> QED
      BY <1>1, <1>5, <1>6, <1>9, <3>2
  <2> QED
    BY <2>1, <2>2
<1>11. \A f \in Again(p)' : Ready(p, f)'
  BY <1>8, <1>9 DEF Ready, Agrees
<1>12. \A j \in Loops : cur'[j] # None /\ cur'[j].who = p =>
         /\ Agrees(p, Told(cur[j]))' /\ cur'[j] = cur[j]
         /\ at'[j] = "insert" => fresh'[j].mine = myKey'
  <2> SUFFICES ASSUME NEW j \in Loops, cur'[j] # None, cur'[j].who = p
               PROVE  /\ Agrees(p, Told(cur[j]))' /\ cur'[j] = cur[j]
                      /\ at'[j] = "insert" => fresh'[j].mine = myKey'
    OBVIOUS
  <2>1. j # k /\ at'[j] = at[j] /\ cur'[j] = cur[j] /\ fresh'[j] = fresh[j] /\ myKey' = myKey
    BY FinishShape
  <2>2. cur[j] = e
    BY <1>1, <1>2, <2>1 DEF Seen
  <2> QED
    BY <1>1, <1>9, <2>1, <2>2 DEF WhileHandling, Agrees
<1>13. WhileHandling(p)'
  BY <1>10, <1>11, <1>12 DEF WhileHandling
<1> QED
  BY <1>1, <1>7, <1>13 DEF OnCourse

\* What Live and Alone say where a loop handles an event.
LEMMA HandledAlone ==
  ASSUME Types, NEW p \in Everyone, Alone(p), Live(p), OnCourse(p),
         NEW k \in Loops, cur[k] # None, cur[k].who = p
  PROVE  /\ Loaded /\ (p # Self => group.self = myKey /\ group.self \in selfKeys \cup lost)
         /\ Ready(p, cur[k]) /\ jat = "idle" /\ act.who # p
         /\ at[k] = "insert" => fresh[k].mine = myKey
<1>1. jat = "idle" /\ act.who # p /\ conn /\ cur[k].n = upTo[p]
  BY DEF Alone
<1>2. Loaded /\ (p # Self => group.self = myKey /\ group.self \in selfKeys \cup lost)
  BY <1>1 DEF Live, Alone, Loaded, Entering
<1>3. WhileHandling(p)
  BY <1>1 DEF OnCourse
<1>4. Ready(p, cur[k])
  <2>1. CASE cur[k] \in News(p)
    BY <1>1, <1>3, <2>1 DEF WhileHandling, Again
  <2>2. CASE Agrees(p, Told(cur[k]))
    BY <2>2 DEF Ready, Agrees
  <2> QED
    BY <1>3, <2>1, <2>2 DEF WhileHandling
<1> QED
  BY <1>1, <1>2, <1>3, <1>4 DEF WhileHandling

\* Handled, the rows agree with the event.
LEMMA HandledAgrees ==
  ASSUME Types, SeenOK, SuspendedOK, NEW p \in Everyone, Alone(p), Live(p), OnCourse(p),
         NEW k \in Loops, Handle(k), Finish(k),
         NEW e, e = cur[k], e # None, e.who = p, p \notin excused'
  PROVE  Agrees(p, Told(e))'
<1>1. /\ Loaded /\ (p # Self => group.self = myKey /\ group.self \in selfKeys \cup lost)
      /\ Ready(p, e)
      /\ at[k] = "insert" => fresh[k].mine = myKey
  BY HandledAlone
<1>2. e \in Seen /\ e \in Events
  BY SeenTypes DEF Seen
<1>3. /\ e.n \in Nat /\ e.kind \in Kinds /\ e.entry \in Entry
      /\ (e.who = Self <=> e.kind \in {"removedFromGroup", "promotion", "demotion"})
      /\ (e.kind = "newMember" => e.entry.key # 0)
  BY <1>2, EventTypes
<1>4. /\ e.kind = "removedMember" => e.entry = Out
      /\ e.kind \in {"promotedMember", "demotedMember"} =>
           e.entry.key # 0 /\ e.entry.admin = (e.kind = "promotedMember")
  BY <1>2 DEF SeenOK
<1>5. myKey' = myKey
  BY FinishShape
<1>6. e.entry = [key |-> e.entry.key, admin |-> e.entry.admin]
  BY <1>3 DEF Entry
<1>7. p \in Members => p # Self /\ Told(e) = e.entry /\ member[p] \in Row /\ group.self = myKey
  BY <1>1 DEF Told, Types, MembersOK
<1>8. CASE AddMemberKeys(k)
  <2>1. p \in Members
    BY <1>3, <1>8 DEF AddMemberKeys, Everyone
  <2>2. CASE group.self \in selfKeys
    <3>1. at'[k] = "insert"
      BY <1>1, <1>8, <2>2 DEF AddMemberKeys, Goto, Types, LoopsOK
    <3> QED
      BY <3>1, FinishShape
  <2>3. CASE group.self \notin selfKeys
    <3>1. group.self \in lost
      BY <1>1, <1>7, <2>1, <2>3
    <3> QED
      BY <1>1, <1>8, <2>3, <3>1 DEF AddMemberKeys
  <2> QED
    BY <2>2, <2>3
<1>9. CASE AddMemberRow(k)
  <2>1. /\ at[k] = "insert" /\ e.kind = "newMember" /\ fresh[k].theirs = e.entry.key
        /\ fresh[k].mine = myKey
    BY <1>1, <1>9 DEF AddMemberRow, SuspendedOK
  <2>2. p \in Members
    BY <1>3, <2>1 DEF Everyone
  <2>3. /\ member' = IF member[p].row = "none"
                     THEN [member EXCEPT ![p] = [row |-> "active", admin |-> e.entry.admin,
                                                 key |-> fresh[k]]]
                     ELSE member
        /\ member'[p].row = "active"
    BY <1>9 DEF AddMemberRow
  <2>4. CASE member[p].row = "none"
    <3>1. member'[p] = [row |-> "active", admin |-> e.entry.admin, key |-> fresh[k]]
      BY <2>2, <2>3, <2>4 DEF Types, MembersOK
    <3> QED
      BY <1>5, <1>6, <1>7, <2>1, <2>2, <3>1 DEF Agrees, Known, Mine
  <2>5. CASE member[p].row # "none"
    <3>1. member' = member /\ member[p].row = "active"
      BY <2>3, <2>5
    <3>2. Known(p).key = member[p].key.theirs /\ member[p].key \in Keys
      BY <1>7, <2>2, <3>1 DEF Known, Types, MembersOK, Row
    <3>3. member[p].key.theirs \in 1..MaxChanges + 1
      BY <3>2 DEF Keys
    <3>4. Known(p) # Out
      BY <3>2, <3>3 DEF Out
    <3>5. Agrees(p, Told(e))
      BY <1>1, <2>1, <3>4 DEF Ready
    <3> QED
      BY <1>5, <1>7, <2>2, <3>1, <3>5 DEF Agrees, Known, Mine
  <2> QED
    BY <2>4, <2>5
<1>10. ASSUME p \in Members, e.kind \in Adjusting
       PROVE  member[p].row = "active" /\ member[p].key.theirs = e.entry.key /\ Mine(p)
  <2>1. Known(p).key = e.entry.key /\ e.entry.key # 0 /\ Mine(p)
    BY <1>1, <1>3, <1>4, <1>7, <1>10 DEF Ready, Adjusting
  <2> QED
    BY <1>7, <1>10, <2>1 DEF Known, Out
<1>11. CASE LoadMember(k)
  <2>1. /\ at[k] = "load" /\ e.kind \in {"removedMember", "promotedMember", "demotedMember"}
        /\ UNCHANGED member
    BY <1>11 DEF LoadMember, rows
  <2>2. p \in Members
    BY <1>3, <2>1 DEF Everyone
  <2>3. member[p].row = "none"
    <3>1. ASSUME Goto(k, "write") PROVE FALSE
      <4>1. at'[k] = "write"
        BY <3>1 DEF Goto, Types, LoopsOK
      <4> QED
        BY <4>1, FinishShape
    <3> QED
      BY <1>1, <1>11, <3>1 DEF LoadMember
  <2>4. e.kind = "removedMember"
    BY <1>10, <2>1, <2>2, <2>3 DEF Adjusting
  <2> QED
    BY <1>4, <1>7, <2>1, <2>2, <2>3, <2>4 DEF Agrees, Known, Mine
<1>12. CASE WriteMember(k)
  <2>1. /\ member' = Marked(p, e.kind)
        /\ e.kind \in {"removedMember", "promotedMember", "demotedMember"}
    BY <1>12 DEF WriteMember, SuspendedOK
  <2>2. p \in Members
    BY <1>3, <2>1 DEF Everyone
  <2>3. CASE e.kind = "removedMember"
    <3>1. member'[p].row # "active"
      BY <2>1, <2>2, <2>3, MarkedShape DEF Types
    <3> QED
      BY <1>4, <1>7, <2>2, <2>3, <3>1 DEF Agrees, Known, Mine
  <2>4. CASE e.kind \in {"promotedMember", "demotedMember"}
    <3>1. member[p].row = "active" /\ member[p].key.theirs = e.entry.key /\ Mine(p)
      BY <1>10, <2>2, <2>4 DEF Adjusting
    <3>3. /\ member'[p].row = "active" /\ member'[p].key = member[p].key
          /\ member'[p].admin = (e.kind = "promotedMember")
      BY <2>1, <2>2, <2>4, <3>1, MarkedShape DEF Types
    <3>4. Known(p)' = [key |-> e.entry.key, admin |-> e.entry.admin]
      BY <1>4, <1>7, <2>2, <2>4, <3>1, <3>3 DEF Known
    <3>5. Mine(p)'
      BY <1>5, <3>1, <1>7, <2>2, <3>3 DEF Mine
    <3> QED
      BY <1>6, <1>7, <2>2, <3>4, <3>5 DEF Agrees
  <2> QED
    BY <2>1, <2>3, <2>4
<1>13. CASE UpdateSelf(k)
  <2>1. /\ p = Self
        /\ group' = IF e.kind = "removedFromGroup" THEN [group EXCEPT !.connected = FALSE]
                    ELSE [group EXCEPT !.admin = (e.kind = "promotion")]
    BY <1>1, <1>13 DEF UpdateSelf
  <2>2. CASE e.kind = "removedFromGroup"
    <3>1. ~group'.connected
      BY <2>1, <2>2 DEF Types, GroupOK
    <3> QED
      BY <2>1, <2>2, <3>1 DEF Agrees, Known, Mine, Told
  <2>3. CASE e.kind # "removedFromGroup"
    <3>1. e.kind \in Adjusting
      BY <1>3, <2>1, <2>3 DEF Adjusting
    <3>2. Known(p).key = 1
      BY <1>1, <2>1, <2>3, <3>1 DEF Ready, Told
    <3>3. group.connected
      BY <2>1, <3>2 DEF Known, Out
    <3>4. group'.connected /\ group'.admin = (e.kind = "promotion")
      BY <2>1, <2>3, <3>3 DEF Types, GroupOK
    <3> QED
      BY <2>1, <2>3, <3>4 DEF Agrees, Known, Mine, Told
  <2> QED
    BY <2>2, <2>3
<1> QED
  BY <1>8, <1>9, <1>11, <1>12, <1>13 DEF Handle

LEMMA HandleCourse ==
  ASSUME Types, SeenOK, SuspendedOK, AllAlone, AllOnCourse, NEW k \in Loops, Handle(k)
  PROVE  AllOnCourse'
<1> SUFFICES ASSUME NEW p \in Everyone, p \notin excused', Live(p)' PROVE OnCourse(p)'
  BY DEF AllOnCourse
<1> PICK e : e = cur[k]
  OBVIOUS
<1>1. /\ excused \subseteq excused' /\ UNCHANGED <<joining, act, upTo, conn>>
      /\ Finish(k) \/ UNCHANGED <<server, cur>>
  BY DEF Handle, AddMemberKeys, AddMemberRow, LoadMember, WriteMember, UpdateSelf, rows, history
<1>2. /\ e # None /\ e \in Seen /\ e \in Events
      /\ e.who = Self <=> e.kind \in {"removedFromGroup", "promotion", "demotion"}
  <2>1. at[k] # "idle"
    BY DEF Handle, AddMemberKeys, AddMemberRow, LoadMember, WriteMember, UpdateSelf
  <2>2. e # None /\ e \in Seen
    BY <2>1 DEF SuspendedOK, Seen
  <2> QED
    BY <2>2, SeenTypes, EventTypes
<1>3. UNCHANGED <<jat, inGroup, admin, myKey, roster>> /\ pending' \subseteq pending
      /\ \A f \in pending \ pending' : f = e
  BY <1>1, FinishShape DEF joining, server
<1>4. /\ group'.row = group.row /\ (group'.connected => group.connected)
      /\ e.who # Self => group' = group
      /\ \A m \in Members : m # e.who => member'[m] = member[m]
  <2>1. CASE UpdateSelf(k)
    <3>1. \/ group' = group
          \/ group' = [group EXCEPT !.connected = FALSE]
          \/ group' = [group EXCEPT !.admin = (e.kind = "promotion")]
      BY <2>1 DEF UpdateSelf
    <3> QED
      BY <2>1, <3>1 DEF UpdateSelf, Types, GroupOK
  <2>2. CASE AddMemberRow(k)
    BY <2>2 DEF AddMemberRow, Types, MembersOK
  <2>3. CASE WriteMember(k)
    <3>1. e.who \in Members
      BY <1>2, <2>3 DEF WriteMember, Types, LoopsOK
    <3> QED
      BY <2>3, <3>1, MarkedShape DEF WriteMember, Types
  <2>4. CASE AddMemberKeys(k) \/ LoadMember(k)
    BY <2>4 DEF AddMemberKeys, LoadMember, rows
  <2> QED
    BY <2>1, <2>2, <2>3, <2>4 DEF Handle
<1>5. Alone(p)
  BY <1>1 DEF AllAlone
<1>6. Live(p)
  <2>1. \A f \in News(p) : upTo[p] <= f.n
    <3> SUFFICES ASSUME NEW f \in News(p), f \notin News(p)' PROVE upTo[p] <= f.n
      BY <1>1 DEF Live
    <3>1. f = e /\ e.who = p
      BY <1>3 DEF News
    <3>2. e.n = upTo[p]
      BY <1>2, <1>5, <3>1 DEF Alone
    <3> QED
      BY <3>1, <3>2, NewsTypes
  <2> QED
    BY <1>3, <1>4, <2>1 DEF Live
<1>7. OnCourse(p)
  BY <1>1, <1>6 DEF AllOnCourse
<1>8. CASE e.who # p
  <2>1. News(p)' = News(p)
    BY <1>3, <1>8 DEF News
  <2>2. Actual(p)' = Actual(p)
    BY <1>3 DEF Actual
  <2>3. Known(p)' = Known(p) /\ Mine(p)' = Mine(p)
    BY <1>3, <1>4, <1>8 DEF Known, Mine, Everyone
  <2>4. \A j \in Loops : cur'[j] # None /\ cur'[j].who = p =>
          cur'[j] = cur[j] /\ at'[j] = at[j] /\ fresh'[j] = fresh[j]
    <3> SUFFICES ASSUME NEW j \in Loops, cur'[j] # None, cur'[j].who = p
                 PROVE  cur'[j] = cur[j] /\ at'[j] = at[j] /\ fresh'[j] = fresh[j]
      OBVIOUS
    <3>1. CASE Finish(k)
      BY <3>1, FinishShape
    <3>2. CASE ~Finish(k)
      <4>1. cur' = cur /\ j # k
        BY <1>1, <1>8, <3>2
      <4>2. at'[j] = at[j] /\ fresh'[j] = fresh[j]
        BY <3>2, <4>1 DEF Handle, AddMemberKeys, AddMemberRow, LoadMember, WriteMember, UpdateSelf,
                          Goto, Types, LoopsOK
      <4> QED
        BY <4>1, <4>2
    <3> QED
      BY <3>1, <3>2
  <2> QED
    BY <1>1, <1>3, <1>4, <1>7, <2>1, <2>2, <2>3, <2>4, CourseFrame
<1>9. CASE e.who = p /\ Finish(k)
  <2>1. Agrees(p, Told(e))'
    BY <1>2, <1>5, <1>6, <1>7, <1>9, HandledAgrees
  <2> QED
    BY <1>1, <1>2, <1>3, <1>5, <1>7, <1>9, <2>1, FinishCourse
<1>10. CASE e.who = p /\ ~Finish(k)
  <2>1. /\ UNCHANGED <<server, cur, group, member, joining, act, upTo>>
        /\ \A j \in Loops : j # k => at'[j] = at[j] /\ fresh'[j] = fresh[j]
    BY <1>1, <1>10 DEF Handle, AddMemberKeys, AddMemberRow, LoadMember, WriteMember, UpdateSelf,
                       Goto, rows, Types, LoopsOK
  <2>2. at'[k] = "insert" => fresh'[k].mine = myKey
    <3>1. CASE AddMemberKeys(k)
      <4>1. fresh'[k] = NewKeys(e, k) /\ p # Self
        BY <1>2, <1>10, <3>1 DEF AddMemberKeys, Types, LoopsOK
      <4>2. group.self = myKey
        BY <1>2, <1>5, <1>6, <1>7, <1>10, <4>1, HandledAlone
      <4> QED
        BY <4>1, <4>2, NewKeysShape
    <3>2. CASE LoadMember(k)
      BY <1>10, <3>2 DEF LoadMember, Goto, Types, LoopsOK
    <3> QED
      BY <1>10, <3>1, <3>2 DEF Handle, AddMemberRow, WriteMember, UpdateSelf
  <2>3. /\ News(p)' = News(p) /\ Again(p)' = Again(p) /\ Actual(p)' = Actual(p)
        /\ Known(p)' = Known(p) /\ Mine(p)' = Mine(p)
    BY <2>1 DEF server, News, Again, Actual, Known, Mine
  <2>4. jat = "idle" /\ act.who # p /\ WhileHandling(p)
    BY <1>2, <1>5, <1>7, <1>10 DEF Alone, OnCourse
  <2>5. WhileHandling(p)'
    <3>1. Again(p)' = {} => Leads(upTo'[p], Known(p)', News(p)', Actual(p)') /\ Mine(p)'
      BY <2>1, <2>3, <2>4 DEF WhileHandling
    <3>2. \A f \in Again(p)' : Ready(p, f)'
      BY <2>3, <2>4 DEF WhileHandling, Ready, Agrees
    <3>3. \A j \in Loops : cur'[j] # None /\ cur'[j].who = p =>
            /\ cur'[j] \in News(p)' \/ Agrees(p, Told(cur[j]))'
            /\ at'[j] = "insert" => fresh'[j].mine = myKey'
      BY <1>3, <2>1, <2>2, <2>3, <2>4 DEF WhileHandling, Agrees
    <3> QED
      BY <2>1, <3>1, <3>2, <3>3 DEF WhileHandling
  <2>6. Chained(p)'
    BY <1>7, <2>1, <2>3 DEF OnCourse, Chained
  <2> QED
    BY <1>3, <2>1, <2>4, <2>5, <2>6 DEF OnCourse
<1> QED
  BY <1>8, <1>9, <1>10

LEMMA ReceiveCourse ==
  ASSUME Types, SeenOK, AllAlone, AllOnCourse, NEW k \in Loops, NEW e \in pending, Receive(k, e)
  PROVE  AllOnCourse'
<1> SUFFICES ASSUME NEW p \in Everyone, p \notin excused', Live(p)' PROVE OnCourse(p)'
  BY DEF AllOnCourse
<1>1. /\ at' = [at EXCEPT ![k] = "load"] /\ cur' = [cur EXCEPT ![k] = e] /\ fresh' = fresh
      /\ upTo' = [upTo EXCEPT ![e.who] = IF @ < e.n THEN e.n ELSE @]
      /\ excused' = IF OutOfOrder(e) THEN excused \cup {e.who} ELSE excused
      /\ UNCHANGED <<server, rows, joining, act>>
  BY DEF Receive, Goto
<1>2. /\ UNCHANGED <<inGroup, admin, myKey, roster, pending, group, member, jat>>
      /\ News(p)' = News(p) /\ Actual(p)' = Actual(p) /\ Known(p)' = Known(p) /\ Mine(p)' = Mine(p)
  BY <1>1 DEF server, rows, joining, News, Actual, Known, Mine
<1>3. \A j \in Loops : /\ cur'[j] = IF j = k THEN e ELSE cur[j]
                       /\ at'[j] = IF j = k THEN "load" ELSE at[j]
  BY <1>1 DEF Types, LoopsOK
<1>4. Alone(p) /\ e.n \in Nat /\ e.who \in Everyone /\ upTo[p] \in Nat
  BY <1>1, EventTypes DEF AllAlone, Types, ServerOK, HistoryOK
<1>5. CASE e.who # p
  <2>1. upTo'[p] = upTo[p]
    BY <1>1, <1>5 DEF Types, HistoryOK
  <2>2. OnCourse(p)
    BY <1>1, <1>2, <2>1 DEF AllOnCourse, Live
  <2> QED
    BY <1>1, <1>2, <1>3, <1>5, <2>1, <2>2, CourseFrame
<1>6. CASE e.who = p
  <2>1. /\ ~(e.n < upTo[p]) /\ jat = "idle" /\ act.who # p
        /\ \A j \in Loops : cur[j] # None /\ cur[j].who = p => ~(cur[j].n < e.n)
    BY <1>1, <1>6 DEF OutOfOrder
  <2>2. upTo'[p] = e.n /\ upTo[p] <= e.n /\ e \in News(p)
    BY <1>1, <1>4, <1>6, <2>1 DEF Types, HistoryOK, News
  <2>3. \A f \in News(p) : f.n \in Nat /\ e.n <= f.n /\ upTo[p] <= f.n
    BY <1>2, <1>4, <2>2, NewsTypes DEF Live
  <2>4. OnCourse(p) /\ WhileHandling(p)
    BY <1>1, <1>2, <2>1, <2>3 DEF AllOnCourse, Live, OnCourse
  <2>5. Chained(p)'
    BY <1>2, <2>2, <2>3, <2>4 DEF OnCourse, Chained
  <2>6. \A f \in Again(p)' : f = e
    BY <1>2, <2>2, NewsTypes DEF Again, SeenOK
  <2>7. e \in Again(p)'
    BY <1>2, <2>2 DEF Again
  <2>8. Ready(p, e)
    <3>1. CASE e.n = upTo[p]
      BY <2>2, <2>4, <3>1 DEF WhileHandling, Again
    <3>2. CASE e.n # upTo[p]
      <4>1. Again(p) = {}
        BY <1>4, <2>2, <2>3, <3>2 DEF Again
      <4>2. Leads(upTo[p], Known(p), News(p), Actual(p)) /\ Mine(p)
        BY <2>4, <4>1 DEF WhileHandling
      <4>3. Nearest(upTo[p], News(p), e)
        BY <1>4, <2>2, <2>3, <3>2 DEF Nearest
      <4>4. Applies(Known(p), e)
        BY <2>2, <4>2, <4>3 DEF Leads
      <4> QED
        BY <4>2, <4>4 DEF Applies, Ready
    <3> QED
      BY <3>1, <3>2
  <2>9. \A f \in Again(p)' : Ready(p, f)'
    BY <1>2, <2>6, <2>8 DEF Ready, Agrees
  <2>10. ASSUME NEW j \in Loops, cur'[j] # None, cur'[j].who = p
         PROVE  /\ cur'[j] \in News(p)' \/ Agrees(p, Told(cur[j]))'
                /\ at'[j] = "insert" => fresh'[j].mine = myKey'
    <3>1. CASE j = k
      BY <1>2, <1>3, <2>2, <3>1
    <3>2. CASE j # k
      <4>1. cur'[j] = cur[j] /\ at'[j] = at[j] /\ fresh'[j] = fresh[j]
        BY <1>1, <1>3, <3>2
      <4>2. cur[j] \in News(p) \/ Agrees(p, Told(cur[j]))
        BY <2>4, <2>10, <4>1 DEF WhileHandling
      <4>3. at[j] = "insert" => fresh[j].mine = myKey
        BY <2>4, <2>10, <4>1 DEF WhileHandling
      <4> QED
        BY <1>2, <4>1, <4>2, <4>3 DEF Agrees
    <3> QED
      BY <3>1, <3>2
  <2>11. WhileHandling(p)'
    BY <2>7, <2>9, <2>10 DEF WhileHandling
  <2> QED
    BY <1>1, <1>2, <2>1, <2>5, <2>11 DEF OnCourse
<1> QED
  BY <1>5, <1>6

\* Group.join goes on.
LEMMA JoiningCourse ==
  ASSUME NEW p \in Everyone, Alone(p), OnCourse(p), jat # "idle", jat' # "idle",
         UNCHANGED <<server, loops, answer, upTo>>,
         Written(p)' => Agrees(p, Answered(p))'
  PROVE  OnCourse(p)'
<1>1. /\ News(p)' = News(p) /\ Again(p)' = Again(p) /\ Actual(p)' = Actual(p)
      /\ Answered(p)' = Answered(p)
  BY DEF server, News, Again, Actual, Answered
<1>2. WhileJoining(p)
  BY DEF OnCourse
<1>3. WhileJoining(p)'
  BY <1>1, <1>2 DEF WhileJoining
<1>4. Chained(p)'
  BY <1>1 DEF OnCourse, Chained
<1> QED
  BY <1>3, <1>4 DEF OnCourse

LEMMA JoinStarts == Types /\ SeenOK /\ RosterOK /\ Join => AllOnCourse'
<1> SUFFICES ASSUME Types, SeenOK, RosterOK, Join, NEW p \in Everyone, p \notin excused', Live(p)'
             PROVE  OnCourse(p)'
  BY DEF AllOnCourse
<1>1. /\ jat = "idle" /\ jat' = "chat" /\ answer' = roster
      /\ todo' = {m \in Members : roster[m].key # 0}
      /\ upTo' = [q \in Everyone |-> changes'] /\ changes' = changes + 1
      /\ inGroup' = TRUE /\ admin' = FALSE
      /\ UNCHANGED <<roster, pending, group, member, jm>>
      /\ p \notin {m \in Members : roster[m].key = 0 /\ member[m].row = "active"}
  BY DEF Join, Accept, Change
<1>2. jm = Nobody
  BY <1>1 DEF Types, JoinOK
<1>3. News(p)' = {}
  <2>1. News(p)' = News(p) /\ upTo'[p] = changes + 1
    BY <1>1 DEF News
  <2>2. \A e \in News(p) : e.n \in Nat /\ e.n <= changes /\ changes \in Nat
    BY NewsTypes
  <2> QED
    BY <2>1, <2>2 DEF Live
<1>4. Again(p)' = {} /\ Chained(p)'
  BY <1>3 DEF Again, Chained
<1>5. Answered(p)' = Actual(p)'
  BY <1>1 DEF Answered, Actual
<1>6. Leads(upTo'[p], Answered(p)', News(p)', Actual(p)')
  BY <1>3, <1>5 DEF Leads
<1>7. ASSUME Written(p)' PROVE Agrees(p, Answered(p))'
  <2>1. p \in Members /\ p # Self
    BY <1>1, <1>7 DEF Written, Entering, Everyone
  <2>2. roster[p].key = 0 /\ member[p].row # "active"
    BY <1>1, <1>2, <1>7, <2>1 DEF Written
  <2>3. roster'[p] = Out
    BY <1>1, <2>1, <2>2 DEF RosterOK
  <2> QED
    BY <1>1, <2>1, <2>2, <2>3 DEF Agrees, Known, Mine, Answered
<1> QED
  BY <1>1, <1>4, <1>6, <1>7 DEF OnCourse, WhileJoining

LEMMA JoinCourse ==
  ASSUME Types, RosterOK, AllAlone, AllOnCourse,
         \/ FindChat \/ FindGroup \/ AddGroup \/ UpdateGroup
         \/ \E m \in Members : SaveMember(m)
         \/ DeleteOldKeys \/ UpdateMember \/ InsertMember
  PROVE  AllOnCourse'
<1> SUFFICES ASSUME NEW p \in Everyone, p \notin excused', Live(p)' PROVE OnCourse(p)'
  BY DEF AllOnCourse
<1>1. /\ jat # "idle" /\ UNCHANGED <<server, loops, upTo>>
      /\ excused \subseteq excused' \/ excused' = Everyone
  BY DEF FindChat, FindGroup, AddGroup, UpdateGroup, SaveMember, DeleteOldKeys, UpdateMember,
         InsertMember, GotoJ, history
<1>2. jat' # "idle" /\ answer' = answer
  BY DEF FindChat, FindGroup, AddGroup, UpdateGroup, SaveMember, DeleteOldKeys, UpdateMember,
         InsertMember, GotoJ
<1>3. /\ News(p)' = News(p) /\ Answered(p)' = Answered(p) /\ UNCHANGED <<inGroup, myKey>>
  BY <1>1, <1>2 DEF server, News, Answered
<1>4. Alone(p) /\ OnCourse(p) /\ WhileJoining(p)
  BY <1>1, <1>2, <1>3 DEF AllAlone, AllOnCourse, Live, OnCourse
<1>5. ASSUME Written(p)' => Written(p), Known(p)' = Known(p), Mine(p)' = Mine(p)
      PROVE  OnCourse(p)'
  BY <1>1, <1>2, <1>3, <1>4, <1>5, JoiningCourse DEF WhileJoining, Agrees
<1>6. CASE FindChat \/ FindGroup
  <2>1. jat' \in Entering /\ UNCHANGED <<group, member, todo, jm>>
    BY <1>2, <1>6 DEF FindChat, FindGroup, GotoJ, JoinEnds, Entering, rows
  <2>2. Written(p)' => Written(p)
    BY <2>1 DEF Written
  <2> QED
    BY <1>3, <1>5, <2>1, <2>2 DEF Known, Mine
<1>7. CASE AddGroup \/ UpdateGroup
  <2>1. UNCHANGED <<member, todo, jm>>
    BY <1>7 DEF AddGroup, UpdateGroup, GotoJ
  <2>2. CASE p # Self
    BY <1>3, <1>5, <2>1, <2>2 DEF Known, Mine, Written
  <2>3. CASE p = Self
    <3>1. Written(p)' => group' = Joined
      BY <1>7, <2>3 DEF AddGroup, UpdateGroup, Written
    <3>2. Written(p)' => group'.connected /\ group'.admin = FALSE
      BY <3>1 DEF Joined
    <3>3. Written(p)' => Agrees(p, Answered(p))'
      BY <2>3, <3>2 DEF Agrees, Known, Mine, Answered
    <3> QED
      BY <1>1, <1>2, <1>4, <3>3, JoiningCourse
  <2> QED
    BY <2>2, <2>3
<1>8. ASSUME NEW m \in Members, SaveMember(m) PROVE OnCourse(p)'
  <2>1. /\ jm = Nobody /\ jm' = m /\ todo' = todo \ {m} /\ UNCHANGED <<group, member>>
        /\ jat \notin Entering
    BY <1>8 DEF SaveMember, rows, Types, JoinOK, Entering
  <2>2. Written(p)' => Written(p)
    BY <2>1 DEF Written, Everyone
  <2> QED
    BY <1>3, <1>5, <2>1, <2>2 DEF Known, Mine
<1>9. CASE DeleteOldKeys
  <2>1. UNCHANGED <<group, member, todo, jm>> /\ jat \notin Entering
    BY <1>9 DEF DeleteOldKeys, GotoJ, Entering
  <2> QED
    BY <1>3, <1>5, <2>1 DEF Known, Mine, Written
<1>10. CASE UpdateMember \/ InsertMember
  <2>1. /\ jat \notin Entering /\ jm \in Members /\ UNCHANGED <<group, todo>>
        /\ jkey = myKey
    BY <1>1, <1>10 DEF UpdateMember, InsertMember, GotoJ, Entering, Types, JoinOK, RosterOK
  <2>2. CASE p = Self
    <3>1. Known(p)' = Known(p) /\ Mine(p)' = Mine(p)
      BY <2>1, <2>2 DEF Known, Mine
    <3> QED
      BY <1>5, <2>1, <2>2, <3>1 DEF Written
  <2>3. CASE p # Self /\ jm' = jm /\ member' = member
    BY <1>3, <1>5, <2>1, <2>3 DEF Known, Mine, Written
  <2>4. CASE p # Self /\ jm' = Nobody
    <3>1. /\ member' \in {member, [member EXCEPT ![jm] = Saved]}
          /\ p = jm => member' = [member EXCEPT ![jm] = Saved]
      BY <1>10, <2>4 DEF UpdateMember, InsertMember, GotoJ, Types, JoinOK
    <3>2. CASE p = jm
      <4>1. member'[p] = Saved
        BY <2>1, <3>1, <3>2 DEF Types, MembersOK
      <4>2. /\ Saved.row = "active" /\ Saved.key.theirs = answer[p].key
            /\ Saved.admin = answer[p].admin /\ Saved.key.mine = myKey
        BY <2>1, <3>2 DEF Saved, NewKey, MemberKey
      <4>3. answer[p] = [key |-> answer[p].key, admin |-> answer[p].admin]
        BY <2>1, <3>2 DEF Types, JoinOK, Entry
      <4>4. Known(p)' = answer[p]
        BY <2>4, <4>1, <4>2, <4>3 DEF Known
      <4>5. Mine(p)'
        BY <1>3, <4>1, <4>2 DEF Mine
      <4>6. Agrees(p, Answered(p))'
        BY <1>2, <2>4, <4>4, <4>5 DEF Agrees, Answered
      <4> QED
        BY <1>1, <1>2, <1>4, <4>6, JoiningCourse
    <3>3. CASE p # jm
      <4>1. member'[p] = member[p]
        BY <2>1, <2>4, <3>1, <3>3 DEF Types, MembersOK, Everyone
      <4>2. Written(p)' => Written(p)
        BY <2>1, <2>4, <3>3 DEF Written
      <4> QED
        BY <1>3, <1>5, <2>4, <4>1, <4>2 DEF Known, Mine
    <3> QED
      BY <3>2, <3>3
  <2> QED
    BY <1>10, <2>2, <2>3, <2>4 DEF UpdateMember, InsertMember, GotoJ
<1> QED
  BY <1>6, <1>7, <1>8, <1>9, <1>10

LEMMA JoinEndsCourse ==
  ASSUME Types, AllAlone, AllOnCourse, AddConnection
  PROVE  AllOnCourse'
<1> SUFFICES ASSUME NEW p \in Everyone, p \notin excused', Live(p)' PROVE OnCourse(p)'
  BY DEF AllOnCourse
<1>1. /\ jat = "member" /\ todo = {} /\ jm = Nobody /\ jat' = "idle"
      /\ UNCHANGED <<server, group, member, loops, act, upTo, excused>>
  BY DEF AddConnection, JoinEnds, history, Types, JoinOK
<1>2. /\ News(p)' = News(p) /\ Again(p)' = Again(p) /\ Actual(p)' = Actual(p)
      /\ Known(p)' = Known(p) /\ Mine(p)' = Mine(p) /\ UNCHANGED inGroup
  BY <1>1 DEF server, News, Again, Actual, Known, Mine
<1>3. Live(p)
  BY <1>1, <1>2 DEF Live
<1>4. Alone(p) /\ OnCourse(p) /\ WhileJoining(p)
  BY <1>1, <1>3 DEF AllAlone, AllOnCourse, OnCourse
<1>5. Agrees(p, Answered(p))
  <2>1. Written(p)
    BY <1>1 DEF Written, Live, Entering, Everyone
  <2> QED
    BY <1>4, <2>1 DEF WhileJoining
<1>6. act'.who # p /\ \A k \in Loops : ~(cur'[k] # None /\ cur'[k].who = p)
  BY <1>1, <1>4 DEF Alone, loops
<1>7. WhileHandling(p)'
  BY <1>1, <1>2, <1>4, <1>5, <1>6 DEF WhileHandling, WhileJoining, Agrees
<1>8. Chained(p)'
  BY <1>1, <1>2, <1>4 DEF OnCourse, Chained
<1> QED
  BY <1>1, <1>6, <1>7, <1>8 DEF OnCourse

\* The user asks for a change.
LEMMA AskedCourse ==
  ASSUME Types, SeenOK, AllAlone, AllOnCourse,
         \/ \E m \in Members, kind \in {"remove", "promote", "demote"} : Act(kind, m)
         \/ Leave
  PROVE  AllOnCourse'
<1> SUFFICES ASSUME NEW p \in Everyone, p \notin excused', Live(p)' PROVE OnCourse(p)'
  BY DEF AllOnCourse
<1>1. PICK kind \in {"remove", "promote", "demote", "leave"}, who \in Everyone :
        /\ Asked(kind, who)
        /\ \/ kind \in {"remove", "promote", "demote"} /\ who \in Members /\ Ask(kind, who)
           \/ kind = "leave" /\ who = Self /\ AskToLeave
  BY DEF Act, Leave, Everyone
<1>2. /\ act = Idle /\ changes' = changes + 1 /\ UNCHANGED <<myKey, pending>>
      /\ inGroup' => UNCHANGED <<inGroup, admin>>
      /\ \A m \in Members : m # who => roster'[m] = roster[m]
      /\ excused \subseteq excused' /\ UNCHANGED <<rows, loops, joining>>
      /\ upTo' = [upTo EXCEPT ![who] = changes']
  <2>1. /\ excused \subseteq excused' /\ UNCHANGED <<rows, loops, joining>>
        /\ upTo' = [upTo EXCEPT ![who] = changes']
    BY <1>1 DEF Asked
  <2>2. CASE Ask(kind, who)
    BY <2>1, <2>2 DEF Ask, Change, Types, ServerOK
  <2>3. CASE AskToLeave
    BY <2>1, <2>3 DEF AskToLeave, Change
  <2> QED
    BY <1>1, <2>2, <2>3
<1>3. /\ UNCHANGED <<group, member, jat>> /\ News(p)' = News(p)
      /\ Known(p)' = Known(p) /\ Mine(p)' = Mine(p) /\ act.who # p
  BY <1>2 DEF rows, joining, News, Known, Mine, Idle, Everyone
<1>4. CASE who # p
  <2>1. upTo'[p] = upTo[p] /\ act'.who # p
    BY <1>1, <1>2, <1>3, <1>4 DEF Asked, Types, HistoryOK
  <2>2. OnCourse(p)
    BY <1>2, <1>3, <2>1 DEF AllOnCourse, Live
  <2>3. Actual(p)' = Actual(p)
    <3>1. CASE p = Self
      BY <1>1, <1>4, <3>1 DEF Ask, Actual
    <3>2. CASE p # Self
      BY <1>2, <1>4, <3>2 DEF Actual, Everyone
    <3> QED
      BY <3>1, <3>2
  <2> QED
    BY <1>2, <1>3, <2>1, <2>2, <2>3, CourseFrame DEF loops
<1>5. CASE who = p
  <2>1. /\ act' = [kind |-> kind, who |-> p] /\ jat = "idle"
    BY <1>1, <1>2, <1>5 DEF Asked
  <2>2. News(p) = {}
    <3>1. upTo'[p] = changes + 1
      BY <1>2, <1>5 DEF Types, HistoryOK
    <3>2. \A e \in News(p) : changes + 1 <= e.n
      BY <1>3, <3>1 DEF Live
    <3> QED
      BY <3>2, NewsTypes
  <2>3. OnCourse(p)
    BY <1>2, <1>3, <2>2 DEF AllOnCourse, Live
  <2>4. Known(p) = Actual(p) /\ Mine(p)
    <3>1. WhileHandling(p) /\ Again(p) = {}
      BY <1>3, <2>1, <2>2, <2>3 DEF OnCourse, Again
    <3>2. Leads(upTo[p], Known(p), {}, Actual(p)) /\ Mine(p)
      BY <2>2, <3>1 DEF WhileHandling
    <3> QED
      BY <3>2 DEF Leads
  <2>5. /\ Outcome(p)' = Actual(p)'
        /\ act'.kind \in {"promote", "demote"} => Known(p)'.key # 0
    <3>1. CASE kind = "leave"
      BY <1>1, <1>5, <2>1, <3>1 DEF AskToLeave, Outcome, Actual
    <3>2. CASE kind = "remove"
      <4>1. roster'[p] = Out /\ p # Self
        BY <1>1, <1>5, <3>2 DEF Ask, Types, ServerOK
      <4> QED
        BY <2>1, <3>2, <4>1 DEF Outcome, Actual
    <3>3. CASE kind \in {"promote", "demote"}
      <4>1. /\ p \in Members /\ p # Self /\ roster[p].key # 0
            /\ roster' = [roster EXCEPT ![p] = [@ EXCEPT !.admin = (kind = "promote")]]
        BY <1>1, <1>5, <3>3 DEF Ask
      <4>2. roster'[p] = [key |-> roster[p].key, admin |-> (kind = "promote")]
        BY <4>1 DEF Types, ServerOK, Entry
      <4>3. Known(p)'.key = roster[p].key
        BY <1>3, <2>4, <4>1 DEF Actual
      <4>4. Outcome(p)' = [key |-> roster[p].key, admin |-> (kind = "promote")]
        BY <2>1, <3>3, <4>3 DEF Outcome
      <4> QED
        BY <4>1, <4>2, <4>3, <4>4 DEF Actual
    <3> QED
      BY <1>1, <3>1, <3>2, <3>3
  <2>6. Leads(upTo'[p], Outcome(p)', News(p)', Actual(p)')
    BY <1>3, <2>2, <2>5 DEF Leads
  <2>7. Again(p)' = {} /\ Chained(p)'
    BY <1>3, <2>2 DEF Again, Chained
  <2>8. WhileActing(p)'
    BY <1>3, <2>4, <2>5, <2>6, <2>7 DEF WhileActing
  <2> QED
    BY <1>3, <2>1, <2>7, <2>8 DEF OnCourse
<1> QED
  BY <1>4, <1>5

LEMMA WriteActCourse ==
  ASSUME Types, AllAlone, AllOnCourse, WriteAct
  PROVE  AllOnCourse'
<1> SUFFICES ASSUME NEW p \in Everyone, p \notin excused', Live(p)' PROVE OnCourse(p)'
  BY DEF AllOnCourse
<1>1. /\ act # Idle /\ act' = Idle /\ UNCHANGED <<server, loops, joining, history>>
      /\ IF act.kind = "leave"
         THEN /\ member' = member
              /\ group' = IF group.row THEN [group EXCEPT !.connected = FALSE] ELSE group
         ELSE member' = Marked(act.who, act.kind) /\ group' = group
  BY DEF WriteAct
<1>2. /\ UNCHANGED <<upTo, excused, inGroup, myKey, jat>>
      /\ News(p)' = News(p) /\ Again(p)' = Again(p) /\ Actual(p)' = Actual(p)
  BY <1>1 DEF server, joining, history, News, Again, Actual
<1>3. group'.row = group.row /\ (group'.connected => group.connected)
  BY <1>1 DEF Types, GroupOK
<1>4. Live(p)
  BY <1>2, <1>3 DEF Live
<1>5. OnCourse(p) /\ Alone(p)
  BY <1>2, <1>4 DEF AllOnCourse, AllAlone
<1>6. Idle.who # p
  BY DEF Idle, Everyone
<1>7. /\ act.kind = "leave" => act.who = Self
      /\ act.kind # "leave" => act.who \in Members /\ act.kind \in {"remove", "promote", "demote"}
  BY <1>1 DEF Types, UserOK
<1>8. CASE act.who # p
  <2>1. p # Self => Known(p)' = Known(p) /\ Mine(p)' = Mine(p)
    <3>1. p # Self => member'[p] = member[p]
      BY <1>1, <1>7, <1>8, MarkedShape DEF Types, Everyone
    <3> QED
      BY <1>2, <3>1 DEF Known, Mine
  <2>2. p = Self => Known(p)' = Known(p) /\ Mine(p)' = Mine(p)
    BY <1>1, <1>7, <1>8 DEF Known, Mine
  <2> QED
    BY <1>1, <1>2, <1>3, <1>5, <1>6, <1>8, <2>1, <2>2, CourseFrame DEF loops
<1>9. CASE act.who = p
  <2>1. /\ jat = "idle" /\ \A k \in Loops : ~(cur[k] # None /\ cur[k].who = p)
        /\ WhileActing(p)
    BY <1>5, <1>9 DEF Alone, OnCourse
  <2>2. Known(p)' = Outcome(p) /\ Mine(p)'
    <3>1. CASE act.kind = "leave"
      <4>1. p = Self /\ ~group'.connected
        BY <1>1, <1>2, <1>3, <1>7, <1>9, <2>1, <3>1 DEF Live, Types, GroupOK
      <4> QED
        BY <3>1, <4>1 DEF Known, Mine, Outcome
    <3>2. CASE act.kind # "leave"
      <4>1. /\ p \in Members /\ p # Self /\ member' = Marked(p, act.kind)
            /\ member[p] \in Row
        BY <1>1, <1>7, <1>9, <3>2 DEF Types, MembersOK
      <4>2. CASE act.kind = "remove"
        <5>1. member'[p].row # "active"
          BY <4>1, <4>2, MarkedShape DEF Types
        <5> QED
          BY <4>1, <4>2, <5>1 DEF Known, Mine, Outcome
      <4>3. CASE act.kind \in {"promote", "demote"}
        <5>1. Known(p).key # 0 /\ Mine(p)
          BY <2>1, <4>3 DEF WhileActing
        <5>2. member[p].row = "active" /\ Known(p).key = member[p].key.theirs
          BY <4>1, <5>1 DEF Known, Out
        <5>3. /\ member'[p].row = "active" /\ member'[p].key = member[p].key
              /\ member'[p].admin = (act.kind \in {"promotedMember", "promote"})
          BY <4>1, <4>3, <5>2, MarkedShape DEF Types
        <5>4. (act.kind \in {"promotedMember", "promote"}) = (act.kind = "promote")
          BY <4>3
        <5>5. Known(p)' = [key |-> Known(p).key, admin |-> act.kind = "promote"]
          BY <4>1, <5>2, <5>3, <5>4 DEF Known
        <5>6. Outcome(p) = [key |-> Known(p).key, admin |-> act.kind = "promote"]
          BY <4>3 DEF Outcome
        <5>7. Mine(p)'
          BY <1>2, <4>1, <5>1, <5>2, <5>3 DEF Mine
        <5> QED
          BY <5>5, <5>6, <5>7
      <4> QED
        BY <1>7, <3>2, <4>2, <4>3
    <3> QED
      BY <3>1, <3>2
  <2>3. WhileHandling(p)'
    BY <1>1, <1>2, <2>1, <2>2 DEF WhileHandling, WhileActing, loops
  <2>4. Chained(p)'
    BY <1>2, <1>5 DEF OnCourse, Chained
  <2> QED
    BY <1>1, <1>2, <1>6, <2>1, <2>3, <2>4 DEF OnCourse
<1> QED
  BY <1>8, <1>9

LEMMA DeleteCourse ==
  ASSUME Types, AllAlone, AllOnCourse, Delete \/ \E m \in Members : DeleteMemberKeys(m)
  PROVE  AllOnCourse'
<1> SUFFICES ASSUME NEW p \in Everyone, p \notin excused', Live(p)' PROVE OnCourse(p)'
  BY DEF AllOnCourse
<1>1. /\ UNCHANGED <<server, loops, joining, act, upTo>>
      /\ excused \subseteq excused' \/ excused' = Everyone
      /\ group' = group \/ ~group'.row
      /\ UNCHANGED member \/ dat # "idle"
  BY DEF Delete, DeleteLoad, DeleteIds, DeleteMemberKeys, DeleteMemberRow, DeleteSelfKeys,
         DeleteMembers, DeleteGroup, DeleteConnection, rows, history, NoGroup
<1>2. /\ UNCHANGED <<myKey, inGroup, jat>> /\ News(p)' = News(p) /\ Actual(p)' = Actual(p)
      /\ Alone(p)
  BY <1>1 DEF server, joining, News, Actual, AllAlone
<1>3. group' = group
  <2>1. ASSUME group' # group PROVE FALSE
    <3>1. dat # "idle"
      BY <2>1 DEF Delete, DeleteLoad, DeleteIds, DeleteMemberKeys, DeleteMemberRow, DeleteSelfKeys,
         DeleteMembers, DeleteGroup, DeleteConnection, rows
    <3> QED
      BY <1>1, <1>2, <2>1, <3>1 DEF Live, Alone
  <2> QED
    BY <2>1
<1>4. p = Self \/ member' = member
  BY <1>1, <1>2, <1>3 DEF Live, Alone
<1>5. OnCourse(p)
  BY <1>1, <1>2, <1>3 DEF AllOnCourse, Live
<1>6. Known(p)' = Known(p) /\ Mine(p)' = Mine(p)
  BY <1>2, <1>3, <1>4 DEF Known, Mine
<1> QED
  BY <1>1, <1>2, <1>3, <1>5, <1>6, CourseFrame DEF loops

LEMMA CrashCourse ==
  ASSUME Types, AllOnCourse, Crash
  PROVE  AllOnCourse'
<1> SUFFICES ASSUME NEW p \in Everyone, p \notin excused', Live(p)' PROVE OnCourse(p)'
  BY DEF AllOnCourse
<1>1. /\ jat = "idle" /\ p \notin excused /\ p \notin {act.who} \ {Nobody}
      /\ jat' = "idle" /\ act' = Idle
      /\ cur' = [k \in Loops |-> None]
      /\ UNCHANGED <<server, group, member, upTo>>
  BY DEF Crash, JoinEnds
<1>2. act.who # p /\ Idle.who # p
  BY <1>1 DEF Idle, Everyone
<1>3. /\ News(p)' = News(p) /\ Again(p)' = Again(p) /\ Actual(p)' = Actual(p)
      /\ Known(p)' = Known(p) /\ Mine(p)' = Mine(p) /\ UNCHANGED inGroup
  BY <1>1 DEF server, News, Again, Actual, Known, Mine
<1>4. OnCourse(p) /\ WhileHandling(p)
  BY <1>1, <1>2, <1>3 DEF AllOnCourse, Live, OnCourse
<1>5. WhileHandling(p)'
  BY <1>1, <1>3, <1>4 DEF WhileHandling, Ready, Agrees
<1>6. Chained(p)'
  BY <1>1, <1>3, <1>4 DEF OnCourse, Chained
<1> QED
  BY <1>1, <1>2, <1>5, <1>6 DEF OnCourse

-----------------------------------------------------------------------------
CourseInv == SeenOK /\ RosterOK /\ SuspendedOK /\ AllAlone /\ AllOnCourse

LEMMA InitCourse == Init => CourseInv
<1> SUFFICES ASSUME Init PROVE CourseInv
  OBVIOUS
<1>0. PICK there \in SUBSET Members, gone \in SUBSET Members, admins \in SUBSET Members,
           joined \in BOOLEAN, amAdmin \in BOOLEAN :
       /\ there \cap gone = {} /\ admins \subseteq there /\ (amAdmin => joined)
       /\ joins = [m \in Members |-> IF m \in there \cup gone THEN 1 ELSE 0]
       /\ roster = [m \in Members |-> IF m \in there THEN [key |-> 1, admin |-> m \in admins]
                                     ELSE Out]
       /\ inGroup = joined /\ admin = amAdmin /\ conn = joined
       /\ myKey = IF joined THEN 1 ELSE 0
       /\ selfKeys = 1..myKey
       /\ group = IF joined THEN [row |-> TRUE, connected |-> TRUE, admin |-> amAdmin, self |-> 1]
                            ELSE NoGroup
       /\ member = [m \in Members |->
            IF joined /\ joins[m] = 1
            THEN [row |-> IF m \in there THEN "active" ELSE "deleted", admin |-> m \in admins,
                  key |-> MemberKey(m, 1, [Out EXCEPT !.key = 1], "port", 0)]
            ELSE NoRow]
       /\ keys = {member[m].key : m \in Members} \ {None}
  BY DEF Init
<1>1. /\ changes = 0 /\ pending = {} /\ jat = "idle" /\ dat = "idle" /\ act = Idle
      /\ \A k \in Loops : at[k] = "idle" /\ cur[k] = None
      /\ \A p \in Everyone : upTo[p] = 0
      /\ excused = {}
  BY DEF Init
<1>2. SeenOK /\ SuspendedOK
  BY <1>1 DEF SeenOK, SuspendedOK, Seen
<1>3. RosterOK
  BY <1>0, <1>1 DEF RosterOK, Out
<1>4. AllAlone
  BY <1>0, <1>1 DEF AllAlone, Alone, NoGroup
<1>5. AllOnCourse
  <2> SUFFICES ASSUME NEW p \in Everyone, Live(p) PROVE OnCourse(p)
    BY DEF AllOnCourse
  <2>1. joined = TRUE
    BY <1>0, <1>1 DEF Live, NoGroup
  <2>2. Known(p) = Actual(p) /\ Mine(p)
    <3>1. CASE p = Self
      BY <1>0, <2>1, <3>1 DEF Known, Actual, Mine
    <3>2. CASE p # Self
      <4>1. p \in Members
        BY <3>2 DEF Everyone
      <4>2. CASE p \in there
        <5>1. /\ member[p].row = "active" /\ member[p].admin = (p \in admins)
              /\ member[p].key = MemberKey(p, 1, [Out EXCEPT !.key = 1], "port", 0)
          BY <1>0, <2>1, <4>1, <4>2
        <5>2. member[p].key.theirs = 1 /\ member[p].key.mine = 1
          BY <5>1 DEF MemberKey, Out
        <5>3. roster[p] = [key |-> 1, admin |-> p \in admins]
          BY <1>0, <4>1, <4>2
        <5> QED
          BY <1>0, <2>1, <3>2, <5>1, <5>2, <5>3 DEF Known, Actual, Mine
      <4>3. CASE p \notin there
        <5>1. member[p].row # "active" /\ roster[p] = Out
          BY <1>0, <2>1, <4>1, <4>3 DEF NoRow
        <5> QED
          BY <3>2, <5>1 DEF Known, Actual, Mine
      <4> QED
        BY <4>2, <4>3
    <3> QED
      BY <3>1, <3>2
  <2>3. News(p) = {} /\ Again(p) = {}
    BY <1>1 DEF News, Again
  <2>4. Leads(upTo[p], Known(p), News(p), Actual(p))
    BY <2>2, <2>3 DEF Leads
  <2>5. act.who # p
    BY <1>1 DEF Idle, Everyone
  <2> QED
    BY <1>1, <2>2, <2>3, <2>4, <2>5 DEF OnCourse, Chained, WhileHandling
<1> QED
  BY <1>2, <1>3, <1>4, <1>5 DEF CourseInv

LEMMA CourseStutter == Types /\ CourseInv /\ (PortStep \/ UNCHANGED vars) => CourseInv'
<1> SUFFICES ASSUME Types, CourseInv, PortStep \/ UNCHANGED vars PROVE CourseInv'
  OBVIOUS
<1>1. /\ UNCHANGED <<server, conn, group, member, loops, joining, act, deleting, upTo, excused>>
      /\ selfKeys \cup lost \subseteq (selfKeys \cup lost)'
  BY PortFrame DEF vars, rows, history
<1>2. UNCHANGED <<inGroup, admin, myKey, roster, changes, pending, conn, group, member,
                  at, cur, fresh, jat, jkey, answer, todo, jm, act, dat, upTo, excused>>
  BY <1>1 DEF server, loops, joining, deleting
<1>3. SeenOK' /\ RosterOK' /\ SuspendedOK'
  BY <1>2 DEF CourseInv, SeenOK, Seen, RosterOK, SuspendedOK
<1>4. AllAlone'
  BY <1>1, <1>2, AloneFrame DEF CourseInv, AllAlone
<1>5. AllOnCourse'
  <2> SUFFICES ASSUME NEW p \in Everyone, p \notin excused', Live(p)' PROVE OnCourse(p)'
    BY DEF AllOnCourse
  <2>1. /\ News(p)' = News(p) /\ Actual(p)' = Actual(p)
        /\ Known(p)' = Known(p) /\ Mine(p)' = Mine(p)
    BY <1>2 DEF News, Actual, Known, Mine
  <2>2. OnCourse(p)
    BY <1>2, <2>1 DEF CourseInv, AllOnCourse, Live
  <2> QED
    BY <1>1, <1>2, <2>1, <2>2, CourseFrame
<1> QED
  BY <1>3, <1>4, <1>5 DEF CourseInv

LEMMA CourseStep == Types /\ CourseInv /\ [Next]_vars => CourseInv'
<1> SUFFICES ASSUME Types, CourseInv, Next, ~PortStep PROVE CourseInv'
  BY CourseStutter
<1> USE DEF CourseInv
<1>1. SeenOK' /\ RosterOK' /\ SuspendedOK' /\ AllAlone'
  BY SeenStep, RosterStep, SuspendedStep, AloneStep
<1>2. AllOnCourse'
  <2>1. CASE JoinUnanswered
    BY <2>1 DEF JoinUnanswered, AllOnCourse
  <2> QED
    BY <2>1, ServerCourse, HandleCourse, ReceiveCourse, JoinStarts, JoinCourse, JoinEndsCourse,
       AskedCourse, WriteActCourse, DeleteCourse, CrashCourse DEF Next, PortStep
<1> QED
  BY <1>1, <1>2

\* Where nothing is under way about a person and the server keeps nothing, the rows are the
\* roster's.
LEMMA SettledAgrees ==
  ASSUME Types, CourseInv, NEW p \in Everyone, p \notin excused, Settled(p), Live(p)
  PROVE  Known(p) = Actual(p) /\ Mine(p)
<1>1. News(p) = {} /\ Again(p) = {}
  BY DEF Settled, News, Again
<1>2. WhileHandling(p)
  <2>1. act.who # p
    BY DEF Settled, Idle, Everyone
  <2> QED
    BY <2>1 DEF CourseInv, AllOnCourse, OnCourse, Settled
<1> QED
  BY <1>1, <1>2 DEF WhileHandling, Leads

\* Once all that is known of a member is handled, AddMember, RemoveMember, the changes of his
\* role, Group.join and the user's own acts have left the phone with the server's member, role
\* and keys: for any members, changes, joins, deletions and crashes, however often and in
\* whatever order events are delivered, except about a person a named case excuses.
THEOREM RosterAgreesHolds == Spec => []RosterAgrees
<1>1. Spec => []Types
  BY InitTypes, NextTypes, PTL DEF Spec
<1>2. Spec => []CourseInv
  BY <1>1, InitCourse, CourseStep, PTL DEF Spec
<1>3. Types /\ CourseInv => RosterAgrees
  <2> SUFFICES ASSUME Types, CourseInv, NEW m \in Members, m \notin excused, Settled(m), conn,
                      group.row, group.connected, inGroup
               PROVE  IF roster[m].key = 0 THEN member[m].row # "active"
                      ELSE /\ member[m].row = "active" /\ member[m].admin = roster[m].admin
                           /\ member[m].key.mine = myKey /\ member[m].key.theirs = roster[m].key
    BY DEF RosterAgrees
  <2>1. m \in Everyone /\ m # Self
    BY DEF Everyone
  <2>2. Live(m)
    BY DEF Live, Settled, News
  <2>3. Known(m) = roster[m] /\ Mine(m)
    BY <2>1, <2>2, SettledAgrees DEF Actual
  <2>4. member[m].row = "active" => member[m].key.theirs # 0
    <3>1. member[m].row = "active" => member[m].key \in Keys
      BY DEF Types, MembersOK, Row
    <3> QED
      BY <3>1 DEF Keys
  <2> QED
    BY <2>1, <2>3, <2>4 DEF Known, Mine, Out
<1> QED
  BY <1>1, <1>2, <1>3, PTL

\* So it is for this user: once all that is known of him is handled, RemoveSelf, the changes of
\* his role, joining and leaving have left the group connected exactly while the server has him
\* in it, with his role there and with the keys the others use, which are saved unless their
\* own read port was cleaned.
THEOREM SelfAgreesHolds == Spec => []SelfAgrees
<1>1. Spec => []Types
  BY InitTypes, NextTypes, PTL DEF Spec
<1>2. Spec => []CourseInv
  BY <1>1, InitCourse, CourseStep, PTL DEF Spec
<1>3. Types /\ CourseInv => SelfAgrees
  <2> SUFFICES ASSUME Types, CourseInv, Settled(Self), Self \notin excused, conn, group.row
               PROVE  /\ group.connected = inGroup
                      /\ inGroup => /\ group.admin = admin /\ group.self = myKey
                                    /\ group.self \in selfKeys \cup lost
    BY DEF SelfAgrees
  <2>1. Self \in Everyone /\ jat = "idle"
    BY DEF Everyone, Settled
  <2>2. Live(Self)
    BY DEF Live, Settled, News
  <2>3. Known(Self) = Actual(Self)
    BY <2>1, <2>2, SettledAgrees
  <2>4. group.connected = inGroup /\ (inGroup => group.admin = admin)
    BY <2>3 DEF Known, Actual, Out, Types, GroupOK, ServerOK
  <2>5. Alone(Self)
    BY <2>1 DEF CourseInv, AllAlone
  <2>6. inGroup => group.self = myKey /\ group.self \in selfKeys \cup lost
    BY <2>1, <2>4, <2>5 DEF Alone, Entering
  <2> QED
    BY <2>4, <2>6
<1> QED
  BY <1>1, <1>2, <1>3, PTL
=============================================================================
