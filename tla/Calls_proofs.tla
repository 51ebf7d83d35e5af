----------------------------- MODULE Calls_proofs -----------------------------
(***************************************************************************)
(* Proofs about Calls, for any calls, any number of dispatches in one      *)
(* render, of screens and of remounts: the timers, the screens and what a  *)
(* call opened follow the reducer.                                         *)
(*                                                                         *)
(* A render reduces a queue of dispatches, so that what holds after it is  *)
(* shown by induction on the queue; UpTo is that induction, from the       *)
(* well-foundedness of the natural numbers.                                *)
(***************************************************************************)
EXTENDS Calls, TLAPS, WellFoundedInduction, SequenceTheorems

-----------------------------------------------------------------------------
(* Types *)

Currents == {NoCall} \cup [call : used, state : States]
Actions  == [type : Kinds, call : used]
Sessions == [call   : used,
             stage  : {"asking", "chat", "ready", "failed", "denied"},
             mic    : BOOLEAN,
             socket : {"none", "open", "closed"},
             peer   : {"none", "config", "open", "closed"},
             over   : {"no", "early", "clean", "elsewhere", "closed"},
             provider : 0..remounts]
RoutesTo(n) == [call : used, at : 0..n, born : used]
Routes   == RoutesTo(Len(opened))

SlotOK ==
  /\ used \subseteq CallIds
  /\ latest \in used \cup {None}
  /\ fresh \in BOOLEAN /\ (fresh => latest \in used)

ReducerOK ==
  /\ current \in Currents
  /\ updates \in Seq(Actions) /\ Len(updates) <= MaxUpdates
  /\ ringing \subseteq used /\ starting \subseteq used /\ crossed \subseteq used

ServiceOK ==
  /\ platform \in Platforms
  /\ os \subseteq used /\ ended \subseteq used /\ notified \subseteq used
  /\ intent \in {NoCall} \cup [call : used, state : {"answered", "declined"}]

ScreensOK ==
  /\ opened \in Seq(Sessions) /\ stack \in Seq(Routes)
  /\ remounts \in 0..MaxRemounts
  /\ left \subseteq used

Types == SlotOK /\ ReducerOK /\ ServiceOK /\ ScreensOK

-----------------------------------------------------------------------------
(* The queue *)

Dispatched(type, c) == \E n \in DOMAIN updates : updates[n] = Update(type, c)

\* A call that the reducer has not been asked to take since the app stack was mounted.
Untaken(c) ==
  (fresh /\ latest = c) \/ Dispatched("incoming_call", c) \/ Dispatched("outgoing_call", c)

\* No ongoing-call screen was opened for a call since then.
Unopened(c) == \A i \in Screens : opened[i].provider = remounts => opened[i].call # c

\* Nothing is known yet of an untaken call: it is not current, it has no screen, and
\* nobody has answered or ended it.
UntakenInv == \A c \in CallIds : Untaken(c) =>
  /\ current.call # c
  /\ \A n \in DOMAIN stack : c \notin {stack[n].call, stack[n].born}
  /\ Unopened(c)
  /\ ~Dispatched("answer_call", c) /\ ~Dispatched("end_call", c)

\* A call waits for the reducer once.
Starts == {"incoming_call", "outgoing_call"}
OnceInv == \A n \in DOMAIN updates : updates[n].type \in Starts =>
  /\ ~(fresh /\ latest = updates[n].call)
  /\ \A m \in DOMAIN updates :
       updates[m].type \in Starts /\ updates[m].call = updates[n].call => m = n

\* A call is placed with no call screen in front, and the one that rings is answered in
\* its own.
PlacedInv == \A c \in CallIds : Dispatched("outgoing_call", c) => stack = <<>>
AnsweredInv == current.state = "unanswered" /\ Dispatched("answer_call", current.call) =>
  \/ current.call \in left
  \/ \E n \in DOMAIN stack : stack[n].at = 0 /\ stack[n].call = current.call

QueueInv == UntakenInv /\ OnceInv /\ PlacedInv /\ AnsweredInv

-----------------------------------------------------------------------------
(* The screens *)

\* There is at most one incoming-call screen, and it is in front; an ongoing one is of
\* the call that it was opened for in this app stack; without a call there is none.
StackInv ==
  /\ \A n \in DOMAIN stack : stack[n].at = 0 => n = Len(stack)
  /\ \A n \in DOMAIN stack : stack[n].at # 0 =>
       opened[stack[n].at].call = stack[n].call /\ opened[stack[n].at].provider = remounts
  /\ current = NoCall => stack = <<>>

\* A call that still rings has the incoming-call screen, no ongoing one was opened for it,
\* and nobody has ended it from one.
RingingInv == \A c \in CallIds : current = [call |-> c, state |-> "unanswered"] =>
  /\ \A n \in DOMAIN stack : stack[n].at = 0 => stack[n].call = c
  /\ Unopened(c)
  /\ ~Dispatched("end_call", c)

\* A call that goes on has its screen, as CallHasScreen says it, at any time.
HasScreen(c) ==
  \/ \E i \in Screens : opened[i].call = c /\ (Shown(i) \/ opened[i].stage = "denied")
  \/ c \in left \cup crossed
OngoingInv == current.state \in {"answered", "outgoing"} => HasScreen(current.call)

\* A screen that nothing ended is shown; one that ended its call itself holds nothing.
SessionInv == \A i \in Screens :
  /\ opened[i].over = "no" => Shown(i)
  /\ opened[i].over = "clean" =>
       opened[i].stage = "ready" /\ opened[i].peer # "config" /\ ~InUse(opened[i])

ScreenInv == StackInv /\ RingingInv /\ OngoingInv /\ SessionInv

CallInv == QueueInv /\ ScreenInv /\ RingIsOwn /\ RingEnds

-----------------------------------------------------------------------------
(* Induction on the queue *)

\* A set of natural numbers that is not empty has a least element.
LEMMA LeastNumber ==
  ASSUME NEW S \in SUBSET Nat, S # {} PROVE \E n \in S : \A k \in S : n <= k
<1>1. PICK n \in S : \A k \in S : <<k, n>> \notin OpToRel(<, Nat)
  BY NatLessThanWellFounded, WFMin
<1>2. \A k \in S : ~(k < n)
  BY <1>1 DEF OpToRel
<1> QED
  BY <1>2

\* What holds of 0 and goes from each number to the next holds up to N.
LEMMA UpTo ==
  ASSUME NEW N \in Nat, NEW S, 0 \in S, \A n \in 1..N : n - 1 \in S => n \in S
  PROVE  \A n \in 0..N : n \in S
<1> SUFFICES ASSUME NEW i \in 0..N, i \notin S PROVE FALSE
  OBVIOUS
<1>1. PICK n \in {k \in 0..N : k \notin S} : \A k \in {k \in 0..N : k \notin S} : n <= k
  <2>1. {k \in 0..N : k \notin S} \in SUBSET Nat /\ {k \in 0..N : k \notin S} # {}
    OBVIOUS
  <2> QED
    BY <2>1, LeastNumber
<1>2. n \in 1..N /\ n - 1 \in 0..N
  BY <1>1
<1>3. n - 1 \in S
  BY <1>1, <1>2
<1> QED
  BY <1>1, <1>2, <1>3

\* What the reducer made of the first n dispatches, as a function on 0..n.
Trace(g, n) == g = [i \in 0..n |-> IF i = 0 THEN World ELSE manageCall(g[i - 1], updates[i])]

\* reduced is well defined: it starts from the world before the render and applies one
\* dispatch after the other.
LEMMA Reduction ==
  ASSUME Len(updates) \in Nat
  PROVE  /\ reduced[0] = World
         /\ \A n \in 1..Len(updates) : reduced[n] = manageCall(reduced[n - 1], updates[n])
<1> DEFINE S == {n \in Nat : \E g : Trace(g, n)}
<1>1. 0 \in S
  <2>1. Trace([i \in 0..0 |-> World], 0)
    BY DEF Trace
  <2> QED
    BY <2>1
<1>2. ASSUME NEW n \in 1..Len(updates), n - 1 \in S PROVE n \in S
  <2>1. PICK g : Trace(g, n - 1)
    BY <1>2
  <2>2. PICK h : h = [i \in 0..n |-> IF i = n THEN manageCall(g[n - 1], updates[n]) ELSE g[i]]
    OBVIOUS
  <2>3. \A i \in 0..(n - 1) : h[i] = g[i] /\ g[i] = IF i = 0 THEN World
                                                   ELSE manageCall(g[i - 1], updates[i])
    BY <2>1, <2>2 DEF Trace
  <2>4. \A i \in 0..n : h[i] = IF i = 0 THEN World ELSE manageCall(h[i - 1], updates[i])
    <3> TAKE i \in 0..n
    <3>1. CASE i = n
      BY <2>2, <2>3, <3>1
    <3>2. CASE i # n /\ i # 0
      <4>1. i \in 0..(n - 1) /\ i - 1 \in 0..(n - 1)
        BY <3>2
      <4> QED
        BY <2>3, <3>2, <4>1
    <3>3. CASE i = 0
      BY <2>3, <3>3
    <3> QED
      BY <3>1, <3>2, <3>3
  <2>5. Trace(h, n)
    BY <2>2, <2>4 DEF Trace
  <2> QED
    BY <2>5
<1>3. Len(updates) \in S
  <2> HIDE DEF S
  <2>1. \A n \in 1..Len(updates) : n - 1 \in S => n \in S
    BY <1>2
  <2>2. \A n \in 0..Len(updates) : n \in S
    BY <1>1, <2>1, UpTo
  <2> QED
    BY <2>2
<1>4. PICK g : Trace(g, Len(updates))
  BY <1>3
<1>5. Trace(reduced, Len(updates))
  BY <1>4 DEF Trace, reduced
<1> QED
  BY <1>5 DEF Trace

-----------------------------------------------------------------------------
(* What the reducer does to a world *)

Worlds == [current : Currents, ringing : SUBSET used, starting : SUBSET used,
           os : SUBSET used, ended : SUBSET used, crossed : SUBSET used]

\* The calls of a current call, and what ending one in the operating system leaves.
LEMMA CurrentFacts ==
  ASSUME used \subseteq CallIds
  PROVE  /\ \A k \in Currents : k = NoCall \/ (k.call \in used /\ k.state \in States /\ k # NoCall)
         /\ NoCall.state = "none" /\ NoCall.call = None /\ None \notin used
  BY NoneAssumption DEF Currents, NoCall, States

LEMMA EndInOSTypes ==
  ASSUME NEW w \in Worlds, NEW c \in used
  PROVE  /\ EndInOS(w, c) \in Worlds
         /\ EndInOS(w, c).current = w.current /\ EndInOS(w, c).ringing = w.ringing
         /\ EndInOS(w, c).crossed = w.crossed
  BY DEF EndInOS, Worlds

\* Taking the current call away, on behalf of call c.
LEMMA GoneFacts ==
  ASSUME NEW w \in Worlds, w.current # NoCall, NEW c \in used, used \subseteq CallIds
  PROVE  /\ Gone(w, c) \in Worlds /\ Gone(w, c).current = NoCall
         /\ Gone(w, c).ringing = w.ringing
         /\ w.crossed \subseteq Gone(w, c).crossed
         /\ w.current.call # c => w.current.call \in Gone(w, c).crossed
<1>1. w.current.call \in used /\ NoCall \in Currents
  BY CurrentFacts DEF Worlds, Currents
<1> QED
  BY <1>1 DEF Gone, Hits, Worlds

LEMMA EndFacts ==
  ASSUME NEW w \in Worlds, w.current # NoCall, NEW c \in used, used \subseteq CallIds
  PROVE  /\ EndCurrent(w, c) \in Worlds /\ EndCurrent(w, c).current = NoCall
         /\ EndCurrent(w, c).ringing = w.ringing
         /\ w.crossed \subseteq EndCurrent(w, c).crossed
         /\ w.current.call # c => w.current.call \in EndCurrent(w, c).crossed
<1>1. w.current.call \in used
  BY CurrentFacts DEF Worlds
<1>2. PICK v \in Worlds : v = EndInOS(w, w.current.call) /\ v.current = w.current
                          /\ v.ringing = w.ringing /\ v.crossed = w.crossed
  BY <1>1, EndInOSTypes
<1>3. EndCurrent(w, c) = Gone(v, c)
  BY <1>2 DEF EndCurrent
<1> QED
  BY <1>2, <1>3, GoneFacts

\* What one dispatch may do: leave the current call, take one when there is none, mark an
\* unanswered one as answered, or take it away.
LEMMA ManageFacts ==
  ASSUME used \subseteq CallIds, NEW w \in Worlds, NEW a \in Actions
  PROVE  /\ manageCall(w, a) \in Worlds
         /\ w.crossed \subseteq manageCall(w, a).crossed
         /\ \/ manageCall(w, a) = w
            \/ /\ a.type = "incoming_call" /\ w.current = NoCall
               /\ manageCall(w, a).current = [call |-> a.call, state |-> "unanswered"]
               /\ manageCall(w, a).ringing = w.ringing \cup {a.call}
               /\ manageCall(w, a).crossed = w.crossed
            \/ /\ a.type = "outgoing_call" /\ w.current = NoCall
               /\ manageCall(w, a).current = [call |-> a.call, state |-> "outgoing"]
               /\ manageCall(w, a).ringing = w.ringing
               /\ manageCall(w, a).crossed = w.crossed
            \/ /\ a.type = "answer_call" /\ w.current.state = "unanswered"
               /\ manageCall(w, a).current = [call |-> w.current.call, state |-> "answered"]
               /\ manageCall(w, a).ringing = w.ringing \ {w.current.call}
               /\ w.current.call # a.call => w.current.call \in manageCall(w, a).crossed
            \/ /\ a.type = "decline_call" /\ w.current.state = "unanswered"
               /\ manageCall(w, a).current = NoCall
               /\ manageCall(w, a).ringing = w.ringing \ {w.current.call}
            \/ /\ a.type \in {"decline_call", "end_call"} /\ w.current # NoCall
               /\ a.type = "decline_call" => w.current.state # "unanswered"
               /\ manageCall(w, a).current = NoCall
               /\ manageCall(w, a).ringing = w.ringing
               /\ w.current.call # a.call => w.current.call \in manageCall(w, a).crossed
         /\ a.type = "decline_call" => manageCall(w, a).current = NoCall
<1>1. a.call \in used /\ a.type \in Kinds
  BY DEF Actions
<1>2. CASE a.type = "incoming_call"
  <2>1. manageCall(w, a) = TakeIncoming(w, a.call)
    BY <1>2 DEF manageCall
  <2>2. [call |-> a.call, state |-> "unanswered"] \in Currents
    BY <1>1 DEF Currents, States
  <2>3. CASE w.current # NoCall
    BY <1>2, <2>1, <2>3 DEF TakeIncoming
  <2>4. CASE w.current = NoCall
    <3>1. manageCall(w, a) = [w EXCEPT !.current = [call |-> a.call, state |-> "unanswered"],
                                       !.ringing = w.ringing \cup {a.call}]
      BY <2>1, <2>4 DEF TakeIncoming
    <3>2. w.ringing \cup {a.call} \in SUBSET used
      BY <1>1 DEF Worlds
    <3>3. manageCall(w, a) \in Worlds
      BY <2>2, <3>1, <3>2 DEF Worlds
    <3> QED
      BY <1>2, <2>4, <3>1, <3>3 DEF Worlds
  <2> QED
    BY <2>3, <2>4
<1>3. CASE a.type = "outgoing_call"
  <2>1. manageCall(w, a) = TakeOutgoing(w, a.call)
    BY <1>3 DEF manageCall
  <2>2. [call |-> a.call, state |-> "outgoing"] \in Currents
    BY <1>1 DEF Currents, States
  <2>3. CASE w.current # NoCall
    BY <1>3, <2>1, <2>3 DEF TakeOutgoing
  <2>4. CASE w.current = NoCall
    <3>1. manageCall(w, a) = [w EXCEPT !.current = [call |-> a.call, state |-> "outgoing"],
                                       !.starting = w.starting \cup {a.call}]
      BY <2>1, <2>4 DEF TakeOutgoing
    <3>2. w.starting \cup {a.call} \in SUBSET used
      BY <1>1 DEF Worlds
    <3>3. manageCall(w, a) \in Worlds
      BY <2>2, <3>1, <3>2 DEF Worlds
    <3> QED
      BY <1>3, <2>4, <3>1, <3>3 DEF Worlds
  <2> QED
    BY <2>3, <2>4
<1>4. CASE a.type = "answer_call"
  <2>1. manageCall(w, a) = Answer(w, a.call)
    BY <1>4 DEF manageCall
  <2>2. CASE w.current.state # "unanswered"
    BY <1>4, <2>1, <2>2 DEF Answer
  <2>3. CASE w.current.state = "unanswered"
    <3>1. w.current.call \in used /\ w.current \in [call : used, state : States]
      BY <2>3, CurrentFacts DEF Worlds, Currents
    <3>2. [w.current EXCEPT !.state = "answered"] = [call |-> w.current.call, state |-> "answered"]
          /\ [call |-> w.current.call, state |-> "answered"] \in Currents
      BY <3>1 DEF Currents, States
    <3>3. PICK x \in SUBSET used : /\ w.crossed \subseteq x
                                   /\ Hits(w, a.call) = [w EXCEPT !.crossed = x]
                                   /\ w.current.call # a.call => w.current.call \in x
      <4>1. w.crossed \in SUBSET used /\ w.crossed \cup {w.current.call} \in SUBSET used
        BY <3>1 DEF Worlds
      <4> QED
        BY <4>1 DEF Hits
    <3>4. manageCall(w, a) =
            [w EXCEPT !.crossed = x, !.current = [call |-> w.current.call, state |-> "answered"],
                      !.ringing = w.ringing \ {w.current.call}]
      BY <2>1, <2>3, <3>2, <3>3 DEF Answer, Worlds
    <3>5. w.ringing \ {w.current.call} \in SUBSET used
      BY DEF Worlds
    <3>6. manageCall(w, a) \in Worlds
      BY <3>2, <3>4, <3>5 DEF Worlds
    <3> QED
      BY <1>4, <2>3, <3>3, <3>4, <3>6 DEF Worlds
  <2> QED
    BY <2>2, <2>3
<1>5. CASE a.type = "decline_call"
  <2>1. manageCall(w, a) = Decline(w, a.call)
    BY <1>5 DEF manageCall
  <2>2. CASE w.current.state = "unanswered"
    <3>1. PICK v : v = [w EXCEPT !.ringing = w.ringing \ {w.current.call}]
      OBVIOUS
    <3>2. w.ringing \ {w.current.call} \in SUBSET used
      BY DEF Worlds
    <3>3. /\ v \in Worlds /\ v.ringing = w.ringing \ {w.current.call}
          /\ v.current = w.current /\ v.crossed = w.crossed
      BY <3>1, <3>2 DEF Worlds
    <3>4. Decline(w, a.call) = Gone(v, a.call)
      BY <2>2, <3>1 DEF Decline
    <3>5. v.current # NoCall
      BY <2>2, <3>3 DEF NoCall
    <3>6. /\ Gone(v, a.call) \in Worlds /\ Gone(v, a.call).current = NoCall
          /\ Gone(v, a.call).ringing = v.ringing
          /\ v.crossed \subseteq Gone(v, a.call).crossed
      BY <1>1, <3>3, <3>5, GoneFacts
    <3> QED
      BY <1>5, <2>1, <2>2, <3>3, <3>4, <3>6
  <2>3. CASE w.current.state # "unanswered" /\ w.current # NoCall
    BY <1>1, <1>5, <2>1, <2>3, EndFacts DEF Decline
  <2>4. CASE w.current.state # "unanswered" /\ w.current = NoCall
    BY <1>5, <2>1, <2>4 DEF Decline, EndCurrent
  <2> QED
    BY <2>2, <2>3, <2>4
<1>6. CASE a.type = "end_call"
  <2>1. manageCall(w, a) = EndCurrent(w, a.call)
    BY <1>6 DEF manageCall
  <2>2. CASE w.current # NoCall
    BY <1>1, <1>6, <2>1, <2>2, EndFacts
  <2>3. CASE w.current = NoCall
    BY <1>6, <2>1, <2>3 DEF EndCurrent
  <2> QED
    BY <2>2, <2>3
<1> QED
  BY <1>1, <1>2, <1>3, <1>4, <1>5, <1>6 DEF Kinds

-----------------------------------------------------------------------------
(* What a queue of dispatches may do *)

\* Where the current call of a world came from.
Origin(w) ==
  \/ w.current = NoCall
  \/ w.current = current
  \/ w.current.state = "unanswered" /\ Dispatched("incoming_call", w.current.call)
  \/ w.current.state = "outgoing" /\ Dispatched("outgoing_call", w.current.call)
  \/ /\ w.current.state = "answered"
     /\ w.current.call \in w.crossed \/ Dispatched("answer_call", w.current.call)
     /\ \/ current = [call |-> w.current.call, state |-> "unanswered"]
        \/ Dispatched("incoming_call", w.current.call)

Own(w) == \A c \in w.ringing \ w.crossed : w.current = [call |-> c, state |-> "unanswered"]

\* A call that rings has its timer, or will be declined by what is left of the queue.
Ends(w, n) == w.current.state = "unanswered" =>
  w.current.call \in w.ringing
    \/ \E m \in (n + 1)..Len(updates) : updates[m].type = "decline_call"

Reached(w, n) == w \in Worlds /\ crossed \subseteq w.crossed /\ Origin(w) /\ Own(w) /\ Ends(w, n)

LEMMA Start ==
  ASSUME Types, RingIsOwn, RingEnds
  PROVE  Reached(World, 0)
<1>1. World \in Worlds
  BY DEF Types, ReducerOK, ServiceOK, World, Worlds
<1>2. Own(World)
  BY DEF Own, World, RingIsOwn
<1>3. Ends(World, 0)
  <2>1. DOMAIN updates = 1..Len(updates)
    BY DEF Types, ReducerOK
  <2> QED
    BY <2>1 DEF Ends, World, RingEnds
<1> QED
  BY <1>1, <1>2, <1>3 DEF Reached, Origin, World

LEMMA OneMore ==
  ASSUME Types, UntakenInv, RingingInv, NEW n \in 1..Len(updates), NEW w, Reached(w, n - 1)
  PROVE  Reached(manageCall(w, updates[n]), n)
<1>0. /\ used \subseteq CallIds /\ w \in Worlds /\ n \in DOMAIN updates
      /\ updates[n] \in Actions /\ Len(updates) \in Nat
  BY DEF Types, SlotOK, ReducerOK, Reached
<1> DEFINE a == updates[n]
           v == manageCall(w, a)
<1>1. a.call \in used /\ a.type \in Kinds /\ Dispatched(a.type, a.call)
  BY <1>0 DEF Actions, Dispatched, Update
<1>2. /\ v \in Worlds /\ w.crossed \subseteq v.crossed
      /\ \/ v = w
         \/ /\ a.type = "incoming_call" /\ w.current = NoCall
            /\ v.current = [call |-> a.call, state |-> "unanswered"]
            /\ v.ringing = w.ringing \cup {a.call}
            /\ v.crossed = w.crossed
         \/ /\ a.type = "outgoing_call" /\ w.current = NoCall
            /\ v.current = [call |-> a.call, state |-> "outgoing"]
            /\ v.ringing = w.ringing
            /\ v.crossed = w.crossed
         \/ /\ a.type = "answer_call" /\ w.current.state = "unanswered"
            /\ v.current = [call |-> w.current.call, state |-> "answered"]
            /\ v.ringing = w.ringing \ {w.current.call}
            /\ w.current.call # a.call => w.current.call \in v.crossed
         \/ /\ a.type = "decline_call" /\ w.current.state = "unanswered"
            /\ v.current = NoCall
            /\ v.ringing = w.ringing \ {w.current.call}
         \/ /\ a.type \in {"decline_call", "end_call"} /\ w.current # NoCall
            /\ a.type = "decline_call" => w.current.state # "unanswered"
            /\ v.current = NoCall
            /\ v.ringing = w.ringing
            /\ w.current.call # a.call => w.current.call \in v.crossed
      /\ a.type = "decline_call" => v.current = NoCall
  BY <1>0, ManageFacts
<1> HIDE DEF v
<1>3. /\ \A k \in Currents : k = NoCall \/ (k.call \in used /\ k.state \in States /\ k # NoCall)
      /\ NoCall.state = "none" /\ NoCall.call = None /\ None \notin used
      /\ w.current \in Currents /\ v.current \in Currents
  BY <1>0, <1>2, CurrentFacts DEF Worlds
<1>4. Origin(w) /\ Own(w) /\ Ends(w, n - 1) /\ crossed \subseteq w.crossed
  BY DEF Reached
<1>5. Origin(v)
  <2>1. CASE v = w
    BY <1>4, <2>1
  <2>2. CASE a.type \in Starts /\ v # w
    BY <1>1, <1>2, <2>2 DEF Origin, Starts
  <2>3. CASE a.type = "answer_call" /\ w.current.state = "unanswered"
             /\ v.current = [call |-> w.current.call, state |-> "answered"]
             /\ (w.current.call # a.call => w.current.call \in v.crossed)
    <3>1. \/ current = [call |-> w.current.call, state |-> "unanswered"]
          \/ Dispatched("incoming_call", w.current.call)
      <4>1. w.current = current \/ Dispatched("incoming_call", w.current.call)
        BY <1>3, <1>4, <2>3 DEF Origin, States
      <4>2. w.current = [call |-> w.current.call, state |-> "unanswered"]
        BY <1>3, <2>3 DEF Currents
      <4> QED
        BY <4>1, <4>2
    <3>2. w.current.call \in v.crossed \/ Dispatched("answer_call", w.current.call)
      BY <1>1, <2>3
    <3> QED
      BY <2>3, <3>1, <3>2 DEF Origin
  <2>4. CASE v.current = NoCall
    BY <2>4 DEF Origin
  <2> QED
    BY <1>2, <2>1, <2>2, <2>3, <2>4 DEF Starts
<1>6. Own(v)
  <2> SUFFICES ASSUME NEW c \in v.ringing \ v.crossed
               PROVE  v.current = [call |-> c, state |-> "unanswered"]
    BY DEF Own
  <2>1. c \in w.ringing /\ v # w => w.current = [call |-> c, state |-> "unanswered"]
    BY <1>2, <1>4 DEF Own
  <2>2. CASE v = w
    BY <1>4, <2>2 DEF Own
  <2>3. CASE a.type \in Starts /\ v # w
    BY <1>2, <1>3, <2>1, <2>3 DEF Starts
  <2>4. CASE /\ v # w /\ a.type \in {"answer_call", "decline_call"}
             /\ v.ringing = w.ringing \ {w.current.call}
    BY <2>1, <2>4
  <2>5. CASE /\ a.type \in {"decline_call", "end_call"} /\ w.current # NoCall /\ v # w
             /\ a.type = "decline_call" => w.current.state # "unanswered"
             /\ v.ringing = w.ringing
             /\ w.current.call # a.call => w.current.call \in v.crossed
    <3>1. w.current = [call |-> c, state |-> "unanswered"]
      BY <2>1, <2>5
    <3>2. a.type = "end_call" /\ a.call = c /\ Dispatched("end_call", c)
      BY <1>1, <2>5, <3>1
    <3>3. current = w.current \/ Dispatched("incoming_call", c)
      BY <1>3, <1>4, <3>1 DEF Origin
    <3>4. c \in CallIds
      BY <1>0, <1>1, <3>2
    <3> QED
      BY <3>1, <3>2, <3>3, <3>4 DEF RingingInv, UntakenInv, Untaken
  <2> QED
    BY <1>2, <2>2, <2>3, <2>4, <2>5 DEF Starts
<1>7. Ends(v, n)
  <2> SUFFICES ASSUME v.current.state = "unanswered"
               PROVE  \/ v.current.call \in v.ringing
                      \/ \E m \in (n + 1)..Len(updates) : updates[m].type = "decline_call"
    BY DEF Ends
  <2>1. a.type # "decline_call"
    BY <1>2, <1>3
  <2>2. CASE v = w
    <3>1. CASE w.current.call \in w.ringing
      BY <2>2, <3>1
    <3>2. CASE \E m \in ((n - 1) + 1)..Len(updates) : updates[m].type = "decline_call"
      BY <2>1, <3>2
    <3> QED
      BY <1>4, <2>2, <3>1, <3>2 DEF Ends
  <2>3. CASE v # w
    BY <1>2, <1>3, <2>3
  <2> QED
    BY <2>2, <2>3
<1> QED
  BY <1>2, <1>4, <1>5, <1>6, <1>7 DEF Reached, v

\* What a render makes of the queue.
LEMMA Rendered ==
  ASSUME Types, UntakenInv, RingingInv, RingIsOwn, RingEnds
  PROVE  Reached(reduced[Len(updates)], Len(updates))
<1> DEFINE S == {n \in 0..Len(updates) : Reached(reduced[n], n)}
<1>1. Len(updates) \in Nat
  BY DEF Types, ReducerOK
<1>2. 0 \in S
  BY <1>1, Start, Reduction
<1>3. \A n \in 1..Len(updates) : n - 1 \in S => n \in S
  BY <1>1, OneMore, Reduction
<1>4. Len(updates) \in S
  <2> HIDE DEF S
  <2>1. \A n \in 0..Len(updates) : n \in S
    BY <1>1, <1>2, <1>3, UpTo
  <2> QED
    BY <1>1, <2>1
<1> QED
  BY <1>4

-----------------------------------------------------------------------------
(* The stack of screens *)

LEMMA FrontFacts ==
  ASSUME NEW T, NEW s \in Seq(T), s # <<>>
  PROVE  /\ Front(s) \in Seq(T) /\ Len(s) \in Nat \ {0} /\ Len(Front(s)) = Len(s) - 1
         /\ \A n \in 1..(Len(s) - 1) : Front(s)[n] = s[n]
         /\ Last(s) = s[Len(s)] /\ Last(s) \in T /\ DOMAIN s = 1..Len(s)
<1>1. Len(s) \in Nat \ {0} /\ DOMAIN s = 1..Len(s)
  OBVIOUS
<1>2. Front(s) = SubSeq(s, 1, Len(s) - 1)
  BY DEF Front
<1>3. Last(s) = s[Len(s)] /\ Last(s) \in T
  BY <1>1 DEF Last
<1>4. Front(s) \in Seq(T)
  BY <1>1, <1>2
<1>5. Len(Front(s)) = Len(s) - 1
  BY <1>1, <1>2
<1>6. \A n \in 1..(Len(s) - 1) : Front(s)[n] = s[n]
  BY <1>1, <1>2
<1> QED
  BY <1>1, <1>3, <1>4, <1>5, <1>6

LEMMA AppendFacts ==
  ASSUME NEW T, NEW s \in Seq(T), NEW x \in T
  PROVE  /\ Append(s, x) \in Seq(T) /\ Len(s) \in Nat /\ Len(Append(s, x)) = Len(s) + 1
         /\ DOMAIN Append(s, x) = 1..(Len(s) + 1)
         /\ \A n \in 1..Len(s) : Append(s, x)[n] = s[n]
         /\ Append(s, x)[Len(s) + 1] = x
  OBVIOUS

\* Taking the last element away and appending another is writing it in its place.
LEMMA WriteLast ==
  ASSUME NEW T, NEW s \in Seq(T), s # <<>>, NEW x \in T
  PROVE  /\ Front(s) \o <<x>> = Append(Front(s), x)
         /\ [s EXCEPT ![Len(s)] = x] = Append(Front(s), x)
<1>1. Front(s) \o <<x>> = Append(Front(s), x)
  BY FrontFacts
<1>2. Append(Front(s), x) \in Seq(T) /\ Len(Append(Front(s), x)) = Len(s)
  BY FrontFacts, AppendFacts
<1>3. [s EXCEPT ![Len(s)] = x] \in Seq(T) /\ Len([s EXCEPT ![Len(s)] = x]) = Len(s)
  BY FrontFacts
<1>4. \A n \in 1..Len(s) : [s EXCEPT ![Len(s)] = x][n] = Append(Front(s), x)[n]
  BY FrontFacts, AppendFacts
<1> QED
  BY <1>1, <1>2, <1>3, <1>4, SeqEqual

\* The screens below an incoming-call screen: what a new screen is put on.
Under == IF OnTop(View, "incoming") THEN Front(stack) ELSE stack

LEMMA StackFacts ==
  ASSUME Types
  PROVE  /\ DOMAIN stack = 1..Len(stack) /\ Len(stack) \in Nat /\ Len(opened) \in Nat
         /\ Screens = 1..Len(opened)
         /\ \A n \in DOMAIN stack : stack[n] \in Routes
         /\ \A i \in Screens : opened[i] \in Sessions
  BY DEF Types, ScreensOK, Screens

LEMMA UnderFacts ==
  ASSUME Types, StackInv
  PROVE  /\ Under \in Seq(Routes) /\ Len(Under) \in Nat
         /\ Len(Under) <= Len(stack) /\ Len(stack) <= Len(Under) + 1
         /\ \A n \in 1..Len(Under) : Under[n] = stack[n] /\ Under[n].at # 0
         /\ \A n \in DOMAIN stack : n \in 1..Len(Under)
                                 \/ (n = Len(stack) /\ stack[n].at = 0 /\ Under = Front(stack))
         /\ OnTop(View, "incoming") <=> \E n \in DOMAIN stack : stack[n].at = 0
<1>1. stack \in Seq(Routes)
  BY DEF Types, ScreensOK
<1>2. \A n \in DOMAIN stack : stack[n].at = 0 => n = Len(stack)
  BY DEF StackInv
<1>3. OnTop(View, "incoming") <=> stack # <<>> /\ Last(stack).at = 0
  BY DEF OnTop, View
<1>4. PICK k \in Nat : k = Len(stack) /\ DOMAIN stack = 1..k /\ (k = 0 <=> stack = <<>>)
  BY <1>1
<1>5. CASE k = 0
  BY <1>1, <1>3, <1>4, <1>5 DEF Under
<1>6. CASE k # 0 /\ stack[k].at = 0
  <2>1. Last(stack) = stack[k]
    BY <1>4 DEF Last
  <2>2. PICK s \in Seq(Routes) : /\ s = Front(stack) /\ Len(s) = k - 1
                                /\ \A n \in 1..(k - 1) : s[n] = stack[n]
    BY <1>1, <1>4, <1>6, FrontFacts
  <2>3. Under = s /\ OnTop(View, "incoming")
    BY <1>3, <1>4, <1>6, <2>1, <2>2 DEF Under
  <2>4. k \in DOMAIN stack
    BY <1>4, <1>6
  <2>5. \A n \in 1..(k - 1) : n # k /\ n \in 1..k
    OBVIOUS
  <2>6. \A n \in 1..(k - 1) : s[n] = stack[n] /\ s[n].at # 0
    BY <1>2, <1>4, <2>2, <2>5
  <2>7. \A n \in 1..k : n \in 1..(k - 1) \/ n = k
    OBVIOUS
  <2>8. \A n \in DOMAIN stack : n \in 1..Len(s) \/ (n = k /\ stack[n].at = 0 /\ s = Front(stack))
    BY <1>4, <1>6, <2>2, <2>7
  <2>9. \E n \in DOMAIN stack : stack[n].at = 0
    BY <1>6, <2>4
  <2>10. Len(s) \in Nat /\ Len(s) <= k /\ k <= Len(s) + 1
    BY <1>6, <2>2
  <2> QED
    BY <1>4, <2>2, <2>3, <2>6, <2>8, <2>9, <2>10
<1>7. CASE k # 0 /\ stack[k].at # 0
  <2>1. Last(stack) = stack[k]
    BY <1>4 DEF Last
  <2>2. Under = stack /\ ~OnTop(View, "incoming")
    BY <1>3, <1>7, <2>1 DEF Under
  <2>3. \A n \in DOMAIN stack : stack[n].at # 0
    BY <1>2, <1>4, <1>7
  <2> QED
    BY <1>1, <1>4, <2>2, <2>3
<1> QED
  BY <1>4, <1>5, <1>6, <1>7

\* The screens after a render that left the reducer in world w.
Viewed(w) == IF w.current = current THEN View
             ELSE ProviderEffect(ScreenEffects(View, w.current), w.current)

Opening(c) == [stack  |-> Append(Under, Screen(c, Len(opened) + 1)),
               opened |-> Append(opened, NewScreen(c))]

\* The incoming-call screen of call c, new or the one that was there, born for call b.
RingsOn(c, b, v) ==
  /\ b = c \/ \E n \in DOMAIN stack : b = stack[n].born
  /\ v = [stack |-> Append(Under, [call |-> c, at |-> 0, born |-> b]), opened |-> opened]

\* Nothing changes, or every screen goes, or one screen is put on top.
Outcome(w, v) ==
  \/ w.current = current /\ v = View
  \/ w.current = NoCall /\ v = [stack |-> <<>>, opened |-> opened]
  \/ /\ w.current.state = "answered" /\ v = View
     /\ w.current.call \in left \cup w.crossed
  \/ /\ w.current.state = "unanswered" /\ Dispatched("incoming_call", w.current.call)
     /\ \E b : RingsOn(w.current.call, b, v)
  \/ /\ w.current.state = "outgoing" /\ Dispatched("outgoing_call", w.current.call)
     /\ v = Opening(w.current.call)
  \/ \E n \in DOMAIN stack :
       /\ w.current.state = "answered" /\ v = Opening(stack[n].call)
       /\ w.current.call \in {stack[n].call} \cup left \cup w.crossed

LEMMA RenderView ==
  ASSUME Types, QueueInv, StackInv, RingingInv, NEW w, Reached(w, Len(updates))
  PROVE  Outcome(w, Viewed(w))
<1>1. /\ Origin(w) /\ w.current \in Currents
      /\ \A k \in Currents : k = NoCall \/ (k.call \in used /\ k.state \in States /\ k # NoCall)
      /\ used \subseteq CallIds
  BY CurrentFacts DEF Types, SlotOK, Reached, Worlds
<1>2. CASE w.current = current
  BY <1>2 DEF Viewed, Outcome
<1>3. CASE w.current # current /\ w.current = NoCall
  <2>1. Viewed(w) = ProviderEffect([View EXCEPT !.stack = <<>>], NoCall)
    BY <1>3 DEF Viewed, ScreenEffects, NoCall
  <2>2. Viewed(w) = [View EXCEPT !.stack = <<>>]
    BY <2>1 DEF ProviderEffect, NoCall
  <2> QED
    BY <1>3, <2>2 DEF View, Outcome
<1>4. CASE w.current # current /\ w.current # NoCall /\ w.current.state = "unanswered"
  <2>1. Dispatched("incoming_call", w.current.call)
    BY <1>1, <1>4 DEF Origin
  <2>2. Viewed(w) = NavigateIncoming(View, w.current.call)
    BY <1>4 DEF Viewed, ScreenEffects, ProviderEffect
  <2>3. \E b : RingsOn(w.current.call, b, NavigateIncoming(View, w.current.call))
    <3>1. CASE OnTop(View, "incoming")
      <4>1. stack \in Seq(Routes) /\ stack # <<>> /\ Len(stack) \in DOMAIN stack
        BY <3>1, StackFacts DEF Types, ScreensOK, OnTop, View
      <4>2. /\ Last(stack) = stack[Len(stack)] /\ Last(stack) \in Routes
            /\ Last(stack).at = 0
        BY <3>1, <4>1, FrontFacts DEF OnTop, View
      <4>3. PICK x \in Routes : x = [call |-> w.current.call, at |-> 0,
                                    born |-> stack[Len(stack)].born]
        BY <1>1, <1>4, <4>1, <4>2 DEF Routes, RoutesTo
      <4>4. [stack[Len(stack)] EXCEPT !.call = w.current.call] = x
        BY <4>2, <4>3 DEF Routes, RoutesTo
      <4>5. [stack EXCEPT ![Len(stack)].call = w.current.call] = [stack EXCEPT ![Len(stack)] = x]
        BY <4>1, <4>4
      <4>6. [stack EXCEPT ![Len(stack)] = x] = Append(Front(stack), x)
        BY <4>1, WriteLast
      <4>7. NavigateIncoming(View, w.current.call)
              = [stack |-> Append(Under, x), opened |-> opened]
        BY <3>1, <4>5, <4>6 DEF NavigateIncoming, View, Under
      <4>8. RingsOn(w.current.call, stack[Len(stack)].born,
                    NavigateIncoming(View, w.current.call))
        BY <4>1, <4>3, <4>7 DEF RingsOn
      <4> QED
        BY <4>8
    <3>2. CASE ~OnTop(View, "incoming")
      <4>1. RingsOn(w.current.call, w.current.call, NavigateIncoming(View, w.current.call))
        BY <3>2 DEF NavigateIncoming, View, Under, RingsOn, Screen
      <4> QED
        BY <4>1
    <3> QED
      BY <3>1, <3>2
  <2> QED
    BY <1>4, <2>1, <2>2, <2>3 DEF Outcome
<1>5. CASE w.current # current /\ w.current # NoCall /\ w.current.state = "outgoing"
  <2>1. Dispatched("outgoing_call", w.current.call) /\ w.current.call \in CallIds
    BY <1>1, <1>5 DEF Origin
  <2>2. stack = <<>>
    BY <2>1 DEF QueueInv, PlacedInv
  <2>3. Viewed(w) = NavigateOngoing(View, w.current.call)
    BY <1>5 DEF Viewed, ScreenEffects, ProviderEffect
  <2>4. ~OnTop(View, "ongoing") /\ ~OnTop(View, "incoming")
    BY <2>2 DEF OnTop, View
  <2> QED
    BY <1>5, <2>1, <2>3, <2>4 DEF NavigateOngoing, View, Under, Opening, Outcome
<1>6. CASE w.current # current /\ w.current # NoCall /\ w.current.state = "answered"
  <2>1. Viewed(w) = ScreenEffects(View, w.current)
    BY <1>6 DEF Viewed, ProviderEffect
  <2>2. w.current.call \in left \cup w.crossed
        \/ \E n \in DOMAIN stack : stack[n].at = 0 /\ stack[n].call = w.current.call
    <3>1. \/ w.current.call \in w.crossed
          \/ /\ Dispatched("answer_call", w.current.call)
             /\ \/ current = [call |-> w.current.call, state |-> "unanswered"]
                \/ Untaken(w.current.call)
      BY <1>1, <1>6 DEF Origin, Untaken
    <3>2. w.current.call \in CallIds
      BY <1>1, <1>6
    <3> QED
      BY <3>1, <3>2 DEF QueueInv, AnsweredInv, UntakenInv
  <2>3. CASE \E n \in DOMAIN stack : stack[n].at = 0
    <3>1. PICK n : n = CHOOSE m \in DOMAIN stack : stack[m].at = 0
      OBVIOUS
    <3>2. /\ n \in DOMAIN stack /\ stack[n].at = 0
          /\ \A m \in DOMAIN stack : stack[m].at = 0 => m = n
          /\ n = Len(stack)
      BY <2>3, <3>1 DEF StackInv
    <3>3. ScreenEffects(View, w.current) = Replace(View, n)
      BY <1>6, <2>3, <3>1 DEF ScreenEffects, View
    <3>4. Replace(View, n)
            = [stack  |-> [stack EXCEPT ![n] = Screen(stack[n].call, Len(opened) + 1)],
               opened |-> Append(opened, NewScreen(stack[n].call))]
      BY DEF Replace, View
    <3>5. [stack EXCEPT ![n] = Screen(stack[n].call, Len(opened) + 1)]
            = Append(Front(stack), Screen(stack[n].call, Len(opened) + 1))
      <4>0. PICK T : T = [call : used, at : Nat, born : used]
        OBVIOUS
      <4>1. stack \in Seq(T)
        <5>1. Routes \subseteq T
          BY <4>0, StackFacts DEF Routes, RoutesTo
        <5>2. \A m \in 1..Len(stack) : stack[m] \in T
          BY <5>1, StackFacts
        <5>3. stack = [m \in 1..Len(stack) |-> stack[m]]
          <6>1. stack \in Seq(Routes)
            BY DEF Types, ScreensOK
          <6> QED
            BY <6>1
        <5>4. Len(stack) \in Nat
          BY StackFacts
        <5> QED
          BY <5>2, <5>3, <5>4
      <4>2. Screen(stack[n].call, Len(opened) + 1) \in T
        BY <3>2, <4>0, StackFacts DEF Routes, RoutesTo, Screen
      <4>3. stack # <<>>
        BY <3>2, StackFacts
      <4>4. [stack EXCEPT ![Len(stack)] = Screen(stack[n].call, Len(opened) + 1)]
              = Append(Front(stack), Screen(stack[n].call, Len(opened) + 1))
        BY <4>1, <4>2, <4>3, WriteLast
      <4> QED
        BY <3>2, <4>4
    <3>6. Under = Front(stack)
      BY <2>3, UnderFacts DEF Under
    <3>7. Viewed(w) = Opening(stack[n].call)
      BY <2>1, <3>3, <3>4, <3>5, <3>6 DEF Opening
    <3>8. w.current.call \in {stack[n].call} \cup left \cup w.crossed
      BY <2>2, <3>2
    <3> QED
      BY <1>6, <3>2, <3>7, <3>8 DEF Outcome
  <2>4. CASE ~ \E n \in DOMAIN stack : stack[n].at = 0
    <3>1. Viewed(w) = View
      BY <1>6, <2>1, <2>4 DEF ScreenEffects, View
    <3>2. w.current.call \in left \cup w.crossed
      BY <2>2, <2>4
    <3> QED
      BY <1>6, <3>1, <3>2 DEF Outcome
  <2> QED
    BY <2>3, <2>4
<1> QED
  BY <1>1, <1>2, <1>3, <1>4, <1>5, <1>6 DEF States

-----------------------------------------------------------------------------
(* What steps share *)

LEMMA SeqMonotone ==
  ASSUME NEW S, NEW T, S \subseteq T, NEW s \in Seq(S)
  PROVE  s \in Seq(T)
<1>1. s = [n \in 1..Len(s) |-> s[n]] /\ Len(s) \in Nat
  OBVIOUS
<1>2. \A n \in 1..Len(s) : s[n] \in T
  OBVIOUS
<1> QED
  BY <1>1, <1>2

\* Calls are only ever added, and so are the types made of them.
LEMMA MoreCalls ==
  ASSUME used \subseteq used'
  PROVE  Currents \subseteq Currents' /\ Actions \subseteq Actions'
<1>1. Currents \subseteq Currents'
  BY DEF Currents
<1>2. Actions \subseteq Actions'
  BY DEF Actions
<1> QED
  BY <1>1, <1>2

LEMMA MoreSessions ==
  ASSUME used \subseteq used', remounts \in Nat, remounts' \in Nat, remounts <= remounts'
  PROVE  Sessions \subseteq Sessions'
<1>1. 0..remounts \subseteq 0..remounts'
  OBVIOUS
<1> QED
  BY <1>1 DEF Sessions

LEMMA MoreRoutes ==
  ASSUME used \subseteq used', Len(opened) \in Nat, Len(opened') \in Nat,
         Len(opened) <= Len(opened')
  PROVE  Routes \subseteq Routes'
<1>1. 0..Len(opened) \subseteq 0..Len(opened')
  OBVIOUS
<1> QED
  BY <1>1 DEF Routes, RoutesTo

\* A step that leaves the screens alone leaves their types.
LEMMA ScreensOKKept ==
  ASSUME ScreensOK, used \subseteq used', UNCHANGED screens
  PROVE  ScreensOK'
<1>1. opened' = opened /\ stack' = stack /\ remounts' = remounts /\ left' = left
  BY DEF screens
<1>2. Len(opened) \in Nat
  BY DEF ScreensOK
<1>3. opened \in Seq(Sessions')
  <2>1. remounts \in Nat /\ remounts <= remounts
    BY CallsAssumption DEF ScreensOK
  <2> QED
    BY <1>1, <2>1, MoreSessions, SeqMonotone DEF ScreensOK
<1>4. stack \in Seq(Routes')
  BY <1>1, <1>2, MoreRoutes, SeqMonotone DEF ScreensOK
<1> QED
  BY <1>1, <1>3, <1>4 DEF ScreensOK

\* A dispatch puts one action at the end of the queue.
LEMMA Dispatching ==
  ASSUME ReducerOK, used \subseteq used', NEW t \in Kinds, NEW c \in used', Dispatch(t, c)
  PROVE  /\ updates' \in Seq(Actions') /\ Len(updates') <= MaxUpdates
         /\ Len(updates) \in Nat /\ DOMAIN updates = 1..Len(updates)
         /\ DOMAIN updates' = 1..(Len(updates) + 1)
         /\ \A n \in DOMAIN updates : n \in DOMAIN updates' /\ updates'[n] = updates[n]
         /\ Len(updates) + 1 \in DOMAIN updates' /\ updates'[Len(updates) + 1] = Update(t, c)
         /\ \A n \in DOMAIN updates' : n \in DOMAIN updates \/ n = Len(updates) + 1
         /\ \A x, d : Dispatched(x, d)' <=> Dispatched(x, d) \/ (x = t /\ d = c)
<1>1. /\ updates \in Seq(Actions') /\ Update(t, c) \in Actions'
      /\ updates' = Append(updates, Update(t, c)) /\ Len(updates) < MaxUpdates
  BY MoreCalls, SeqMonotone DEF ReducerOK, Actions, Update, Dispatch, CanDispatch
<1>2. PICK k \in Nat : k = Len(updates) /\ DOMAIN updates = 1..k
  BY <1>1
<1>3. /\ updates' \in Seq(Actions') /\ Len(updates') = k + 1 /\ DOMAIN updates' = 1..(k + 1)
      /\ \A n \in 1..k : updates'[n] = updates[n]
      /\ updates'[k + 1] = Update(t, c)
  BY <1>1, <1>2, AppendFacts
<1>4. Len(updates') <= MaxUpdates
  BY <1>1, <1>2, <1>3, CallsAssumption
<1>5. \A n \in 1..(k + 1) : n \in 1..k \/ n = k + 1
  OBVIOUS
<1>6. k + 1 \in 1..(k + 1) /\ \A n \in 1..k : n \in 1..(k + 1)
  OBVIOUS
<1>7. \A x, d : Update(x, d) = Update(t, c) <=> x = t /\ d = c
  BY DEF Update
<1>8. ASSUME NEW x, NEW d PROVE Dispatched(x, d)' <=> Dispatched(x, d) \/ (x = t /\ d = c)
  <2>1. Dispatched(x, d)' <=> \E n \in 1..(k + 1) : updates'[n] = Update(x, d)
    BY <1>3 DEF Dispatched, Update
  <2>2. Dispatched(x, d) <=> \E n \in 1..k : updates[n] = Update(x, d)
    BY <1>2 DEF Dispatched
  <2> QED
    BY <2>1, <2>2, <1>3, <1>5, <1>6, <1>7
<1> QED
  BY <1>2, <1>3, <1>4, <1>5, <1>6, <1>8

\* A call in the queue is a call there is.
LEMMA DispatchedCalls ==
  ASSUME ReducerOK, NEW t, NEW c, Dispatched(t, c)
  PROVE  c \in used
<1>1. PICK n \in DOMAIN updates : updates[n] = Update(t, c)
  BY DEF Dispatched
<1>2. updates[n] \in Actions
  BY DEF ReducerOK
<1> QED
  BY <1>1, <1>2 DEF Actions, Update

\* A screen that leaves the stack is ended from elsewhere, if nothing ended it.
LEMMA UnmountedFacts ==
  ASSUME NEW s \in Seq(Sessions), NEW m
  PROVE  /\ Unmounted(s, m) \in Seq(Sessions) /\ Len(Unmounted(s, m)) = Len(s)
         /\ DOMAIN Unmounted(s, m) = DOMAIN s
         /\ \A i \in DOMAIN s :
              /\ Unmounted(s, m)[i].call = s[i].call /\ Unmounted(s, m)[i].stage = s[i].stage
              /\ Unmounted(s, m)[i].provider = s[i].provider
              /\ Unmounted(s, m)[i].over = "no" => \E n \in DOMAIN m : m[n].at = i
              /\ Unmounted(s, m)[i].over = "clean" => Unmounted(s, m)[i] = s[i]
<1>1. PICK k \in Nat : k = Len(s) /\ DOMAIN s = 1..k
  OBVIOUS
<1>2. ASSUME NEW i \in 1..k
      PROVE  /\ Unmounted(s, m)[i] \in Sessions
             /\ Unmounted(s, m)[i].call = s[i].call /\ Unmounted(s, m)[i].stage = s[i].stage
             /\ Unmounted(s, m)[i].provider = s[i].provider
             /\ Unmounted(s, m)[i].over = "no" => \E n \in DOMAIN m : m[n].at = i
             /\ Unmounted(s, m)[i].over = "clean" => Unmounted(s, m)[i] = s[i]
  <2>1. s[i] \in Sessions
    BY <1>1
  <2>2. CASE s[i].over = "no" /\ ~ \E n \in DOMAIN m : m[n].at = i
    <3>1. Unmounted(s, m)[i] = [s[i] EXCEPT !.over = "elsewhere"]
      BY <1>1, <2>2 DEF Unmounted
    <3> QED
      BY <2>1, <3>1 DEF Sessions
  <2>3. CASE ~(s[i].over = "no" /\ ~ \E n \in DOMAIN m : m[n].at = i)
    <3>1. Unmounted(s, m)[i] = s[i]
      BY <1>1, <2>3 DEF Unmounted
    <3> QED
      BY <2>1, <2>3, <3>1
  <2> QED
    BY <2>2, <2>3
<1>3. Unmounted(s, m) = [i \in 1..k |-> Unmounted(s, m)[i]]
  BY <1>1 DEF Unmounted
<1>4. Unmounted(s, m) \in Seq(Sessions) /\ Len(Unmounted(s, m)) = k
  BY <1>2, <1>3
<1> QED
  BY <1>1, <1>2, <1>3, <1>4

-----------------------------------------------------------------------------
(* Types *)

\* A dispatch on its own keeps the reducer's types.
LEMMA DispatchOK ==
  ASSUME ReducerOK, used \subseteq used', NEW t \in Kinds, NEW c \in used', Dispatch(t, c),
         current' = current, ringing' \subseteq ringing, starting' = starting, crossed' = crossed
  PROVE  ReducerOK'
<1>1. current \in Currents' /\ updates' \in Seq(Actions') /\ Len(updates') <= MaxUpdates
  BY MoreCalls, Dispatching DEF ReducerOK
<1> QED
  BY <1>1 DEF ReducerOK

LEMMA TypesCalls ==
  ASSUME Types, NEW c \in CallIds, CallNext(c)
  PROVE  Types'
<1>0. SlotOK /\ ReducerOK /\ ServiceOK /\ ScreensOK
  BY DEF Types
<1>1. CASE Receive(c)
  <2>1. used \subseteq used' /\ c \in used' /\ used' \subseteq CallIds
    BY <1>0, <1>1 DEF Receive, SlotOK
  <2>2. SlotOK'
    BY <1>0, <1>1, <2>1 DEF Receive, SlotOK
  <2>3. ReducerOK'
    <3>1. current \in Currents' /\ updates \in Seq(Actions')
      BY <1>0, <2>1, MoreCalls, SeqMonotone DEF ReducerOK
    <3>2. UNCHANGED <<current, ringing, starting, crossed, updates>>
      BY <1>1 DEF Receive, reducer
    <3> QED
      BY <1>0, <2>1, <3>1, <3>2 DEF ReducerOK
  <2>4. ServiceOK'
    BY <1>0, <1>1, <2>1 DEF Receive, ServiceOK
  <2>5. ScreensOK'
    BY <1>0, <1>1, <2>1, ScreensOKKept DEF Receive
  <2> QED
    BY <2>2, <2>3, <2>4, <2>5 DEF Types
<1>2. CASE PlaceCall(c)
  <2>1. used \subseteq used' /\ c \in used' /\ used' \subseteq CallIds
    BY <1>0, <1>2 DEF PlaceCall, SlotOK
  <2>2. SlotOK'
    BY <1>0, <1>2, <2>1 DEF PlaceCall, SlotOK
  <2>3. ReducerOK'
    BY <1>0, <1>2, <2>1, DispatchOK DEF PlaceCall, reducer, Kinds
  <2>4. ServiceOK'
    BY <1>0, <1>2, <2>1 DEF PlaceCall, ServiceOK, service
  <2>5. ScreensOK'
    BY <1>0, <1>2, <2>1, ScreensOKKept DEF PlaceCall
  <2> QED
    BY <2>2, <2>3, <2>4, <2>5 DEF Types
<1>3. ASSUME UNCHANGED slot
      PROVE  used' = used /\ SlotOK' /\ (c \in ringing \cup starting \cup os \cup ended \cup notified => c \in used')
  BY <1>0, <1>3 DEF slot, SlotOK, ReducerOK, ServiceOK
<1>4. CASE RingTimeout(c)
  <2>1. /\ used' = used /\ SlotOK' /\ c \in used' /\ UNCHANGED screens /\ current' = current
        /\ starting' = starting /\ crossed' = crossed /\ ringing' \subseteq ringing
        /\ Dispatch("decline_call", c) /\ UNCHANGED <<platform, intent, notified>>
    BY <1>3, <1>4 DEF RingTimeout
  <2>2. ReducerOK'
    BY <1>0, <2>1, DispatchOK DEF Kinds
  <2>3. os' \subseteq used /\ ended' \subseteq used
    <3>1. World \in Worlds
      BY <1>0 DEF ReducerOK, ServiceOK, World, Worlds
    <3>2. EndInOS(World, c) \in Worlds
      BY <2>1, <3>1, EndInOSTypes
    <3> QED
      BY <1>4, <3>2 DEF RingTimeout, Worlds
  <2>4. ServiceOK'
    BY <1>0, <2>1, <2>3 DEF ServiceOK
  <2>5. ScreensOK'
    BY <1>0, <2>1, ScreensOKKept
  <2> QED
    BY <2>1, <2>2, <2>4, <2>5 DEF Types
<1>5. CASE StartInOS(c)
  <2>1. /\ used' = used /\ SlotOK' /\ c \in used' /\ UNCHANGED screens
        /\ UNCHANGED <<current, updates, ringing, crossed, platform, ended, intent, notified>>
        /\ starting' \subseteq starting /\ os' \in {os, {c}}
    BY <1>3, <1>5 DEF StartInOS
  <2>2. ReducerOK'
    BY <1>0, <2>1 DEF ReducerOK, Currents, Actions
  <2>3. ServiceOK'
    BY <1>0, <2>1 DEF ServiceOK
  <2>4. ScreensOK'
    BY <1>0, <2>1, ScreensOKKept
  <2> QED
    BY <2>1, <2>2, <2>3, <2>4 DEF Types
<1>6. CASE EndsInCallKit(c)
  <2>1. /\ used' = used /\ SlotOK' /\ c \in used' /\ UNCHANGED <<screens, reducer, updates>>
        /\ os' \subseteq os /\ ended' = ended \cup {c} /\ UNCHANGED <<platform, intent, notified>>
    BY <1>3, <1>6 DEF EndsInCallKit
  <2>2. ReducerOK'
    BY <1>0, <2>1 DEF ReducerOK, reducer, Currents, Actions
  <2>3. ServiceOK'
    BY <1>0, <2>1 DEF ServiceOK
  <2>4. ScreensOK'
    BY <1>0, <2>1, ScreensOKKept
  <2> QED
    BY <2>1, <2>2, <2>3, <2>4 DEF Types
<1>7. CASE OnEnd(c)
  <2>1. /\ used' = used /\ SlotOK' /\ c \in used' /\ UNCHANGED <<screens, reducer>>
        /\ ended' \subseteq ended /\ UNCHANGED <<platform, os, intent, notified>>
        /\ Dispatch("decline_call", c)
    BY <1>3, <1>7 DEF OnEnd
  <2>2. ReducerOK'
    BY <1>0, <2>1, DispatchOK DEF reducer, Kinds
  <2>3. ServiceOK'
    BY <1>0, <2>1 DEF ServiceOK
  <2>4. ScreensOK'
    BY <1>0, <2>1, ScreensOKKept
  <2> QED
    BY <2>1, <2>2, <2>3, <2>4 DEF Types
<1>8. CASE PressNotification(c)
  <2>1. /\ used' = used /\ SlotOK' /\ c \in used' /\ UNCHANGED <<screens, reducer, updates>>
        /\ notified' \subseteq notified /\ UNCHANGED <<platform, os, ended>>
        /\ intent' \in [call : used, state : {"answered", "declined"}]
    BY <1>3, <1>8 DEF PressNotification
  <2>2. ReducerOK'
    BY <1>0, <2>1 DEF ReducerOK, reducer, Currents, Actions
  <2>3. ServiceOK'
    BY <1>0, <2>1 DEF ServiceOK
  <2>4. ScreensOK'
    BY <1>0, <2>1, ScreensOKKept
  <2> QED
    BY <2>1, <2>2, <2>3, <2>4 DEF Types
<1> QED
  BY <1>1, <1>2, <1>4, <1>5, <1>6, <1>7, <1>8 DEF CallNext

\* The screens' own steps leave the calls, the reducer's state and the services alone.
LEMMA SlotServiceKept ==
  ASSUME SlotOK, ServiceOK, UNCHANGED <<slot, service>>
  PROVE  SlotOK' /\ ServiceOK' /\ used' = used
<1>1. used' = used /\ SlotOK'
  BY DEF slot, SlotOK
<1> QED
  BY <1>1 DEF service, ServiceOK

LEMMA TypesIncoming ==
  ASSUME Types, NEW n \in DOMAIN stack, IncomingNext(n)
  PROVE  Types'
<1>0. SlotOK /\ ReducerOK /\ ServiceOK /\ ScreensOK
  BY DEF Types
<1>1. /\ {stack[n].call, stack[n].born} \subseteq used
      /\ stack \in Seq(Routes) /\ Len(opened) \in Nat
  <2>1. stack[n] \in Routes
    BY StackFacts
  <2> QED
    BY <1>0, <2>1, StackFacts DEF ScreensOK, Routes, RoutesTo
<1>2. UNCHANGED <<slot, reducer, service>> /\ SlotOK' /\ ServiceOK' /\ used' = used
  <2>1. UNCHANGED <<slot, reducer, service>>
    BY DEF IncomingNext, PressAccept, PressDecline, PressButton, checkNativeCallState,
           BackFromIncoming
  <2> QED
    BY <1>0, <2>1, SlotServiceKept
<1>3. ASSUME NEW t \in {"answer_call", "decline_call"}, NEW c \in used, Dispatch(t, c),
             UNCHANGED screens
      PROVE  Types'
  <2>1. ReducerOK'
    BY <1>0, <1>1, <1>2, <1>3, DispatchOK DEF Kinds, reducer
  <2>2. ScreensOK'
    BY <1>0, <1>2, <1>3, ScreensOKKept
  <2> QED
    BY <1>2, <2>1, <2>2 DEF Types
<1>4. CASE BackFromIncoming(n)
  <2>1. stack # <<>>
    BY <1>1
  <2>2. stack' = Front(stack) /\ Front(stack) \in Seq(Routes)
    BY <1>1, <1>4, <2>1, FrontFacts DEF BackFromIncoming
  <2>3. opened' = opened /\ remounts' = remounts /\ left' = left \cup {stack[n].call}
    BY <1>4 DEF BackFromIncoming
  <2>4. Sessions' = Sessions /\ Routes' = Routes
    BY <1>2, <2>3 DEF Sessions, Routes, RoutesTo
  <2>5. ScreensOK'
    BY <1>0, <1>1, <1>2, <2>2, <2>3, <2>4 DEF ScreensOK
  <2>6. ReducerOK'
    BY <1>0, <1>2, <1>4 DEF BackFromIncoming, ReducerOK, reducer, Currents, Actions
  <2> QED
    BY <1>2, <2>5, <2>6 DEF Types
<1> QED
  BY <1>1, <1>3, <1>4
  DEF IncomingNext, PressAccept, PressDecline, PressButton, checkNativeCallState

\* What an ongoing-call screen does to what it opened.
LEMMA BecomesFacts ==
  ASSUME ScreensOK, NEW i \in Screens, NEW s \in Sessions, Becomes(i, s)
  PROVE  /\ opened' \in Seq(Sessions) /\ Len(opened') = Len(opened) /\ Screens' = Screens
         /\ opened'[i] = s /\ \A j \in Screens : j # i => opened'[j] = opened[j]
<1>1. PICK k \in Nat : k = Len(opened) /\ DOMAIN opened = 1..k /\ Screens = 1..k
  BY DEF ScreensOK, Screens
<1>2. opened' = [opened EXCEPT ![i] = s]
  BY DEF Becomes
<1>3. opened' \in Seq(Sessions) /\ Len(opened') = k /\ DOMAIN opened' = 1..k
  BY <1>1, <1>2 DEF ScreensOK
<1>4. \A j \in 1..k : opened'[j] = IF j = i THEN s ELSE opened[j]
  BY <1>1, <1>2
<1> QED
  BY <1>1, <1>3, <1>4 DEF Screens

LEMMA BecomesOK ==
  ASSUME Types, NEW i \in Screens, NEW s \in Sessions, Becomes(i, s),
         UNCHANGED <<slot, service, stack, remounts, left>>
  PROVE  SlotOK' /\ ServiceOK' /\ ScreensOK' /\ used' = used
<1>1. SlotOK' /\ ServiceOK' /\ used' = used
  BY SlotServiceKept DEF Types
<1>2. opened' \in Seq(Sessions) /\ Len(opened') = Len(opened)
  BY BecomesFacts DEF Types
<1>3. Sessions' = Sessions /\ Routes' = Routes
  BY <1>1, <1>2 DEF Sessions, Routes, RoutesTo
<1> QED
  BY <1>1, <1>2, <1>3 DEF Types, ScreensOK

\* The five steps of an ongoing-call screen that tell nobody: what becomes of the session.
LEMMA QuietSteps ==
  ASSUME Types, NEW i \in Screens,
         \/ StreamStarts(i) \/ StreamDenied(i) \/ setupCall(i)
         \/ PeerConnectionInit(i) \/ PeerConnected(i)
  PROVE  /\ UNCHANGED <<callState, updates>>
         /\ \E s \in Sessions :
              /\ Becomes(i, s) /\ s.call = opened[i].call /\ s.over = opened[i].over
              /\ s.provider = opened[i].provider
              /\ opened[i].stage = "denied" => s.stage = "denied"
              /\ \/ opened[i].stage # "ready" \/ opened[i].peer = "config"
                 \/ InUse(opened[i])
<1>1. opened[i] \in Sessions
  BY StackFacts
<1>2. CASE StreamStarts(i)
  <2>1. [opened[i] EXCEPT !.stage = "chat", !.mic = TRUE] \in Sessions
    BY <1>1 DEF Sessions
  <2> QED
    BY <1>1, <1>2, <2>1 DEF StreamStarts, Sessions
<1>3. CASE StreamDenied(i)
  <2>1. PICK on \in BOOLEAN : Becomes(i, [opened[i] EXCEPT !.stage = "denied", !.mic = on])
    BY <1>3 DEF StreamDenied
  <2>2. [opened[i] EXCEPT !.stage = "denied", !.mic = on] \in Sessions
    BY <1>1 DEF Sessions
  <2> QED
    BY <1>1, <1>3, <2>1, <2>2 DEF StreamDenied, Sessions
<1>4. CASE setupCall(i)
  <2>1. [opened[i] EXCEPT !.stage = "ready", !.socket = "open", !.peer = "config"] \in Sessions
    BY <1>1 DEF Sessions
  <2> QED
    BY <1>1, <1>4, <2>1 DEF setupCall, Sessions
<1>5. CASE PeerConnectionInit(i)
  <2>1. PICK peer \in {"open", "none"} : Becomes(i, [opened[i] EXCEPT !.peer = peer])
    BY <1>5 DEF PeerConnectionInit
  <2>2. [opened[i] EXCEPT !.peer = peer] \in Sessions
    BY <1>1 DEF Sessions
  <2> QED
    BY <1>1, <1>5, <2>1, <2>2 DEF PeerConnectionInit, Sessions
<1>6. CASE PeerConnected(i)
  <2>1. [opened[i] EXCEPT !.socket = "closed"] \in Sessions
    BY <1>1 DEF Sessions
  <2> QED
    BY <1>1, <1>6, <2>1 DEF PeerConnected, Sessions, InUse
<1> QED
  BY <1>2, <1>3, <1>4, <1>5, <1>6

\* What the screen's endCall makes of its session.
LEMMA CleanedFacts ==
  ASSUME NEW s \in Sessions
  PROVE  /\ Cleaned(s) \in Sessions /\ Cleaned(s).call = s.call /\ Cleaned(s).stage = s.stage
         /\ Cleaned(s).provider = s.provider
         /\ Cleaned(s).over # "no"
         /\ Cleaned(s).over = "clean" =>
              s.stage = "ready" /\ Cleaned(s).peer # "config" /\ ~InUse(Cleaned(s))
<1>1. CASE s.stage # "ready"
  BY <1>1 DEF Cleaned, Sessions
<1>2. CASE s.stage = "ready"
  <2>1. PICK p \in {"none", "config", "closed"}, o \in {"early", "clean"} :
          /\ Cleaned(s) = [s EXCEPT !.mic = FALSE, !.socket = "closed", !.peer = p, !.over = o]
          /\ o = "clean" => p # "config"
    BY <1>2 DEF Cleaned, Sessions
  <2> QED
    BY <1>2, <2>1 DEF Sessions, InUse
<1> QED
  BY <1>1, <1>2

\* What closing the request for permissions makes of the sessions.
LEMMA ClosedFacts ==
  ASSUME Types, NEW i \in Screens, CloseDenied(i)
  PROVE  /\ opened' \in Seq(Sessions) /\ Len(opened') = Len(opened) /\ Screens' = Screens
         /\ \A j \in Screens :
              /\ opened'[j].call = opened[j].call /\ opened'[j].stage = opened[j].stage
              /\ opened'[j].provider = opened[j].provider
              /\ opened'[j].over = "no" => Shown(j)'
              /\ opened'[j].over = "clean" => opened'[j] = opened[j]
<1>1. /\ opened \in Seq(Sessions) /\ DOMAIN opened = Screens
      /\ opened[i] \in Sessions /\ stack' = Front(stack)
  BY StackFacts DEF Types, ScreensOK, Screens, CloseDenied
<1>2. PICK x : x = [opened[i] EXCEPT !.over = "closed"]
  OBVIOUS
<1>3. /\ x \in Sessions /\ x.call = opened[i].call /\ x.stage = opened[i].stage
      /\ x.provider = opened[i].provider /\ x.over = "closed"
  BY <1>1, <1>2 DEF Sessions
<1>4. PICK s : s = [opened EXCEPT ![i] = x]
  OBVIOUS
<1>5. /\ s \in Seq(Sessions) /\ Len(s) = Len(opened) /\ DOMAIN s = Screens
      /\ \A j \in Screens : s[j] = IF j = i THEN x ELSE opened[j]
  BY <1>1, <1>3, <1>4
<1>6. opened' = Unmounted(s, stack')
  <2>1. [opened EXCEPT ![i].over = "closed"] = s
    BY <1>1, <1>2, <1>4
  <2> QED
    BY <1>1, <2>1 DEF CloseDenied
<1>7. /\ opened' \in Seq(Sessions) /\ Len(opened') = Len(s) /\ DOMAIN opened' = DOMAIN s
      /\ \A j \in DOMAIN s :
           /\ opened'[j].call = s[j].call /\ opened'[j].stage = s[j].stage
           /\ opened'[j].provider = s[j].provider
           /\ opened'[j].over = "no" => Shown(j)'
           /\ opened'[j].over = "clean" => opened'[j] = s[j]
  BY <1>5, <1>6, UnmountedFacts DEF Shown
<1>8. Screens' = Screens
  BY <1>5, <1>7 DEF Screens
<1>9. \A j \in Screens : opened'[j].over = "clean" => opened'[j] = opened[j]
  BY <1>3, <1>5, <1>7
<1> QED
  BY <1>3, <1>5, <1>7, <1>8, <1>9

\* What a chat that could not be read makes of the session.
LEMMA FailedFacts ==
  ASSUME Types, NEW i \in Screens, SetupFails(i)
  PROVE  /\ UNCHANGED callState
         /\ \/ updates' = updates
            \/ opened[i].provider = remounts /\ Dispatch("end_call", opened[i].call)
         /\ opened[i].stage = "chat"
         /\ \E s \in Sessions :
              /\ Becomes(i, s) /\ s.call = opened[i].call /\ s.provider = opened[i].provider
              /\ s.over # "no" /\ (s.over = "clean" => opened[i].over = "clean")
<1>1. opened[i] \in Sessions
  BY StackFacts
<1>2. PICK o \in {"early", "clean", "elsewhere", "closed"} :
        /\ Becomes(i, [opened[i] EXCEPT !.stage = "failed", !.over = o])
        /\ o = "clean" => opened[i].over = "clean"
  BY <1>1 DEF SetupFails, Sessions
<1>3. [opened[i] EXCEPT !.stage = "failed", !.over = o] \in Sessions
  BY <1>1 DEF Sessions
<1> QED
  BY <1>1, <1>2, <1>3 DEF SetupFails, Sessions

LEMMA TypesOngoing ==
  ASSUME Types, NEW i \in Screens, OngoingNext(i)
  PROVE  Types'
<1>1. opened[i] \in Sessions /\ opened[i].call \in used
  BY StackFacts DEF Sessions
<1>2. CASE \/ StreamStarts(i) \/ StreamDenied(i) \/ setupCall(i)
           \/ PeerConnectionInit(i) \/ PeerConnected(i)
  <2>1. UNCHANGED <<callState, updates>>
    BY <1>2, QuietSteps
  <2>2. PICK s \in Sessions : Becomes(i, s)
    BY <1>2, QuietSteps
  <2>3. SlotOK' /\ ServiceOK' /\ ScreensOK' /\ used' = used
    BY <2>1, <2>2, BecomesOK DEF callState
  <2>4. ReducerOK'
    BY <2>1, <2>3 DEF Types, callState, reducer, ReducerOK, Currents, Actions
  <2> QED
    BY <2>3, <2>4 DEF Types
<1>3. CASE CloseDenied(i)
  <2>0. ScreensOK /\ opened \in Seq(Sessions) /\ stack \in Seq(Routes) /\ stack # <<>>
    BY <1>3 DEF Types, ScreensOK, CloseDenied
  <2>1. SlotOK' /\ ServiceOK' /\ used' = used
    BY <1>3, SlotServiceKept DEF Types, CloseDenied
  <2>2. opened' \in Seq(Sessions) /\ Len(opened') = Len(opened) /\ remounts' = remounts
    BY <1>3, ClosedFacts DEF CloseDenied
  <2>3. stack' \in Seq(Routes)
    BY <1>3, <2>0, FrontFacts DEF CloseDenied
  <2>4. Sessions' = Sessions /\ Routes' = Routes
    BY <2>1, <2>2 DEF Sessions, Routes, RoutesTo
  <2>5. ScreensOK'
    BY <1>3, <2>0, <2>1, <2>2, <2>3, <2>4 DEF ScreensOK, CloseDenied
  <2>6. ReducerOK'
    BY <1>3, <2>1 DEF Types, CloseDenied, reducer, ReducerOK, Currents, Actions
  <2> QED
    BY <2>1, <2>5, <2>6 DEF Types
<1>4. CASE HangUp(i) \/ PeerEnds(i)
  <2>1. endCall(i)
    BY <1>4 DEF HangUp, PeerEnds
  <2>2. Dispatch("end_call", opened[i].call) /\ Becomes(i, Cleaned(opened[i]))
        /\ UNCHANGED callState
    BY <2>1 DEF endCall
  <2>3. SlotOK' /\ ServiceOK' /\ ScreensOK' /\ used' = used
    BY <1>1, <2>2, CleanedFacts, BecomesOK DEF callState
  <2>4. ReducerOK'
    BY <1>1, <2>2, <2>3, DispatchOK DEF Types, callState, reducer, Kinds
  <2> QED
    BY <2>3, <2>4 DEF Types
<1>5. CASE SetupFails(i)
  <2>1. /\ UNCHANGED callState
        /\ updates' = updates \/ Dispatch("end_call", opened[i].call)
    BY <1>5, FailedFacts
  <2>2. PICK s \in Sessions : Becomes(i, s)
    BY <1>5, FailedFacts
  <2>3. SlotOK' /\ ServiceOK' /\ ScreensOK' /\ used' = used
    BY <2>1, <2>2, BecomesOK DEF callState
  <2>4. ReducerOK'
    <3>1. CASE updates' = updates
      BY <2>1, <2>3, <3>1 DEF Types, callState, reducer, ReducerOK, Currents, Actions
    <3>2. CASE Dispatch("end_call", opened[i].call)
      BY <1>1, <2>1, <2>3, <3>2, DispatchOK DEF Types, callState, reducer, Kinds
    <3> QED
      BY <2>1, <3>1, <3>2
  <2> QED
    BY <2>3, <2>4 DEF Types
<1> QED
  BY <1>2, <1>3, <1>4, <1>5 DEF OngoingNext

LEMMA TypesTakeUp ==
  ASSUME Types, TakeUp
  PROVE  Types'
<1>1. used' = used /\ SlotOK' /\ latest \in used /\ UNCHANGED <<reducer, service, screens>>
      /\ Dispatch("incoming_call", latest)
  BY DEF TakeUp, Types, SlotOK
<1>2. ReducerOK'
  BY <1>1, DispatchOK DEF Types, reducer, Kinds
<1>3. ScreensOK'
  BY <1>1, ScreensOKKept DEF Types
<1>4. ServiceOK'
  BY <1>1 DEF Types, ServiceOK, service
<1> QED
  BY <1>1, <1>2, <1>3, <1>4 DEF Types

LEMMA TypesRemount ==
  ASSUME Types, Remount
  PROVE  Types'
<1>1. used' = used /\ SlotOK'
  BY DEF Remount, Types, SlotOK
<1>2. ReducerOK'
  <2>1. current' = NoCall /\ updates' = <<>> /\ ringing' = {}
    BY DEF Remount
  <2>2. updates' \in Seq(Actions') /\ Len(updates') <= MaxUpdates
    BY <2>1, CallsAssumption
  <2> QED
    BY <1>1, <2>1, <2>2 DEF Remount, Types, ReducerOK, Currents
<1>3. opened' \in Seq(Sessions) /\ Len(opened') = Len(opened)
  BY UnmountedFacts DEF Remount, Types, ScreensOK
<1>4. opened' \in Seq(Sessions') /\ stack' \in Seq(Routes')
  <2>1. remounts \in Nat /\ remounts' \in Nat /\ remounts <= remounts'
    BY CallsAssumption DEF Remount, Types, ScreensOK
  <2> QED
    BY <1>1, <1>3, <2>1, MoreSessions, SeqMonotone DEF Remount
<1>5. remounts' \in 0..MaxRemounts
  BY CallsAssumption DEF Remount, Types, ScreensOK
<1>6. ScreensOK'
  BY <1>1, <1>3, <1>4, <1>5 DEF Remount, Types, ScreensOK
<1>7. ServiceOK'
  BY <1>1 DEF Remount, Types, ServiceOK, service
<1> QED
  BY <1>1, <1>2, <1>6, <1>7 DEF Types

-----------------------------------------------------------------------------
(* The invariant, part by part *)

\* The call that rings, as the invariant's parts name it.
RingsNow(c) == current = [call |-> c, state |-> "unanswered"]

\* The screens opened so far are the same, and for the same calls.
SameScreens ==
  /\ Screens' = Screens /\ remounts' = remounts
  /\ \A i \in Screens :
       opened'[i].call = opened[i].call /\ opened'[i].provider = opened[i].provider

LEMMA UnopenedKept ==
  ASSUME SameScreens, NEW c PROVE Unopened(c)' <=> Unopened(c)
  BY DEF SameScreens, Unopened

LEMMA SameOpened ==
  ASSUME UNCHANGED <<opened, remounts>> PROVE SameScreens
  BY DEF SameScreens, Screens

LEMMA InvKept ==
  ASSUME CallInv,
         UNCHANGED <<latest, fresh, updates, current, screens, crossed, ringing>>
  PROVE  CallInv'
<1>0. UNCHANGED <<stack, opened, remounts, left>>
  BY DEF screens
<1>1. QueueInv'
  BY <1>0 DEF CallInv, QueueInv, UntakenInv, OnceInv, PlacedInv, AnsweredInv, Untaken, Dispatched,
         Unopened, Screens
<1>2. ScreenInv'
  BY <1>0 DEF CallInv, ScreenInv, StackInv, RingingInv, OngoingInv, SessionInv, HasScreen, Shown,
         Screens, Dispatched, Unopened
<1>3. RingIsOwn' /\ RingEnds'
  BY DEF CallInv, RingIsOwn, RingEnds
<1> QED
  BY <1>1, <1>2, <1>3 DEF CallInv

\* Answering, declining or ending a call, told by whoever has the call in front of him.
LEMMA QueueTold ==
  ASSUME Types, QueueInv, used' = used,
         NEW t \in {"answer_call", "decline_call", "end_call"}, NEW c \in used,
         Dispatch(t, c), UNCHANGED <<latest, fresh, current, stack, left>>, SameScreens,
         t # "decline_call" => ~Untaken(c),
         t = "answer_call" /\ RingsNow(c) =>
           c \in left \/ \E n \in DOMAIN stack : stack[n].at = 0 /\ stack[n].call = c
  PROVE  QueueInv'
<1>1. ReducerOK /\ t \in Kinds /\ t \notin Starts
  BY DEF Types, Kinds, Starts
<1>2. /\ DOMAIN updates = 1..Len(updates)
      /\ \A n \in DOMAIN updates : n \in DOMAIN updates' /\ updates'[n] = updates[n]
      /\ updates'[Len(updates) + 1] = Update(t, c)
      /\ \A n \in DOMAIN updates' : n \in DOMAIN updates \/ n = Len(updates) + 1
      /\ \A x, d : Dispatched(x, d)' <=> Dispatched(x, d) \/ (x = t /\ d = c)
  BY <1>1, Dispatching
<1>3. \A d \in CallIds : Untaken(d)' <=> Untaken(d)
  BY <1>1, <1>2 DEF Untaken, Starts
<1>4. UntakenInv'
  BY <1>2, <1>3, UnopenedKept DEF QueueInv, UntakenInv
<1>5. OnceInv'
  <2>1. \A n \in DOMAIN updates' : updates'[n].type \in Starts => n \in DOMAIN updates
    BY <1>1, <1>2 DEF Update
  <2> QED
    BY <1>2, <2>1 DEF QueueInv, OnceInv
<1>6. PlacedInv'
  BY <1>1, <1>2 DEF QueueInv, PlacedInv, Starts
<1>7. AnsweredInv'
  <2> SUFFICES ASSUME current.state = "unanswered", Dispatched("answer_call", current.call)'
               PROVE  \/ current.call \in left
                      \/ \E n \in DOMAIN stack : /\ stack[n].at = 0
                                                 /\ stack[n].call = current.call
    BY DEF AnsweredInv
  <2>1. current = [call |-> current.call, state |-> "unanswered"]
    BY DEF Types, ReducerOK, Currents, NoCall
  <2>2. Dispatched("answer_call", current.call) \/ (t = "answer_call" /\ current.call = c)
    BY <1>2
  <2> QED
    BY <2>1, <2>2 DEF QueueInv, AnsweredInv, RingsNow
<1> QED
  BY <1>4, <1>5, <1>6, <1>7 DEF QueueInv

\* Screens may go, and something may be told, but nobody ends the call that rings.
LEMMA RingingKept ==
  ASSUME RingingInv, current' = current, SameScreens,
         \A n \in DOMAIN stack' : \E m \in DOMAIN stack : stack'[n] = stack[m],
         \A c \in CallIds : Dispatched("end_call", c)' => Dispatched("end_call", c) \/ ~RingsNow(c)
  PROVE  RingingInv'
  BY UnopenedKept DEF RingingInv, RingsNow

LEMMA RingEndsKept ==
  ASSUME ReducerOK, RingEnds, current' = current, NEW t \in Kinds, NEW c \in used',
         used \subseteq used', Dispatch(t, c), ringing' = ringing \/ t = "decline_call"
  PROVE  RingEnds'
<1>1. \A n \in DOMAIN updates : n \in DOMAIN updates' /\ updates'[n] = updates[n]
  BY Dispatching
<1>2. Len(updates) + 1 \in DOMAIN updates' /\ updates'[Len(updates) + 1] = Update(t, c)
  BY Dispatching
<1>3. t = "decline_call" => \E n \in DOMAIN updates' : updates'[n].type = "decline_call"
  BY <1>2 DEF Update
<1> QED
  BY <1>1, <1>3 DEF RingEnds

LEMMA RingIsOwnKept ==
  ASSUME RingIsOwn, ringing' \subseteq ringing, crossed' = crossed, current' = current
  PROVE  RingIsOwn'
  BY DEF RingIsOwn

\* The parts that do not look at the queue.
LEMMA ScreensKept ==
  ASSUME StackInv, OngoingInv, SessionInv,
         UNCHANGED <<current, stack, opened, remounts, left, crossed>>
  PROVE  StackInv' /\ OngoingInv' /\ SessionInv'
<1>1. StackInv'
  BY DEF StackInv
<1>2. OngoingInv'
  BY DEF OngoingInv, HasScreen, Shown, Screens
<1>3. SessionInv'
  BY DEF SessionInv, Shown, Screens
<1> QED
  BY <1>1, <1>2, <1>3

\* A call is answered, declined or ended and nothing else changes but timers.
LEMMA InvTold ==
  ASSUME Types, CallInv, used' = used,
         NEW t \in {"answer_call", "decline_call", "end_call"}, NEW c \in used,
         Dispatch(t, c), UNCHANGED <<latest, fresh, current, screens, crossed>>,
         ringing' \subseteq ringing, ringing' = ringing \/ t = "decline_call",
         t # "end_call",
         t # "decline_call" => ~Untaken(c),
         t = "answer_call" /\ RingsNow(c) =>
           c \in left \/ \E n \in DOMAIN stack : stack[n].at = 0 /\ stack[n].call = c
  PROVE  CallInv'
<1>0. /\ ReducerOK /\ t \in Kinds
      /\ UNCHANGED <<stack, opened, remounts, left>> /\ SameScreens
  BY SameOpened DEF Types, Kinds, screens
<1>1. QueueInv'
  BY <1>0, QueueTold DEF CallInv
<1>2. StackInv' /\ OngoingInv' /\ SessionInv'
  BY <1>0, ScreensKept DEF CallInv, ScreenInv
<1>3. RingingInv'
  <2>1. \A d : Dispatched("end_call", d)' => Dispatched("end_call", d)
    BY <1>0, Dispatching
  <2> QED
    BY <1>0, <2>1, RingingKept DEF CallInv, ScreenInv
<1>4. RingEnds'
  BY <1>0, RingEndsKept DEF CallInv
<1>5. RingIsOwn'
  BY RingIsOwnKept DEF CallInv
<1> QED
  BY <1>1, <1>2, <1>3, <1>4, <1>5 DEF CallInv, ScreenInv

-----------------------------------------------------------------------------
(* The invariant, step by step *)

\* A call that is not there yet is nowhere.
LEMMA NewCall ==
  ASSUME Types, NEW c, c \notin used, c # None
  PROVE  /\ current.call # c /\ ~(fresh /\ latest = c)
         /\ \A n \in DOMAIN stack : c \notin {stack[n].call, stack[n].born}
         /\ Unopened(c)
         /\ \A t : ~Dispatched(t, c)
         /\ \A n \in DOMAIN updates : updates[n].call # c
<1>1. current.call # c
  BY DEF Types, ReducerOK, Currents, NoCall
<1>2. \A n \in DOMAIN stack : c \notin {stack[n].call, stack[n].born}
  BY StackFacts DEF Routes, RoutesTo
<1>5. Unopened(c)
  BY StackFacts DEF Sessions, Unopened
<1>3. \A t : ~Dispatched(t, c)
  BY DispatchedCalls DEF Types
<1>4. \A n \in DOMAIN updates : updates[n].call # c
  <2>1. \A n \in DOMAIN updates : updates[n] \in Actions
    BY DEF Types, ReducerOK
  <2> QED
    BY <2>1 DEF Actions
<1> QED
  BY <1>1, <1>2, <1>3, <1>4, <1>5 DEF Types, SlotOK

LEMMA InvReceive ==
  ASSUME Types, CallInv, NEW c \in CallIds, Receive(c)
  PROVE  CallInv'
<1>1. /\ c \notin used /\ latest' = c /\ fresh' = TRUE
      /\ UNCHANGED <<current, updates, stack, opened, remounts, left, crossed, ringing>>
      /\ SameScreens
  BY SameOpened DEF Receive, reducer, screens
<1>2. /\ current.call # c /\ ~(fresh /\ latest = c)
      /\ \A n \in DOMAIN stack : c \notin {stack[n].call, stack[n].born}
      /\ Unopened(c)
      /\ \A t : ~Dispatched(t, c)
      /\ \A n \in DOMAIN updates : updates[n].call # c
  BY <1>1, NewCall, NoneAssumption
<1>3. \A t, d : Dispatched(t, d)' <=> Dispatched(t, d)
  BY <1>1 DEF Dispatched
<1>4. UntakenInv'
  <2>1. \A d : Untaken(d)' => d = c \/ Untaken(d)
    BY <1>1, <1>3 DEF Untaken
  <2> QED
    BY <1>1, <1>2, <1>3, <2>1, UnopenedKept DEF CallInv, QueueInv, UntakenInv
<1>5. OnceInv'
  BY <1>1, <1>2 DEF CallInv, QueueInv, OnceInv
<1>6. PlacedInv' /\ AnsweredInv'
  BY <1>1, <1>3 DEF CallInv, QueueInv, PlacedInv, AnsweredInv
<1>7. ScreenInv'
  <2>1. StackInv' /\ OngoingInv' /\ SessionInv'
    BY <1>1, ScreensKept DEF CallInv, ScreenInv
  <2>2. RingingInv'
    BY <1>1, <1>3, RingingKept DEF CallInv, ScreenInv
  <2> QED
    BY <2>1, <2>2 DEF ScreenInv
<1>8. RingIsOwn' /\ RingEnds'
  BY <1>1 DEF CallInv, RingIsOwn, RingEnds
<1> QED
  BY <1>4, <1>5, <1>6, <1>7, <1>8 DEF CallInv, QueueInv

\* A call that waits from now on in the queue, and nowhere else.
LEMMA QueueStarts ==
  ASSUME Types, QueueInv, used \subseteq used', NEW t \in Starts, NEW c \in used', Dispatch(t, c),
         c # None, UNCHANGED <<latest, current, stack, left>>, SameScreens, fresh' => fresh,
         \A n \in DOMAIN updates : updates[n].type \in Starts => updates[n].call # c,
         ~(fresh' /\ latest = c),
         Untaken(c) \/ c \notin used,
         t = "outgoing_call" => stack = <<>>
  PROVE  QueueInv'
<1>1. ReducerOK /\ t \in Kinds
  BY DEF Types, Kinds, Starts
<1>2. /\ DOMAIN updates = 1..Len(updates)
      /\ \A n \in DOMAIN updates : n \in DOMAIN updates' /\ updates'[n] = updates[n]
      /\ updates'[Len(updates) + 1] = Update(t, c)
      /\ \A n \in DOMAIN updates' : n \in DOMAIN updates \/ n = Len(updates) + 1
      /\ \A x, d : Dispatched(x, d)' <=> Dispatched(x, d) \/ (x = t /\ d = c)
  BY <1>1, Dispatching
<1>3. UntakenInv'
  <2>1. \A d : Untaken(d)' => d = c \/ Untaken(d)
    BY <1>2 DEF Untaken
  <2>2. \A d : /\ Dispatched("answer_call", d)' => Dispatched("answer_call", d)
               /\ Dispatched("end_call", d)' => Dispatched("end_call", d)
    BY <1>2 DEF Starts
  <2>3. \A d \in CallIds : Untaken(d) =>
          /\ current.call # d /\ Unopened(d)
          /\ \A n \in DOMAIN stack : d \notin {stack[n].call, stack[n].born}
          /\ ~Dispatched("answer_call", d) /\ ~Dispatched("end_call", d)
    BY DEF QueueInv, UntakenInv
  <2>4. c \notin used =>
          /\ current.call # c /\ Unopened(c)
          /\ \A n \in DOMAIN stack : c \notin {stack[n].call, stack[n].born}
          /\ ~Dispatched("answer_call", c) /\ ~Dispatched("end_call", c)
    BY NewCall
  <2> QED
    BY <2>1, <2>2, <2>3, <2>4, UnopenedKept DEF UntakenInv
<1>4. OnceInv'
  <2> SUFFICES ASSUME NEW n \in DOMAIN updates', updates'[n].type \in Starts
               PROVE  /\ ~(fresh' /\ latest' = updates'[n].call)
                      /\ \A m \in DOMAIN updates' :
                           updates'[m].type \in Starts /\ updates'[m].call = updates'[n].call
                             => m = n
    BY DEF OnceInv
  <2>1. updates'[Len(updates) + 1].call = c
    BY <1>2 DEF Update
  <2>2. CASE n \in DOMAIN updates
    BY <1>2, <2>1, <2>2 DEF QueueInv, OnceInv
  <2>3. CASE n = Len(updates) + 1
    BY <1>2, <2>1, <2>3
  <2> QED
    BY <1>2, <2>2, <2>3
<1>5. PlacedInv'
  BY <1>2 DEF QueueInv, PlacedInv
<1>6. AnsweredInv'
  BY <1>2 DEF QueueInv, AnsweredInv, Starts
<1> QED
  BY <1>3, <1>4, <1>5, <1>6 DEF QueueInv

LEMMA InvStarts ==
  ASSUME Types, CallInv, used \subseteq used', NEW t \in Starts, NEW c \in used', Dispatch(t, c),
         UNCHANGED <<current, screens, crossed, ringing>>, QueueInv'
  PROVE  CallInv'
<1>0. /\ ReducerOK /\ t \in Kinds
      /\ UNCHANGED <<stack, opened, remounts, left>> /\ SameScreens
  BY SameOpened DEF Types, Kinds, Starts, screens
<1>1. StackInv' /\ OngoingInv' /\ SessionInv'
  BY <1>0, ScreensKept DEF CallInv, ScreenInv
<1>2. RingingInv'
  <2>1. \A d : Dispatched("end_call", d)' => Dispatched("end_call", d)
    BY <1>0, Dispatching DEF Starts
  <2> QED
    BY <1>0, <2>1, RingingKept DEF CallInv, ScreenInv
<1>3. RingEnds'
  BY <1>0, RingEndsKept DEF CallInv
<1>4. RingIsOwn'
  BY RingIsOwnKept DEF CallInv
<1> QED
  BY <1>1, <1>2, <1>3, <1>4 DEF CallInv, ScreenInv

LEMMA InvPlaceCall ==
  ASSUME Types, CallInv, NEW c \in CallIds, PlaceCall(c)
  PROVE  CallInv'
<1>1. /\ c \notin used /\ c # None /\ used \subseteq used' /\ c \in used' /\ stack = <<>>
      /\ Dispatch("outgoing_call", c)
      /\ UNCHANGED <<latest, fresh, current, screens, stack, left, crossed, ringing>>
      /\ SameScreens
  BY NoneAssumption, SameOpened DEF PlaceCall, reducer, screens
<1>2. ~(fresh /\ latest = c) /\ \A n \in DOMAIN updates : updates[n].call # c
  BY <1>1, NewCall
<1>3. QueueInv'
  BY <1>1, <1>2, QueueStarts DEF CallInv, Starts
<1> QED
  BY <1>1, <1>3, InvStarts DEF Starts

LEMMA InvTakeUp ==
  ASSUME Types, CallInv, TakeUp
  PROVE  CallInv'
<1>1. /\ latest \in used /\ used' = used /\ latest # None /\ fresh /\ fresh' = FALSE
      /\ Dispatch("incoming_call", latest)
      /\ UNCHANGED <<latest, current, screens, stack, left, crossed, ringing>>
      /\ SameScreens
  BY NoneAssumption, SameOpened DEF TakeUp, reducer, screens, Types, SlotOK
<1>2. Untaken(latest) /\ \A n \in DOMAIN updates : updates[n].type \in Starts => updates[n].call # latest
  BY <1>1 DEF Untaken, CallInv, QueueInv, OnceInv
<1>3. QueueInv'
  BY <1>1, <1>2, QueueStarts DEF CallInv, Starts
<1> QED
  BY <1>1, <1>3, InvStarts DEF Starts

LEMMA InvCalls ==
  ASSUME Types, CallInv, NEW c \in CallIds, CallNext(c)
  PROVE  CallInv'
<1>1. CASE Receive(c)
  BY <1>1, InvReceive
<1>2. CASE PlaceCall(c)
  BY <1>2, InvPlaceCall
<1>3. CASE RingTimeout(c)
  <2>1. /\ c \in used /\ used' = used /\ Dispatch("decline_call", c) /\ ringing' \subseteq ringing
        /\ UNCHANGED <<latest, fresh, current, screens, crossed>>
    BY <1>3 DEF RingTimeout, slot, Types, ReducerOK
  <2> QED
    BY <2>1, InvTold
<1>4. CASE StartInOS(c) \/ EndsInCallKit(c) \/ PressNotification(c)
  <2>1. UNCHANGED <<latest, fresh, updates, current, screens, crossed, ringing>>
    BY <1>4 DEF StartInOS, EndsInCallKit, PressNotification, slot, reducer
  <2> QED
    BY <2>1, InvKept
<1>5. CASE OnEnd(c)
  <2>1. /\ c \in used /\ used' = used /\ Dispatch("decline_call", c) /\ ringing' = ringing
        /\ UNCHANGED <<latest, fresh, current, screens, crossed>>
    BY <1>5 DEF OnEnd, slot, reducer, Types, ServiceOK
  <2> QED
    BY <2>1, InvTold
<1> QED
  BY <1>1, <1>2, <1>3, <1>4, <1>5 DEF CallNext

\* Taking the screen in front away leaves every other one where it is.
LEMMA PoppedFacts ==
  ASSUME Types, stack # <<>>, stack' = Front(stack)
  PROVE  /\ Len(stack) \in DOMAIN stack /\ Last(stack) = stack[Len(stack)]
         /\ \A n \in DOMAIN stack' : n \in DOMAIN stack /\ n # Len(stack) /\ stack'[n] = stack[n]
         /\ \A n \in DOMAIN stack : n = Len(stack) \/ (n \in DOMAIN stack' /\ stack'[n] = stack[n])
<1>1. stack \in Seq(Routes)
  BY DEF Types, ScreensOK
<1>2. PICK k \in Nat \ {0} : k = Len(stack) /\ DOMAIN stack = 1..k /\ Last(stack) = stack[k]
  BY <1>1, FrontFacts
<1>3. /\ Front(stack) \in Seq(Routes) /\ Len(Front(stack)) = k - 1
      /\ \A n \in 1..(k - 1) : Front(stack)[n] = stack[n]
  BY <1>1, <1>2, FrontFacts
<1>4. DOMAIN stack' = 1..(k - 1)
  BY <1>3
<1>5. k \in 1..k /\ \A n \in 1..(k - 1) : n \in 1..k /\ n # k
  OBVIOUS
<1>6. \A n \in 1..k : n = k \/ n \in 1..(k - 1)
  OBVIOUS
<1> QED
  BY <1>2, <1>3, <1>4, <1>5, <1>6

\* What shrinking the stack leaves of the queue's part, given that whoever is answered
\* there is accounted for.
LEMMA QueuePopped ==
  ASSUME Types, QueueInv, stack # <<>>, stack' = Front(stack), left \subseteq left',
         UNCHANGED <<latest, fresh, current, updates>>, SameScreens,
         stack[Len(stack)].at # 0 \/ stack[Len(stack)].call \in left'
  PROVE  QueueInv'
<1>1. \A t, d : Dispatched(t, d)' <=> Dispatched(t, d)
  BY DEF Dispatched
<1>2. /\ \A n \in DOMAIN stack' : n \in DOMAIN stack /\ stack'[n] = stack[n]
      /\ \A n \in DOMAIN stack : n = Len(stack) \/ (n \in DOMAIN stack' /\ stack'[n] = stack[n])
  BY PoppedFacts
<1>3. UntakenInv'
  <2>1. \A d : Untaken(d)' <=> Untaken(d)
    BY <1>1 DEF Untaken
  <2> QED
    BY <1>1, <1>2, <2>1, UnopenedKept DEF QueueInv, UntakenInv
<1>4. OnceInv'
  BY DEF QueueInv, OnceInv
<1>5. PlacedInv'
  BY <1>1 DEF QueueInv, PlacedInv
<1>6. AnsweredInv'
  <2> SUFFICES ASSUME current.state = "unanswered", Dispatched("answer_call", current.call),
                      current.call \notin left'
               PROVE  \E n \in DOMAIN stack' : stack'[n].at = 0 /\ stack'[n].call = current.call
    BY <1>1 DEF AnsweredInv
  <2>1. PICK n \in DOMAIN stack : stack[n].at = 0 /\ stack[n].call = current.call
    BY DEF QueueInv, AnsweredInv
  <2>2. n # Len(stack)
    BY <2>1
  <2> QED
    BY <1>2, <2>1, <2>2
<1> QED
  BY <1>3, <1>4, <1>5, <1>6 DEF QueueInv

LEMMA InvIncoming ==
  ASSUME Types, CallInv, NEW n \in DOMAIN stack, IncomingNext(n)
  PROVE  CallInv'
<1>1. {stack[n].call, stack[n].born} \subseteq used /\ used \subseteq CallIds
  BY StackFacts DEF Routes, RoutesTo, Types, SlotOK
<1>2. CASE BackFromIncoming(n)
  <2>1. /\ n = Len(stack) /\ stack[n].at = 0 /\ stack # <<>> /\ stack' = Front(stack)
        /\ left' = left \cup {stack[n].call}
        /\ UNCHANGED <<latest, fresh, current, updates, opened, remounts, crossed, ringing>>
        /\ SameScreens
    BY <1>2, StackFacts, SameOpened DEF BackFromIncoming, Incoming, InFront, slot, reducer
  <2>2. /\ \A m \in DOMAIN stack' : m \in DOMAIN stack /\ m # n /\ stack'[m] = stack[m]
        /\ \A m \in DOMAIN stack : m = n \/ (m \in DOMAIN stack' /\ stack'[m] = stack[m])
    BY <2>1, PoppedFacts
  <2>3. \A t, d : Dispatched(t, d)' <=> Dispatched(t, d)
    BY <2>1 DEF Dispatched
  <2>4. QueueInv'
    BY <2>1, QueuePopped DEF CallInv
  <2>5. \A i \in Screens : Screens' = Screens /\ (Shown(i)' <=> Shown(i))
    <3>1. \A i \in Screens : i # 0
      BY StackFacts
    <3> QED
      BY <2>1, <2>2, <3>1 DEF Shown, Screens
  <2>6. StackInv'
    BY <2>1, <2>2 DEF CallInv, ScreenInv, StackInv
  <2>7. RingingInv'
    BY <2>1, <2>2, <2>3, RingingKept DEF CallInv, ScreenInv
  <2>8. OngoingInv'
    BY <2>1, <2>5 DEF CallInv, ScreenInv, OngoingInv, HasScreen, Screens
  <2>9. SessionInv'
    BY <2>1, <2>5 DEF CallInv, ScreenInv, SessionInv, Screens
  <2>10. RingIsOwn' /\ RingEnds'
    BY <2>1 DEF CallInv, RingIsOwn, RingEnds
  <2> QED
    BY <2>4, <2>6, <2>7, <2>8, <2>9, <2>10 DEF CallInv, ScreenInv
<1>3. ASSUME NEW t \in {"answer_call", "decline_call"}, NEW c \in {stack[n].call, stack[n].born},
             Dispatch(t, c), UNCHANGED <<slot, reducer, service, screens>>, Incoming(n)
      PROVE  CallInv'
  <2>1. ~Untaken(c)
    BY <1>1 DEF CallInv, QueueInv, UntakenInv
  <2>2. RingsNow(c) => stack[n].at = 0 /\ stack[n].call = c
    BY <1>1, <1>3 DEF Incoming, RingsNow, CallInv, ScreenInv, RingingInv
  <2>3. used' = used /\ ringing' = ringing /\ UNCHANGED <<latest, fresh, current, screens, crossed>>
    BY <1>3 DEF slot, reducer
  <2> QED
    BY <1>1, <1>3, <2>1, <2>2, <2>3, InvTold
<1> QED
  BY <1>2, <1>3 DEF IncomingNext, PressAccept, PressDecline, PressButton, checkNativeCallState

\* What an ongoing-call screen does to its session.
LEMMA ScreensBecome ==
  ASSUME Types, StackInv, OngoingInv, SessionInv, NEW i \in Screens, NEW s \in Sessions,
         Becomes(i, s), UNCHANGED <<current, stack, remounts, left, crossed>>,
         s.call = opened[i].call, s.provider = opened[i].provider,
         opened[i].stage = "denied" => s.stage = "denied",
         s.over = "no" => Shown(i),
         s.over = "clean" => s.stage = "ready" /\ s.peer # "config" /\ ~InUse(s)
  PROVE  StackInv' /\ OngoingInv' /\ SessionInv' /\ SameScreens
<1>1. /\ Screens' = Screens /\ opened'[i] = s
      /\ \A j \in Screens : j # i => opened'[j] = opened[j]
  BY BecomesFacts DEF Types
<1>2. \A j \in Screens : /\ opened'[j].call = opened[j].call
                         /\ opened'[j].provider = opened[j].provider
                         /\ opened[j].stage = "denied" => opened'[j].stage = "denied"
  BY <1>1
<1>3. \A j : Shown(j)' <=> Shown(j)
  BY DEF Shown
<1>4. StackInv'
  <2>1. \A n \in DOMAIN stack : stack[n].at # 0 => stack[n].at \in Screens
    BY StackFacts DEF Routes, RoutesTo
  <2> QED
    BY <1>2, <2>1 DEF StackInv
<1>5. OngoingInv'
  BY <1>1, <1>2, <1>3 DEF OngoingInv, HasScreen
<1>6. SessionInv'
  BY <1>1, <1>3 DEF SessionInv
<1>7. SameScreens
  BY <1>1, <1>2 DEF SameScreens
<1> QED
  BY <1>4, <1>5, <1>6, <1>7

LEMMA InvOngoing ==
  ASSUME Types, CallInv, NEW i \in Screens, OngoingNext(i)
  PROVE  CallInv'
<1>1. opened[i] \in Sessions /\ opened[i].call \in used /\ used \subseteq CallIds /\ i # 0
  BY StackFacts DEF Sessions, Types, SlotOK
<1>2. CASE \/ StreamStarts(i) \/ StreamDenied(i) \/ setupCall(i)
           \/ PeerConnectionInit(i) \/ PeerConnected(i)
  <2>1. UNCHANGED <<latest, fresh, current, updates, stack, remounts, left, crossed, ringing>>
    BY <1>2, QuietSteps DEF callState, slot, reducer
  <2>2. PICK s \in Sessions :
          /\ Becomes(i, s) /\ s.call = opened[i].call /\ s.over = opened[i].over
          /\ s.provider = opened[i].provider
          /\ opened[i].stage = "denied" => s.stage = "denied"
          /\ opened[i].stage # "ready" \/ opened[i].peer = "config" \/ InUse(opened[i])
    BY <1>2, QuietSteps
  <2>3. (s.over = "no" => Shown(i)) /\ s.over # "clean"
    BY <2>2 DEF CallInv, ScreenInv, SessionInv
  <2>4. StackInv' /\ OngoingInv' /\ SessionInv' /\ SameScreens
    BY <2>1, <2>2, <2>3, ScreensBecome DEF CallInv, ScreenInv
  <2>5. \A t, d : Dispatched(t, d)' <=> Dispatched(t, d)
    BY <2>1 DEF Dispatched
  <2>6. RingingInv'
    BY <2>1, <2>4, <2>5, RingingKept DEF CallInv, ScreenInv
  <2>7. QueueInv'
    <3>1. \A d : (Untaken(d)' <=> Untaken(d)) /\ (Unopened(d)' <=> Unopened(d))
      BY <2>1, <2>4, <2>5, UnopenedKept DEF Untaken
    <3> QED
      BY <2>1, <2>5, <3>1 DEF CallInv, QueueInv, UntakenInv, OnceInv, PlacedInv, AnsweredInv
  <2>8. RingIsOwn' /\ RingEnds'
    BY <2>1 DEF CallInv, RingIsOwn, RingEnds
  <2> QED
    BY <2>4, <2>6, <2>7, <2>8 DEF CallInv, ScreenInv
<1>3. CASE CloseDenied(i)
  <2>1. /\ stack # <<>> /\ Last(stack).at = i /\ opened[i].stage = "denied"
        /\ stack' = Front(stack)
        /\ UNCHANGED <<latest, fresh, current, updates, remounts, left, crossed, ringing>>
    BY <1>3 DEF CloseDenied, slot, reducer
  <2>2. /\ Len(stack) \in DOMAIN stack /\ stack[Len(stack)].at = i
        /\ \A m \in DOMAIN stack' : m \in DOMAIN stack /\ m # Len(stack) /\ stack'[m] = stack[m]
        /\ \A m \in DOMAIN stack : m = Len(stack) \/ (m \in DOMAIN stack' /\ stack'[m] = stack[m])
    BY <2>1, PoppedFacts
  <2>3. /\ Screens' = Screens
        /\ \A j \in Screens :
             /\ opened'[j].call = opened[j].call /\ opened'[j].stage = opened[j].stage
             /\ opened'[j].provider = opened[j].provider
             /\ opened'[j].over = "no" => Shown(j)'
             /\ opened'[j].over = "clean" => opened'[j] = opened[j]
        /\ SameScreens
    BY <1>3, <2>1, ClosedFacts DEF SameScreens
  <2>4. QueueInv'
    BY <1>1, <2>1, <2>2, <2>3, QueuePopped DEF CallInv
  <2>5. StackInv'
    <3>1. \A m \in DOMAIN stack : stack[m].at # 0 => stack[m].at \in Screens
      BY StackFacts DEF Routes, RoutesTo
    <3>2. \A m \in DOMAIN stack' : stack'[m].at # 0
      BY <2>2 DEF CallInv, ScreenInv, StackInv
    <3>3. current # NoCall
      BY <2>1 DEF CallInv, ScreenInv, StackInv
    <3> QED
      BY <2>1, <2>2, <2>3, <3>1, <3>2, <3>3 DEF CallInv, ScreenInv, StackInv
  <2>6. RingingInv'
    <3>1. \A t, d : Dispatched(t, d)' <=> Dispatched(t, d)
      BY <2>1 DEF Dispatched
    <3> QED
      BY <2>1, <2>2, <2>3, <3>1, RingingKept DEF CallInv, ScreenInv
  <2>7. OngoingInv'
    <3>1. \A j \in Screens : Shown(j) => Shown(j)' \/ j = i
      BY <2>2 DEF Shown
    <3> QED
      BY <2>1, <2>3, <3>1 DEF CallInv, ScreenInv, OngoingInv, HasScreen
  <2>8. SessionInv'
    BY <2>3 DEF CallInv, ScreenInv, SessionInv
  <2>9. RingIsOwn' /\ RingEnds'
    BY <2>1 DEF CallInv, RingIsOwn, RingEnds
  <2> QED
    BY <2>4, <2>5, <2>6, <2>7, <2>8, <2>9 DEF CallInv, ScreenInv
<1>4. ASSUME NEW s \in Sessions, Becomes(i, s), s.call = opened[i].call,
             s.provider = opened[i].provider, opened[i].stage = "denied" => s.stage = "denied",
             s.over = "no" => Shown(i),
             s.over = "clean" => s.stage = "ready" /\ s.peer # "config" /\ ~InUse(s),
             UNCHANGED callState, opened[i].provider = remounts,
             Dispatch("end_call", opened[i].call)
      PROVE  CallInv'
  <2>1. /\ used' = used
        /\ UNCHANGED <<latest, fresh, current, stack, remounts, left, crossed, ringing>>
    BY <1>4 DEF callState, slot, reducer
  <2>2. ~Untaken(opened[i].call)
    BY <1>1, <1>4 DEF CallInv, QueueInv, UntakenInv, Unopened
  <2>3. ~RingsNow(opened[i].call)
    BY <1>1, <1>4 DEF RingsNow, CallInv, ScreenInv, RingingInv, Unopened
  <2>4. StackInv' /\ OngoingInv' /\ SessionInv' /\ SameScreens
    BY <1>1, <1>4, <2>1, ScreensBecome DEF CallInv, ScreenInv
  <2>5. QueueInv'
    BY <1>1, <1>4, <2>1, <2>2, <2>4, QueueTold DEF CallInv
  <2>6. RingingInv'
    <3>1. \A d : Dispatched("end_call", d)' => Dispatched("end_call", d) \/ d = opened[i].call
      BY <1>1, <1>4, <2>1, Dispatching DEF Types, Kinds
    <3> QED
      BY <2>1, <2>3, <2>4, <3>1, RingingKept DEF CallInv, ScreenInv
  <2>7. RingEnds'
    BY <1>1, <1>4, <2>1, RingEndsKept DEF CallInv, Types, Kinds
  <2>8. RingIsOwn'
    BY <2>1, RingIsOwnKept DEF CallInv
  <2> QED
    BY <2>4, <2>5, <2>6, <2>7, <2>8 DEF CallInv, ScreenInv
<1>5. CASE HangUp(i) \/ PeerEnds(i)
  <2>1. endCall(i) /\ Shown(i)
    <3>1. CASE HangUp(i)
      <4>1. stack # <<>> /\ stack \in Seq(Routes) /\ Last(stack).at = i /\ endCall(i)
        BY <3>1 DEF HangUp, Types, ScreensOK
      <4>2. Len(stack) \in DOMAIN stack /\ Last(stack) = stack[Len(stack)]
        <5>1. Len(stack) \in Nat \ {0} /\ Last(stack) = stack[Len(stack)]
              /\ DOMAIN stack = 1..Len(stack)
          BY <4>1, FrontFacts
        <5> QED
          BY <5>1
      <4> QED
        BY <4>1, <4>2 DEF Shown
    <3>2. CASE PeerEnds(i)
      BY <3>2 DEF PeerEnds
    <3> QED
      BY <1>5, <3>1, <3>2
  <2>2. opened[i].provider = remounts
    BY <1>1, <2>1 DEF Shown, CallInv, ScreenInv, StackInv
  <2> QED
    BY <1>1, <1>4, <2>1, <2>2, CleanedFacts DEF endCall
<1>6. CASE SetupFails(i)
  <2>1. PICK s \in Sessions :
          /\ Becomes(i, s) /\ s.call = opened[i].call /\ s.provider = opened[i].provider
          /\ s.over # "no" /\ (s.over = "clean" => opened[i].over = "clean")
    BY <1>6, FailedFacts
  <2>2. opened[i].stage = "chat" /\ s.over \notin {"no", "clean"} /\ UNCHANGED callState
    BY <1>6, <2>1, FailedFacts DEF CallInv, ScreenInv, SessionInv
  <2>3. CASE updates' = updates
    <3>1. UNCHANGED <<latest, fresh, current, updates, stack, remounts, left, crossed, ringing>>
      BY <2>2, <2>3 DEF callState, slot, reducer
    <3>2. StackInv' /\ OngoingInv' /\ SessionInv' /\ SameScreens
      BY <2>1, <2>2, <3>1, ScreensBecome DEF CallInv, ScreenInv
    <3>3. \A t, d : Dispatched(t, d)' <=> Dispatched(t, d)
      BY <3>1 DEF Dispatched
    <3>4. RingingInv'
      BY <3>1, <3>2, <3>3, RingingKept DEF CallInv, ScreenInv
    <3>5. QueueInv'
      <4>1. \A d : (Untaken(d)' <=> Untaken(d)) /\ (Unopened(d)' <=> Unopened(d))
        BY <3>1, <3>2, <3>3, UnopenedKept DEF Untaken
      <4> QED
        BY <3>1, <3>3, <4>1 DEF CallInv, QueueInv, UntakenInv, OnceInv, PlacedInv, AnsweredInv
    <3>6. RingIsOwn' /\ RingEnds'
      BY <3>1 DEF CallInv, RingIsOwn, RingEnds
    <3> QED
      BY <3>2, <3>4, <3>5, <3>6 DEF CallInv, ScreenInv
  <2>4. CASE opened[i].provider = remounts /\ Dispatch("end_call", opened[i].call)
    BY <1>4, <2>1, <2>2, <2>4
  <2> QED
    BY <1>6, <2>3, <2>4, FailedFacts
<1> QED
  BY <1>2, <1>3, <1>5, <1>6 DEF OngoingNext

LEMMA InvRemount ==
  ASSUME Types, CallInv, Remount
  PROVE  CallInv'
<1>1. /\ current' = NoCall /\ updates' = <<>> /\ ringing' = {} /\ stack' = <<>>
      /\ opened' = Unmounted(opened, stack')
  BY DEF Remount
<1>2. \A t, d : ~Dispatched(t, d)'
  BY <1>1 DEF Dispatched
<1>3. /\ Screens' = Screens
      /\ \A j \in Screens : /\ opened'[j].over = "no" => Shown(j)'
                            /\ opened'[j].over = "clean" => opened'[j] = opened[j]
                            /\ opened'[j].provider = opened[j].provider
  BY <1>1, UnmountedFacts DEF Types, ScreensOK, Screens, Shown
<1>8. \A c : Unopened(c)'
  <2>1. remounts \in Nat /\ remounts' = remounts + 1
    BY CallsAssumption DEF Remount, Types, ScreensOK
  <2>2. \A j \in Screens : opened[j].provider \in 0..remounts
    BY StackFacts DEF Sessions
  <2>3. \A j \in Screens : opened[j].provider # remounts'
    BY <2>1, <2>2
  <2> QED
    BY <1>3, <2>3 DEF Unopened
<1>4. QueueInv'
  BY <1>1, <1>2, <1>8, NoneAssumption
  DEF QueueInv, UntakenInv, OnceInv, PlacedInv, AnsweredInv, NoCall
<1>5. StackInv' /\ RingingInv' /\ OngoingInv'
  BY <1>1, <1>2 DEF StackInv, RingingInv, OngoingInv, NoCall
<1>6. SessionInv'
  BY <1>3 DEF CallInv, ScreenInv, SessionInv
<1>7. RingIsOwn' /\ RingEnds'
  BY <1>1 DEF RingIsOwn, RingEnds, NoCall
<1> QED
  BY <1>4, <1>5, <1>6, <1>7 DEF CallInv, ScreenInv

-----------------------------------------------------------------------------
(* The render *)

\* An ongoing screen that was in its place before.
OldOngoing(n, x) == n \in DOMAIN stack /\ x = stack[n] /\ x.at # 0

\* A screen put on top, over the ongoing screens that were there.
LEMMA PushedFacts ==
  ASSUME Types, StackInv, NEW T, Routes \subseteq T, NEW x \in T, NEW s, s = Append(Under, x)
  PROVE  /\ s \in Seq(T)
         /\ Len(s) \in DOMAIN s /\ s[Len(s)] = x
         /\ \A n \in DOMAIN s : n = Len(s) \/ OldOngoing(n, s[n])
<1>1. /\ Under \in Seq(Routes) /\ Len(Under) \in Nat /\ Len(Under) <= Len(stack)
      /\ \A n \in 1..Len(Under) : Under[n] = stack[n] /\ Under[n].at # 0
      /\ Len(stack) \in Nat /\ DOMAIN stack = 1..Len(stack)
  BY UnderFacts, StackFacts
<1>2. PICK j \in Nat, l \in Nat : j = Len(Under) /\ l = Len(stack) /\ j <= l
  BY <1>1
<1>3. Under \in Seq(T)
  BY <1>1, SeqMonotone
<1>4. /\ s \in Seq(T) /\ Len(s) = j + 1 /\ DOMAIN s = 1..(j + 1)
      /\ \A n \in 1..j : s[n] = Under[n]
      /\ s[j + 1] = x
  BY <1>2, <1>3, AppendFacts
<1>5. j + 1 \in 1..(j + 1) /\ \A n \in 1..(j + 1) : n = j + 1 \/ n \in 1..j
  OBVIOUS
<1>6. \A n \in 1..j : n \in 1..l
  BY <1>2
<1> QED
  BY <1>1, <1>2, <1>4, <1>5, <1>6 DEF OldOngoing

\* What any render leaves of the screens.
InPlace(v, n) ==
  IF v.stack[n].at = 0 THEN n = Len(v.stack)
  ELSE /\ v.opened[v.stack[n].at].call = v.stack[n].call
       /\ v.opened[v.stack[n].at].provider = remounts
GoodView(v) ==
  /\ v.opened \in Seq(Sessions) /\ v.stack \in Seq(RoutesTo(Len(v.opened)))
  /\ \A n \in DOMAIN v.stack : InPlace(v, n)
  /\ \A i \in Screens : i \in DOMAIN v.opened /\ v.opened[i] = opened[i]
  /\ \A i \in DOMAIN v.opened : i \in Screens \/ v.opened[i].over # "clean"

LEMMA GoodOld ==
  ASSUME Types, StackInv, NEW v, v.opened = opened, v.stack \in {stack, <<>>}
  PROVE  GoodView(v)
<1>1. opened \in Seq(Sessions) /\ stack \in Seq(Routes) /\ DOMAIN opened = Screens
  BY DEF Types, ScreensOK, Screens
<1>2. v.stack \in Seq(RoutesTo(Len(v.opened)))
  <2>1. Routes = RoutesTo(Len(v.opened))
    BY DEF Routes
  <2>2. CASE v.stack = stack
    BY <1>1, <2>1, <2>2
  <2>3. CASE v.stack = <<>>
    BY <2>3
  <2> QED
    BY <2>2, <2>3
<1>3. \A n \in DOMAIN v.stack : InPlace(v, n)
  BY DEF StackInv, InPlace
<1> QED
  BY <1>1, <1>2, <1>3 DEF GoodView

LEMMA GoodIncoming ==
  ASSUME Types, StackInv, NEW c \in used, NEW b \in used, NEW v,
         v.opened = opened, v.stack = Append(Under, [call |-> c, at |-> 0, born |-> b])
  PROVE  GoodView(v)
<1>1. opened \in Seq(Sessions) /\ DOMAIN opened = Screens /\ Len(opened) \in Nat
  BY DEF Types, ScreensOK, Screens
<1>2. /\ v.stack \in Seq(RoutesTo(Len(v.opened)))
      /\ v.stack[Len(v.stack)].at = 0
      /\ \A n \in DOMAIN v.stack : n = Len(v.stack) \/ OldOngoing(n, v.stack[n])
  <2>1. [call |-> c, at |-> 0, born |-> b] \in Routes /\ Routes = RoutesTo(Len(v.opened))
    BY <1>1 DEF Routes, RoutesTo
  <2>2. PICK x \in Routes : x = [call |-> c, at |-> 0, born |-> b] /\ x.at = 0
    BY <2>1
  <2>3. PICK s : s = v.stack /\ s = Append(Under, x)
    BY <2>2
  <2>4. s \in Seq(Routes) /\ s[Len(s)] = x
    BY <2>3, PushedFacts
  <2>5. \A n \in DOMAIN s : n = Len(s) \/ OldOngoing(n, s[n])
    BY <2>3, PushedFacts
  <2> QED
    BY <2>1, <2>2, <2>3, <2>4, <2>5
<1>3. \A n \in DOMAIN v.stack : InPlace(v, n)
  BY <1>2 DEF StackInv, InPlace, OldOngoing
<1> QED
  BY <1>1, <1>2, <1>3 DEF GoodView

LEMMA GoodOpening ==
  ASSUME Types, StackInv, NEW d \in used, NEW v, v = Opening(d)
  PROVE  /\ GoodView(v)
         /\ \E i \in DOMAIN v.opened : /\ v.opened[i].call = d
                                       /\ \E n \in DOMAIN v.stack : v.stack[n].at = i
         /\ \A n \in DOMAIN v.stack : (v.stack[n].call = d /\ v.stack[n].born = d)
              \/ \E m \in DOMAIN stack : v.stack[n] = stack[m]
         /\ \A i \in DOMAIN v.opened : i \in Screens \/ v.opened[i].call = d
<1>1. opened \in Seq(Sessions) /\ DOMAIN opened = Screens
  BY DEF Types, ScreensOK, Screens
<1>2. PICK k \in Nat : k = Len(opened) /\ Screens = 1..k
  BY <1>1
<1>3. /\ NewScreen(d) \in Sessions /\ NewScreen(d).call = d /\ NewScreen(d).over = "no"
      /\ NewScreen(d).provider = remounts
  <2>1. remounts \in 0..remounts
    BY CallsAssumption DEF Types, ScreensOK
  <2> QED
    BY <2>1 DEF NewScreen, Sessions
<1>4. /\ v.opened \in Seq(Sessions) /\ Len(v.opened) = k + 1 /\ DOMAIN v.opened = 1..(k + 1)
      /\ \A i \in 1..k : v.opened[i] = opened[i]
      /\ v.opened[k + 1] = NewScreen(d)
  BY <1>1, <1>2, <1>3, AppendFacts DEF Opening
<1>5. /\ v.stack \in Seq(RoutesTo(k + 1))
      /\ Len(v.stack) \in DOMAIN v.stack /\ v.stack[Len(v.stack)] = Screen(d, k + 1)
      /\ \A n \in DOMAIN v.stack : n = Len(v.stack) \/ OldOngoing(n, v.stack[n])
  <2>1. PICK T : T = RoutesTo(k + 1)
    OBVIOUS
  <2>2. PICK x : x = Screen(d, k + 1)
    OBVIOUS
  <2>3. Routes \subseteq T /\ x \in T
    <3>1. 0..k \subseteq 0..(k + 1) /\ k + 1 \in 0..(k + 1)
      OBVIOUS
    <3> QED
      BY <1>2, <2>1, <2>2, <3>1 DEF Routes, RoutesTo, Screen
  <2>4. PICK s : s = v.stack /\ s = Append(Under, x)
    BY <1>2, <2>2 DEF Opening
  <2>5. s \in Seq(T) /\ Len(s) \in DOMAIN s /\ s[Len(s)] = x
    BY <2>3, <2>4, PushedFacts
  <2>6. \A n \in DOMAIN s : n = Len(s) \/ OldOngoing(n, s[n])
    BY <2>3, <2>4, PushedFacts
  <2> QED
    BY <2>1, <2>2, <2>4, <2>5, <2>6
<1>6. k + 1 \in 1..(k + 1) /\ \A i \in 1..(k + 1) : i = k + 1 \/ i \in 1..k
  OBVIOUS
<1>7. \A i \in 1..k : i \in 1..(k + 1)
  OBVIOUS
<1>8. \A n \in DOMAIN stack : stack[n].at # 0 => stack[n].at \in Screens
  BY StackFacts DEF Routes, RoutesTo
<1>9. \A n \in DOMAIN v.stack : InPlace(v, n)
  <2> SUFFICES ASSUME NEW n \in DOMAIN v.stack
               PROVE  /\ v.stack[n].at # 0 /\ v.opened[v.stack[n].at].call = v.stack[n].call
                      /\ v.opened[v.stack[n].at].provider = remounts
    BY DEF InPlace
  <2>1. CASE n = Len(v.stack)
    BY <1>3, <1>4, <1>5, <2>1 DEF Screen
  <2>2. CASE OldOngoing(n, v.stack[n])
    BY <1>2, <1>4, <1>8, <2>2 DEF StackInv, OldOngoing
  <2> QED
    BY <1>5, <2>1, <2>2
<1>10. GoodView(v)
  BY <1>2, <1>3, <1>4, <1>5, <1>6, <1>7, <1>9 DEF GoodView
<1>11. \E i \in DOMAIN v.opened : /\ v.opened[i].call = d
                                  /\ \E n \in DOMAIN v.stack : v.stack[n].at = i
  BY <1>3, <1>4, <1>5, <1>6 DEF Screen
<1>12. \A n \in DOMAIN v.stack : (v.stack[n].call = d /\ v.stack[n].born = d)
         \/ \E m \in DOMAIN stack : v.stack[n] = stack[m]
  BY <1>5 DEF Screen, OldOngoing
<1>13. \A i \in DOMAIN v.opened : i \in Screens \/ v.opened[i].call = d
  BY <1>2, <1>3, <1>4, <1>6
<1> QED
  BY <1>10, <1>11, <1>12, <1>13

\* The outcome of a render, as the invariant needs it.
Empties(w, v) == w.current = NoCall => v.stack = <<>>
RingsAlone(w, v) == \A c \in CallIds : w.current = [call |-> c, state |-> "unanswered"] =>
  /\ \A n \in DOMAIN v.stack : v.stack[n].at = 0 => v.stack[n].call = c
  /\ v.opened = opened /\ Unopened(c)
HasPlace(w, v) == w.current.state \in {"answered", "outgoing"} =>
  \/ \E i \in DOMAIN v.opened :
       /\ v.opened[i].call = w.current.call
       /\ v.opened[i].stage = "denied" \/ \E n \in DOMAIN v.stack : v.stack[n].at = i
  \/ w.current.call \in left \cup w.crossed
Known(w, c) ==
  c = w.current.call \/ \E m \in DOMAIN stack : c \in {stack[m].call, stack[m].born}
Stems(w, v) ==
  /\ \A n \in DOMAIN v.stack : Known(w, v.stack[n].call) /\ Known(w, v.stack[n].born)
  /\ \A i \in DOMAIN v.opened : i \in Screens \/ Known(w, v.opened[i].call)

Settled(w, v) ==
  GoodView(v) /\ Empties(w, v) /\ RingsAlone(w, v) /\ HasPlace(w, v) /\ Stems(w, v)

LEMMA Settling ==
  ASSUME Types, CallInv, NEW w, Reached(w, Len(updates))
  PROVE  Settled(w, Viewed(w))
<1>0. PICK v : v = Viewed(w)
  OBVIOUS
<1>1. /\ StackInv /\ QueueInv /\ RingingInv /\ OngoingInv
      /\ used \subseteq CallIds /\ crossed \subseteq w.crossed /\ w.current \in Currents
  BY DEF CallInv, ScreenInv, Types, SlotOK, Reached, Worlds
<1>2. /\ \A k \in Currents : k = NoCall \/ (k.call \in used /\ k.state \in States /\ k # NoCall)
      /\ NoCall.state = "none" /\ NoCall.call = None /\ None \notin used
  BY <1>1, CurrentFacts
<1>3. Outcome(w, v)
  BY <1>0, <1>1, RenderView
<1> SUFFICES Settled(w, v)
  BY <1>0
<1>4. CASE w.current = current /\ v = View
  <2>1. v.stack = stack /\ v.opened = opened
    BY <1>4 DEF View
  <2>2. GoodView(v)
    BY <1>1, <2>1, GoodOld
  <2>3. HasPlace(w, v)
    BY <1>1, <1>4, <2>1 DEF HasPlace, OngoingInv, HasScreen, Screens, Shown
  <2>4. Empties(w, v)
    BY <1>1, <1>4, <2>1 DEF Empties, StackInv
  <2>5. RingsAlone(w, v)
    BY <1>1, <1>4, <2>1 DEF RingsAlone, RingingInv
  <2>6. Stems(w, v)
    BY <2>1 DEF Stems, Known, Screens
  <2> QED
    BY <2>2, <2>3, <2>4, <2>5, <2>6 DEF Settled
<1>5. CASE w.current = NoCall /\ v = [stack |-> <<>>, opened |-> opened]
  <2>1. v.stack = <<>> /\ v.opened = opened
    BY <1>5
  <2>2. GoodView(v)
    BY <1>1, <2>1, GoodOld
  <2>3. Empties(w, v) /\ RingsAlone(w, v) /\ Stems(w, v)
    BY <1>2, <1>5, <2>1 DEF Empties, RingsAlone, Stems, Screens
  <2>4. HasPlace(w, v)
    BY <1>2, <1>5 DEF HasPlace
  <2> QED
    BY <2>2, <2>3, <2>4 DEF Settled
<1>6. CASE w.current.state = "answered" /\ v = View /\ w.current.call \in left \cup w.crossed
  <2>1. v.stack = stack /\ v.opened = opened
    BY <1>6 DEF View
  <2>2. GoodView(v)
    BY <1>1, <2>1, GoodOld
  <2>3. Empties(w, v) /\ RingsAlone(w, v)
    BY <1>2, <1>6 DEF Empties, RingsAlone
  <2>4. HasPlace(w, v)
    BY <1>6 DEF HasPlace
  <2>5. Stems(w, v)
    BY <2>1 DEF Stems, Known, Screens
  <2> QED
    BY <2>2, <2>3, <2>4, <2>5 DEF Settled
<1>7. CASE /\ w.current.state = "unanswered" /\ Dispatched("incoming_call", w.current.call)
           /\ \E b : RingsOn(w.current.call, b, v)
  <2>1. w.current.call \in used /\ w.current # NoCall
    BY <1>1, <1>2, <1>7
  <2>2. PICK b : RingsOn(w.current.call, b, v)
    BY <1>7
  <2>3. b \in used /\ Known(w, b) /\ v.opened = opened
    BY <2>1, <2>2, StackFacts DEF RingsOn, Known, Routes, RoutesTo
  <2>4. PICK x \in Routes : x = [call |-> w.current.call, at |-> 0, born |-> b]
    <3>1. [call |-> w.current.call, at |-> 0, born |-> b] \in Routes
      BY <2>1, <2>3, StackFacts DEF Routes, RoutesTo
    <3> QED
      BY <3>1
  <2>5. PICK s : s = v.stack /\ s = Append(Under, x)
    BY <2>2, <2>4 DEF RingsOn
  <2>6. GoodView(v)
    BY <1>1, <2>1, <2>2, <2>3, GoodIncoming DEF RingsOn
  <2>7. s[Len(s)] = x
    BY <1>1, <2>5, PushedFacts
  <2>8. \A n \in DOMAIN s : n = Len(s) \/ OldOngoing(n, s[n])
    BY <1>1, <2>5, PushedFacts
  <2>9. \A n \in DOMAIN s : s[n] = x \/ (s[n].at # 0 /\ \E m \in DOMAIN stack : s[n] = stack[m])
    BY <2>7, <2>8 DEF OldOngoing
  <2>10. Unopened(w.current.call)
    BY <1>1, <1>7, <2>1 DEF QueueInv, UntakenInv, Untaken
  <2>11. Empties(w, v) /\ HasPlace(w, v)
    BY <1>7, <2>1 DEF Empties, HasPlace
  <2>12. RingsAlone(w, v)
    BY <2>3, <2>4, <2>5, <2>9, <2>10 DEF RingsAlone
  <2>13. Stems(w, v)
    BY <2>3, <2>4, <2>5, <2>9 DEF Stems, Known, Screens
  <2> QED
    BY <2>6, <2>11, <2>12, <2>13 DEF Settled
<1>8. ASSUME NEW d \in used, v = Opening(d), w.current # NoCall, w.current.state # "unanswered",
             d = w.current.call \/ \E m \in DOMAIN stack : stack[m].call = d,
             w.current.call \in {d} \cup left \cup w.crossed
      PROVE  Settled(w, v)
  <2>1. /\ GoodView(v)
        /\ \E i \in DOMAIN v.opened : /\ v.opened[i].call = d
                                      /\ \E n \in DOMAIN v.stack : v.stack[n].at = i
        /\ \A n \in DOMAIN v.stack : (v.stack[n].call = d /\ v.stack[n].born = d)
             \/ \E m \in DOMAIN stack : v.stack[n] = stack[m]
        /\ \A i \in DOMAIN v.opened : i \in Screens \/ v.opened[i].call = d
    BY <1>1, <1>8, GoodOpening
  <2>2. Stems(w, v)
    BY <1>8, <2>1 DEF Stems, Known
  <2>3. Empties(w, v) /\ RingsAlone(w, v)
    BY <1>8 DEF Empties, RingsAlone
  <2>4. HasPlace(w, v)
    BY <1>8, <2>1 DEF HasPlace
  <2> QED
    BY <2>1, <2>2, <2>3, <2>4 DEF Settled
<1>9. CASE /\ w.current.state = "outgoing" /\ Dispatched("outgoing_call", w.current.call)
           /\ v = Opening(w.current.call)
  <2>1. w.current.call \in used /\ w.current # NoCall
    BY <1>1, <1>2, <1>9
  <2> QED
    BY <1>8, <1>9, <2>1
<1>10. CASE \E n \in DOMAIN stack :
              /\ w.current.state = "answered" /\ v = Opening(stack[n].call)
              /\ w.current.call \in {stack[n].call} \cup left \cup w.crossed
  <2>1. PICK n \in DOMAIN stack :
              /\ w.current.state = "answered" /\ v = Opening(stack[n].call)
              /\ w.current.call \in {stack[n].call} \cup left \cup w.crossed
    BY <1>10
  <2>2. stack[n].call \in used /\ w.current # NoCall
    BY <1>2, <2>1, StackFacts DEF Routes, RoutesTo
  <2> QED
    BY <1>8, <2>1, <2>2
<1> QED
  BY <1>3, <1>4, <1>5, <1>6, <1>7, <1>9, <1>10 DEF Outcome

LEMMA RenderStep ==
  ASSUME Types, CallInv, Render
  PROVE  Types' /\ CallInv'
<1>1. PICK w : w = reduced[Len(updates)] /\ Reached(w, Len(updates))
  BY Rendered DEF CallInv, QueueInv, ScreenInv
<1>2. PICK v : v = Viewed(w) /\ Settled(w, v)
  BY <1>1, Settling
<1>3. /\ updates' = <<>> /\ current' = w.current /\ ringing' = w.ringing /\ starting' = w.starting
      /\ os' = w.os /\ ended' = w.ended /\ crossed' = w.crossed
      /\ stack' = v.stack /\ opened' = Unmounted(v.opened, v.stack)
      /\ UNCHANGED <<used, latest, fresh, platform, intent, notified, remounts, left>>
  BY <1>1, <1>2 DEF Render, Viewed, slot
<1>4. w \in Worlds /\ Origin(w) /\ Own(w) /\ Ends(w, Len(updates)) /\ w.current \in Currents
  BY <1>1 DEF Reached, Worlds
<1>5. /\ v.opened \in Seq(Sessions) /\ v.stack \in Seq(RoutesTo(Len(v.opened)))
      /\ \A n \in DOMAIN v.stack : InPlace(v, n)
      /\ \A i \in Screens : i \in DOMAIN v.opened /\ v.opened[i] = opened[i]
      /\ \A i \in DOMAIN v.opened : i \in Screens \/ v.opened[i].over # "clean"
  BY <1>2 DEF Settled, GoodView
<1>6. /\ opened' \in Seq(Sessions) /\ Len(opened') = Len(v.opened) /\ Screens' = DOMAIN v.opened
      /\ \A i \in DOMAIN v.opened :
           /\ opened'[i].call = v.opened[i].call /\ opened'[i].stage = v.opened[i].stage
           /\ opened'[i].provider = v.opened[i].provider
           /\ opened'[i].over = "no" => Shown(i)'
           /\ opened'[i].over = "clean" => opened'[i] = v.opened[i]
  BY <1>3, <1>5, UnmountedFacts DEF Screens, Shown
<1>7. \A t, d : ~Dispatched(t, d)'
  BY <1>3 DEF Dispatched
<1>8. Types'
  <2>1. SlotOK'
    BY <1>3 DEF Types, SlotOK
  <2>2. ReducerOK'
    <3>1. updates' \in Seq(Actions') /\ Len(updates') <= MaxUpdates
      BY <1>3, CallsAssumption
    <3> QED
      BY <1>3, <1>4, <3>1 DEF Worlds, ReducerOK, Currents
  <2>3. ServiceOK'
    BY <1>3, <1>4 DEF Types, ServiceOK, Worlds
  <2>4. ScreensOK'
    <3>1. Sessions' = Sessions /\ Routes' = RoutesTo(Len(v.opened))
      BY <1>3, <1>6 DEF Sessions, Routes, RoutesTo
    <3> QED
      BY <1>3, <1>5, <1>6, <3>1 DEF Types, ScreensOK
  <2> QED
    BY <2>1, <2>2, <2>3, <2>4 DEF Types
<1>9. StackInv'
  <2>1. \A n \in DOMAIN v.stack : v.stack[n].at # 0 => v.stack[n].at \in DOMAIN v.opened
    <3> SUFFICES ASSUME NEW n \in DOMAIN v.stack, v.stack[n].at # 0
                 PROVE  v.stack[n].at \in DOMAIN v.opened
      OBVIOUS
    <3>1. v.stack[n] \in RoutesTo(Len(v.opened))
      <4>1. PICK s : s = v.stack
        OBVIOUS
      <4>0. PICK T : T = RoutesTo(Len(v.opened))
        OBVIOUS
      <4>2. s \in Seq(T) /\ n \in DOMAIN s
        BY <1>5, <4>0, <4>1
      <4>3. s[n] \in T
        BY <4>2
      <4> QED
        BY <4>0, <4>1, <4>3
    <3>2. v.stack[n].at \in 1..Len(v.opened)
      BY <1>5, <3>1 DEF RoutesTo
    <3> QED
      BY <1>5, <3>2
  <2>2. w.current = NoCall => v.stack = <<>>
    BY <1>2 DEF Settled, Empties
  <2> QED
    BY <1>3, <1>5, <1>6, <2>1, <2>2 DEF StackInv, InPlace
<1>10. RingingInv'
  <2>1. \A c \in CallIds : w.current = [call |-> c, state |-> "unanswered"] =>
          /\ \A n \in DOMAIN v.stack : v.stack[n].at = 0 => v.stack[n].call = c
          /\ v.opened = opened /\ Unopened(c)
    BY <1>2 DEF Settled, RingsAlone
  <2>2. \A c : v.opened = opened /\ Unopened(c) => Unopened(c)'
    BY <1>3, <1>6 DEF Unopened, Screens
  <2> QED
    BY <1>3, <1>7, <2>1, <2>2 DEF RingingInv
<1>11. OngoingInv'
  <2>1. w.current.state \in {"answered", "outgoing"} =>
          \/ \E i \in DOMAIN v.opened :
               /\ v.opened[i].call = w.current.call
               /\ v.opened[i].stage = "denied" \/ \E n \in DOMAIN v.stack : v.stack[n].at = i
          \/ w.current.call \in left \cup w.crossed
    BY <1>2 DEF Settled, HasPlace
  <2>2. \A i : (\E n \in DOMAIN v.stack : v.stack[n].at = i) => Shown(i)'
    BY <1>3 DEF Shown
  <2> QED
    BY <1>3, <1>6, <2>1, <2>2 DEF OngoingInv, HasScreen
<1>12. SessionInv'
  <2> SUFFICES ASSUME NEW i \in DOMAIN v.opened
               PROVE  /\ opened'[i].over = "no" => Shown(i)'
                      /\ opened'[i].over = "clean" =>
                           /\ opened'[i].stage = "ready" /\ opened'[i].peer # "config"
                           /\ ~InUse(opened'[i])
    BY <1>6 DEF SessionInv
  <2>1. ASSUME opened'[i].over = "clean" PROVE i \in Screens /\ opened'[i] = opened[i]
    BY <1>5, <1>6, <2>1
  <2> QED
    BY <1>6, <2>1 DEF CallInv, ScreenInv, SessionInv
<1>13. QueueInv'
  <2>1. UntakenInv'
    <3> SUFFICES ASSUME NEW c \in CallIds, fresh, latest = c
                 PROVE  /\ w.current.call # c /\ Unopened(c)'
                        /\ \A n \in DOMAIN v.stack : c \notin {v.stack[n].call, v.stack[n].born}
      BY <1>3, <1>7 DEF UntakenInv, Untaken
    <3>1. Untaken(c)
      BY DEF Untaken
    <3>2. /\ current.call # c /\ Unopened(c)
          /\ \A n \in DOMAIN stack : c \notin {stack[n].call, stack[n].born}
      BY <3>1 DEF CallInv, QueueInv, UntakenInv
    <3>3. ~Dispatched("incoming_call", c) /\ ~Dispatched("outgoing_call", c)
      BY DEF CallInv, QueueInv, OnceInv, Dispatched, Update, Starts
    <3>4. w.current.call # c
      BY <1>4, <3>2, <3>3, NoneAssumption DEF Origin, NoCall
    <3>5. ~Known(w, c)
      BY <3>2, <3>4 DEF Known
    <3>6. \A i \in DOMAIN v.opened : /\ opened'[i].call = v.opened[i].call
                                     /\ opened'[i].provider = v.opened[i].provider
                                     /\ i \in Screens => v.opened[i] = opened[i]
                                     /\ i \in Screens \/ v.opened[i].call # c
      BY <1>2, <1>5, <1>6, <3>5 DEF Settled, Stems
    <3>7. Unopened(c)'
      BY <1>3, <1>6, <3>2, <3>6 DEF Unopened
    <3> QED
      BY <1>2, <3>4, <3>5, <3>7 DEF Settled, Stems
  <2>2. OnceInv'
    BY <1>3 DEF OnceInv
  <2> QED
    BY <1>7, <2>1, <2>2 DEF QueueInv, PlacedInv, AnsweredInv
<1>14. RingIsOwn'
  BY <1>3, <1>4 DEF RingIsOwn, Own
<1>15. RingEnds'
  <2>1. \A m \in (Len(updates) + 1)..Len(updates) : FALSE
    BY DEF Types, ReducerOK
  <2> QED
    BY <1>3, <1>4, <2>1 DEF RingEnds, Ends
<1> QED
  BY <1>8, <1>9, <1>10, <1>11, <1>12, <1>13, <1>14, <1>15 DEF CallInv, ScreenInv

-----------------------------------------------------------------------------
(* The theorems *)

LEMMA Initially == Init => Types /\ CallInv
<1> SUFFICES ASSUME Init PROVE Types /\ CallInv
  OBVIOUS
<1>1. SlotOK /\ ServiceOK
  BY DEF Init, SlotOK, ServiceOK
<1>2. ReducerOK
  BY CallsAssumption DEF Init, ReducerOK, Currents
<1>3. ScreensOK
  BY CallsAssumption DEF Init, ScreensOK
<1>4. \A t, d : ~Dispatched(t, d)
  BY DEF Init, Dispatched
<1>5. QueueInv
  BY <1>4 DEF Init, QueueInv, UntakenInv, Untaken, OnceInv, PlacedInv, AnsweredInv
<1>6. ScreenInv
  BY <1>4 DEF Init, ScreenInv, StackInv, RingingInv, OngoingInv, SessionInv, Screens, NoCall
<1>7. RingIsOwn /\ RingEnds
  BY DEF Init, RingIsOwn, RingEnds, NoCall
<1> QED
  BY <1>1, <1>2, <1>3, <1>5, <1>6, <1>7 DEF Types, CallInv

LEMMA Stepping == Types /\ CallInv /\ [Next]_vars => Types' /\ CallInv'
<1> SUFFICES ASSUME Types, CallInv, [Next]_vars PROVE Types' /\ CallInv'
  OBVIOUS
<1>1. CASE Render
  BY <1>1, RenderStep
<1>2. CASE TakeUp
  BY <1>2, TypesTakeUp, InvTakeUp
<1>3. CASE Remount
  BY <1>3, TypesRemount, InvRemount
<1>4. CASE \E c \in CallIds : CallNext(c)
  BY <1>4, TypesCalls, InvCalls
<1>5. CASE \E n \in DOMAIN stack : IncomingNext(n)
  BY <1>5, TypesIncoming, InvIncoming
<1>6. CASE \E i \in Screens : OngoingNext(i)
  BY <1>6, TypesOngoing, InvOngoing
<1>7. CASE UNCHANGED vars
  <2>1. UNCHANGED <<slot, reducer, updates, service, screens>>
    BY <1>7 DEF vars
  <2>2. CallInv'
    <3>1. UNCHANGED <<latest, fresh, updates, current, screens, crossed, ringing>>
      BY <2>1 DEF slot, reducer
    <3> QED
      BY <3>1, InvKept
  <2>3. SlotOK' /\ ServiceOK' /\ used' = used
    BY <2>1, SlotServiceKept DEF Types
  <2>4. ScreensOK'
    BY <2>1, <2>3, ScreensOKKept DEF Types
  <2>5. ReducerOK'
    BY <2>1, <2>3 DEF Types, ReducerOK, reducer, Currents, Actions
  <2> QED
    BY <2>2, <2>3, <2>4, <2>5 DEF Types
<1> QED
  BY <1>1, <1>2, <1>3, <1>4, <1>5, <1>6, <1>7 DEF Next

LEMMA Always == Spec => [](Types /\ CallInv)
  BY Initially, Stepping, PTL DEF Spec

\* The store's slot, the reducer, the operating system's service and the screens only ever
\* hold calls that came in or were placed, and the screens point at what was opened.
THEOREM TypeCorrect == Spec => []TypeOK
<1>1. Types => TypeOK
  <2> SUFFICES ASSUME Types PROVE TypeOK
    OBVIOUS
  <2>1. used \subseteq CallIds /\ latest \in CallIds \cup {None} /\ fresh \in BOOLEAN
    BY DEF Types, SlotOK
  <2>2. current = NoCall \/ (current.call \in CallIds /\ current.state \in States)
    BY <2>1, CurrentFacts DEF Types, ReducerOK
  <2>3. updates \in Seq([type : Kinds, call : CallIds]) /\ Len(updates) <= MaxUpdates
    <3>1. Actions \subseteq [type : Kinds, call : CallIds]
      BY <2>1 DEF Actions
    <3> QED
      BY <3>1, SeqMonotone DEF Types, ReducerOK
  <2>4. /\ \A X \in {ringing, starting, os, ended, notified} : X \subseteq used
        /\ crossed \cup left \subseteq used /\ platform \in Platforms
        /\ remounts \in 0..MaxRemounts
    BY DEF Types, ReducerOK, ServiceOK, ScreensOK
  <2>5. intent = NoCall \/ (intent.call \in used /\ intent.state \in {"answered", "declined"})
    BY DEF Types, ServiceOK
  <2>6. \A n \in DOMAIN stack :
          {stack[n].call, stack[n].born} \subseteq used /\ stack[n].at \in Screens \cup {0}
    BY StackFacts DEF Routes, RoutesTo
  <2>7. \A i \in Screens : opened[i] \in Sessions
    BY StackFacts
  <2>8. \A i \in Screens :
          /\ opened[i].call \in used
          /\ opened[i].stage \in {"asking", "chat", "ready", "failed", "denied"}
          /\ opened[i].mic \in BOOLEAN
          /\ opened[i].socket \in {"none", "open", "closed"}
          /\ opened[i].peer \in {"none", "config", "open", "closed"}
          /\ opened[i].provider \in 0..remounts
          /\ opened[i].over \in {"no", "early", "clean", "elsewhere", "closed"}
    BY <2>7 DEF Sessions
  <2> QED
    BY <2>1, <2>2, <2>3, <2>4, <2>5, <2>6, <2>8 DEF TypeOK
<1> QED
  BY <1>1, Always, PTL

\* A ring timer that still runs is that of the call that rings now, unless an action about
\* another call took its own away: whatever was dispatched between two renders, it cannot
\* decline a later call.
THEOREM TimersAreOwn == Spec => []RingIsOwn
<1>1. CallInv => RingIsOwn
  BY DEF CallInv
<1> QED
  BY <1>1, Always, PTL

\* No call rings without its timer or a dispatch that declines it, whichever way the user
\* left the screen and however often the app stack was mounted.
THEOREM RingingIsBounded == Spec => []RingEnds
<1>1. CallInv => RingEnds
  BY DEF CallInv
<1> QED
  BY <1>1, Always, PTL

\* When everything dispatched was rendered and there is no call, no call screen is left.
THEOREM ScreensGo == Spec => []ScreenHasCall
<1>1. CallInv => ScreenHasCall
  BY DEF CallInv, ScreenInv, StackInv, ScreenHasCall
<1> QED
  BY <1>1, Always, PTL

\* A call that goes on has its own screen, or the request for permissions was closed, or
\* the incoming-call screen was left, or an action meant for another call answered it.
THEOREM CallsAreShown == Spec => []CallHasScreen
<1>1. CallInv => CallHasScreen
  BY DEF CallInv, ScreenInv, OngoingInv, HasScreen, CallHasScreen
<1> QED
  BY <1>1, Always, PTL

\* Camera, microphone, socket and connection outlive their screen only when the call ended
\* before the screen held all of them, when it was ended by something else than the screen,
\* or when the request for a permission that was found missing too late was closed.
THEOREM SessionsAreReleased == Spec => []Released
<1>1. Types /\ CallInv => Released
  <2> SUFFICES ASSUME Types, CallInv, NEW i \in Screens, InUse(opened[i])
               PROVE  Shown(i) \/ opened[i].over \in {"early", "elsewhere", "closed"}
    BY DEF Released
  <2>1. opened[i].over \in {"no", "early", "clean", "elsewhere", "closed"}
    BY StackFacts DEF Sessions
  <2>2. /\ opened[i].over = "no" => Shown(i)
        /\ opened[i].over = "clean" => ~InUse(opened[i])
    BY DEF CallInv, ScreenInv, SessionInv
  <2> QED
    BY <2>1, <2>2
<1> QED
  BY <1>1, Always, PTL
=============================================================================
