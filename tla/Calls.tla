------------------------------- MODULE Calls -------------------------------
(***************************************************************************)
(* One device's calls: the reducer that holds the current call             *)
(* (CallContext.tsx), the ring timers it starts, the operating system's    *)
(* call service it talks to (CallOSBridge.ts, PortCallHelper.mm,           *)
(* NativeCallHelperModule.kt), the two call screens it navigates between   *)
(* (IncomingCall.tsx, OngoingCall.tsx) and what an ongoing call's screen   *)
(* opens: the camera and microphone, the signalling socket and the peer    *)
(* connection.                                                             *)
(*                                                                         *)
(* Dispatches wait in updates until React renders; a render reduces all of *)
(* them, runs the reducer's side effects and then the effects of the       *)
(* mounted screens, then the provider's.                                   *)
(***************************************************************************)
EXTENDS Naturals, SequencesExt

CONSTANTS
  None,         \* no call
  CallIds,      \* the calls made to and from this device
  Platforms,    \* of "ios" and "android"
  MaxUpdates,   \* bound: dispatches waiting for one render
  MaxScreens,   \* bound: ongoing-call screens ever opened
  MaxRemounts   \* bound: how often the app stack is unmounted

ASSUME NoneAssumption == None \notin CallIds
ASSUME CallsAssumption == /\ Platforms \subseteq {"ios", "android"}
                          /\ {MaxUpdates, MaxScreens, MaxRemounts} \subseteq Nat

VARIABLES
  platform,     \* what the device runs
  used,         \* calls that came in or were placed so far
  latest,       \* latestCallReducer.latestCall
  fresh,        \* the provider's effect has not yet seen latest
  current,      \* callState: a call and whether it is unanswered, answered or outgoing
  updates,      \* call actions dispatched since the last render
  ringing,      \* calls whose ring timer runs and is not aborted
  starting,     \* outgoing calls whose startOutgoingCall waits for the chat's name
  os,           \* calls CallKit knows (iOS)
  ended,        \* onEnd events on their way from CallKit
  intent,       \* what the call notification was answered with (Android)
  notified,     \* calls whose notification shows (Android)
  stack,        \* the call screens, over whatever screen was there before
  opened,       \* what each ongoing-call screen ever mounted has opened
  remounts,     \* how often the app stack was unmounted
  crossed,      \* calls that an action meant for another call answered or ended
  left          \* calls whose incoming-call screen the user left with the back button

slot     == <<used, latest, fresh>>
reducer  == <<current, ringing, starting, crossed>>
service  == <<platform, os, ended, intent, notified>>
screens  == <<stack, opened, remounts, left>>
vars     == <<slot, reducer, updates, service, screens>>

NoCall == [call |-> None, state |-> "none"]
States == {"unanswered", "answered", "outgoing"}
Update(type, call) == [type |-> type, call |-> call]
Kinds == {"incoming_call", "outgoing_call", "answer_call", "decline_call", "end_call"}

Screens == DOMAIN opened
Shown(i) == \E n \in DOMAIN stack : stack[n].at = i
Quiet == updates = <<>>

\* A screen taken away before its own endCall ran was ended from elsewhere.
Unmounted(sessions, mounted) ==
  [i \in DOMAIN sessions |->
     IF sessions[i].over = "no" /\ ~ \E n \in DOMAIN mounted : mounted[n].at = i
     THEN [sessions[i] EXCEPT !.over = "elsewhere"] ELSE sessions[i]]

TypeOK ==
  /\ platform \in Platforms
  /\ used \subseteq CallIds
  /\ latest \in CallIds \cup {None}
  /\ fresh \in BOOLEAN
  /\ \/ current = NoCall
     \/ current.call \in CallIds /\ current.state \in States
  /\ updates \in Seq([type : Kinds, call : CallIds]) /\ Len(updates) <= MaxUpdates
  /\ \A X \in {ringing, starting, os, ended, notified} : X \subseteq used
  /\ intent = NoCall \/ (intent.call \in used /\ intent.state \in {"answered", "declined"})
  /\ \A n \in DOMAIN stack :
       {stack[n].call, stack[n].born} \subseteq used /\ stack[n].at \in Screens \cup {0}
  /\ \A i \in Screens :
       /\ opened[i].call \in used
       /\ opened[i].stage \in {"asking", "chat", "ready", "failed", "denied"}
       /\ opened[i].mic \in BOOLEAN
       /\ opened[i].socket \in {"none", "open", "closed"}
       /\ opened[i].peer \in {"none", "config", "open", "closed"}
       /\ opened[i].provider \in 0..remounts
       /\ opened[i].over \in {"no", "early", "clean", "elsewhere", "closed"}
  /\ remounts \in 0..MaxRemounts
  /\ crossed \cup left \subseteq used

Init ==
  /\ platform \in Platforms
  /\ used = {}
  /\ latest = None
  /\ fresh = FALSE
  /\ current = NoCall
  /\ updates = <<>>
  /\ ringing = {} /\ starting = {} /\ os = {} /\ ended = {} /\ notified = {}
  /\ intent = NoCall
  /\ stack = <<>>
  /\ opened = <<>>
  /\ remounts = 0
  /\ crossed = {} /\ left = {}

CanDispatch == Len(updates) < MaxUpdates
Dispatch(type, call) ==
  /\ CanDispatch
  /\ updates' = Append(updates, Update(type, call))

-----------------------------------------------------------------------------
(* The reducer, manageCall, on what it reads and writes: the current call, *)
(* the timers, and what it asks of the operating system.                   *)

World == [current |-> current, ringing |-> ringing, starting |-> starting,
          os |-> os, ended |-> ended, crossed |-> crossed]

\* endOngoingCall: CallKit ends a call it knows and reports that it ended.
EndInOS(w, c) ==
  IF c \in w.os THEN [w EXCEPT !.os = @ \ {c}, !.ended = @ \cup {c}] ELSE w

\* No action but the two that start a call says which call it is about: c is
\* the call it was dispatched for, and only the bookkeeping looks at it.
Hits(w, c) ==
  [w EXCEPT !.crossed = IF w.current.call = c THEN @ ELSE @ \cup {w.current.call}]
Gone(w, c) == [Hits(w, c) EXCEPT !.current = NoCall]

EndCurrent(w, c) ==
  IF w.current = NoCall THEN w ELSE Gone(EndInOS(w, w.current.call), c)

\* Mutant: answering does not abort the ring timer.
AnswerKeepsRinging(w, c) ==
  IF w.current.state # "unanswered" THEN w
  ELSE [Hits(w, c) EXCEPT !.current.state = "answered"]

Answer(w, c) ==
  IF w.current.state # "unanswered" THEN w
  ELSE [Hits(w, c) EXCEPT !.current.state = "answered",
                          !.ringing = @ \ {w.current.call}]

\* Mutant: a declined call stays, marked as declined.
DeclineMarks(w, c) ==
  IF w.current.state = "unanswered"
  THEN [w EXCEPT !.current.state = "declined", !.ringing = @ \ {w.current.call}]
  ELSE EndCurrent(w, c)

\* Declining an unanswered call aborts its timer; any other falls through.
Decline(w, c) ==
  IF w.current.state = "unanswered"
  THEN Gone([w EXCEPT !.ringing = @ \ {w.current.call}], c)
  ELSE EndCurrent(w, c)

\* Mutant: an incoming call is taken without its timer.
TakeQuietly(w, c) ==
  IF w.current # NoCall THEN w
  ELSE [w EXCEPT !.current = [call |-> c, state |-> "unanswered"]]

TakeIncoming(w, c) ==
  IF w.current # NoCall THEN w
  ELSE [w EXCEPT !.current = [call |-> c, state |-> "unanswered"],
                 !.ringing = @ \cup {c}]

TakeOutgoing(w, c) ==
  IF w.current # NoCall THEN w
  ELSE [w EXCEPT !.current = [call |-> c, state |-> "outgoing"],
                 !.starting = @ \cup {c}]

manageCall(w, action) ==
  CASE action.type = "incoming_call" -> TakeIncoming(w, action.call)
    [] action.type = "outgoing_call" -> TakeOutgoing(w, action.call)
    [] action.type = "answer_call"   -> Answer(w, action.call)
    [] action.type = "decline_call"  -> Decline(w, action.call)
    [] action.type = "end_call"      -> EndCurrent(w, action.call)

-----------------------------------------------------------------------------
(* The screens. An IncomingCall screen has at = 0; an OngoingCall screen's *)
(* at is its place in opened.  What a screen's first effects captured is   *)
(* the call it was opened for, born, whatever call its route says now.     *)

Screen(c, at) == [call |-> c, at |-> at, born |-> c]
NewScreen(c) == [call |-> c, stage |-> "asking", mic |-> FALSE, socket |-> "none",
                 peer |-> "none", over |-> "no", provider |-> remounts]

View == [stack |-> stack, opened |-> opened]

Replace(v, n) ==
  LET c == v.stack[n].call IN
  [stack |-> [v.stack EXCEPT ![n] = Screen(c, Len(v.opened) + 1)],
   opened |-> Append(v.opened, NewScreen(c))]

\* Mutant: only the incoming-call screen watches for the end of the call.
IncomingEffects(v, now) ==
  CASE now = NoCall -> [v EXCEPT !.stack = SelectSeq(@, LAMBDA s : s.at # 0)]
    [] now.state = "answered" /\ \E n \in DOMAIN v.stack : v.stack[n].at = 0 ->
         Replace(v, CHOOSE n \in DOMAIN v.stack : v.stack[n].at = 0)
    [] OTHER -> v

\* Mutant: the ongoing screen opens only for calls this device places.
EndsOnly(v, now) == IF now = NoCall THEN [v EXCEPT !.stack = <<>>] ELSE v

\* IncomingCall's effect: leave when there is no call, become the ongoing
\* screen when the call was answered.  Its own route says which call.
\* OngoingCall's effect: back to the first screen when there is no call.
ScreenEffects(v, now) ==
  CASE now = NoCall -> [v EXCEPT !.stack = <<>>]
    [] now.state = "answered" /\ \E n \in DOMAIN v.stack : v.stack[n].at = 0 ->
         Replace(v, CHOOSE n \in DOMAIN v.stack : v.stack[n].at = 0)
    [] OTHER -> v

\* navigate() goes to the focused screen of that name with new parameters, or
\* opens a new one.
OnTop(v, kind) == v.stack # <<>> /\ (Last(v.stack).at = 0) = (kind = "incoming")
NavigateIncoming(v, c) ==
  IF OnTop(v, "incoming") THEN [v EXCEPT !.stack[Len(v.stack)].call = c]
  ELSE [v EXCEPT !.stack = Append(@, Screen(c, 0))]
NavigateOngoing(v, c) ==
  IF OnTop(v, "ongoing") THEN [v EXCEPT !.stack[Len(v.stack)].call = c]
  ELSE [stack |-> Append(v.stack, Screen(c, Len(v.opened) + 1)),
        opened |-> Append(v.opened, NewScreen(c))]

ProviderEffect(v, now) ==
  CASE now.state = "unanswered" -> NavigateIncoming(v, now.call)
    [] now.state = "outgoing"   -> NavigateOngoing(v, now.call)
    [] OTHER -> v

\* What the reducer makes of the first n dispatches.
reduced[n \in 0..Len(updates)] ==
  IF n = 0 THEN World ELSE manageCall(reduced[n - 1], updates[n])

Render ==
  LET w == reduced[Len(updates)]
      v == IF w.current = current THEN View
           ELSE ProviderEffect(ScreenEffects(View, w.current), w.current) IN
  /\ updates # <<>>
  /\ Len(v.opened) <= MaxScreens
  /\ updates' = <<>>
  /\ current' = w.current
  /\ ringing' = w.ringing
  /\ starting' = w.starting
  /\ os' = w.os
  /\ ended' = w.ended
  /\ crossed' = w.crossed
  /\ stack' = v.stack
  /\ opened' = Unmounted(v.opened, v.stack)
  /\ UNCHANGED <<slot, platform, intent, notified, remounts, left>>

-----------------------------------------------------------------------------
(* Calls coming in and being placed.                                       *)

\* ReceiveCall.notify: the store's one slot, and on Android the notification.
Receive(c) ==
  /\ c \notin used
  /\ used' = used \cup {c}
  /\ latest' = c
  /\ fresh' = TRUE
  /\ notified' = IF platform = "android" THEN notified \cup {c} ELSE notified
  /\ UNCHANGED <<reducer, platform, os, ended, intent, screens, updates>>

\* The provider's effect on a new call; what it dispatches to clear the slot
\* is an action the slot's reducer does not know.
TakeUp ==
  /\ fresh
  /\ Dispatch("incoming_call", latest)
  /\ fresh' = FALSE
  /\ UNCHANGED <<used, latest, reducer, service, screens>>

\* ChatTopbar.onCallPressed: from a chat, so with no call screen in front.
PlaceCall(c) ==
  /\ c \notin used
  /\ stack = <<>>
  /\ Dispatch("outgoing_call", c)
  /\ used' = used \cup {c}
  /\ UNCHANGED <<latest, fresh, reducer, service, screens>>

-----------------------------------------------------------------------------
(* The ring timer and the operating system.                                *)

\* The timer's callback, when it was not aborted: its own call in the
\* operating system, whatever call is current in the app.
RingTimeout(c) ==
  LET w == EndInOS(World, c) IN
  /\ c \in ringing
  /\ Dispatch("decline_call", c)
  /\ ringing' = ringing \ {c}
  /\ os' = w.os
  /\ ended' = w.ended
  /\ UNCHANGED <<slot, current, starting, crossed, platform, intent,
                 notified, screens>>

\* startOutgoingCall, once the chat's name is known: CallKit takes one call.
StartInOS(c) ==
  /\ c \in starting
  /\ starting' = starting \ {c}
  /\ os' = IF platform = "ios" /\ os = {} THEN {c} ELSE os
  /\ UNCHANGED <<slot, current, ringing, crossed, platform, ended, intent,
                 notified, screens, updates>>

\* The user ends the call in CallKit's own interface.
EndsInCallKit(c) ==
  /\ c \in os
  /\ os' = os \ {c}
  /\ ended' = ended \cup {c}
  /\ UNCHANGED <<slot, reducer, platform, intent, notified, screens,
                 updates>>

\* onEnd: the listener drops the call's id.
OnEnd(c) ==
  /\ c \in ended
  /\ Dispatch("decline_call", c)
  /\ ended' = ended \ {c}
  /\ UNCHANGED <<slot, reducer, platform, os, intent, notified, screens>>

\* The user answers or declines the notification.
PressNotification(c) ==
  /\ c \in notified
  /\ notified' = notified \ {c}
  /\ \E how \in {"answered", "declined"} : intent' = [call |-> c, state |-> how]
  /\ UNCHANGED <<slot, reducer, platform, os, ended, screens, updates>>

didAnswerCall(c) ==
  IF platform = "ios" THEN IF c \in os THEN "answered" ELSE "declined"
  ELSE IF intent.call = c THEN intent.state ELSE "pending"

-----------------------------------------------------------------------------
(* The incoming-call screen.                                               *)

Incoming(n) == n \in DOMAIN stack /\ stack[n].at = 0
InFront(n) == n = Len(stack)

\* The Accept and Decline buttons.
PressButton(n, type) ==
  /\ Incoming(n) /\ InFront(n)
  /\ Dispatch(type, stack[n].call)
  /\ UNCHANGED <<slot, reducer, service, screens>>
PressAccept(n) == PressButton(n, "answer_call")
PressDecline(n) == PressButton(n, "decline_call")

\* checkNativeCallState: when the screen opens and whenever the app comes to
\* the foreground, about the call the screen was opened for.
checkNativeCallState(n) ==
  /\ Incoming(n)
  /\ \/ /\ didAnswerCall(stack[n].born) = "answered"
        /\ Dispatch("answer_call", stack[n].born)
     \/ /\ didAnswerCall(stack[n].born) = "declined"
        /\ Dispatch("decline_call", stack[n].born)
  /\ UNCHANGED <<slot, reducer, service, screens>>

\* The back button leaves the screen; nothing is told.
BackFromIncoming(n) ==
  /\ Incoming(n) /\ InFront(n)
  /\ stack' = Front(stack)
  /\ left' = left \cup {stack[n].call}
  /\ UNCHANGED <<slot, reducer, service, opened, remounts, updates>>

-----------------------------------------------------------------------------
(* The ongoing-call screen.                                                *)

callState == <<slot, reducer, service, stack, remounts, left>>

Becomes(i, session) == opened' = [opened EXCEPT ![i] = session]

\* getMyMediaStream returns: the camera and the microphone run.
StreamStarts(i) ==
  /\ opened[i].stage = "asking"
  /\ Becomes(i, [opened[i] EXCEPT !.stage = "chat", !.mic = TRUE])
  /\ UNCHANGED <<callState, updates>>

\* getUserMedia is refused, or a permission is found missing once it has opened a
\* stream, which nobody stops: the screen shows a request and a close button.
StreamDenied(i) ==
  /\ opened[i].stage = "asking"
  /\ \E on \in BOOLEAN : Becomes(i, [opened[i] EXCEPT !.stage = "denied", !.mic = on])
  /\ UNCHANGED <<callState, updates>>

\* The close button goes back; the call is not ended.
CloseDenied(i) ==
  /\ opened[i].stage = "denied"
  /\ stack # <<>> /\ Last(stack).at = i
  /\ stack' = Front(stack)
  /\ opened' = Unmounted([opened EXCEPT ![i].over = "closed"], Front(stack))
  /\ UNCHANGED <<slot, reducer, service, remounts, left, updates>>

\* setupCall once the chat was read, whether or not the screen is still there:
\* the socket opens and the peer connection asks for its configuration.
setupCall(i) ==
  /\ opened[i].stage = "chat"
  /\ Becomes(i, [opened[i] EXCEPT !.stage = "ready", !.socket = "open",
                                  !.peer = "config"])
  /\ UNCHANGED <<callState, updates>>

\* PeerConnectionManager.init goes on, or its request failed.
PeerConnectionInit(i) ==
  /\ opened[i].peer = "config"
  /\ \E peer \in {"open", "none"} : Becomes(i, [opened[i] EXCEPT !.peer = peer])
  /\ UNCHANGED <<callState, updates>>

\* peer_connected: the signaller is done.
PeerConnected(i) ==
  /\ Shown(i)
  /\ opened[i].peer = "open" /\ opened[i].socket = "open"
  /\ Becomes(i, [opened[i] EXCEPT !.socket = "closed"])
  /\ UNCHANGED <<callState, updates>>

\* Mutant: the connection is closed but the camera and microphone run on.
CleanedButMic(s) ==
  IF s.stage # "ready" THEN [s EXCEPT !.over = "early"]
  ELSE [s EXCEPT !.socket = "closed", !.peer = IF @ = "open" THEN "closed" ELSE @,
                 !.over = IF s.peer = "config" THEN "early" ELSE "clean"]

\* endCall closes what the screen's state already holds.
Cleaned(s) ==
  IF s.stage # "ready" THEN [s EXCEPT !.over = "early"]
  ELSE [s EXCEPT !.mic = FALSE, !.socket = "closed",
                 !.peer = IF @ = "open" THEN "closed" ELSE @,
                 !.over = IF s.peer = "config" THEN "early" ELSE "clean"]
endCall(i) ==
  /\ Dispatch("end_call", opened[i].call)
  /\ Becomes(i, Cleaned(opened[i]))
  /\ UNCHANGED callState

\* The button of the screen in front.
HangUp(i) ==
  /\ stack # <<>> /\ Last(stack).at = i
  /\ opened[i].stage # "denied"
  /\ endCall(i)

\* closed_signaller with no connection, or peer_connection_ended.
PeerEnds(i) ==
  /\ Shown(i)
  /\ opened[i].socket = "open" \/ opened[i].peer = "open"
  /\ endCall(i)

\* The chat could not be read, whether or not the screen is still there: endCall
\* of the first render holds nothing that it could close, and what it dispatches
\* goes to the provider of that time.
SetupFails(i) ==
  /\ opened[i].stage = "chat"
  /\ IF opened[i].provider = remounts THEN Dispatch("end_call", opened[i].call)
                                      ELSE UNCHANGED updates
  /\ Becomes(i, [opened[i] EXCEPT !.stage = "failed",
                                  !.over = IF @ = "no" THEN "early" ELSE @])
  /\ UNCHANGED callState

\* The app stack is unmounted for new terms and mounted again: the reducer
\* starts over, and the old one's timers have nobody to tell.
Remount ==
  /\ remounts < MaxRemounts
  /\ remounts' = remounts + 1
  /\ current' = NoCall
  /\ updates' = <<>>
  /\ ringing' = {}
  /\ stack' = <<>>
  /\ opened' = Unmounted(opened, <<>>)
  /\ fresh' = (latest # None)
  /\ UNCHANGED <<used, latest, starting, crossed, service, left>>

CallNext(c) ==
  \/ Receive(c) \/ PlaceCall(c) \/ RingTimeout(c) \/ StartInOS(c)
  \/ EndsInCallKit(c) \/ OnEnd(c) \/ PressNotification(c)
IncomingNext(n) ==
  PressAccept(n) \/ PressDecline(n) \/ checkNativeCallState(n) \/ BackFromIncoming(n)
OngoingNext(i) ==
  \/ StreamStarts(i) \/ StreamDenied(i) \/ CloseDenied(i) \/ setupCall(i)
  \/ PeerConnectionInit(i) \/ PeerConnected(i) \/ HangUp(i) \/ PeerEnds(i)
  \/ SetupFails(i)

Next ==
  \/ Render \/ TakeUp \/ Remount
  \/ \E c \in CallIds : CallNext(c)
  \/ \E n \in DOMAIN stack : IncomingNext(n)
  \/ \E i \in Screens : OngoingNext(i)

Spec == Init /\ [][Next]_vars
-----------------------------------------------------------------------------
(* Properties *)

\* A ring timer that still runs is the one of the call that rings now, so it
\* cannot end a later call; only a call that an action about another call took
\* away leaves its timer behind (no action but the two that start a call says
\* which call it is about).
RingIsOwn ==
  \A c \in ringing \ crossed : current = [call |-> c, state |-> "unanswered"]

\* Nothing rings for ever: while a call rings its timer runs, or what will
\* decline it is already dispatched, whichever way the user left the screen.
RingEnds ==
  current.state = "unanswered" =>
    \/ current.call \in ringing
    \/ \E n \in DOMAIN updates : updates[n].type = "decline_call"

\* Once everything dispatched was rendered, no call screen is left when there is
\* no call, even when a call ended and the next came in between two renders.
ScreenHasCall == Quiet /\ current = NoCall => stack = <<>>

\* A call that goes on has its own screen, the only place it can be hung up,
\* unless the user closed the request for permissions (OngoingCall.tsx:640) or
\* left the incoming-call screen while the answer waited for its render, or the
\* answer was meant for another call: then the reducer refuses every later call.
CallHasScreen ==
  Quiet /\ current.state \in {"answered", "outgoing"} =>
    \/ \E i \in Screens : opened[i].call = current.call
                          /\ (Shown(i) \/ opened[i].stage = "denied")
    \/ current.call \in left \cup crossed

InUse(s) == s.mic \/ s.socket = "open" \/ s.peer = "open"

\* The camera, the microphone, the socket and the connection of a call outlive
\* its screen only in three ways: the call ended before the screen held all of
\* them, it was ended by something else than the screen, or a permission was
\* found missing after the stream was opened and the request for it was closed.
Released ==
  \A i \in Screens :
    InUse(opened[i]) => Shown(i) \/ opened[i].over \in {"early", "elsewhere", "closed"}

\* "Once a call is ended call before letting this object be garbage collected"
\* (PeerConnectionManager.ts:554): what the text asks of every call that ended.
EndedIsReleased ==
  \A i \in Screens : InUse(opened[i]) => Shown(i) \/ opened[i].call = current.call
=============================================================================
