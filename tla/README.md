# Verification of the Port messenger client

Port (`src/`) is a React-Native messenger. Chats are made by consent: a port (a QR
code or a link) is read by somebody, the two clients shake hands, and from then on a
*line* with keys and permissions exists between them. The repository holds the client;
the server that stores and forwards messages, SQLite, the crypto library, push
notifications and WebRTC are outside it and are modelled by how the client uses them.

The client is single-threaded JavaScript. Concurrency is real all the same: every
`await` lets another asynchronous function run, several invocations of the same
function are alive together, timers and sockets call back, and the operating system
kills the process whenever it likes. Storage is one SQLite statement per transaction
(`Storage/DBCalls/dbCommon.ts`, `runSimpleQuery`), whose errors are logged and dropped,
so what takes two statements is never atomic. Every module here takes an action to be
what runs between two awaits, and a killed process keeps its database and nothing else.

Paths below are relative to `src/src/utils/` unless they start with `src/`.

## 1. The system

### 1.1 Components that are modelled

**Direct outbox** (`Messaging/Send/SendDirectMessage`, `Messaging/Send/sendJournaled.ts`,
`Storage/messages.ts`, `Storage/connections.ts`). State: the rows of `lineMessages` with
their `messageStatus` and `expiresOn`, the connection row (the *tile* of the home
screen: latest message and a status), and whether the line is authenticated and has
keys. `send()` saves a row as *journaled* and starts `retry()` without awaiting it;
only what `retry()` or `onFailure()` comes to is shown on the tile. `sendJournaled()`,
the *pump*, runs on every foregrounding and every background wake-up and retries each
journaled row. A `ReceiveReceipt` handler marks rows and the tile read. The deletion of
a message, by hand or by the sweep of expired ones, and the handlers of reactions write
the tile too, from what they looked up awaits before. Hard: all of these write the same
rows, in any order; the answer to a request can be lost; the process can die between
request and update.
Correct means: what the user is
shown never runs ahead of the server, and nothing stays in the journal for ever.

**Changes of a message** (`EditMessageSender.ts`, `ReactionSender.ts`,
`DeletionSender.tsx` and the receive actions `ReceiveEditedMessage`, `ReceiveReaction`,
`ReceiveMessageDeletion`). State: on either side the row of the message, its reactions
and the tile; the rows of edits and reactions that wait to be sent. Each change has a
sender with its own clean-up, and the pump retries edits and reactions like any
journaled row, each retry writing its own text to the message again. Hard: an edit that
reaches a message deleted meanwhile, an older edit after a newer one, a reaction whose
row another task has removed. Correct means: a deleted message stays deleted and leaves
no text behind, and both sides end up with the same text and reaction.

**Direct inbox** (`Messaging/pullBacklog.ts`, `Messaging/PushNotifications/fcm.ts`,
`Messaging/Receive`, `Storage/DBCalls/unprocessedMessages.ts`). State: `backlogLock`,
the batch of an open socket, the cache the iOS notification extension fills, message
rows, the unread count. A pull takes the lock, empties the cache, opens a WebSocket,
processes batches and tells the server how many it may forget. Hard: a 15 s timer
releases the lock while the loop goes on; the background push handler takes no lock;
each message passes through several awaits. Correct means: nothing acknowledged is
missing, the lock comes back, and the unread count follows the rows.

**Direct messaging end to end.** Two clients meet only through the server: requests of
one become the backlog of the other, read receipts travel back the same way.

**Single-use ports** (`Ports/SingleUsePorts`, `Ports/index.ts`,
`DirectChats/DirectChat.ts`, `Receive/.../NewChatOverPort.ts`). State: rows of `myPorts`
and `readPorts`, of `cryptoData` (the keys), of `lines` and of `connections`. The reader
posts an intro message, the server makes a line, and the generator receives a NewChat
message; on either side `use()` then looks up a chat with the peer, adds a line, joins
it to a chat or adds a chat, and deletes the port. Hard: a dozen awaits, errors that
clean up rows another invocation may have written, a sweep of expired ports, user
actions, redelivery and crashes. Correct means: every chat has a line with a row and
keys, and no use of a port destroys what another built.

**Superports** (`Ports/SuperPorts`, `NewChatOverSuperport.ts`,
`src/src/screens/NewSuperPort`). One port for many readers. State: the port's row with
limit, count and pause, and *one* row of keys in which each use derives the secret with
its own reader. Hard: uses run concurrently over that row and over a loaded copy of the
count; `pause()` is not awaited; the owner changes the limit or cleans the port.
Correct means: the count is right, the limit holds, and a line has its own reader's
secret.

**Groups** (`Groups/`, `Receive/ReceiveGroup`, `Storage/DBCalls/group*.ts`). State: rows
of the group, of its members and of the secrets shared with them, and the connection.
Receive actions, `Group.join` and the user all write them, in series of single
statements. Hard: events that come late, twice or during a join; members and the user
himself who go and come back; a deletion killed half way. Correct means: the phone knows
the members, administrators and keys the server knows, and can encrypt for each member.

**Calls** (`src/src/screens/Calls`, `Calls/`, `src/src/store/call.ts`, the two native
modules). State: the reducer with the one current call, its ring timers, CallKit or the
Android notification, the two call screens, and what an ongoing call has open: camera
and microphone, signalling socket, peer connection. Hard: timers, buttons, the operating
system and React renders in any order, and actions that do not say which call they are
about. Correct means: nothing rings for ever, screens and reducer agree, and what a call
opened is closed after it.

### 1.2 Components that are not modelled, and parts left out

| component | why not |
|---|---|
| media, contact bundles, plaintext control messages (senders) | the skeleton of the generic sender; an upload of a file before it changes nothing another component reads |
| names, pictures, downloads, contact bundles (receive actions) | single rows written by one handler |
| group messages, creation and profile of a group | the discipline of `Outbox` with one payload per member; what it needs of a member is `KeysHeld` |
| contact ports with their tickets; generating group ports | `use()` as in a superport, with a ticket; one request and one row |
| the reader's side of superports, permissions, folders, links | one request, as in `PortUse`; CRUD |
| signalling messages, candidates, data channel, `WorkQueue` | a queue drained by a React effect whose order depends on WebRTC |
| `DirectChat.delete`, name and picture exchange | extension of PortUse |
| `ServerAuth`, `Synchronization` | every caller takes one mutex; elsewhere a request without a token is one that fails |
| `Storage/Migrations` | sequential SQL before anything else runs |
| `Storage`, `Crypto`, `LargeData` | CRUD, mathematics, file transfer: only what the modelled handlers call |
| backup, account deletion, profile, contacts, folders, permissions, notifications, reports, terms, deep links | single rows, single requests, file I/O; permission checks appear as guards |
| other screens, native shells | show what the modelled components store |

`PROJECT.json` lists the same components with their files, and 40 hazards, each at its
line: what can go wrong in this code that a unit test would hardly reach. A hazard names
the properties that would catch it; those without one say why.

## 2. The modules

| module | what it is |
|---|---|
| `Outbox` | the sending client |
| `Inbox` | the receiving client |
| `Delivery` | what a direct chat promises, without saying how |
| `DirectMessaging` | `Outbox`, the server's queue and `Inbox` composed; refines `Delivery` |
| `MessageChanges` | edits, reactions and the deletion of one message, on both sides |
| `PortUse` | one client turning single-use ports into chats with one peer |
| `SuperPort` | the owner of a superport that many readers use |
| `Groups` | one group on one member's phone, and the server's roster |
| `Calls` | one device's calls: reducer, timers, operating system, screens, connections |
| `Outbox_proofs`, `Inbox_proofs`, `DirectMessaging_proofs`, `MessageChanges_proofs`, `PortUse_proofs`, `SuperPort_proofs`, `Groups_proofs`, `Calls_proofs` | the theorems |
| `MC...` | small instances for TLC of each, with the symmetry of the safety runs |

Each component module also holds the deliberately wrong variants of its operators
(comment *Mutant*). They are used by no specification; `PROJECT.json` names the run in
which each is found out.

### Outbox

`Msgs` are message ids, and the un-awaited `retry()` that `send()` leaves behind is a
task named by its message; `Pumps` are invocations of `sendJournaled()`, `Cleaners` of
`cleanDeleteMessage()` and of what handles a reaction. `row`, `reacted` (`hasReaction`),
`latest` and `tile` are database columns. `at`, `cur`, `timed`, `out`, `todo` and, of
cleaners, `cleanAt`, `prey`, `found` and `seen` are the locals of suspended functions.
`submitted`, `accepted` and `tileOf` are history: what was saved, what copies the server
took, and which message the status on the tile was taken from.

| action | code |
|---|---|
| `Send`, `SendRejected` | `GenericSender.validate`, `send`, `setDisappearing` up to the un-awaited `retry()` |
| `LoadUnauthenticated`, `LoadMissing`, `LoadRow`, `EncryptFails` | the top of `retry()`: `isAuthenticated`, `loadSavedMessage`, `encryptedMessage` |
| `PostAccepted`, `PostFails`, `Answered`, `AnswerLost` | `attempt()` split at the request, because the server may take what the client never hears about |
| `MarkRow`, `UpdateTile` | the two updates after an attempt |
| `FailMark`, `FailTile` | `onFailure()` |
| `PumpStart`, `PumpNext`, `PumpDone` | `sendJournaled()`: one SELECT, then a loop over the snapshot |
| `ReceiptRow`, `ReceiptCheck`, `ReceiptWrite` | `ReceiveReceipt` and the two-query `updateConnectionIfLatestMessageIsX` |
| `StartClean`, `LoadConnection`, `LoadLatest`, `RestoreTile`, `DeleteRow` | `cleanDeleteMessage()` (`Storage/messages.ts:144-206`), called by the user's deletion and by the sweep of expired messages |
| `StartReaction`, `ShowReaction` | `setHasReactions` and the tile of a reaction; one that is withdrawn gives the tile back by the same three steps as a deletion |
| `Authenticate`, `LoseKeys`, `Crash` | the environment |

A message that expires is one that `StartClean` may delete at any time, so the model has
no clock. `RestoreTile` writes only the status: `latestMessageId` may name a newer
message by then, and `tileOf` says whose status the tile shows. `Finish` drops a task's
locals, so that a finished task and one that never ran are the same state.

### Inbox

`Pulls` are invocations of `pullBacklog()`, `Pushes` of the background handler, and a
loop over messages belongs to either. A pull goes through *cache* and *clear* (the
SELECT and the DELETE of the iOS cache are two statements), *local*, *connect* and
*open*. Within a loop a message goes through *decrypt*, *guard*
(`doubleProcessingGuard`), *insert*, *bump* (unread count) and *notify*. `Cut` is the
timer, an error or a close: it settles the promise and releases the lock but stops no
loop, and an `AckBatch` needs the socket the pull still holds. `shouldAck` and `acking`
are the read receipts a visible bubble sends. The comment at `fcm.ts:32`, "Payload is
ignored, as pullBacklog is used", is out of date: the handler at `fcm.ts:37-40`
processes the payload itself, and the module follows the code. Not modelled: expiry and
deletion of received rows, messages of other types, and a cached message so malformed
that `ReceiveMessage`'s constructor throws (at `pullBacklog.ts:75` outside any `try`,
so that the lock would stay held).

### DirectMessaging and Delivery

`Transmit` joins the sender's `PostAccepted` with the arrival of the message in the
receiver's backlog; `SendReceipt` and `ReceiveReceipt` carry read receipts back, any
number of times, since the sender's acknowledgement of its own backlog can be lost. All
other steps of either client leave the other alone. `Delivery` has four variables: what
was submitted, what the server took, what the peer's database holds and what the sender
is told. The refinement mapping takes *delivered* to the receiver's rows and *status*
to the sender's rows: journaled and failed claim nothing, sent claims that the server
has the message, read that the peer has it.

### PortUse

`Tasks` are invocations of `use()`, `PortOf` says on which port. A line is named by its
port (the server makes at most one line of a port and refuses later requests for it:
an assumption about the server) and a chat by the task that adds it. `at` names the
await: *guard* and *verify* are the generator's own, *intro*, *post* and *answer* the
reader's; *block* to *delport* are what both sides do in the same order; *cleanport*,
*cleankeys* and *dropline* are the catch block. `found`, `lineId` and `route` are the
locals `associatedChatId`, `lineId` and `lineData`, which are read at one await and
used several awaits later.

| action | code |
|---|---|
| `Accept`, `DeriveSecret`, `SaveReadPort` | `PortReader.accept`; the secret is derived un-awaited (`PortReader_1_0_0.ts:85`) |
| `BeginRound`, `StartReader` | `processReadBundles` under `bundleProcessLock` |
| `NewChat`, `Guard`, `VerifyIntro` | `NewChatOverPort.performAction`, `PortGenerator.use` to the intro check |
| `GenerateIntro`, `ServerMakesLine`, `Answer`, `PostFails` | `PortReader.use` to the server's answer |
| `CheckBlocked`, `LookUpChat`, `ReadRoute`, `ReadOldLine`, `AddLine`, `JoinLine` | the common middle |
| `DeleteOldLine`, `DeleteOldKeys` | `DirectChat.cleanDeleteLine` of the replaced line |
| `DeletePort`, `CleanPort`, `CleanKeys`, `DropLine` | success, and the catch block |
| `Disconnect`, `BlockPeer`, `DiscardReadPort`, `Expire`, `BeginSweep`, `SweepPort`, `SweepKeys`, `Crash` | what goes on around |

A second loop over the same NewChat message is left to the two hazards it is listed
under (section 5). Only the generator checks whether its line exists and whether the
port expired; a bundle of version 1.0.0 carries no expiry for the reader. `create()` is
the initial state. Left out: contacts, folders, permissions, the first messages of the
chat and `DirectChat.delete`.

### MessageChanges

`Changes` are ids; each becomes an edit, a reaction, the withdrawal of one, or the
deletion when it is made, and is the task of its own `send()`. `Pumps` retry journaled
rows as in `Outbox`. `mine`, `myReaction`, `hasReaction`, `myTile` are the author's
database, `theirs` is the peer's. `at`, `cur`, `held`, `out` and `todo` are locals;
`queue` is what the server took, of which the peer has processed `done` and
acknowledged `acked`. `lastEdit`, `chosen`, `unlisted` and `tangled` are history: the
latest edit, the reaction the author chose last (nothing when he took it back), whether
his own table lost or never got it, and the kinds of change two of which were in flight
together.

| action | code |
|---|---|
| `Edit`, `SaveEdit`; `React`, `UpdateReactionInfo`; `Delete` | `send()` of the three senders |
| `Load`, `EditNotFound`, `ReactionNotFound` | `loadSavedMessage` and `onFailure` |
| `Reapply`, `Reread` | `loadSavedMessage` of an edit, which writes its text to the message again and sends what it then reads |
| `PostAccepted`, `Answered`, `AttemptFails` | `attempt()` split at the request |
| `ReadTile`, `WriteTile`, `CleanUp` | `updateConnectionInfo`, `cleanup` |
| `Inspect`, `Quote`, `Tombstone` | `cleanDeleteMessage`, run locally once the server took the deletion |
| `Receive`, `Acknowledge`, `Redeliver`, `PeerCrash` | the peer's loop; a crash may come between two statements of a handler |

The chat is authenticated and keeps its keys; the peer runs one loop over its backlog
(two loops are `Inbox`). Left out: a deletion that is only local (its row and tile are
in `Outbox`) and the peer's own reactions. Two oddities of the code are part of the
model: `onFailure()` of an edit reads a property of null and throws after it refreshed
the tile (`EditMessageSender.ts:212-224`), and `cleanup()` of an edit runs also after an
attempt that failed (`:183`), so that such an edit is never sent. That is why
`EditSettles` asks that the server took the latest edit. `Quiet` in it says that nothing
is under way. `ReactionSettles` says that the *peer* shows what the author chose last,
wherever either side was killed. The author's own table agrees too unless `unlisted`,
which is set in two places only: he was killed after the reaction's row was saved and
before his table was written (`Crash` at *table*), or a retry found the row gone that
another task had sent and cleaned up, and `onFailure()` deleted the entry
(`ReactionNotFound`, `ReactionSender.ts:198-217`).

### SuperPort

`Loops` are the loops over received messages, each in the `use()` of a line `cur` with
the copy of the port's row it loaded. `port`, `keys`, `line`, `lineKey` and `chat` are
rows; `lineKey` says whose secret the keys made for a line hold, and the column
`permitted` of `port` whether it has permissions, which a port made before migration 013
has not (`WithPermissions`). `open` and `screen` are the owner's settings screen and its
copy of the row. `closed`, `made` and `pending` are the server's. `formed`, `uncounted`,
`unlimited`, `overwritten` and `mixed` are history: chats formed, those formed by uses
killed before they counted, whether uses overlapped or a limit was set or written back
below what was made or under way, whether a copy was written back over a count that had
changed since, and the lines for which another use derived its secret between their
check and their copy.

| action | code |
|---|---|
| `MakeLine`, `Receive`, `Load` | the server, `NewChatOverSuperport.performAction`, `fromPortId` |
| `Guard`, `CreatePermissions`, `CheckLimit` | `checkLineExists`; where permissions are missing, `createPermissions()`; then pause and limit on the copy (`Admit`) |
| `Derive`, `Check` | `verifyIntroMessage`: the secret into the shared row, then decryption with what the row holds by then |
| `LookUpChat`, `ReadRoute`, `ReadOldLine`, `CopyKeys`, `AddLine`, `JoinLine`, `DeleteOldLine`, `AddChat` | the middle of `use()` |
| `Count`, `Drop` | `incrementConnectionsMade`, and the catch block |
| `PauseRequest`, `PauseRow` | `pause()`, which nobody awaits; overlapping calls are one |
| `OpenScreen`, `SetLimit`, `SetPermissions`, `CloseScreen` | the owner's settings screen |
| `CleanRow`, `CleanKeys`, `Disconnect`, `Crash` | `clean()`, the environment |

`createPermissions()` and `updateSuperPortPermissions()` call `updateSuperportData` with
all of the loaded copy (`SuperPortGenerator_1_0_0.ts:150`, `:162`), so `WriteBack` puts
back the count, the limit and the pause the copy was loaded with. What another use has
counted meanwhile is then lost, and `CountIsHonest` and `LimitHolds` stop at
`overwritten`; through every other write-back they hold. `resume()` is not modelled:
nothing calls it.

### Groups

One group, this user (`Self`) and the others (`Members`). `inGroup`, `admin`, `myKey`,
`roster`, `pending` are the server's; a member's `key` there is the number of the join
it made its keys for. `conn`, `group`, `selfKeys`, `member` and `keys` are rows; a
secret shared with a member is named by both sides' keys. `ports` are the joins whose
read port still has a row. `at`, `jat`, `act` and `dat` say where received events,
`Group.join`, an act of the user and `Group.delete` are suspended; `used` is the join
whose port `use()` is about to delete, `cleaning` are ports whose row is gone and whose
keys are next. `lost` is history: the joins whose keys went with their port.

| action | code |
|---|---|
| `MemberJoins`, `MemberGoes`, `MemberAdmin`, `SelfAdmin`, `SelfRemoved`, `Accept` | the server, with the event it keeps for this user |
| `Receive` | a batch or a push brings any kept event, in any order, repeatedly |
| `AddMemberKeys`, `AddMemberRow`; `LoadMember`, `WriteMember`; `UpdateSelf` | the receive actions for member events |
| `Join`, `JoinUnanswered`, `FindChat`, `FindGroup`, `AddGroup`, `UpdateGroup`, `AddConnection` | `Group.join`, `save`, `resave`, called by `GroupPortReader.use` |
| `SaveMember`, `DeleteOldKeys`, `UpdateMember`, `InsertMember` | `GroupMember.save` |
| `DeletePort`, `CleanPort`, `DeletePortKeys` | what becomes of the read port: `deleteReadPortData` once the chat is formed (`GroupPortReader_1_0_0.ts:159`), or `clean()` of a port that is refused, discarded (`Ports/index.ts:226-243`) or expired (`:276-291`), which deletes the row and then the keys |
| `Act`, `Leave`, `WriteAct` | `removeMember`, `promoteMember`, `demoteMember`, `leaveGroup`: the request, then the row |
| `Delete...` | `Group.delete`, statement by statement |

Assumed of the server: it takes a join only of a non-member, refuses a group port it
has seen, and does not tell the user of what he did himself. Before it is used a port has
keys that nothing else refers to, so its row and keys appear with the request (`Accept`);
a port that is given up before changes nothing modelled here. One port is used at a time
(`bundleProcessLock`). `use()` deletes the row of the port in a statement after the join,
and until then the row names the keys that are the group's own by now: a crash in between
leaves a port that is refused, discarded or swept later, and takes those keys with it.
Rows of keys that nothing refers to any more are never deleted by the code and are left
out of `keys`. `excused` are the people whose row the code may leave wrong for good, and
each reason is named where it is set: an event handled out of order or while the same
person's row is being written, an event or a deletion during a join, a join into a group
still connected, members who went while the user was away, an INSERT refused by an old
row, an announcement that came when the group's own keys had gone with their port, and
answers lost or crashes in the middle of a join or of an act. `RosterAgrees` says that
these are all there are; `SelfAgrees` that the group has its own keys or lost them in
that one way. `MaxTurns` bounds changes of the roster, crashes and lost answers together.

### Calls

`current` is the reducer's state; `updates` are dispatches waiting for a render, and
`Render` reduces all of them with the reducer's side effects (`reduced[n]` is what the
first n make of the world), then runs the effects of the mounted screens and the
provider's, as React 19 batches them. `stack` holds the call screens over whatever was
there before, each with the call of its first render (`born`), which its effects
captured; `opened` one record for each ongoing-call screen ever mounted: stage,
microphone, socket, peer connection, the provider it dispatches to, and how it ended
(`over`). `crossed` are calls that an action dispatched for another call answered or
ended.

| action | code |
|---|---|
| `manageCall` and its five cases | the reducer of `CallContext.tsx` |
| `Receive`, `TakeUp`, `PlaceCall` | `ReceiveCall.notify`, the provider's effect, `ChatTopbar.onCallPressed` |
| `RingTimeout`, `StartInOS`, `EndsInCallKit`, `OnEnd`, `PressNotification` | the ring timer and the operating system |
| `PressAccept`, `PressDecline`, `checkNativeCallState`, `BackFromIncoming` | `IncomingCall.tsx` |
| `StreamStarts`, `StreamDenied`, `CloseDenied`, `setupCall`, `PeerConnectionInit`, `PeerConnected`, `HangUp`, `PeerEnds`, `SetupFails` | `OngoingCall.tsx` |
| `Remount` | `AppStack.tsx` unmounts for new terms |

On iOS the report of an incoming call to CallKit is commented out
(`src/ios/AppDelegate.swift:92`), so CallKit knows only calls placed here and
`didAnswerCall` answers *declined* for an incoming one. The screen asks for the stream
before it looks at the permissions (`OngoingCall.tsx:225-232`), so `StreamDenied` may
leave the microphone on behind the request for them, and nothing stops it when the
request is closed: the third of the ways that `Released` names. `SetupFails` dispatches
its `end_call` also when the screen was left meanwhile. A call is placed from a chat
with no call screen over it. Timers of an unmounted provider have nobody to tell. Two
listeners for the same event count as one. Signalling messages are not modelled.

## 3. What the runs check

| run | instance | distinct states | shows |
|---|---|---|---|
| `outbox` | 2 messages, 2 deletions or reactions at a time, any crashes | 4,552,000 | `TypeOK`, `SentIsAccepted`, and the inductive `EvidenceInv` |
| `inbox_pulls` | 2 messages, 2 pulls, 1 crash | 291,000 | `ForgottenIsStored`, `LockIsHeld` |
| `inbox_live` | 1 message, 1 pull, 1 push, iOS cache, receipts, 1 crash | 51,000 | `TypeOK`, `CountFollowsStore`, `BacklogIsStored`, `LockIsReleased` |
| `direct_pump` | 1 disappearing message, 1 pump, 1 pull, receipts | 1,489,000 | `ImplementsDelivery` |
| `direct_live` | the same message without a timer, no receipts, pulls that may be cut, 1 crash of the sender | 161,000 | `EventuallyDelivered` |
| `changes` | 2 changes of one message, 1 pump, failing requests, 2 copies, any crashes of either side | 3,184,000 | `TypeOK`, `PeerForgets`, `EditSettles`, `ReactionSettles`, `DeletionIsFinal` |
| `port_pair` | a generated and a read port of one peer, earlier chat or none, expiry, discards, 2 crashes | 432,000 | `TypeOK`, `ChatHasLine`, `LineHasKeys`, `FormedChatIsKept` |
| `superport` | a port without permissions, 3 lines of 2 readers, one with an earlier chat, 2 loops, first limit 1, then 1 or 2, one fault or act of the owner | 4,613,000 | `TypeOK`, `CountIsHonest`, `LimitHolds`, `OwnSecret` |
| `groups` | 1 other member, 2 loops, 2 joins, 3 changes, or 2 and a crash or lost answer, ports cleaned at any time | 3,029,000 | `TypeOK`, `KeysHeld`, `RosterAgrees`, `SelfAgrees`, `ChatLoads` |
| `calls` | 2 calls, iOS and Android, 2 dispatches a render, 1 remount | 1,587,000 | `TypeOK`, `RingIsOwn`, `RingEnds`, `ScreenHasCall`, `CallHasScreen`, `Released` |

The two remaining runs, `groups_readd` and `calls_released`, are expected to fail;
section 5 tells what they show. Numbers are after symmetry reduction, which is used in
runs of safety properties only. The longest run takes about three
minutes when two run side by side.

**Bounds.** Two messages are the least for which the tile can show one while a task or a
receipt works on the other, and a third adds no new relation, since every action touches
one message and the tile. Two deletions or reactions are the least that look up the tile
and write it across each other. A pump next to a message's own task is the least that
gives two writers of one row, in the two `direct` runs; a third writer does what the
second does. A pump and a deletion together, and both with the tile, are left to the
theorems. Two pulls are what the timer makes possible. In `Outbox` and `MessageChanges`
a process may be killed any number of times, which needs no bound; end to end, where
liveness is asked, the sender's crashes are counted. Elsewhere one crash can hit every
await, and two crashes let a redelivered message meet what the first crash left. Two
tasks of `use()` are the least that interleave, and with the generator on one port and
the reader on the other they exercise both paths. Two changes are the least that compete
(an edit with an edit, a reaction with its withdrawal, either with the deletion), and
two copies let a pump duplicate one of them. Three lines with two readers and a limit of
one that can be raised to two reach the limit, step over it, and meet a reader who had a
chat; one visit to the settings may set the limit and the permissions, as often as it
likes. With one other member every order of a join, a removal and a return of either
person is reached within three changes of the roster, and a crash or a lost answer after
either of two; what one member's row does is independent of the other rows, the two
loops, the join and the deletion are what competes for it. Two calls are the least that
can be mistaken for each other, and two dispatches the least that one render reduces
together. That bounds can hide something is shown
by one case, told in section 4: with three tasks and a crash `ChatHasLine` fails, so the
theorem about it names its hypotheses and the run its bound.

**Deadlock.** The runs of `Inbox`, `DirectMessaging` and `PortUse` check it: there the
client always has something it may do, as a pump or a pull can be started again. In
`Outbox` and `MessageChanges` a crash is always possible, so the check says little.
`SuperPort`, `Groups` and `Calls` really stop: when all lines are used, the roster has
changed as often as its bound allows, or both calls are over.

**Fairness.** Weak fairness of `TaskStep`, `PumpStep`, `PullStep` and `LoopStep`: a
resolved promise is run. Weak fairness of a pump's steps includes its start, since every
foregrounding and every background wake-up starts one and a pull alike. Strong fairness
of `PostAccepted`, `Answered`, `Connect` and of a batch that holds a given message: a
network that comes back again and again lets a request through in the end.
`Authenticate` is weakly fair, since the handshake goes on in the backlog. `Cut` is
weakly fair, since it is a timer. Nothing is assumed of crashes within their bound, lost
answers, expiry, users or disconnections.

**The properties that took thought.** `SentIsAccepted` cannot be read off one function:
a row may go from sent back to journaled (a late failure of another task), from read to
sent (a late answer), and the tile may show one message with the status of another, which
a deletion looked up before. It holds because whoever is about to write *sent* has had a
request taken, or read *sent* in the row of the message it speaks of.
`EventuallyDelivered` needs the pump to find every row a killed task left.
`ForgottenIsStored` holds although a second loop works on the same batch, because a
loop that finds no row inserts it before it goes on. `PeerForgets` holds although edits
are redelivered after the deletion, and the peer is killed between row and tile, because
the content type guards the row and a deletion processed again clears the tile.
`LineHasKeys` leaves out *spoiled* ports: those that expired or were discarded while in
use, or whose use was killed after it added the line, lose their keys in the code too.
`CountIsHonest` holds because the count is incremented in place and not from the copy;
only the creation of permissions puts a copy back over it (`overwritten`). The limit is
compared with the copy, which is why `LimitHolds` is about uses that follow one another.
`ReactionSettles` separates what the peer shows, which no crash excuses, from the
author's own table. `SelfAgrees` has to follow the keys of each join, as two functions and a sweep
delete them by the row of a port that may be older than the group.
`OwnSecret` holds because what another use derived is noticed at the check; only a
derivation between check and copy (`mixed`) is not. `ScreenHasCall` must survive a call
that ends and another that comes in between two renders.

## 4. What is proved

TLAPS proves the following for all values of the constants that satisfy the modules'
assumptions (`OutboxAssumption`, `InboxAssumption`, `ClientAssumption`,
`CrashAssumption`, `ChangesAssumption`, `PortUseAssumption`, `SuperPortAssumption`,
`GroupsAssumption`, `CallsAssumption`, `NoneAssumption`, `EventAssumption`). They say
that the id sets are disjoint, that flags are Booleans, that bounds are natural numbers,
that a placeholder is none of the things it stands in for, and that the loops of a
superport and of an inbox are finitely many, as invocations are.

*Outbox*. `TypeCorrect`: `Spec => []TypeOK`. `EvidenceHolds` and `SentMeansAccepted`:
`SentIsAccepted` by itself is not inductive, as a step that writes *sent* would need to
know where the task got it from. `TasksKnow` supplies that: a task that waits for the
answer, or has the answer *sent* and is about to write it, works on a message the server
took, and a cleaner that is about to give the tile the status *sent* loaded it from such
a message. `EvidenceInv` is both. `AcceptedMsgs` only grows, so only the steps that put
a task into such a place need an argument: `PostAccepted` makes the fact, `Answered`
carries it on, `LoadLatest` reads it from the row, `MarkRow`, `UpdateTile` and
`RestoreTile` use it.

*Inbox*. `TypeCorrect`; `LockIsExclusive` (`LockIsHeld` is inductive given the types:
`isLocked()` and `acquire()` run in one go, and every way out releases); and
`NothingForgotten`. The inductive `StoredInv` adds to `ForgottenIsStored` that a message
past its INSERT has its row, that a pull holds a batch only while its socket is open,
and that each message of that batch is stored, still to come in this pull's own loop,
or the one being processed. When the loop ends only *stored* is left, and that is when
`AckBatch` is possible. The argument holds for any number of pulls and pushes over
the same messages. `CountHolds` (`Spec => []CountFollowsStore`) counts: `ShownInv` says
that every notification displayed, or still to be displayed by one of the loops in
`Notifying`, has an increment of its own, and `CountedInv` that an increment comes after
the row and, without a crash, a row has its increment or a loop about to make it. Each
`Bump` adds one to the count and one loop to `Notifying`, each `Notify` takes it out.

*DirectMessaging*. `DeliveryImplemented` (`Spec => ImplementsDelivery`): two clients and
the server refine `Delivery`, and every step of theirs is one of its steps or changes
nothing it sees. A step of the composition is a step of one client or leaves that client
alone, so that the behaviours of the whole are behaviours of `Outbox` and of `Inbox` and
their theorems carry over, `SentIsAccepted` and `ForgottenIsStored` among them. What the
clients cannot know by themselves is `LinkInv`: what a task or a pump works on was
submitted (`WorkInv`), what arrived is exactly what the server took (`QueueInv`), and
receipts under way, like rows marked read, stand for messages the receiver stored
(`ReadInv`).

*MessageChanges*. `TypeCorrect`; `DeletionStands` (`Spec => DeletionIsFinal`, from the
types: of all writes to either row only `Tombstone` and a received deletion touch the
content type); and `ForgetsWhatWasDeleted` (`Spec => []PeerForgets`). The invariant of
the types is `Sound`: a task works on a change that was made, a journaled row and a
taken copy belong to one. `PeerForgets` speaks of the end of the queue only; the
inductive `Forgetting` says what holds on the way: a deleted row has no text, and either
the tile is clear too or a deletion is still ahead in what the peer will process
(`DeletionAhead`), which redelivery and crashes only make longer. `EditsSettle` and
`ReactionsSettle` (`Spec => []EditSettles`, `Spec => []ReactionSettles`) are the hardest
here, since both speak only of quiet states. `WorkInv` says what every suspended task is
about and which rows and copies must exist for it. `EditInv` is what holds on the way
while no edit was made with another in flight: every earlier edit is *over*, though a
pump may still hold its id, as its row is gone and the pump will find nothing; the
author's row, what any task is about to post, and every copy of the latest edit carry
its text; after a copy of it no copy of another edit is in the queue; and once the
server has it the peer shows it or has it ahead. `ReactionInv` is the same for
reactions, where a withdrawal counts as one: the peer shows `chosen` or has it ahead,
and the author's table holds it unless `unlisted` or its writer is still on the way.
Both hold for any number of changes, pumps, copies, redeliveries and crashes on either
side.

*PortUse*. `TypeCorrect`; and `ChatKeepsItsLine`: under `OwnPort` (no two tasks of one
port) and `MaxCrashes = 0`, `Spec => []ChatHasLine`. The invariant `IInv` says besides:
the locals of each task fit its await; a port that is being used waits in no queue; a
line is mentioned, by a chat or by a local, only once its use has come that far and,
once that use is over, cannot start again; two chats share no line, and a chat that is
on a line some task has read is the chat that task found, so the line a task is about
to delete has no chat on it; and a task about to join has its row. Both hypotheses are
needed. Without `OwnPort`, the second use of a port deletes the line of the chat the
first one built. Without `MaxCrashes = 0`, TLC finds a violation with three tasks: a
process killed between `addConnection` and `deletePortData` leaves a port that is used
again; the line is disconnected, two other uses replace it, one of them with a
`route` it read before the other, the redelivered NewChat adds the line again, and the
late `cleanDeleteLine` removes it under its chat. `LineKeepsKeys` and `FormedChatsStay`
(`Spec => []LineHasKeys`, `Spec => FormedChatIsKept`) are proved under the same
hypotheses. The second follows from `IInv`: the line a catch block drops is mentioned by
no chat. For the first, `KInv` adds that the keys of a port are ready from the intro
until the join, unless spoiled, and that nothing else takes keys: the clean-up of a use
works on its own port, which no chat has; user and sweep spoil it; and the keys of a
replaced line go after its chat has moved on.

*SuperPort*. `TypeCorrect`; `OwnSecretHolds`; `CountHolds`. For the second the inductive
`SecretInv` adds that, for a use past its check and not `mixed`, the shared row either
is gone or holds the secret of its own reader (`SecretIsTheirs`), and that what a use
has copied is its reader's (`HeldIsTheirs`): a derivation by any other use puts every
use between check and copy into `mixed`, in the same step. For the third, each step
either leaves the uses between forming and counting alone, adds one together with
`formed`, takes one away together with the increment, or, in a crash, moves all of them
to `uncounted`, or it writes back a copy whose count is still the row's, or sets
`overwritten`; the rest is the arithmetic of finite cardinalities. `LimitKept` (`Spec =>
[]LimitHolds`) builds on it: while no two uses overlapped, no copy overtook a count and
no limit was set or written back below what is made or under way, at most one use is
active (`OneUse`), and a use that was let through has room for its chat because the copy
it checked agreed with what was formed (`Room`).

*Groups*. `TypeCorrect`, where `Types` also says which kind of event is about whom, that
a key is that of a join which has been, and which locals go with which await.
`ChatLoadsHolds` (`Spec => []ChatLoads`): `Group.delete` holds on to the connection until
its last statement, and `Group.join` adds one only for a new chat and after the group's
row (`ChatInv`). `KeysHeldHolds` (`Spec => []KeysHeld`): `LoopKeysOK` and `JoinKeysOK`
say that the secrets a loop or a join has saved for a row it is about to write are its
own, in no row yet and in nobody's hand to be deleted, as a secret is made by one writer
for one pair of keys; so what `GroupMember.save` and `Group.delete` delete is only what
the row they replace or delete referred to (`MemberKeysOK`).

`RosterAgreesHolds` and `SelfAgreesHolds` (`Spec => []RosterAgrees`, `Spec =>
[]SelfAgrees`) are the longest. Both speak of quiet states only, and what makes them
hard is everything in between: several loops handle copies of one event while the server
changes the group again. `CourseInv` says what holds on the way, about each person
nothing excuses:

* `Alone`: what may be under way about him at once. Loops may handle the newest event
  about him any number of times, or the user's act or a join is under way, or a deletion
  of a group that is no longer connected, but no two of these kinds. It is what
  `OutOfOrder` and `Handled`, which decide who is excused, leave possible. It also says
  that the newest keys of this user are saved or went with their port.
* `OnCourse`: the events about him that the server still keeps lead, in their order,
  from what the rows say to the roster (`Leads`: a new member was out, a change of role
  is about the keys the one before left, and the last one leaves what the roster says).
  The rows count as they will be once what is under way is done: what the server
  answered while joining (`WhileJoining`), what the user asked for (`WhileActing`), and,
  while an event is handled or kept to be handled again, what it tells, with the rows in
  a state from which handling it leads there (`WhileHandling`).
* `SeenOK`, `RosterOK` and `SuspendedOK`: two events with one number are one event, an
  event that was seen is no newer than the last change, and a loop that waits has what
  its own event made it load.

`Live` limits `OnCourse` to a group the phone is connected to and to people of whom no
event was passed over for a newer one; where nothing is under way and nothing kept, that
is no restriction beyond the property's own. The server's steps append an event to the
chain (`ServerCourse`), the first handling of the next event takes one off it
(`ReceiveCourse`), every other handling finds the rows already agreeing
(`HandledAgrees`), and joining starts the chain from the answer (`JoinStarts`). What
becomes of a read port touches the user's own keys alone (`PortFrame`), and an event
about somebody that is dropped for want of them excuses him. When all is settled the
chain is empty, and the rows are the roster's (`SettledAgrees`).

*Calls*. All six properties of the run: `TypeCorrect`, `TimersAreOwn` (`RingIsOwn`),
`RingingIsBounded` (`RingEnds`), `ScreensGo` (`ScreenHasCall`), `CallsAreShown`
(`CallHasScreen`) and `SessionsAreReleased` (`Released`, with its three ways), for any
number of calls, of dispatches in one render, of screens and of remounts. What makes
them hard is the render, which reduces a whole queue before any screen reacts.
`QueueInv` says what the queue can hold: a call waits for the reducer once and nothing
is known of it until then (`UntakenInv`, `OnceInv`); one that is placed has no screen in
front of it (`PlacedInv`); one that is answered is answered on its own screen, unless
the user left it (`AnsweredInv`). `ScreenInv` is the same of the screens: the incoming
one is single and in front, a call that rings has no ongoing screen, one that goes on
has its own, and a session that nothing ended is shown. `Reached` holds of the world
after each dispatch (`Start`, `OneMore`), and so after all (`Rendered`), by induction on
the queue: the recursion of `reduced` is shown to be well defined (`Reduction`) and the
induction itself is taken from the well-foundedness of the naturals on the set of good
positions (`UpTo`). `Settling` then follows the six outcomes a render can have for the
screens.

**Only model-checked.** Liveness (`BacklogIsStored`, `LockIsReleased`,
`EventuallyDelivered`): the prover has no fairness reasoning. Everything else the passing
runs check, each invariant, action property and refinement, is stated by a theorem.

## 5. Where the code and its comments disagree

Two runs show it.

* `groups_readd`: a member who left keeps a row marked deleted, and
  `UNIQUE(groupId, memberId)` refuses the row that `addMember` (`Group.ts:718`) inserts
  when he is announced again; the error is logged and dropped, and he is not in the
  member list (`AddMember.ts:13`, "add new member to member list").
* `calls_released`: `endCall` closes what the screen's state holds when it runs
  (`OngoingCall.tsx:383`). A call hung up before its setup finished, or ended by
  CallKit, a timer or another call's action, leaves camera, microphone, socket or peer
  connection open, and so does a stream that was opened before a permission was found
  missing (`OngoingCall.tsx:225-232`) (`PeerConnectionManager.ts:554`, "Once a call is
  ended call before letting this object be garbage collected").

The models show the following too; no run asks about them, and the properties above are
stated so that they hold beside them.

* `sendJournaled` rebuilds a sender whose `expiresOn` is null, so a disappearing message
  that is resent reaches the peer without its expiry (`GenericSender.ts:127`, "sending
  and resending are exactly the same").
* A receipt checks the latest message and writes the tile in two queries; a message sent
  in between is shown as read (`Storage/connections.ts:141`).
* Two loops over one message may both pass `doubleProcessingGuard`, and the unread count
  rises twice (`pullBacklog.ts:91-94`).
* The guard of `PortGenerator.use` may be passed by a second delivery of one NewChat,
  whose catch block then deletes the keys and the line of the chat just formed
  (`PortGenerator_1_0_0.ts:297`).
* Two people who read each other's ports may end with two connected chats, as lookup and
  insertion are awaits apart and `pairHash` is not UNIQUE (`PortGenerator_1_0_0.ts:315`).
* A message with a reaction is deleted, or expires, while a newer one is sent: the tile
  gets the status of the one before, and may say *sent* over a message that is only
  journaled (`Storage/messages.ts:180`; `:169`, "if message contains reaction, set the
  chat tile with latest message contents").
* `createPermissions()` of a superport writes the whole loaded copy back, and chats that
  another use has counted meanwhile are no longer counted
  (`SuperPortGenerator_1_0_0.ts:150`; `:139`, "Creates default permissions for the port
  in case it doesn't exist.").
* Killed between the join and the deletion of the read port
  (`GroupPortReader_1_0_0.ts:159`; `:158`, "delete used port after chat is formed."), a
  group later loses its own keys with that port: when the port is tried again and
  refused (`:166`, "404 error indicates an expired or an unuseable Port."), discarded or
  swept. Afterwards no member who is announced can be added.
* A late retry of a reaction that was sent already finds no row and deletes the author's
  own entry, which the peer shows (`ReactionSender.ts:209`; `:196`, "Perform these
  actions on critical failures.").
* An edit whose only request failed is shown to its author and never sent
  (`EditMessageSender.ts:183`).

## 6. What is left

In the order in which it would add most:

1. `PortHandshake`: two instances of `PortUse` and the server; agreement of both ends
   on the line when nothing is lost, and what a lost answer, an early Deletion or a
   crash in `use()` leaves behind. Extends `PortUse` by `DirectChat.delete`.
2. The signalling half of a call: the queue of call messages and the peer connection.
3. Contact ports with their tickets, sending to a group, media.
