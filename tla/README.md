# A verification project for the Telegram Desktop fork in this repository

The repository is a fork of Telegram Desktop (`src/Telegram`), a C++/Qt client of
Telegram, with a plugin system, some fork features and a few helper scripts.
Paths below are relative to `src/Telegram/SourceFiles/` unless they start with
`src/`. `SP` stands for `mtproto/session_private.cpp`, `DC` for
`mtproto/details/mtproto_dcenter.cpp`, `SE` for `mtproto/session.cpp`, `MI` for
`mtproto/mtp_instance.cpp`, `PW` for `data/data_pts_waiter.cpp`,
`PM` for `plugins/plugins_manager.cpp`, `DM` for
`storage/download_manager_mtproto.cpp`, `SU` for `storage/details/storage_file_utilities.cpp`, `SA` for
`storage/storage_account.cpp`, `HI` for `data/data_histories.cpp`.

The part of the program whose correctness is hardest to see and hardest to test
is its MTProto engine: threads, locks, two ends of a lossy connection, and a
server that forgets. The project starts there, and goes on to what lives on top of that engine:
updates, downloads, the requests about chats, the files on the disk, and the plugins.

## 1. Inventory

| component | state it keeps | operations | what is hard | what makes it correct |
|---|---|---|---|---|
| **Data centre keys**: `Dcenter`, `BoundKeyCreator`, `DcKeyBinder` | two temporary keys, one persistent key, two creation locks, shared by all sessions of a data centre | acquire a creation, release it on success or failure, destroy a temporary key, forget a persistent one | several threads compete; an acquire, a Diffie-Hellman exchange, a bind and a release are seconds apart, and the keys change meanwhile | one creation of each key at a time, no key overwritten, the keys in a `Dcenter` belong together, every session gets a key |
| **MTProto session**: `Session` (main thread), `SessionData` (locks), `SessionPrivate` (own thread), `ReceivedIdsManager` | requests to send, requests sent, answers received, ids being resent, ids acknowledged, containers, received ids, session id, connection | send, cancel, resend, acknowledge, answer, ask for states, reset the session, connect, disconnect | every map has its own lock and a request moves between them; packets are lost with connections; the server repeats, refuses, forgets | no request is lost, executed twice or answered twice; every request is answered |
| **MTProto instance**: `Instance::Private` | handlers by request id, delayed requests, requests waiting for an import of the authorization, dependent requests, sessions by data centre | send, cancel, process an answer or an error, migrate, delay, import an authorization, kill sessions | handlers are taken out and put back; errors redirect a request to another data centre | each handler is called once; waiting requests go on or fail |
| **Creation of a key**: `DcKeyCreator` | one exchange of one thread | three requests and their answers | cryptography | outside the reach of a model checker |
| **Connections and sockets** | test connections, resolvers, TCP/HTTP/TLS framing | connect, send, receive, time out | choice of the best of several connections | framing is pure data |
| **Data centre options and config** | table of endpoints and keys | merge, store, look up | a lock and a merge | sequential |
| **Updates**: `PtsWaiter`, `Api::Updates` | pts/qts/seq, queue of updates behind a gap, timers, requests for differences | apply an update or keep it, ask for a difference, apply it | updates come out of order, twice, or not at all, while a difference is being loaded | every update applied once and in order, none missed for ever |
| **Plugins**: `PluginManager` | plugin records, safe mode, recovery state and its files, registries of callbacks | load, unload, reload, enable, disable, recover, call callbacks | a plugin may crash the program at any call, or call back into the manager | a plugin that crashed is disabled at the next start |
| **Loading and uploading of files**: `DownloadManagerMtproto`, `DownloadMtprotoTask`, `Uploader` | parts in flight per session, amounts, successes and timeouts of sessions, hashes of a CDN | balance parts over sessions, add and remove sessions, redirect to a CDN, reupload, cancel | sessions, data centre and token change while parts are in flight | counted is what is asked for, each part is loaded, each download ends |
| **Local storage**: `WriteManager`, `Account` | up to three names of every file, queued writes, the map of keys, delayed writes | read, write, clear, log out, exit | a crash between two calls, two threads, delayed writes | the last complete version is read, nothing cleared returns, an exit loses nothing |
| **Streaming**: `Reader`, `File`, `Player` | slices loaded, wanted and cached; a thread that reads and one that loads | read, seek, cancel | hand-over of data between threads | a waiting reader is woken |
| **Data and histories**: `Histories`, `History`, `SparseIdsList` | requests per history, what is read here and on the server, entries asked for, sparse lists of ids | read, delete, ask for entries and messages | answers out of order, requests that hold each other back, state read before a callback | nothing waits for ever, the chat is read as far as the server was told |
| **Calls, core, interface, fork features, tools, site** | | | | see PROJECT.json for why they are left out |

How they interact. The main thread runs `Instance`, every `Session` and the API.
`Instance::send` stores the handler and calls `Session::sendPrepared`, which puts
the request in `SessionData::_toSend` under its lock and queues `tryToSend` to the
thread of the `SessionPrivate`. That thread sends, keeps the request in `_haveSent`,
and puts answers in `_receivedMessages`; it queues `tryToReceive` to the main
thread, which calls `Instance::processCallback`. Keys pass from `SessionPrivate`
through `SessionData` (an owner mutex guards against a `Session` that is gone) to the
`Session` and its `Dcenter`, and `Dcenter::update` is signalled back to every
session of the data centre as a queued `updateAuthKey`. `Api::Updates` is a client of
`Instance`, and so are `DownloadManagerMtproto` and `Histories`, which send their requests through it and run on the main
thread. `Storage::Account` hands what it writes to the thread of its `AsyncWriteManager`. Plugins are called from
the main thread.

The hazards, the code that is hard to test, each with its line, are the "hazards" of
PROJECT.json; every property below was chosen for one of them.

## 2. Plan

In this order, most important first. At most eight modules hold theorems; a property is one formula that says what the
component promises, in named parts.

1. `DcKeys` with `MCDcKeys`; proofs in `DcKeysProofs`. **Done.**
2. `RequestDelivery` (the promise of a session) and `MtpSession` (the code), which is
   shown to implement it, with `MCMtpSession`. **Modelled, checked and, but for liveness, proved** in `MtpSessionProofs`.
3. `UpdatesWaiter`: one `PtsWaiter` with its `Updates` and a server's log of updates.
   **Modelled, checked and, but for liveness, proved** in `UpdatesWaiterProofs`.
4. `MtpInstance`: handlers, `_authWaiters`, `_dependentRequests`, `_delayedRequests`, migration. **Modelled,
   checked and, but for liveness, proved** in `MtpInstanceProofs`.
5. `PluginRecovery`: the one slot of the operation in progress, its file, nested
   operations, crashes and the next start. **Modelled, checked and, but for liveness, proved** in
   `PluginRecoveryProofs`.
6. `Downloads`: the balance of downloads. **Modelled, checked and, but for liveness, proved** in `DownloadsProofs`.
7. `AtomicFile` (the promise) and `StoredFile` (the three names), which implements it; `AccountStorage` takes the
   promise for its files. **Modelled, checked and, but for liveness, proved** in `LocalStorageProofs`.
8. `Histories`: the requests about chats. **Modelled, checked and, but for liveness, proved** in `HistoriesProofs`.
9. Left: the slices of the streaming reader and its hand-over between threads; uploading (`storage/file_upload.cpp`); the
   queue of updates by seq.

## 3. Data centre keys: `DcKeys`

**State.** `temporaryKey`, `persistentKey` and `creatingKey` are the fields of `Dcenter` (keys are
numbers, 0 is none). For each session of the data centre: `owner` and
`myKeyCreation` are `SessionData::_owner` and `Session::_myKeyCreation`; `keyChanged`,
`keyDestroyed` and `restartQueued` the calls queued between threads; `private`, `connection`,
`keyId`, `encryptionKey`, `keyCreator`, `bindKey`, `bindMsg`, `realType` and `currentType` the fields of
`SessionPrivate`. `stage` and `readKey` say where its thread is between two critical
sections of one handler (`applyAuthKey` reads the key, decides, and acquires under
three locks; `destroyTemporaryKey` releases and then forgets). `serverTemp`, `serverPerm`,
`boundTo` and `keyHome` are the server, external.

**Actions.** One per handler, or per critical section of a handler: connecting
(`ConnectToServer`, `Connected`, `UpdateAuthKey`, `ApplyAuthKey`, `AcquireInApply`, `Disconnect`,
`ClosedSilent`, `RestartNow`), making and binding a key (`KeyCreated`, `KeyCreationFailed`, `SendBind`,
`ReceiveBindSuccess`, `ReceiveBindError`, `KeyNotFound`, `PermanentKeyEmpty`, `ForgetKey`), the main
thread (`KeyDestroyedOnServer`, `Stop`, `Start`, `Kill`, `PrivateDestroyed`, `SessionDestroyed`,
`DcOptionsChanged`), and the server (`ServeBind`, `ServerForgets`).

**Left out.** The Diffie-Hellman exchange (one step that succeeds or fails), the choice
among test connections (`connecting`), logging out through
`destroyKeysOnServer`-style key destruction of other instances, the age test of
`destroyOldEnoughPersistentKey` (both outcomes are possible), timers between retries.
External assumptions: a media-only endpoint has temporary keys of its own, and
the server closes a connection on which nothing is sent (`CloseSilent`).

**Runs.**

| run | instance | what it shows |
|---|---|---|
| `dc_keys_safety` | a regular session and a media session (which may be stopped or killed), 4 temporary and 2 persistent keys, 1 fault, persistent keys may be forgotten | `TypeOK`, `CreationsAreSafe` (`LockedSlotIsEmpty`, `ExclusiveCreation`, `CreatorMatchesLock`, `CreatorStartedOnce`), `KeysBelongTogether`, `KeysAreNeverOverwritten` |
| `dc_keys_live` | two regular sessions, 5 temporary and 4 persistent keys, 2 faults | `EverySessionGetsKey` |
| `dc_keys_cdn` | two sessions of a CDN data centre, 5 keys, 2 faults | `EverySessionGetsKey` where keys are not bound and a public key may be unknown |

Two sessions, and one fault besides a forgotten key or a stopped session, are what the interesting cases take: a key
destroyed under a bind, a lock held by a session that is stopped, a media session
making the regular key, a change of the data centre's type between two connects. The numbers of
keys in the two liveness runs are more than two sessions use with two faults, so
that no run ends because keys ran out.

**Fairness.** Weak fairness of each handler of a thread, of the main thread's queue and of
the server's answer: an event loop runs what is queued to it, and every wait in the
code has a timer behind it. Faults have none.

**Seen.** The creation lock can be taken with nobody creating, in two ways. `releaseKeyCreationOnDone` (DC:139-144) returns
false when the persistent key was replaced while the temporary one was bound to it; it does not clear the
lock, and by then neither `Session::_myKeyCreation` nor `SessionPrivate::_keyCreator` remember
it. Other sessions wait for "someone" who "is creating already" (SP:2474), and nobody is. And after a type change a session
with a temporary key acquires the lock in `connectToServer`, keeps its old key in `checkAuthKey` (SP:2389), and never starts
the creation it holds the lock for while the endpoint goes on accepting that key.
`EverySessionGetsKey` does not hold with `CloseSilent = FALSE`: `releaseKeyCreationOnFail` tells no other session
(DC:151-163), so a session that waits for a key learns that nobody makes it only when
its connection breaks.

**Proofs** (`DcKeysProofs`; for any set of sessions, types and bounds, from
`InitialTypeAssumption`, `CdnAssumption` and `BoundsAssumption`). No property is inductive alone. The invariant of the locks is

    LockInv == TypeOK /\ CdnTypes /\ LockParts
    LockParts: LockedSlotIsEmpty, HoldersHaveLock, NoTwoHolders,
               CreatorMatchesLock, PersistentHolders, BindersHaveKey

`PersistentHolders` (a session that creates the persistent key holds the regular lock, and nobody else makes one) is
what keeps two sessions that create different kinds from writing
the same slot; `BindersHaveKey` ties the answer to a bind to a key. One lemma per action shows
that the step preserves the parts it can disturb; `Spec => []LockInv` follows by PTL, and
from it `TypeCorrect`, `CreationIsExclusive`, `LockedSlotsAreEmpty`, `CreatorsMatchLocks` and the action property
`KeysNeverOverwritten`. The second half strengthens it to

    BindInv == LockInv /\ ThreadParts /\ KeyParts /\ KeysBelongTogether

where `ThreadParts` relates `stage`, `keyCreator` and `connection`, and `KeyParts` says that an answered bind
has been recorded by the server for exactly the key the session holds. It yields
`KeysAlwaysBelongTogether`, `CreatorsStartOnce` and, with the above, `CreationsAlwaysSafe`. `EverySessionGetsKey` is liveness under fairness and stays with
TLC.

## 4. Requests: `RequestDelivery` and `MtpSession`

`RequestDelivery` is the promise: a request is executed at most once more often than one of the
two ends lost the session, its callback is called at most once, with a result only
if the server executed it. `MtpSession` is the code; `DeliversRequests` is the refinement
(`Delivery == INSTANCE RequestDelivery WITH status <- ...`; a cancel in progress counts as a cancel).

**State.** On the main thread `status` (the handler in `_parserMap`), `cancelling` (the call of `cancel` in progress,
lock by lock), `delayed`. In `SessionData` `toSend`, `haveSent`, `haveReceived`. In the request that
both maps share `msgIdOf` and `inContainer`. In `SessionPrivate` `resendingIds`, `ackedIds`, `sentContainers`,
`stateRequests`, the four `..Data` of service messages, `receivedIds`, `session`, `started`, timers. `hand` holds the
requests that are in neither map because the code released one lock and has not
taken the other (SP:772-800, SP:2276-2290). `c2s` and `s2c` are the connection, FIFO and lost
as a whole when it breaks. The server executes an id once per session it knows, repeats
answers until they are acknowledged, refuses, announces and forgets.

**Actions.** Main thread: `SendRequest`, `CancelBegin`/`CancelToSend`/`CancelHaveSent`, `ProcessCallback`,
`CheckDelayedRequests`. The session's thread: `TryToSend` with its branches (nothing, a single request in two critical sections,
a single service message, a container), `PutResent` (second half of `resend`), `ClearOldContainer`,
`CheckSentRequests`, `Connect`, `Drop`, `PingTimer` and one `Handle..` per kind of message. The server: `ServerReceive`,
`ServerExecute`, `ServerAnswerAgain`, `ServerResend`, `ServerRepeat`, `ServerForget`, `TimePasses`.

**Abstractions.** Message ids are consecutive numbers and those of pings, acks and containers without
requests are not counted. Connecting and connected are one state. Several ids of one notice are
resent in one take and one put. When the check timer fires every old entry is asked about. The
timers that wait for an answer are the fault "drop". Old containers appear only when the server
may leave a message unacknowledged (fault "old"). A mismatch of session ids is prevented by `Online`,
the server not sending into a connection of another session. Left out: salts and clock correction, HTTP
waiting, gzip, the bind request (`DcKeys` has it), updates, paused receiving, `invokeAfter` and layer wrapping,
code 64 of bad_msg_notification (it resends a container's requests as `ClearOldContainer` does), the own entry of a
resend request, and the errors that move a request to another data centre or import an authorization
(`MtpInstance` has them). The comment at SP:486 says a lock is held that is not on the path of a
single message; `SingleIsFresh`, a part of `SessionMapsAgree`, shows why that is harmless.

**Runs.**

| run | instance | what it shows |
|---|---|---|
| `session_safe` | two requests, 3 events (requests, faults of eight kinds), buffer of one received id, containers of two | `TypeOK`, `EveryRequestHasOnePlace` (`NoRequestLost`, `OneCopy`), `SessionMapsAgree` (`SingleIsFresh`, `ResendingIsWaiting`, `MessagesOfThisSession`), `DeliversRequests` |
| `session_live` | one request, main session, 1 fault, also "detailed" and "fatal" | `EveryRequestEnds` (`EveryRequestAnswered`, `CancelledIsForgotten`) |

Eight or ten message ids are enough: `session_live` never reaches an id above 7, so its liveness is not cut
off by the bound. `MaxEvents` bounds requests and faults together: one request meets every pair of faults, and two requests with one
fault meet what requests do to each other in a container. `kIdsBufferSize` is 400 in the code; the buffers of the
runs are as large as the number of ids (`KeepAcked`) or smaller than the answers that
may be repeated (`KeepReceived`), so that "older than all that are kept" happens.

**Fairness.** Weak fairness of what a thread has queued or half done, of its timers, of connecting, of handling
what was received, and of the server working off its input. None for faults, `SendRequest` or cancel.

**Seen** (each found by changing the constants of a run):

- *The answer to an old request is dropped.* `requestsAcked` puts the answered id in `_ackedIds` and erases the smallest ids
  beyond the buffer (SP:2183-2189). An old id is the smallest: it is erased at once, `wasSent` finds no request for it
  and the result is dropped, while it was already taken out of `_haveSent`. With 400 ids it takes a request that
  is answered after 400 younger ones; with `KeepAcked = 1` one.
- *A session without pings waits for ever.* With `MainSession = FALSE` and "forget", a request sent alone is asked
  about by no timer, because only the branch that fills a container arms the check timer (SP:980), and
  nothing else goes over the connection that would reveal the loss. The same with "detailed": `_resendRequestData` is
  filled (SP:1793) but nothing queues a send.
- *A fatal refusal leaves the request behind.* `HandleFatal` answers with an error and leaves the request in
  `_haveSent` (SP:1644); an error that waits sends it again under a second id. `OneCopy` and `DeliversRequests` do
  not hold with "fatal" in `Faults`, which only `session_live` has.
- *Ids of the old session in the new one.* `forceNewMsgId` holds for one call of `tryToSend` (SP:597), whose container
  may not take all requests (SP:736); in `session_safe` all waiting requests fit, so that
  `MessagesOfThisSession` holds. With `ContainerSize = 1`, two requests and "seqno" it does not.
- *A refused id is sent again.* `prepareToSend` gives a new id only in a new session or for an id above the
  current one (SP:467), so the id refused with code 16 is refused again.

- *A delayed request is done and sent again.* An error that waits leaves the request in `delayed`, to be sent again under its id while
  `_ackedIds` still names it. If the server forgets the session at that moment it executes what was sent before under the same id once
  more, and the new answer finds the request through `_ackedIds`: the request is done and still in `_toSend`, and `OneCopy`
  does not hold. It takes one request, five events and the faults "forget" and "error"; the three events of `session_safe` do
  not reach it.

**Proofs** (`MtpSessionProofs`; from `FaultsAssumption` and `SizesAssumption`, for any numbers of
requests, ids and events, any sizes of buffers and containers). For every set of faults

    SessionInv == TypeOK /\ HandParts /\ SingleIsFresh /\ OneOwner /\ Allotted /\ CancelParts

is inductive. `Names(m, r)` says that a map, the request, a call of `cancel` or the hand knows `r` by the id `m`; `OneOwner` that no id names
two requests, `Allotted` that no id is used before it is given. Most steps only make names fewer (`Shrinks`); sending is the one that renames
(`RenamesOnly`), and there the work is `replaceMsgId`: a map goes from old ids to new ones without two entries meeting
(`RenamedMap`, `ContainerMaps`). It yields `TypeCorrect`, `SingleFresh` and `IdsHaveOneOwner`. What else the runs check is proved under hypotheses. The list
above shows that they are needed, but for "error" in `MapsOfSessionAgree`, for which no counterexample is known:

| theorem | hypothesis | what it stands for |
|---|---|---|
| `NothingLost` (`NoRequestLost`) | `KeepAcked >= MaxMsgId` | `_ackedIds` is not trimmed: with fewer than 400 answers kept. Otherwise the answer to an old request is dropped |
| `MessagesAreOfTheSession` | `ContainerSize >= MaxRequest` | one packet takes all that waits, so that none of it waits for a second one after `forceNewMsgId` |
| `OnePlace` (`EveryRequestHasOnePlace`) | no "error" and "fatal" in `Faults`, and that of `NothingLost` | requests are answered by results |
| `MapsOfSessionAgree` (`SessionMapsAgree`) | no "error" and "fatal" in `Faults`, and that of `MessagesAreOfTheSession` | |
| `SessionDelivers` (`DeliversRequests`) | no "fatal" in `Faults` | no message is refused for good |

The crash of a connection, lost, repeated and refused messages, forgotten and reset sessions, old containers and cancelling are allowed in all
of them. `NothingLost` follows the answer through `requestsAcked`: what an answer frees is remembered in `_ackedIds`
(`AnswerIsKept`), where `wasSent` finds it in the same handler. `OnePlace` adds `StrictInv`: the maps agree
(`MapsOK`: a request in `_haveSent` is under its own id and nowhere else, an id in `_resendingIds` is that of a request in `_toSend`, what
`_ackedIds` names is in no other map), the id of a container is that of no request, and what was answered is known to no map. The step that matters
is an answer: the request it names must be gone from all maps in the same handler (`ResultGone`), because the handler of the
main thread may run at once. `MapsOK` has the maps as parameters, since `handleMsgsStates` acknowledges and then resends. 

`SessionDelivers` is the refinement, with errors that make a request wait and be sent again. Its invariant `DeliversInv` has three parts.
`FlightInv` follows messages: nothing of an earlier session is in the connection (`SessionsInOrder`), each message on its way or with the server
has an id that is of one request and was of no other (`FlightOwned`), and a request is sent with greater and greater ids (`IdsInOrder`), so that of
the ids it has or is on its way with the server got at most one in the session it knows (`OneGot`).
`Budget` counts: `Tokens(r)` are the places where an execution of `r` that is still to come can be - ahead of the server under an id it did not
get, with the server, with an error on its way to the session, in `haveReceived`, or in `delayed` - and executions and tokens together are at most
`losses + 1`. Every step moves a token or uses it up; only a lost session makes one. The step that matters is again an answer: an error
moves from the connection to `haveReceived` once, because `SeenStays` shows that `receivedIds` never takes an id for new that it saw before,
whatever it has dropped. `ResultsTrue` follows a result from the server's answer through `requestsAcked` to the callback. Without
"fatal" \notin `Faults` the theorem is false: a message refused for good stays in `_haveSent` and is sent again with the container it was
in, so that the request may be executed twice with no session lost. Liveness stays with TLC.

## 5. Updates: `UpdatesWaiter`

The server numbers what happens: an update has a `pts` and a count of events, and moves the server's pts on by that count. A
`PtsWaiter`, one for the account and one for each channel, compares two sums: `_last` is the largest pts heard of,
`_count` the pts it began with plus all counts heard of. While they differ an update is missing; the others wait in
a queue, and after a second `Api::Updates` asks for the difference from `_good`, the last pts at which the sums agreed.

**State.** `good`, `last`, `count`, `queue`, `requesting`, `waiting`, `shortPoll` are the fields of the waiter. The order of the queue is its
key, (pts, arrival); all of it is applied in one step, so a set of updates stands for it. `byPts` and `afterFail` say that the
timers of `Updates` are armed, without their times: a timer that is armed may fire at any moment. `diff` is the one
request of a difference, on its way, answered with a slice or answered in full; an answer is computed when the server gives
it and handled later. `net` is the set of updates on their way: they come in any order or never.
`start`, `applied` and `again` are history for the properties.

**Actions.** All of it runs on the main thread, so a handler is a step. `ReceiveUpdate` (`applyUpdates` and `feedUpdate`), `UnknownPeer` (an
update about somebody who is not loaded asks for a difference), `ApplyAffected` (what a request of this client did, in
its result), `PtsReceived` (a channel's pts with a part of its history), `TooLong` (also a new session), the two timers,
`DifferenceFail`, `StateDone`, `DifferenceSlice`, `DifferenceDone`, `ToggleChat` (an open channel is polled); the server's
`ServerAdds`, `ServerAnswers`, `ServerAnswersState`. `UpdateAndApply` and `UpdateAndApplyCount` hold the five
outcomes of `PtsWaiter::updateAndApply` as disjuncts.

**Left out.** The queue by seq, qts and dates, the timer after which an update of a channel that is not loaded asks for the account's difference,
differences of a range of history, `differenceTooLong` and `channelDifferenceTooLong`, updates of group calls (which
have no pts), what an update changes, how long timers wait. An update is told once: the push of an update that a result brought as well
is not modelled.

**Runs.**

| run | instance | what it shows |
|---|---|---|
| `updates_order` | account and channel, updates pushed, in results and as affected counts of 1 or 2, pts up to 4, 1 failed or forced difference | `TypeOK`, `LogIsApplied` (`NoUpdateMissed`, `AppliedInOrder`, `AppliedOnce`), `GapIsHandled` (`QueueIsBehindGap`, `GapIsWatched`), `GoodNeverGoesBack`, `GapCloses` |

Three updates are enough for a gap with one update behind it and one that closes it; pts 4 adds an update of two events,
whose count alone could close a gap of another size. One fault meets a gap, a slice and an open chat in every order.

**Fairness.** Weak fairness of the timers, of the server's answers and of handling them. None for the arrival of an update, for faults or for opening a
chat: `GapCloses` holds though the missing update never comes.

**Seen.** `check()` starts the wait of a second when a channel's pts, received with a part of its history (count 0), shows that
something is missing, and returns true because the count is 0; `updateAndApply` then calls `applySkippedUpdates`, which cancels
the timer (PW:165, 187). The client knows of a gap and nothing will ask for it until another update comes.
With counts of 0 `AppliedInOrder`, `AppliedOnce` and `GapCloses` do not hold either: an update that counts nothing and comes
behind a gap makes the client apply the queue without the update that is missing; the difference brings the same updates again.
Each update kept for its seq starts the timer of one second anew (`api/api_updates.cpp`:1388), and an update repeated behind a gap
is counted twice (PW:177).

**Proofs** (`UpdatesWaiterProofs`; for both kinds, any counts, any length of the log and any number of faults).
`NeverGoesBack`: `Spec => GoodNeverGoesBack`. The types are not enough, an answer could end before the pts reached since it was asked for. `DifferencesFit` proves the
inductive invariant: `good <= last <= serverPts`, nothing on its way is beyond the server (`CountsInv`); and while a difference is on its
way `requesting` is set, which shuts updates out, so that it starts at `good` and ends no earlier (`DiffInv`).
`GapAlwaysWatched`: if no update counts nothing and no pts comes with other data, `[]GapIsWatched`, with the strengthening
that the timer of a gap is armed together with `waiting` (polling an open channel disarms a timer that is not waited for).

The second half shows why it is enough to compare two sums. An update of count c covers the last c pts values up to its own, and no two
updates of a log cover the same value (`LogInv`); the updates heard of since the sums last agreed lie between
`good` and `last`, and `count - good` is the number of values they cover (`CountInv`, a cardinality, so that no sum over a set has to be defined
by recursion). The sums agree if and only if every value is covered, that is, if nothing is missing. From the invariant `IInv /\ WInv` (`OrderKept`) follow
`TypeCorrect`, `NothingMissed` and `QueueBehindGap`, which hold for updates that count nothing as well. `LogApplied` (order, and each once) and `GapHandled` need the
assumption that no update counts nothing and no pts comes with other data (`0 \notin Counts`, `"received" \notin Sources`): without it they do not hold, see *Seen*.

## 6. Plugins: `PluginRecovery`

`Plugins::Manager` loads libraries into the program, and any of them may take it down. Before it runs code of a plugin it writes in
`plugins.recovery.json` who is about to run (`startRecoveryOperation`), and clears the record when the code has returned
(`finishRecoveryOperation`). A record found at the start belongs to a plugin that crashed: it is disabled, safe mode is
turned on, and only then the record is cleared (`recoverFromPendingState`, PM:1806). There is one slot for the record, and code
of a plugin may make the manager call another one.

**State.** `files`, `config`, `recovery` and `safeMode` are what is on the disk: the packages in `tdata/plugins`, `plugins.json`, `plugins.recovery.json` and
`plugins.safe-mode`; `kept` are the packages moved aside to `.rollback` during an install. `disabled`, `recovered`, `pending`, `known`, `loaded`
and `reloading` are the fields of the manager; `started` says that `start()` has returned. `work` is the main thread: the stack
of what is left to do, innermost first. An entry is code of a plugin or a step of the manager, which ends where the program may die
with something new on the disk, or where code of a plugin starts. `blamed`, `owned`, `crashed` and the field
`calledBack` of an entry (an operation began within the one recorded for this code) are history for the properties.

**Actions.** The start (`Read`, `Recover`, `CreateSafeModeFile`, the scan, `Ready`); the requests of the user and the program (`SetEnabled`, `SetDisabled`, `SetSafeModeOn`,
`SetSafeModeOff`, `InstallPackage`, `RemovePlugin`, `Callback`, `FolderChanges`, `ReloadQueued`, `Quit`), each of which pushes the steps of its handler;
those steps, of scanning (`ScanEnabled`, `RescanSafe`, ..), unloading, reloading, installing (`Copy`, `Place`, `Allow`, `CheckInstalled`, `RollBack`, ..), removing
and saving; and the ends of plugin code: it returns, throws (`CallbackThrows` and `OnLoadThrows` go on with `disablePlugin`), fails
or takes the program down (`PluginCrash`). `Kill` ends the program in any step of the manager. After either the program starts
again with what is on the disk.

**Left out.** How many handlers a plugin has; the notice shown after a recovery; stored settings; trust in packages and their contents;
safe mode on the command line; events handled while a plugin is unloaded; an install from the plugins folder itself; failures of the writes of the two
files and of moving a backup back. Of what code of a plugin may cause from within, callbacks and a reload
during a reload are modelled; the removal or reload of the running plugin from the event loop of its own dialog, which frees the
code that is running, is not.

**Runs.**

| run | instance | what it shows |
|---|---|---|
| `plugins_recover` | two plugins, code nested two deep | `TypeOK`, `CrasherIsBlamed` (`CrashIsRecorded`, `OnlyCrasherIsBlamed`), `DisabledStaysOff` (`BlamedStaysOff`, `RecoveredStaysOff`), `FilesAreInOrder` (`SavedStatesAgree`, `InstallKeepsPackage`), `ComesToRest` |

One plugin that is at fault and one that is not are what blaming takes; two levels of code are what it takes that an inner operation
ends the record of an outer one, by another plugin or by the same. There is no other bound: the number of crashes, kills, restarts and
requests is not limited. `InstallKeepsPackage` is stated until the first crash, and `CrashIsRecorded` for code that calls nothing back, because of what
follows.

**Fairness.** Weak fairness of the steps of the manager and of the end of plugin code, as the main thread goes on by itself; strong fairness of the end of
code at each depth, since an outer call is not ready to end while an inner one runs: code of a plugin
does not call back for ever. None for crashes, kills and requests. `ComesToRest` excepts a program that is killed again and again, and plugin
code that asks for another reload in each reload, which loops in `reload` (PM:2164).

**Seen.**

- *A crash after a callback is not noticed.* `startRecoveryOperation` overwrites the slot and `finishRecoveryOperation` empties it
  (PM:1858); neither keeps what was there. When code of a plugin sends a message or opens a window, the handler of another plugin,
  or its own, runs within it, and its end leaves the outer code running with nothing on the disk, though
  src/site/docs/safe-mode.md:15-16 says that recovery state remains if the process crashes before the operation is cleared.
- *Looking into a package runs its code*, though src/site/docs/file-utilities.md:35 says that an install can inspect it without: `inspectPackage` calls `CheckPackageLoadability` in
  any case (PM:1284), which loads the library and calls its preview and binary info, with no operation recorded. `inspect` is therefore excepted from `CrashIsRecorded`.
- *Enabling a plugin in safe mode loads it* (PM:4008), also the one that was disabled after a crash, while settings/settings_plugins.cpp:1738 says that plugins are
  shown without loading.
- *After an install in safe mode the list of plugins is empty* until the next reload, the plugin disabled by the recovery included: `installPackage` clears it in `unloadAll` and
  scans nothing (PM:3363). src/site/docs/safe-mode.md:18 says that it remains visible.
- *Code can return into a library that is gone*: an observer that throws within an action of its own plugin makes `disablePlugin` unload it, and the action goes on.
- *A kill between the two renames of an install* leaves the old package as `.rollback` only, which no scan looks at and which the next install of that plugin deletes before it copies.

**Proofs** (`PluginRecoveryProofs`; for any set of plugins and code nested to any depth, from `DepthAssumption`).
Every invariant of the run depends on what is still to be done, that is, on the stack: whether a crash is blamed on the right plugin on what runs within what; whether
a disabled plugin is saved as such on the step that is still to save it. So the inductive invariant is

    IInv == TypeOK /\ WellFormed(work) /\ StartInv /\ SlotInv /\ ListInv
            /\ DisabledInv /\ SaveInv /\ PackageInv

`WellFormed` says of each entry of the stack which kinds may stand anywhere below it and which one right below (within code of a plugin only
a callback and what follows one that throws); the other parts tie the state to entries that have to be there: `SlotInv` the record on the disk to the code that runs and
to the step that will clear it, `ListInv` the lists to the scans, `DisabledInv` who is blamed to the record or to `plugins.json`, `SaveInv` each difference between memory
and disk to the step that saves it, `PackageInv` each package moved aside to the step that moves it back or deletes it.
The lemmas `Puts` and `Seen` are those of pushing and popping; then there is one lemma for each action and each of its outcomes. `Recoverable` is
`Spec => []IInv`; `TypeCorrect`, `CrasherBlamed`, `BlamedDisabled` and `FilesInOrder` follow. That all four hold for any depth says that two levels of nesting in the run hide nothing.
Only `ComesToRest`, which is liveness, stays with TLC.

## 7. Downloads: `Downloads`

A file is a task that asks for its parts one after another; `DownloadManagerMtproto` gives each request to the session of the
data centre with the least amount in flight. A session that proves fast may have more, and when all are full and enough requests
succeed a session is added; when requests take too long, again and again, the last session is removed and its requests go to
the others. A file may be redirected to a CDN, whose parts are checked against hashes, which are asked for with requests of their own.

**State.** `balance` is `_balanceData` of the data centre, `queue` and `resetTimer` its queue, `sent` the `_sentRequests` of all tasks;
`next`, `fed`, `cdn`, `hashes` and `unchecked` are fields of the task, `status` is the loader's. Everything runs on the main thread, so an
event would be one step; but the loops of the manager call tasks, which call the manager, so `calls` holds what the event being handled
has still to do, one turn of a loop at a time, and no other event is handled while it is not empty. `posted` holds the calls
made through `crl::on_main`.

**Actions.** `Start`, `SendNextPart` (`checkSendNext`, one turn of its loop), `PartLoaded` and the four outcomes of `cdnPartLoaded`, `ReuploadDone`, `HashesDone`,
`Redirected`, `RefuseToken`, `RefuseReference` and `Refreshed`, `Refuse`, `Resend`/`ResendEnds` (`changeCDNParams`), `Cancel`, `Destroy`, `SessionTimedOut` with
`Recheck`, `Redirect`, `RedirectEnds` and `PopSession` (`removeSession`), `ResetGeneration`, `KillSessions`, `RunPosted`, `RestartedByTimeout`.

**Left out.** Several data centres, the limit of a file not loaded for a non-premium account, resuming from what the cache has, sizes
(each part is one unit), the speed in bytes; how long an answer took is the fault "slow".

**Run** `downloads`: two files of two parts, one urgent, at most two sessions, up to two faults of nine kinds. `TypeOK`; `AssertsHold`
(every `Assert` and `Ensures` of the manager and the task); `RequestsAccounted` (`AmountsAgree`: what is counted in a session is what is asked
for in it; `PartsAccounted`: each part taken is in the file, asked for, or kept with its hash asked for); `EveryDownloadEnds`. The constants
of the code (16 parts in flight, 8 sessions, 10 s, ..) are small numbers here: two sessions and a limit of 4 in each are what
adding, filling and removing take; two faults meet a removal during a redirection.

**Fairness.** Weak fairness of the main thread's work, of each answer, and of the owner who deletes a loader that failed. A good answer
comes in the end: faults are bounded.

**Proofs** (`DownloadsProofs`; from `FaultsAssumption`, `PriorityAssumption` and `SizesAssumption`, for any files, priorities, numbers of parts, of
sessions and of faults).

| theorem | hypothesis |
|---|---|
| `TypeCorrect` (`TypeOK`), `AmountsAlwaysAgree` (`AmountsAgree`) | none: all ten kinds of fault |
| `RequestsAlwaysAccounted` (`RequestsAccounted`) | `TokensFresh`: no redirect and no refused token comes while hashes of the file are asked for |
| `AssertsAlwaysHold` (`AssertsHold`) | `TokensFresh`, and `Few`: fewer requests are sent than `Big`, what `removeSession` charges the session being removed with |

`TokensFresh` excludes what "A stale token" below is about; without it the statements are false. `Few` is about
`chooseSessionIndex`, which takes the session with the least amount: `removeSession` gives the one it removes 16 x 8 parts more so that it is not
chosen, which does it as long as the others have less than that. `trySendNextPart` keeps to a limit in each session, requests that are made
again and those for hashes do not.

`AmountsAgree` speaks of the states between events; its invariant has to speak of what an event has still to do:

    Inv == Types /\ GoodCalls(calls) /\ (~failed => Core) /\ WaitingLoading
    Core: Agrees(balance, sent, the session being removed), GoodQueue, QueuedAre, AllLoading, LeavingOK

`Agrees` counts the requests of each session, with `Big` more in the one that is removed, and knows that no offset of a file is asked for twice; `QueuedAre`
that the queue has each file that loads or failed, once, so that a removal reaches every request; `LeavingOK` that each request left in
the session being removed is of a file whose turn is still to come in `calls`; `WaitingLoading` that only a file that loads has parts that wait for hashes, so that the
removal moves them all. The loops that finish all requests of a file (`cancelAllRequests`) need `FinishAll` in one formula: what is
subtracted of each session is the number of its requests, shown by the lemmas about `Changed` and cardinalities.

`RequestsAccounted` adds `PartsInPlace`. For each file `Accounted(R, A, u, f, s, n)` relates the requests that are sent (`R`), the ones to be sent again (`A`), the parts
that wait (`u`) and those in the file (`f`): `Apart` that none below `n` is asked for twice, `KindsFit` that hashes are asked for a part that waits
and nothing else is, `Covered` that each part below `n` is in one of them. `HashesComing` says that where a part waits a request for hashes is sent or posted;
`InSessions` that the session it waits in is there, and not the one being removed once the turn of its file has passed. One lemma for each way a
part goes (`FedAccounted`, `KeptAccounted`, `ReplacedAccounted`, `AgainAccounted`, `ResentAccounted`, `DroppedAccounted`, `MovedAccounted`, ..)
is all that the handlers need. The step that matters is the removal: a request for hashes is cancelled there without being made again, and is posted
only if parts wait. TLC checked the invariant before the proof under `TokensFresh`, with one file of four parts, three sessions and four faults, and
with two files of two parts, three faults of all kinds.

**Seen.**

- *A restart of a connection counts for no session.* The constructor passes `GetDcIdShift`, 16 and more, as the index to
  `sessionTimedOut` (DM:126-131), which returns at once as there is no such session, so that only slow answers remove sessions, though
  the header speaks of timeouts in any session of the data centre.
- *A stale token.* `changeCDNParams` (DM:1028) sends again as a part whatever is on its way, the request for
  the hashes of a part that waits too, and forgets that it was one. With the fault "staleToken" (a token is refused while hashes are
  asked for with it) the part that waits is then never asked for its hash, and after another redirect `requestMoreCdnFileHashes` asks for
  the hashes of an offset that is asked for already, so that `Ensures(ok1 && ok2)` in `placeSentRequest` (DM:819) fails. TLC finds
  it with `MaxFaults = 3` and `Faults = {"redirect", "nohash", "staleToken"}` in `Downloads.cfg`, in 25 steps. The fault is left out of the run.
- *The same without a stale token.* `PartsAccounted` fails as well when a token is refused, the hashes are asked for after that by a call posted
  before, and a redirect comes while they are. The proof found this: it takes four faults (a slow answer, so that a session is removed and the call is posted, among them) and a file of four parts, which the run
  does not reach, and is why `TokensFresh` speaks of redirects too.
- `getCdnFileHashesDone` never calls `checkSendNext`: other files go on only because hashes are asked for by a file with parts still to come.

## 8. The instance: `MtpInstance`

`Instance::Private` decides where a request is: in a session, in `_delayedRequests`, in `_authWaiters` until the authorization has been
exported from the main data centre and imported, or in `_dependentRequests` behind another request. `MtpSession` has what
happens to a request within a session; here a session is the set of requests it holds.

**State.** `byDc`, `stored`, `parsers`, `dependent`, `delayed`, `waiters`, `exports` are the maps of the same names with an underscore; a request
sent to the main data centre is registered with minus its number, as in the code. `toSend` and `sent` are the requests in the sessions,
`order` what the server makes of `invokeAfterMsg`. `dropped` and `broken` are history: requests and data centres the code does nothing more about.

**Actions.** `SendRequest`, `Cancel`, `CheckDelayedRequests`, `SendAll` (a session sends what it has), `Done`, `Fails`, and an action for each error that
`onErrorDefault` handles: `Later`, `Migrate`, `WaitFailed`, `WaitTimeout`, `Unauthorized`, `NotInited`. `SetMainDcId`, `Resumed` (`importDone`),
`Exported`, `Failed` and `Unregistered` are what they call.

**Left out.** Logging out and `killSession`, the config and its requests, keys being destroyed, file references and `FILE_ID_INVALID`'s
memory of whom it has asked, a handler that sends or cancels while it is called, the acknowledgement that may come while `processCallback` has the
handler in its hand (MI:1171). External assumption: answers come in the order in which the requests were handled.

**Run** `instance`: two data centres, three requests of the user to the main one and another, each perhaps after one before it, one export, two
faults of nine kinds. `TypeOK`; `EveryRequestHasItsPlace` (`OnePlace`: a request registered is in one place at most, where `cancel` would look if it was not lost;
`NobodyForgotten`: and something will be done about it there); `EveryRequestAnswered`. Three requests are what a chain behind another
request takes; two faults meet an import that fails with a migration or a cancellation meanwhile.

**Fairness.** Weak fairness of progress as a whole: every event the system produces by itself uses a bound up or brings a request nearer to its
end, so that it need not be stated for each. None for faults and the user.

**Proofs** (`MtpInstanceProofs`; for any data centres, targets, numbers of requests and of faults, from `DcAssumption`, `TargetsAssumption` and
`BoundsAssumption`). `EveryRequestHasItsPlace` is far from inductive: that a request has one place depends on where every other table has it, and on
what the handlers in between leave behind. A handler calls others - an error fails the request, which ends it, which sends those behind it - and the tables
that one is given are seldom those of a state. So the invariant is stated of worlds, the records of tables that the operators go through:

    Inv == Fits(World, {}, {}) /\ faults \in 0 .. MaxFaults
    Fits(w, hand, done): Tables, HeldRight, HeldOnce, WaitsOnce, Apart, Made, Behind,
                         AuthInDc, AuthAsked, Somewhere, Counts

`hand` has the request that `processCallback` took out of its session and that has no place until its handler gives it one, `done` the request whose handler
has ended. Each operator takes a world that `Fits` to one that does, with its own `hand` and `done`: an answer puts the request into the hand (`HandlerTaken`), a
handler that puts it back somewhere takes it out again (`PutBack`, `JoinedKeeps`, `ExportAskedKeeps`), one that ends it leaves it registered and done
(`HandledEnds`, `FailedEnds`), and `Unregistered` closes that (`EndedIsClosed`). The parts that carry the argument:

- `Apart`: the four kinds of places exclude each other, so that taking a request out of one leaves it in none.
- `AuthAsked`: while a queue of waiters is not empty, an export or import for its data centre is registered and not yet done, or an import failed. It is what makes
  a waiting request not forgotten: the handler of an export makes the import before it is done itself (`ExportedEnds`), and that of the import empties the queue.
- `HeldRight`: a request in a session is where `cancel` looks, or it was lost in the session of a negative data centre.
- `Behind`: what a request waits for directly is registered. `Unregistered` has to release all that wait for it, directly or not.
- `Counts`: requests are counted by their kinds, so that one that is made finds an id; an export under way keeps the id of its import.

TLC checked `Fits(World, {}, {})` as an invariant before the proof, with three requests and two faults, with two and four, and with three and five. From it follow
`TypeCorrect` and `RequestsHaveTheirPlace`.

**Seen.** `EveryRequestAnswered` and `NobodyForgotten` except what the code does drop (`Stuck`):

- *A failed import leaves the waiters for ever* (`importFail`, MI:1303, only returns), a failed export forgets them (MI:1358).
- *A change of the main data centre destroys sessions with requests of others in them* (MI:489), which nobody answers.
- *`importDone` with a request for the main data centre* changes the main data centre to the imported one and asks `getSession` for its
  negative number (MI:1296): that session has no data centre to connect to, and the request is never answered. Nor can it be cancelled there: `cancel`
  looks in the session of the positive number (MI:675). The proof found this; it takes four faults (later, migrate, unauthorized, a cancellation), where the
  run has two, and `OnePlace` now says "where `cancel` would look" only of requests that were not lost.
- *`invokeAfter` gets lost* when the request before is no longer in `_haveSent` (SP:107-110): the order of two requests is kept only while they meet in the session.
- The early return at MI:1103 bites nothing: requests registered are stored (part of `OnePlace`).

## 9. Files on the disk: `AtomicFile`, `StoredFile`, `AccountStorage`

`AtomicFile` is the promise: a reader finds the old content or the new one, whenever the program stops. `StoredFile` is the
code of one file: three names, `QSaveFile`, the fallback that writes in place, `ClearKey` on another thread. `IsAtomic` is the refinement
(`File == INSTANCE AtomicFile WITH content <- Readable, ..`). `AccountStorage` is what lies above: keys, the map, the queue of the
manager's thread, delayed writes, log out and exit; its files are those of `AtomicFile`.

**State.** `StoredFile`: `safe`, `simple`, `backup` are what is under base+"s", "0" and "1"; `pc` and `clearing` say where `writeNow` and `ClearKey`
are between two calls of the file system. `AccountStorage`: `keyOf` is the map in memory, `dirty`, `mapChanged`, `mapTimer`, `mapPosted` what is to be written later;
`inbox` is the queue of the manager's thread, `scheduled` its `_scheduled`, `current` the entry being written, `files` and `mapFile` the disk.

**Actions.** `StoredFile` has one per call of the file system: `Commit`, `SaveFails`, `RemoveSimple`, `RemoveBackup`, `OpenPlain`, `PlainFails`, `FillPlain`, `DropBackup`, `Rename`,
`RenameFails`, `DropSafe`, `ClearFile` (`ClearKey` called), `ClearSimple`, `ClearBackup`, `ClearSafe`, `Stop`, and `Read` at a start. `AccountStorage`: `SaveNow` and `ClearNow` (a slot written at once, as drafts
are), `ChangePrefs` and `WritePrefs` (one written some time after a change), `WriteMap`, `Reset` and `RemoveLeft` (a log out), `Exit`, `ExitWritesMap`, the
manager's `TakeWrite`, `StartWriting`, `FinishWriting`, `NothingToWrite`, then `Crash`, `Start`, `ClearLegacyFiles`.

**Left out.** The contents, encryption and passcodes; the domain (`storage/storage_domain.cpp`); `writeSync`, which nothing calls; `QFile::remove`
that fails; a machine that stops before flushed data has reached the disk; the cache database, whose code is not in the tree.

**Runs.**

| run | instance | what it shows |
|---|---|---|
| `stored_file` | three values, a disk that may be full | `FileTypeOK`, `IsAtomic`, `ReturnedIsStored` |
| `account_storage` | a slot written at once, one delayed, 3 changes, 1 crash, exit or log out | `TypeOK`, `NothingOldReturns` (a start finds nothing that was cleared or replaced before the last complete write), `ExitStoresAll`, `EverythingIsStored` |

Three values are as many as there are names, so each may hold another one; `stored_file` has no other bound and starts on any files an earlier version may have left.
Three changes are a write, one that replaces it in the queue, and one of the other slot.

**Fairness.** None in `StoredFile`: both its properties are of safety. In `AccountStorage` weak fairness of the manager's thread, the timers, the queue of the main thread
and of an exit or log out that has begun. None for changes, crashes and log outs.

**Proofs** (`LocalStorageProofs`; its last part is about `StoredFile`, for any set of values and a disk that fills up or not). The types are not enough: that the removal of a name never shows
an older content needs to know, at each call, which other names may be there and what they hold. The invariant is

    FileInv == FileTypeOK /\ ThreadsMeet /\ OneLegacy /\ PlainIsNewer /\ CommitStays /\ BackupIsGone
            /\ SimpleIsGone /\ PlainHolds /\ LeftBehind /\ BackupIsBefore

with one step per action. From it `FileTypeCorrect`, `WritesAreStored` and the refinement `FileIsAtomic`, again one step per action: each is a step of
`AtomicFile` or none.

The part about `AccountStorage` is for any slots, any number of changes and of stops, from `SlotsAssumption` (delayed slots are slots),
`BoundsAssumption` (the bounds are numbers) and `MapAssumption` (no key is the name of the map). A write is in the inbox, in the manager's queue or in `writeNow` before
it is on the disk, and a newer one of the same file may meet it in any of the three. The invariant is

    IInv == TypeOK /\ QueueInv /\ CountInv /\ KeysInv /\ FinalInv /\ SyncInv /\ RecentInv

- `FinalInv`: the last write on the way to the file of a slot that is not dirty writes what the slot holds (`EndsAs`), and the last map on the way names the same
  keys as the map in memory, but for keys whose files are gone for good (`Dead`). The manager's steps keep `EndsAs` (`TakeWriteGoesOn`,
  `StartWritingGoesOn`, `FinishWritingGoesOn`, `NothingToWriteGoesOn`): replacing an older entry in its place, instead of at the end, loses nothing.
- `KeysInv`: no key is one slot's in one map and another's in another, of all maps on the way and on the disk; it also says that what `ClearKey` and the log out
  remove is no slot's file, not even after the slot was given a new key.
- `SyncInv`: behind a sync only the manager's own tasks are queued, so that a sync that finds nothing to write is the end of all writes.
- `RecentInv`: whatever map a start may find, every content its file has or is still to get is in `recent`. `NothingOldReturns` speaks only of
  the map and files on the disk and is not inductive: a write and a map may reach the disk in either order.
- `CountInv`: a key is used up by a change at most, so that the keys never run out; what a delayed slot still has to use is counted by `dirty`.

All seven were checked by TLC first, with one stop and with two. From the invariant follow `TypeCorrect`, `NothingReturns` and, with one argument about the
step that ends a sync, `ExitStores`.

**Seen.**

- *A full disk.* Writing the plain file is not checked (SU:123): a truncated "0" is renamed over a good "s". `AtRisk` says when.
- *A rename that fails* leaves "0" as the only version, and the next fallback truncates it. The same `AtRisk`.
- `ClearKey` while a write of the file is queued brings it back as a file nobody knows of, until `clearLegacyFiles`.
- `~Account` writes the preferences and the map, but nothing that waits for `_writeLocationsTimer`; `reset()` does not clear `_prefs`,
  so that the next change stores old preferences for a new user of the account. `EverythingIsStored` takes neither for stored (`stale`).

## 10. Requests about chats: `Histories`

`Data::Histories` sends what is asked about a chat: that it has been read till a message, what is sent and deleted, requests for messages, and the
entry of the chats list. Requests for messages wait while something is deleted, an entry waits while anything of the chat
changes, and what has been read waits three seconds for more.

**State.** `states` is `_states`: the requests `sent` and `postponed`, `will` and `later` (`willReadTill`, `willReadWhen`), `sentTill` and `done` (`sentReadTill`,
`sentReadDone`), `entry` (`postponedRequestEntry`). `pending` and `asked` are `_dialogRequestsPending` and `_dialogRequests` with their callbacks, `flights` the
requests for entries not yet answered, `local` what the `History` says is read. `told` is history: till where the server has been told.

**Actions.** `ReadInboxTill`, `SendPendingReadInbox`, `SendReadRequests` (the timer), `ReadFinished`; `MakeRequest`, `Finished`, `Deleted`, `CancelRequest`; `AskForEntry`,
`SendDialogRequests`, `EntriesCame`, `EntriesFailed`; `ReadElsewhere`, `SetGhostMode`. A handler is one step, from a world, the record of what it may change,
to the next; the operators in between are the methods it calls. Only the handler of an answer about entries, which loops over chats and their callbacks,
is several steps: `ApplyDialog` for each chat the answer brings, then `Finalize` for each chat that was asked for, and after either, when the entry counts,
`CallBack` for each callback and `ReadConfirmed`. `dialogs`, `ending`, `current` and `calling` say what of it is left; until nothing is (`Idle`)
no event comes, for the handler runs without a break. Time is not modelled: which of the chats that wait are due is chosen,
and how many messages are unread is abstracted to what `countStillUnreadLocal` may say of it.

**Left out.** Topics being created, delivery reports, entries of folders and of topics, unread marks and mentions, callbacks that touch another
chat, `trackUnreadMessages` (taken to be true).

**Run** `histories`: two chats, of which the user opens one, messages 1 and 2, two requests besides those of
callbacks, one request for an entry besides those the handlers make, ghost mode switched once.
`TypeOK`; `AssertsHold`; `NothingForgotten` (what is held back waits for something that is under way); `ReadAsToldAtRest` (once nothing is under way the
chat is read here as far as the server was told); `EverythingEnds`. The other chat's entry is asked for with the first one's, which is
what the answers for several chats take.

**Fairness.** Weak fairness of the timer and of posted calls, of the steps of a handler that has begun (`HandleAnswer`), and of the answers: the oldest request
for entries, and of each chat one request that is not answered yet.

**Proofs** (`HistoriesProofs`; for any chats, messages, types of requests and bounds, from `HistoryAssumption` (finitely many chats: `made` counts
the requests sent at once), `OpenedAssumption`, `TypesAssumption` and `BoundsAssumption`). The invariant is

    IInv == Sound(World, Coming, current) /\ Timed(World) /\ AnswerInv

`Sound` is of a world, so that it can be shown of each method from one world to the next, and a handler that calls several is their chain. It says of each chat:

- `HoldSound`: only requests for messages are held back, while something is deleted, and none is sent then.
- `EntrySound`: an entry is pending or asked for, not both; one asked for is held back by a change of the chat, or in `Coming`: a request not yet
  answered, or an answer that has not come to this chat.
- `ReadSound`: read requests of a chat go up: each is for less than what is next to be read, for no more than `sentTill` while that is awaited and for no more than what is
  read here when nothing is; the server has been told no more than is read here or awaited. This is what the two `Expects` and `Assert`s on reading need and what
  none of the checked properties says: the second answer of two out of order finds `sentTill` zero, or above it.
- `WaitSound`: what has been read waits for its answer, then for the entry, then, in the middle of an answer about entries, for its own callbacks to end (`current`).

`Timed` is what `NothingForgotten` says of the timer, as long as ghost mode has not been switched; `AnswerInv` bounds the answer that is handled. One lemma a method says
that it keeps the world `Sound` (`SendRequestSound`, `RequestEntrySound`, `FinishRequestSound`, `ReadTillSound`, `SendReadsFields`), and most that it keeps the times
(`KeepsTimes`). Two of them hold only with what their callers know: `FinishRequestSound` that the request that ends is not what reading waits for (`NotAwaited`), and
`ToldSound`, in which `sentTill` is forgotten, that the chat is read here as far. `ReadFinished` and `ReadConfirmed` establish both. From the invariant follow `TypeCorrect`,
`AssertsAlwaysHold`, `NothingIsForgotten` and `AtRestReadAsTold`. TLC checked the invariant first, on the instance of the run.

**Seen.**

- *Ghost mode forgets the timer.* `sendReadRequests` returns and cancels the timer but keeps `willReadTill` and `willReadWhen` (HI:672-676): after the mode is
  switched off a later read of the chat starts no timer, and once another chat is read, what was read in ghost mode is sent with it, though
  `settings/settings_astrogram.cpp`:907 calls the mode "Don't read messages".
- *A channel being deleted never ends.* `deleteAllMessages` calls `finish` neither when the channel has been deleted nor when it has not (HI:805 and below):
  requests for messages of that chat stay postponed, and its entry is never asked for again.
- *A stale answer.* An answer to a request for entries that comes after a deletion has ended runs the callbacks of the request made anew with the older entry.
- `dialogEntryApplied` uses `state` after callbacks that may insert into `_states` and so move it (HI:470). An empty request is sent when all chats are held back.

## 11. What is only checked and what is not modelled

Proved are the theorems of sections 3 to 10: every invariant and action property the runs check, for all values of the constants, some of them from a hypothesis on
the environment their section names, and the two refinements. Checked only, on the instances above, is liveness under fairness, which is out of the prover's reach.

Not modelled, with the reason in PROJECT.json: Diffie-Hellman, framing, configuration, streaming, calls, core, interface, most fork features, tools and the
site. Most of the tree is interface: layout, painting and input, which have no behaviour a model checker could say something about.

## 12. Running

    tlc -workers 2 -config DcKeysSafety.cfg MCDcKeys.tla
    tlapm DcKeysProofs.tla

The configurations, each with the module it is for:

| run | configuration | module |
|---|---|---|
| `dc_keys_safety`, `dc_keys_live`, `dc_keys_cdn` | `DcKeysSafety.cfg`, `DcKeysLive.cfg`, `DcKeysCdn.cfg` | `MCDcKeys` |
| `session_safe`, `session_live` | `MtpSessionSafe.cfg`, `MtpSessionLive.cfg` | `MCMtpSession` |
| `updates_order` | `UpdatesOrder.cfg` | `MCUpdatesWaiter` |
| `plugins_recover` | `PluginsRecover.cfg` | `MCPluginRecovery` |
| `downloads` | `Downloads.cfg` | `MCDownloads` |
| `instance` | `Instance.cfg` | `MCMtpInstance` |
| `stored_file` | `StoredFile.cfg` | `MCStoredFile` |
| `account_storage` | `AccountStorage.cfg` | `MCAccountStorage` |
| `histories` | `Histories.cfg` | `MCHistories` |

The programs these modules describe may rest, so deadlock is checked only in `plugins_recover`, whose manager always has a request to take.

Definitions marked "mutant" in the modules are changed forms of an operator of the code, each of which
violates a property when it is put in the operator's place; they show that the property depends on that
code. They are used by no specification.
