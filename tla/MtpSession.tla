------------------------------ MODULE MtpSession ------------------------------
(***************************************************************************)
(* How one MTProto session delivers requests and their answers             *)
(* (mtproto/session_private.cpp, session.cpp).  The main thread puts a     *)
(* request in SessionData::_toSend; the SessionPrivate on its own thread   *)
(* moves it to _haveSent when it is sent, back when it has to be resent,   *)
(* and puts the answer in _receivedMessages for the main thread.  Each map *)
(* has a lock of its own, so a request in the middle of a move is in       *)
(* neither: `hand' holds it.                                               *)
(*                                                                         *)
(* The connection is FIFO and loses what is in it when it breaks.  The     *)
(* server is external: it executes a message id once per session it knows, *)
(* repeats answers until they are acknowledged, refuses messages and may   *)
(* forget a session.  Message ids are those of base::unixtime (external):  *)
(* each new one is greater than the earlier ones.                          *)
(***************************************************************************)
EXTENDS Naturals, Sequences, FiniteSets

CONSTANTS
    MaxRequest,     \* bound: requests 1 .. MaxRequest
    MaxMsgId,       \* bound: message ids the session allots
    MaxEvents,      \* bound: requests sent, and faults of the network, the
                    \* server and the clock, together
    Faults,         \* the kinds of fault of the run
    KeepAcked,      \* kIdsBufferSize, for _ackedIds
    KeepReceived,   \* kIdsBufferSize, for _receivedMessageIds
    ContainerSize,  \* requests that fill a container (kCutContainerOnSize)
    MainSession     \* whether this is the main session of the data centre

FaultKind == {"drop", "forget", "repeat", "error", "cancel", "detailed", "old",
              "low", "seqno", "fatal"}
ASSUME FaultsAssumption == Faults \subseteq FaultKind
ASSUME SizesAssumption ==
    /\ MaxRequest \in Nat /\ MaxMsgId \in Nat /\ MaxEvents \in Nat
    /\ KeepAcked \in Nat \ {0} /\ KeepReceived \in Nat \ {0}
    /\ ContainerSize \in Nat \ {0} /\ MainSession \in BOOLEAN

Request == 1 .. MaxRequest
MsgId == 1 .. MaxMsgId
None == 0   \* no request, no message id

VARIABLES
    \* Instance, on the main thread
    status,          \* of the handler in _parserMap, see HasCallback
    cancelling,      \* the Instance::cancel call in progress
    delayed,         \* _delayedRequests
    \* SessionData, and the calls queued through it
    toSend,          \* _toSend
    haveSent,        \* _haveSent: message id -> request
    haveReceived,    \* _receivedMessages
    sendQueued,      \* a tryToSend is on its way, at once or by Session::_sender
    \* the SerializedRequest both maps share
    msgIdOf,         \* the message id in its data, None before the first send
    inContainer,     \* forceSendInContainer
    \* SessionPrivate
    connected,       \* _state = ConnectedState
    hand,            \* requests taken out of one map and not yet in the other
    single,          \* the id of the message being sent without a container
    resendingIds,    \* message id -> request
    ackedIds,        \* message id -> request
    sentContainers,  \* container id -> ids of the requests in it
    stateRequests,   \* _stateAndResendRequests: its id -> ids asked about
    stateData,       \* _stateRequestData
    ackData,         \* _ackRequestData
    resendData,      \* _resendRequestData
    receivedIds,     \* _receivedMessageIds
    session,         \* _sessionId
    started,         \* _sessionMarkedAsStarted
    checkTimer,      \* _checkSentRequestsTimer is active
    ping,            \* "no", "due" (_pingIdToSend), "out" (_pingId)
    lastId,          \* the last id of mtproto_msg_id()
    \* the connection
    c2s, s2c,
    \* the server
    srvSession,      \* the session it knows, None if none
    got,             \* message ids it received in it
    todo,            \* received, to be answered
    answers,         \* answers not acknowledged yet
    wanted,          \* answers asked for again
    lastAnswer,
    executed,        \* how often it executed a request
    lowest,          \* it refuses new ids below this one
    \* history and bounds
    losses,          \* how often an end lost the session
    sessionStart,    \* lastId when the session began
    faults

mainVars == <<status, cancelling, delayed>>
sharedVars == <<toSend, haveSent, haveReceived, sendQueued>>
objectVars == <<msgIdOf, inContainer>>
trackVars == <<hand, single, resendingIds, ackedIds, sentContainers>>
serviceVars == <<stateRequests, stateData, ackData, resendData, receivedIds>>
stateVars == <<connected, session, started, sessionStart, checkTimer, ping, lastId>>
netVars == <<c2s, s2c>>
serverVars == <<srvSession, got, todo, answers, wanted, lastAnswer, executed, lowest>>
countVars == <<losses, faults>>
vars == <<mainVars, sharedVars, objectVars, trackVars, serviceVars, stateVars,
          netVars, serverVars, countVars>>

\* _parserMap still has the handler; a call of cancel erases it last.
HasCallback(r) == status[r] \in {"pending", "cancelling"}

Sent == {m \in MsgId : haveSent[m] # None}
NoIds == [m \in MsgId |-> None]
NoSets == [m \in MsgId |-> {}]

Events == Cardinality({r \in Request : status[r] # "unsent"}) + faults

Fault(kind) == kind \in Faults /\ Events < MaxEvents /\ faults' = faults + 1

-----------------------------------------------------------------------------
(* The main thread: Instance and Session.  It is busy during a cancel.     *)

MainFree == cancelling.request = None

\* Session::sendPrepared.
SendPrepared(r) ==
    /\ toSend' = toSend \cup {r}
    /\ msgIdOf' = [msgIdOf EXCEPT ![r] = None]
    /\ sendQueued' = TRUE

SendRequest(r) ==
    /\ MainFree /\ status[r] = "unsent" /\ Events < MaxEvents
    /\ status' = [status EXCEPT ![r] = "pending"]
    /\ SendPrepared(r)
    /\ UNCHANGED <<cancelling, delayed, haveSent, haveReceived, inContainer,
                   trackVars, serviceVars, stateVars, netVars, serverVars, countVars>>

\* Instance::cancel reads the message id, then Session::cancel takes the lock
\* of each map in turn; the handler goes last.
CancelBegin(r) ==
    /\ MainFree /\ status[r] = "pending" /\ Fault("cancel")
    /\ status' = [status EXCEPT ![r] = "cancelling"]
    /\ cancelling' = [request |-> r, msgId |-> msgIdOf[r], next |-> "toSend"]
    /\ UNCHANGED <<delayed, sharedVars, objectVars, trackVars, serviceVars, stateVars,
                   netVars, serverVars, losses>>

CancelToSend ==
    /\ ~MainFree /\ cancelling.next = "toSend"
    /\ toSend' = toSend \ {cancelling.request}
    /\ cancelling' = [cancelling EXCEPT !.next = "haveSent"]
    /\ UNCHANGED <<status, delayed, haveSent, haveReceived, sendQueued, objectVars,
                   trackVars, serviceVars, stateVars, netVars, serverVars, countVars>>

CancelHaveSent ==
    /\ ~MainFree /\ cancelling.next = "haveSent"
    /\ haveSent' = [m \in MsgId |-> IF m = cancelling.msgId THEN None ELSE haveSent[m]]
    /\ status' = [status EXCEPT ![cancelling.request] = "cancelled"]
    /\ cancelling' = [cancelling EXCEPT !.request = None]
    /\ UNCHANGED <<delayed, toSend, haveReceived, sendQueued, objectVars,
                   trackVars, serviceVars, stateVars, netVars, serverVars, countVars>>

\* Session::tryToReceive and Instance::processCallback.  An error that waits
\* (5xx, FLOOD_WAIT) delays the request unless its fail handler took it.
ProcessCallback ==
    /\ MainFree /\ haveReceived # <<>>
    /\ haveReceived' = Tail(haveReceived)
    /\ LET r == Head(haveReceived).request IN
       \/ /\ Head(haveReceived).ok /\ status[r] = "pending"
          /\ status' = [status EXCEPT ![r] = "done"]
          /\ UNCHANGED delayed
       \/ /\ ~Head(haveReceived).ok /\ status[r] = "pending"
          /\ \/ status' = [status EXCEPT ![r] = "failed"] /\ UNCHANGED delayed
             \/ delayed' = delayed \cup {r} /\ UNCHANGED status
       \/ status[r] # "pending" /\ UNCHANGED <<status, delayed>>
    /\ UNCHANGED <<cancelling, toSend, haveSent, sendQueued, objectVars,
                   trackVars, serviceVars, stateVars, netVars, serverVars, countVars>>

CheckDelayedRequests(r) ==
    /\ MainFree /\ r \in delayed
    /\ delayed' = delayed \ {r}
    /\ IF status[r] = "pending" THEN SendPrepared(r)
       ELSE UNCHANGED <<toSend, msgIdOf, sendQueued>>
    /\ UNCHANGED <<status, cancelling, haveSent, haveReceived, inContainer,
                   trackVars, serviceVars, stateVars, netVars, serverVars, countVars>>

-----------------------------------------------------------------------------
(* The session's thread.  It goes on when its hand is empty.               *)

PrivateFree == hand = {}

\* Keep the n largest ids of a set: the buffers drop from the front.
Largest(S, n) == {m \in S : Cardinality({k \in S : k > m}) < n}
Trimmed(f, n) == LET Keys == {m \in MsgId : f[m] # None} IN
    [m \in MsgId |-> IF m \in Largest(Keys, n) THEN f[m] ELSE None]

(* SessionPrivate::tryToSend. *)

\* The requests that fit, in the order of their ids.
Sending == {r \in toSend : Cardinality({q \in toSend : q < r}) < ContainerSize}
PingPart == ping = "due"
StatePart == stateData # {}
AckPart == ackData # {}
ResendPart == resendData # {}
ServiceCount ==
    Cardinality((IF PingPart THEN {"ping"} ELSE {}) \cup (IF StatePart THEN {"state"} ELSE {})
        \cup (IF AckPart THEN {"ack"} ELSE {}) \cup (IF ResendPart THEN {"resend"} ELSE {}))
TotalSending == Cardinality(Sending) + ServiceCount

\* prepareToSend and replaceMsgId: the first send of a session gives every
\* request in it a new id, later ones keep the id of a request.
ForceNewMsgId == ~started
AlwaysRenames(r) == r \in Request                    \* mutant of NeedsId
NeedsId(r) == msgIdOf[r] = None \/ ForceNewMsgId
IdOf(r) ==
    IF NeedsId(r) THEN lastId + Cardinality({q \in Sending : q <= r /\ NeedsId(q)})
    ELSE msgIdOf[r]
IdsTaken == Cardinality({r \in Sending : NeedsId(r)})
\* Where replaceMsgId moves what it knows of an id.
Renames(m, r) == r \in Sending /\ NeedsId(r) /\ msgIdOf[r] = m
NewName(m) == IF \E r \in Request : Renames(m, r) THEN IdOf(CHOOSE r \in Request : Renames(m, r))
              ELSE m
Renamed(f, m) == IF \E k \in MsgId : f[k] # None /\ NewName(k) = m
                 THEN f[CHOOSE k \in MsgId : f[k] # None /\ NewName(k) = m] ELSE None

SetIds(f) == [r \in Request |-> IF r \in Sending THEN IdOf(r) ELSE f[r]]
NotResending == [m \in MsgId |->
    IF \E r \in Sending : msgIdOf[r] = m THEN None ELSE resendingIds[m]]

\* What goes to the server.  `first' is the least id in the packet; the ids of
\* pings and acks are looked at by nobody and not counted.
Packet(msgs, container, stateId) ==
    [session |-> session, msgs |-> msgs, container |-> container,
     first |-> CHOOSE m \in {x[1] : x \in msgs} \cup {lastId + 1} :
                  \A x \in msgs : m <= x[1],
     acks |-> IF AckPart THEN ackData ELSE {},
     resend |-> IF ResendPart THEN resendData ELSE {},
     stateId |-> stateId, ask |-> IF StatePart THEN stateData ELSE {},
     ping |-> PingPart]

\* Every branch takes the service data and marks the session as started,
\* whether or not there is something to send.
TakeService ==
    /\ started' = TRUE
    /\ ping' = IF PingPart THEN "out" ELSE ping
    /\ stateData' = {} /\ ackData' = {} /\ resendData' = {}

NothingToSend ==
    /\ TotalSending = 0
    /\ TakeService
    /\ sendQueued' = FALSE
    /\ UNCHANGED <<toSend, haveSent, objectVars, trackVars, stateRequests, checkTimer,
                   lastId, netVars>>

\* A single message that was never sent before goes without a container.  A
\* request leaves _toSend now and enters _haveSent in SendSingle.
TakeSingle ==
    /\ TotalSending = 1 /\ ServiceCount = 0
    /\ \A r \in Sending : ~inContainer[r]
    /\ toSend' = toSend \ Sending
    /\ hand' = Sending
    /\ single' = IdOf(CHOOSE r \in Sending : TRUE)
    /\ msgIdOf' = SetIds(msgIdOf)
    /\ resendingIds' = NotResending
    /\ lastId' = lastId + IdsTaken
    /\ TakeService
    /\ sendQueued' = FALSE
    /\ UNCHANGED <<haveSent, inContainer, ackedIds, sentContainers, stateRequests,
                   checkTimer, netVars>>

SendSingleService ==
    /\ TotalSending = 1 /\ ServiceCount = 1
    /\ lastId' = IF StatePart THEN lastId + 1 ELSE lastId
    /\ stateRequests' = [m \in MsgId |-> IF StatePart /\ m = lastId + 1 THEN stateData
                                         ELSE stateRequests[m]]
    /\ c2s' = Append(c2s, Packet({}, None, IF StatePart THEN lastId + 1 ELSE None))
    /\ TakeService
    /\ sendQueued' = FALSE
    /\ UNCHANGED <<toSend, haveSent, objectVars, trackVars, checkTimer, s2c>>

\* Both locks are held while a container is filled.  What does not fit is
\* sent by another call of tryToSend.
SendContainer ==
    /\ TotalSending > 1 \/ (ServiceCount = 0 /\ \E r \in Sending : inContainer[r])
    /\ LET msgs == {<<IdOf(r), r>> : r \in Sending}
           stateId == IF StatePart THEN lastId + IdsTaken + 1 ELSE None
           \* The id of a container without requests is looked up by nobody.
           container == IF Sending = {} THEN None
                        ELSE lastId + IdsTaken + (IF StatePart THEN 2 ELSE 1) IN
       /\ haveSent' = [m \in MsgId |->
             IF Renamed(haveSent, m) # None THEN Renamed(haveSent, m)
             ELSE IF \E x \in msgs : x[1] = m THEN (CHOOSE x \in msgs : x[1] = m)[2]
             ELSE None]
       /\ ackedIds' = [m \in MsgId |-> Renamed(ackedIds, m)]
       /\ sentContainers' = [m \in MsgId |->
             IF m = container THEN {x[1] : x \in msgs}
             ELSE {NewName(k) : k \in sentContainers[m]}]
       /\ stateRequests' = [m \in MsgId |-> IF m = stateId THEN stateData
                                            ELSE stateRequests[m]]
       /\ lastId' = IF Sending # {} THEN container
                    ELSE IF StatePart THEN stateId ELSE lastId
       /\ c2s' = Append(c2s, Packet(msgs, container, stateId))
    /\ msgIdOf' = SetIds(msgIdOf)
    /\ resendingIds' = NotResending
    /\ toSend' = toSend \ Sending
    /\ checkTimer' = (checkTimer \/ Sending # {})
    /\ TakeService
    /\ sendQueued' = (toSend # Sending)
    /\ UNCHANGED <<inContainer, hand, single, s2c>>

\* The timers of Session::sendAnything only delay the call: sendQueued.
TryToSend ==
    /\ sendQueued /\ PrivateFree
    /\ IF connected
       THEN /\ lastId + MaxRequest + 2 <= MaxMsgId
            /\ NothingToSend \/ TakeSingle \/ SendSingleService \/ SendContainer
       ELSE /\ sendQueued' = FALSE
            /\ UNCHANGED <<toSend, haveSent, objectVars, trackVars, stateRequests,
                  stateData, ackData, resendData, started, checkTimer, ping, lastId, netVars>>
    /\ UNCHANGED <<mainVars, haveReceived, receivedIds, connected, session, sessionStart,
                   serverVars, countVars>>

SendSingle ==
    /\ single # None
    /\ LET r == CHOOSE q \in hand : TRUE IN
       /\ haveSent' = [m \in MsgId |-> IF m = single /\ haveSent[m] = None THEN r
                                       ELSE haveSent[m]]
       /\ c2s' = Append(c2s, Packet({<<single, r>>}, None, None))
    /\ hand' = {} /\ single' = None
    /\ UNCHANGED <<mainVars, toSend, haveReceived, sendQueued, objectVars, resendingIds,
                   ackedIds, sentContainers, serviceVars, stateVars, s2c, serverVars, countVars>>

(* What is resent: SessionPrivate::resend takes a request out of _haveSent   *)
(* and puts it in _toSend under another lock.                                *)

\* Mutant of TakeResent: what is resent is not kept for a container.
TakeAlone(ids, sent, resending) ==
    LET Found == {m \in ids : sent[m] # None} IN
    /\ hand' = {sent[m] : m \in Found}
    /\ haveSent' = [m \in MsgId |-> IF m \in Found THEN None ELSE sent[m]]
    /\ resendingIds' = [m \in MsgId |-> IF m \in Found THEN sent[m] ELSE resending[m]]
    /\ UNCHANGED inContainer
TakeResent(ids, sent, resending) ==
    LET Found(m) == m \in ids /\ sent[m] # None IN
    /\ hand' = {sent[m] : m \in {k \in ids : Found(k)}}
    /\ haveSent' = [m \in MsgId |-> IF Found(m) THEN None ELSE sent[m]]
    /\ resendingIds' = [m \in MsgId |-> IF Found(m) THEN sent[m] ELSE resending[m]]
    /\ inContainer' = [r \in Request |-> inContainer[r] \/ \E m \in ids : Found(m) /\ sent[m] = r]

PutResent ==
    /\ hand # {} /\ single = None
    /\ toSend' = toSend \cup hand
    /\ hand' = {}
    /\ sendQueued' = TRUE
    /\ UNCHANGED <<mainVars, haveSent, haveReceived, objectVars, single, resendingIds,
                   ackedIds, sentContainers, serviceVars, stateVars, netVars, serverVars,
                   countVars>>

\* SessionPrivate::clearOldContainers, for one container, ten minutes later.
ClearOldContainer(m) ==
    /\ PrivateFree /\ sentContainers[m] # {} /\ Fault("old")
    /\ sentContainers' = [sentContainers EXCEPT ![m] = {}]
    /\ TakeResent(sentContainers[m], haveSent, resendingIds)
    /\ sendQueued' = TRUE
    /\ UNCHANGED <<mainVars, toSend, haveReceived, msgIdOf, single, ackedIds, serviceVars,
                   stateVars, netVars, serverVars, losses>>

\* SessionPrivate::checkSentRequests.  The timer fires when all that was sent
\* is old enough; what is not is asked about when it fires again.
CheckSentRequests ==
    /\ PrivateFree /\ checkTimer
    /\ checkTimer' = FALSE
    /\ stateData' = stateData \cup Sent
    /\ sendQueued' = (sendQueued \/ ~(Sent \subseteq stateData))
    /\ UNCHANGED <<mainVars, toSend, haveSent, haveReceived, objectVars, trackVars,
                   stateRequests, ackData, resendData, receivedIds, connected, session,
                   started, sessionStart, ping, lastId, netVars, serverVars, countVars>>

\* connectToServer to authKeyChecked, or the first message with a new salt:
\* Connected, and resendAll.
Connect ==
    /\ ~connected /\ PrivateFree
    /\ connected' = TRUE
    /\ TakeResent(Sent, haveSent, resendingIds)
    /\ ping' = "due"
    /\ sendQueued' = TRUE
    /\ UNCHANGED <<mainVars, toSend, haveReceived, msgIdOf, single, ackedIds, sentContainers,
                   serviceVars, session, started, sessionStart, checkTimer, lastId, netVars,
                   serverVars, countVars>>

\* doDisconnect; what is in the connection is lost.
Disconnect ==
    /\ connected' = FALSE
    /\ ping' = "no"
    /\ c2s' = <<>> /\ s2c' = <<>>

Drop ==
    /\ connected /\ PrivateFree /\ Fault("drop")
    /\ Disconnect
    /\ UNCHANGED <<mainVars, sharedVars, objectVars, trackVars, serviceVars, session, started,
                   sessionStart, checkTimer, lastId, serverVars, losses>>

\* restart with _needSessionReset: changeSessionId.
ResetSession ==
    /\ Disconnect
    /\ session' = session + 1
    /\ started' = FALSE
    /\ sessionStart' = lastId
    /\ ackData' = {} /\ resendData' = {} /\ stateData' = {} /\ receivedIds' = {}
    /\ losses' = losses + 1

PingTimer ==
    /\ MainSession /\ connected /\ PrivateFree /\ ping = "no"
    /\ ping' = "due"
    /\ sendQueued' = TRUE
    /\ UNCHANGED <<mainVars, toSend, haveSent, haveReceived, objectVars, trackVars,
                   serviceVars, connected, session, started, sessionStart, checkTimer,
                   lastId, netVars, serverVars, countVars>>

-----------------------------------------------------------------------------
(* SessionPrivate::handleOneReceived, by the type of the message.          *)

Is(type) == connected /\ PrivateFree /\ s2c # <<>> /\ Head(s2c).type = type
Message == Head(s2c)

\* SessionPrivate::wasSent, in the state of the maps given.
RequestOf(resending, acked, sent, m) ==
    IF resending[m] # None THEN resending[m]
    ELSE IF acked[m] # None THEN acked[m]
    ELSE sent[m]
WasSent(m) ==
    \/ RequestOf(resendingIds, ackedIds, haveSent, m) # None
    \/ sentContainers[m] # {}

\* SessionPrivate::requestsAcked.  An acknowledgement alone does not free a
\* request whose answer somebody waits for.
\* Mutant of Freed: every acknowledgement does.
AckFrees(byResponse, r) == byResponse \/ r \in Request
Freed(byResponse, r) == byResponse \/ ~HasCallback(r)
Acked(ids, byResponse) ==
    LET Inner(m) == \E c \in ids : m \in sentContainers[c]
        Free(m, r) == r # None /\ \/ m \in ids /\ sentContainers[m] = {} /\ Freed(byResponse, r)
                                  \/ Inner(m) /\ Freed(FALSE, r)
        FromSent(m) == Free(m, haveSent[m])
        FromResend(m) == haveSent[m] = None /\ Free(m, resendingIds[m])
        FromToSend(m) == FromResend(m) /\ resendingIds[m] \in toSend IN
    [haveSent |-> [m \in MsgId |-> IF FromSent(m) THEN None ELSE haveSent[m]],
     resendingIds |-> [m \in MsgId |-> IF FromResend(m) THEN None ELSE resendingIds[m]],
     toSend |-> toSend \ {resendingIds[m] : m \in {k \in MsgId : FromToSend(k)}},
     ackedIds |-> [m \in MsgId |-> IF FromSent(m) THEN haveSent[m]
                                   ELSE IF FromToSend(m) THEN resendingIds[m] ELSE ackedIds[m]],
     sentContainers |-> [m \in MsgId |-> IF m \in ids THEN {} ELSE sentContainers[m]]]
\* Mutant of TakeAcked: a request answered while it waits to be resent stays
\* in _toSend.
TakeAckedOnly(now) ==
    /\ UNCHANGED toSend
    /\ ackedIds' = Trimmed(now.ackedIds, KeepAcked)
    /\ sentContainers' = now.sentContainers
TakeAcked(now) ==
    /\ toSend' = now.toSend
    /\ ackedIds' = Trimmed(now.ackedIds, KeepAcked)
    /\ sentContainers' = now.sentContainers
RequestsAcked(ids, byResponse) == \E now \in {Acked(ids, byResponse)} :
    /\ haveSent' = now.haveSent
    /\ resendingIds' = now.resendingIds
    /\ TakeAcked(now)

\* Mutant of Respond: it does not look whether the request is known.
RespondAnyway(r, ok) == haveReceived' = Append(haveReceived, [request |-> r, ok |-> ok])
Respond(r, ok) ==
    haveReceived' = IF r = None THEN haveReceived
                    ELSE Append(haveReceived, [request |-> r, ok |-> ok])

\* ReceivedIdsManager::registerMsgId.
IsDuplicate(id) == id \in receivedIds
IsTooOld(id) ==
    /\ ~IsDuplicate(id)
    /\ Cardinality(receivedIds) >= KeepReceived
    /\ \A k \in receivedIds : id < k

\* What no handler of a message touches.
HandlerFrame == UNCHANGED <<mainVars, msgIdOf, single, serverVars, checkTimer, lastId>>
\* What only ResetSession touches.
SameSession == UNCHANGED <<connected, session, started, sessionStart, losses, c2s>>

HandleAck ==
    /\ Is("ack") /\ HandlerFrame /\ SameSession
    /\ s2c' = Tail(s2c)
    /\ RequestsAcked(Message.ids, FALSE)
    /\ UNCHANGED <<haveReceived, sendQueued, inContainer, hand, serviceVars, ping, faults>>

\* rpc_result.  It is acknowledged even if it came before.
HandleNewResult ==
    /\ Is("result") /\ ~IsDuplicate(Message.answer) /\ ~IsTooOld(Message.answer)
    /\ HandlerFrame /\ SameSession
    /\ s2c' = Tail(s2c)
    /\ RequestsAcked({Message.msgId}, TRUE)
    /\ Respond(RequestOf(resendingIds', ackedIds', haveSent', Message.msgId), Message.ok)
    /\ receivedIds' = Largest(receivedIds \cup {Message.answer}, KeepReceived)
    /\ ackData' = ackData \cup {Message.answer}
    /\ sendQueued' = TRUE
    /\ UNCHANGED <<inContainer, hand, stateRequests, stateData, resendData, ping, faults>>

HandleDuplicate ==
    /\ Is("result") /\ IsDuplicate(Message.answer)
    /\ HandlerFrame /\ SameSession
    /\ s2c' = Tail(s2c)
    /\ ackData' = ackData \cup {Message.answer}
    /\ sendQueued' = TRUE
    /\ UNCHANGED <<toSend, haveSent, haveReceived, inContainer, hand, resendingIds, ackedIds,
                   sentContainers, stateRequests, stateData, resendData, receivedIds, ping, faults>>

\* An id older than all that are kept, or bad_msg_notification 32 and 33.
HandleReset ==
    /\ \/ Is("result") /\ IsTooOld(Message.answer)
       \/ Is("seqno") /\ WasSent(Message.msgId)
    /\ HandlerFrame
    /\ ResetSession
    /\ UNCHANGED <<sharedVars, inContainer, hand, resendingIds, ackedIds, sentContainers,
                   stateRequests, faults>>

\* bad_msg_notification 16 and 17.
HandleTooLow ==
    /\ Is("low") /\ HandlerFrame /\ SameSession
    /\ s2c' = Tail(s2c)
    /\ TakeResent(Message.ids, haveSent, resendingIds)
    /\ sendQueued' = TRUE
    /\ UNCHANGED <<toSend, haveReceived, ackedIds, sentContainers, serviceVars, ping, faults>>

\* The other codes of bad_msg_notification are an error of the request.
HandleFatal ==
    /\ Is("fatal") /\ HandlerFrame /\ SameSession
    /\ s2c' = Tail(s2c)
    /\ Respond(RequestOf(resendingIds, ackedIds, haveSent, Message.msgId), FALSE)
    /\ UNCHANGED <<toSend, haveSent, sendQueued, inContainer, hand, resendingIds, ackedIds,
                   sentContainers, serviceVars, ping, faults>>

\* msgs_state_info, handleMsgsStates.
HandleStates ==
    /\ Is("states") /\ HandlerFrame /\ SameSession
    /\ s2c' = Tail(s2c)
    /\ LET asked == stateRequests[Message.msgId] IN
       \E now \in {Acked(asked \cap Message.ids, FALSE)} :
       /\ TakeResent(asked \ Message.ids, now.haveSent, now.resendingIds)
       /\ TakeAcked(now)
    /\ stateRequests' = [stateRequests EXCEPT ![Message.msgId] = {}]
    /\ UNCHANGED <<haveReceived, sendQueued, stateData, ackData, resendData, receivedIds, ping, faults>>

\* new_session_created: what was sent before its first message is lost.
HandleNewSession ==
    /\ Is("newSession") /\ HandlerFrame /\ SameSession
    /\ s2c' = Tail(s2c)
    /\ TakeResent({m \in Sent : m < Message.msgId}, haveSent, resendingIds)
    /\ sendQueued' = TRUE
    /\ UNCHANGED <<toSend, haveReceived, ackedIds, sentContainers, serviceVars, ping, faults>>

\* msg_detailed_info: the answer is asked for, when something is sent again.
HandleDetailed ==
    /\ Is("detailed") /\ HandlerFrame /\ SameSession
    /\ s2c' = Tail(s2c)
    /\ RequestsAcked({Message.msgId}, FALSE)
    /\ IF Message.answer \in receivedIds
       THEN /\ ackData' = ackData \cup {Message.answer} /\ UNCHANGED resendData
            /\ sendQueued' = TRUE
       ELSE /\ resendData' = resendData \cup {Message.answer}
            /\ UNCHANGED <<ackData, sendQueued>>
    /\ UNCHANGED <<haveReceived, inContainer, hand, stateRequests, stateData, receivedIds, ping, faults>>

HandlePong ==
    /\ Is("pong") /\ HandlerFrame /\ SameSession
    /\ s2c' = Tail(s2c)
    /\ ping' = IF ping = "out" THEN "no" ELSE ping
    /\ UNCHANGED <<sharedVars, inContainer, hand, resendingIds, ackedIds, sentContainers,
                   serviceVars, faults>>

\* bad_msg_notification for a message that is not remembered.
HandleUnknown ==
    /\ Is("seqno") /\ ~WasSent(Message.msgId) /\ HandlerFrame /\ SameSession
    /\ s2c' = Tail(s2c)
    /\ UNCHANGED <<sharedVars, inContainer, hand, resendingIds, ackedIds, sentContainers,
                   serviceVars, ping, faults>>

HandleReceived ==
    \/ HandleUnknown \/ HandleAck \/ HandleNewResult \/ HandleDuplicate \/ HandleReset \/ HandleTooLow
    \/ HandleFatal \/ HandleStates \/ HandleNewSession \/ HandleDetailed \/ HandlePong

-----------------------------------------------------------------------------
(* The server, external.                                                   *)

Online == connected /\ srvSession = session
If(condition, message) == IF condition THEN <<message>> ELSE <<>>

\* It takes what it did not have yet, and answers again what is asked again.
\* `reply' is its refusal of the ids in `bad'.
Take(bad, reply) ==
    LET p == Head(c2s)
        new == p.session # srvSession
        had == IF new THEN {} ELSE got
        kept == IF new THEN {} ELSE {a \in answers : a.answer \notin p.acks}
        accepted == {x \in p.msgs : x[1] \notin bad}
        ids == {x[1] : x \in accepted} IN
    /\ c2s' = Tail(c2s)
    /\ srvSession' = p.session
    /\ got' = had \cup ids
    /\ answers' = kept
    /\ todo' = {x \in IF new THEN {} ELSE todo :
                    ~\E a \in answers : a.msgId = x[1] /\ a.answer \in p.acks}
          \cup {x \in accepted : x[1] \notin had \/ \E a \in kept : a.msgId = x[1]}
    /\ wanted' = (IF new THEN {} ELSE wanted) \cup p.resend
    \* Only old containers notice when it does not acknowledge.
    /\ \E acking \in {TRUE, "old" \notin Faults} :
       s2c' = s2c \o If(new, [type |-> "newSession", msgId |-> p.first])
           \o If(acking /\ ids # {}, [type |-> "ack",
                  ids |-> IF p.container = None THEN ids ELSE {p.container}])
           \o reply
           \o If(p.stateId # None, [type |-> "states", msgId |-> p.stateId,
                                    ids |-> p.ask \cap (had \cup ids)])
           \o If(p.ping, [type |-> "pong"])
TooLow ==
    {m \in {x[1] : x \in Head(c2s).msgs} :
        m < lowest /\ (Head(c2s).session = srvSession => m \notin got)}

ServerReceive ==
    /\ c2s # <<>>
    /\ \/ TooLow = {} /\ Take({}, <<>>) /\ UNCHANGED faults
       \/ TooLow # {} /\ Take(TooLow, <<[type |-> "low", ids |-> TooLow]>>) /\ UNCHANGED faults
       \/ \E kind \in {"seqno", "fatal"}, x \in Head(c2s).msgs :
             /\ Head(c2s).session = srvSession => x[1] \notin got
             /\ Fault(kind)
             /\ Take({x[1]}, <<[type |-> kind, msgId |-> x[1]]>>)
    /\ UNCHANGED <<mainVars, sharedVars, objectVars, trackVars, serviceVars, stateVars,
                   lastAnswer, executed, lowest, losses>>

Result(a) == [type |-> "result", msgId |-> a.msgId, answer |-> a.answer, ok |-> a.ok]
ServerFrame == UNCHANGED <<mainVars, sharedVars, objectVars, trackVars, serviceVars,
                           stateVars, c2s>>

ServerExecute(x) ==
    /\ x \in todo /\ \A a \in answers : a.msgId # x[1]
    /\ todo' = todo \ {x}
    /\ lastAnswer' = lastAnswer + 1
    /\ \E ok \in BOOLEAN :
       LET a == [msgId |-> x[1], answer |-> lastAnswer + 1, ok |-> ok] IN
       /\ IF ok THEN UNCHANGED faults ELSE Fault("error")
       /\ executed' = [executed EXCEPT ![x[2]] = IF ok THEN @ + 1 ELSE @]
       /\ answers' = answers \cup {a}
       /\ s2c' = s2c \o If(Online, Result(a))
    /\ ServerFrame /\ UNCHANGED <<srvSession, got, wanted, lowest, losses>>

ServerAnswerAgain(x) ==
    /\ x \in todo
    /\ \E a \in answers :
       /\ a.msgId = x[1]
       /\ \/ s2c' = s2c \o If(Online, Result(a)) /\ UNCHANGED faults
          \/ /\ s2c' = s2c \o If(Online, [type |-> "detailed", msgId |-> a.msgId,
                                          answer |-> a.answer])
             /\ "detailed" \in Faults /\ UNCHANGED faults
    /\ todo' = todo \ {x}
    /\ ServerFrame
    /\ UNCHANGED <<srvSession, got, answers, wanted, lastAnswer, executed, lowest, losses>>

ServerResend(a) ==
    /\ Online /\ a \in answers /\ a.answer \in wanted
    /\ wanted' = wanted \ {a.answer}
    /\ s2c' = Append(s2c, Result(a))
    /\ ServerFrame
    /\ UNCHANGED <<srvSession, got, todo, answers, lastAnswer, executed, lowest, losses, faults>>

ServerRepeat(a) ==
    /\ Online /\ a \in answers /\ Fault("repeat")
    /\ s2c' = Append(s2c, Result(a))
    /\ ServerFrame
    /\ UNCHANGED <<srvSession, got, todo, answers, wanted, lastAnswer, executed, lowest, losses>>

ServerForget ==
    /\ srvSession # None /\ Fault("forget")
    /\ srvSession' = None
    /\ got' = {} /\ todo' = {} /\ answers' = {} /\ wanted' = {}
    /\ losses' = losses + 1
    /\ ServerFrame /\ UNCHANGED <<s2c, lastAnswer, executed, lowest>>

\* Five minutes pass: ids allotted until now are too low for a new message.
TimePasses ==
    /\ lowest <= lastId /\ Fault("low")
    /\ lowest' = lastId + 1
    /\ ServerFrame
    /\ UNCHANGED <<s2c, srvSession, got, todo, answers, wanted, lastAnswer, executed, losses>>

-----------------------------------------------------------------------------
Init ==
    /\ status = [r \in Request |-> "unsent"]
    /\ cancelling = [request |-> None, msgId |-> None, next |-> "toSend"]
    /\ delayed = {}
    /\ toSend = {} /\ haveSent = NoIds /\ haveReceived = <<>> /\ sendQueued = FALSE
    /\ msgIdOf = [r \in Request |-> None] /\ inContainer = [r \in Request |-> FALSE]
    /\ connected = FALSE /\ hand = {} /\ single = None
    /\ resendingIds = NoIds /\ ackedIds = NoIds /\ sentContainers = NoSets
    /\ stateRequests = NoSets /\ stateData = {} /\ ackData = {} /\ resendData = {}
    /\ receivedIds = {} /\ session = 1 /\ started = FALSE /\ checkTimer = FALSE
    /\ ping = "no" /\ lastId = 0
    /\ c2s = <<>> /\ s2c = <<>>
    /\ srvSession = None /\ got = {} /\ todo = {} /\ answers = {} /\ wanted = {}
    /\ lastAnswer = 0 /\ executed = [r \in Request |-> 0] /\ lowest = 0
    /\ losses = 0 /\ sessionStart = 0 /\ faults = 0

MainStep ==
    \/ CancelToSend \/ CancelHaveSent \/ ProcessCallback
    \/ \E r \in Request : SendRequest(r) \/ CancelBegin(r) \/ CheckDelayedRequests(r)
PrivateStep ==
    \/ TryToSend \/ SendSingle \/ PutResent \/ CheckSentRequests \/ Connect \/ Drop
    \/ PingTimer \/ HandleReceived
    \/ \E m \in MsgId : ClearOldContainer(m)
ServerStep ==
    \/ ServerReceive \/ ServerForget \/ TimePasses
    \/ \E x \in todo : ServerExecute(x) \/ ServerAnswerAgain(x)
    \/ \E a \in answers : ServerResend(a) \/ ServerRepeat(a)
Next == MainStep \/ PrivateStep \/ ServerStep

Spec == Init /\ [][Next]_vars

\* Each thread goes on with its next step, the timers fire, connections can
\* be made again, and the server works off what it received.
Fairness ==
    /\ WF_vars(CancelToSend \/ CancelHaveSent) /\ WF_vars(ProcessCallback)
    /\ WF_vars(\E r \in Request : CheckDelayedRequests(r))
    /\ WF_vars(TryToSend) /\ WF_vars(SendSingle \/ PutResent)
    /\ WF_vars(CheckSentRequests) /\ WF_vars(Connect) /\ WF_vars(PingTimer)
    /\ WF_vars(HandleReceived)
    /\ WF_vars(ServerReceive)
    /\ WF_vars(\/ \E x \in todo : ServerExecute(x) \/ ServerAnswerAgain(x)
               \/ \E a \in answers : ServerResend(a))
FairSpec == Spec /\ Fairness

-----------------------------------------------------------------------------
(* Properties. *)

Packets == [session : Nat, msgs : SUBSET (MsgId \X Request), container : MsgId \cup {None},
            first : Nat, acks : SUBSET Nat, resend : SUBSET Nat,
            stateId : MsgId \cup {None}, ask : SUBSET MsgId, ping : BOOLEAN]
Replies ==
    [type : {"newSession"}, msgId : Nat]
    \cup [type : {"seqno", "fatal"}, msgId : MsgId]
    \cup [type : {"ack", "low"}, ids : SUBSET MsgId]
    \cup [type : {"states"}, msgId : MsgId, ids : SUBSET MsgId]
    \cup [type : {"pong"}]
    \cup [type : {"result"}, msgId : MsgId, answer : Nat, ok : BOOLEAN]
    \cup [type : {"detailed"}, msgId : MsgId, answer : Nat]

MainTypeOK ==
    /\ status \in [Request -> {"unsent", "pending", "cancelling", "cancelled", "done", "failed"}]
    /\ cancelling \in [request : Request \cup {None}, msgId : MsgId \cup {None},
                       next : {"toSend", "haveSent"}]
    /\ delayed \subseteq Request
SharedTypeOK ==
    /\ toSend \subseteq Request
    /\ haveSent \in [MsgId -> Request \cup {None}]
    /\ haveReceived \in Seq([request : Request, ok : BOOLEAN])
    /\ sendQueued \in BOOLEAN
ObjectTypeOK ==
    /\ msgIdOf \in [Request -> MsgId \cup {None}] /\ inContainer \in [Request -> BOOLEAN]
TrackTypeOK ==
    /\ hand \subseteq Request /\ single \in MsgId \cup {None}
    /\ resendingIds \in [MsgId -> Request \cup {None}]
    /\ ackedIds \in [MsgId -> Request \cup {None}]
    /\ sentContainers \in [MsgId -> SUBSET MsgId]
ServiceTypeOK ==
    /\ stateRequests \in [MsgId -> SUBSET MsgId] /\ stateData \subseteq MsgId
    /\ ackData \subseteq Nat /\ resendData \subseteq Nat /\ receivedIds \subseteq Nat
StateTypeOK ==
    /\ connected \in BOOLEAN /\ session \in Nat /\ started \in BOOLEAN
    /\ sessionStart \in Nat /\ checkTimer \in BOOLEAN
    /\ ping \in {"no", "due", "out"} /\ lastId \in 0 .. MaxMsgId
NetTypeOK == c2s \in Seq(Packets) /\ s2c \in Seq(Replies)
ServerTypeOK ==
    /\ srvSession \in Nat /\ got \subseteq MsgId /\ todo \subseteq MsgId \X Request
    /\ answers \subseteq [msgId : MsgId, answer : Nat, ok : BOOLEAN] /\ wanted \subseteq Nat
    /\ lastAnswer \in Nat /\ executed \in [Request -> Nat] /\ lowest \in Nat
CountTypeOK == losses \in Nat /\ faults \in 0 .. MaxEvents

\* Each variable has its type.
TypeOK ==
    /\ MainTypeOK /\ SharedTypeOK /\ ObjectTypeOK /\ TrackTypeOK /\ ServiceTypeOK
    /\ StateTypeOK /\ NetTypeOK /\ ServerTypeOK /\ CountTypeOK

SentAs(r) == {m \in MsgId : haveSent[m] = r}
Responses(r) == {i \in DOMAIN haveReceived : haveReceived[i].request = r}
Known(r) == r \in toSend \/ r \in hand \/ SentAs(r) # {}

\* A request somebody waits for is never forgotten: it is waiting to be sent,
\* was sent, moves between the two, is delayed, or its answer is on its way.
NoRequestLost == \A r \in Request :
    status[r] = "pending" => Known(r) \/ r \in delayed \/ Responses(r) # {}

\* A request is in one place only: never sent under two ids, never sent and
\* waiting to be sent, and in none of the maps once it was answered.
OneCopy == \A r \in Request :
    /\ Cardinality(SentAs(r)) <= 1
    /\ ~(r \in toSend /\ (SentAs(r) # {} \/ r \in hand))
    /\ status[r] \in {"done", "failed"} => ~Known(r)

\* Both: each request that is waited for has its place, and only one.
EveryRequestHasOnePlace == NoRequestLost /\ OneCopy

\* Only a request that has no id yet is sent without a container, because
\* replaceMsgId uses _haveSent without taking its lock there.
SingleIsFresh == \A r \in toSend : ~inContainer[r] => msgIdOf[r] = None

\* An id in _resendingIds is that of a request about to be sent again, which
\* is what requestsAcked removes from _toSend when the id is answered.
ResendingIsWaiting == \A m \in MsgId : resendingIds[m] # None =>
    \/ status[resendingIds[m]] \in {"cancelling", "cancelled"}
    \/ resendingIds[m] \in toSend \cup hand /\ msgIdOf[resendingIds[m]] = m

\* Every message sent in a session has an id allotted in it.
MessagesOfThisSession == \A i \in DOMAIN c2s : \A x \in c2s[i].msgs :
    c2s[i].session = session => x[1] > sessionStart

\* The maps of the session agree in these three ways.
SessionMapsAgree == SingleIsFresh /\ ResendingIsWaiting /\ MessagesOfThisSession

\* The session implements the promise: at most one execution more than losses
\* of the session, one callback, and no result without an execution.
Delivery == INSTANCE RequestDelivery WITH
    status <- [r \in Request |-> IF status[r] = "cancelling" THEN "cancelled" ELSE status[r]]
DeliversRequests == Delivery!Spec

\* Every request that is not cancelled gets its answer.
EveryRequestAnswered == \A r \in Request :
    status[r] = "pending" ~> status[r] \in {"done", "failed", "cancelled"}

\* A cancelled request leaves the maps, in whichever it is left.
CancelledIsForgotten == \A r \in Request : status[r] = "cancelled" ~> ~Known(r)

\* The session is done with every request in the end.
EveryRequestEnds == EveryRequestAnswered /\ CancelledIsForgotten
=============================================================================
