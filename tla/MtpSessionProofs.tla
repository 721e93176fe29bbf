-------------------------- MODULE MtpSessionProofs --------------------------
(***************************************************************************)
(* The theorems of MtpSession.                                             *)
(*                                                                         *)
(* First, the inductive invariant SessionInv, for every size and every     *)
(* fault: a message id belongs to one request.  Two more parts are         *)
(* inductive with it under a hypothesis each: NoRequestLost when _ackedIds *)
(* is never trimmed, and StartParts when one packet has room for all there *)
(* is to send.                                                             *)
(*                                                                         *)
(* Then, the session implements RequestDelivery: the server executes a     *)
(* request at most once more often than an end lost the session, and a     *)
(* callback is called at most once, with a result only of a request that   *)
(* was executed.                                                           *)
(*                                                                         *)
(* What the code has for this is the order of ids: a request keeps its id  *)
(* in a session, gets a greater one for the next, and the server knows the *)
(* ids it got.  So the invariant owns each message on its way to a request *)
(* and orders them (FlightOwned, IdsInOrder), and counts where the one     *)
(* execution that a request has in hand can be (Tokens, Budget): ahead of  *)
(* the server, with it, or with an error on its way back, which makes the  *)
(* request wait and be sent again under another id.                        *)
(*                                                                         *)
(* One place for each request.  When no request is answered by an error,   *)
(* it is in one of the maps only, and in none once it was answered; an     *)
(* error that waits has it sent again under the id it had, which TLC shows *)
(* to break this when the server forgets the session meanwhile.            *)
(*                                                                         *)
(* MapsOK says how the maps agree.  It is stated of maps and not of the    *)
(* variables, since a handler that acknowledges some ids and resends       *)
(* others goes through maps that are those of no state.                    *)
(***************************************************************************)
EXTENDS MtpSession, FiniteSetTheorems, WellFoundedInduction, TLAPS

USE FaultsAssumption, SizesAssumption DEF None

-----------------------------------------------------------------------------
(* The operators. *)

LEMMA LeastNatural ==
    ASSUME NEW S \in SUBSET Nat, S # {}
    PROVE  \E m \in S : \A k \in S : m <= k
<1> DEFINE R == OpToRel(<, Nat)
<1>1. IsWellFoundedOn(R, Nat)
  BY NatLessThanWellFounded
<1>2. \A x, y \in Nat : y < x => <<y, x>> \in R
  BY DEF OpToRel
<1> HIDE DEF R
<1>3. PICK m \in S : \A k \in S : ~(<<k, m>> \in R)
  BY <1>1, WFMin
<1>4. ASSUME NEW k \in S PROVE m <= k
  <2>1. k \in Nat /\ m \in Nat
    OBVIOUS
  <2>2. ~(k < m)
    BY <1>2, <1>3, <2>1
  <2> QED
    BY <2>1, <2>2
<1> QED
  BY <1>4

LEMMA Queues ==
    ASSUME NEW S
    PROVE  /\ <<>> \in Seq(S)
           /\ \A q \in Seq(S) : \A e \in S : Append(q, e) \in Seq(S)
           /\ \A q \in Seq(S) : q # <<>> => Head(q) \in S /\ Tail(q) \in Seq(S)
           /\ \A q, t \in Seq(S) : q \o t \in Seq(S)
           /\ \A e \in S : <<e>> \in Seq(S)
  OBVIOUS

\* Sets of requests and of message ids are finite, and small.
LEMMA RequestSets ==
    ASSUME NEW S \in SUBSET Request
    PROVE  IsFiniteSet(S) /\ Cardinality(S) \in 0 .. MaxRequest
<1>1. IsFiniteSet(Request) /\ Cardinality(Request) = MaxRequest
  BY FS_Interval DEF Request
<1>2. IsFiniteSet(S) /\ Cardinality(S) <= Cardinality(Request)
  BY <1>1, FS_Subset
<1>3. Cardinality(S) \in Nat
  BY <1>2, FS_CardinalityType
<1> QED
  BY <1>1, <1>2, <1>3

\* The ids given to the requests that are sent: new ones in the order of the
\* requests, each its own, and the old id of a request that keeps it.
LEMMA NewIds ==
    ASSUME TypeOK
    PROVE  /\ Sending \subseteq toSend
           /\ IdsTaken \in 0 .. MaxRequest
           /\ \A r \in Sending : NeedsId(r) => IdOf(r) \in lastId + 1 .. lastId + IdsTaken
           /\ \A r, q \in Sending : NeedsId(r) /\ NeedsId(q) /\ IdOf(r) = IdOf(q) => r = q
<1> DEFINE Upto(r) == {q \in Sending : q <= r /\ NeedsId(q)}
           All == {r \in Sending : NeedsId(r)}
<1>1. Sending \subseteq toSend /\ Sending \subseteq Request
  BY DEF Sending, TypeOK, SharedTypeOK
<1>2. All \in SUBSET Request /\ \A r \in Request : Upto(r) \in SUBSET All
  BY <1>1
<1>3. IsFiniteSet(All) /\ Cardinality(All) \in 0 .. MaxRequest
  BY <1>2, RequestSets
<1>4. ASSUME NEW r \in Sending, NeedsId(r)
      PROVE  /\ IsFiniteSet(Upto(r)) /\ Cardinality(Upto(r)) \in 1 .. Cardinality(All)
             /\ IdOf(r) = lastId + Cardinality(Upto(r))
  <2>1. Upto(r) \in SUBSET All /\ r \in Request /\ r \in Upto(r)
    BY <1>1, <1>2, <1>4 DEF Request
  <2>2. IsFiniteSet(Upto(r)) /\ Cardinality(Upto(r)) <= Cardinality(All)
    BY <1>3, <2>1, FS_Subset
  <2>3. Cardinality(Upto(r)) \in Nat /\ Cardinality(Upto(r)) # 0
    BY <2>1, <2>2, FS_CardinalityType, FS_EmptySet
  <2>4. IdOf(r) = lastId + Cardinality(Upto(r))
    BY <1>4 DEF IdOf
  <2> QED
    BY <1>3, <2>2, <2>3, <2>4
<1>5. ASSUME NEW r \in Sending, NEW q \in Sending, NeedsId(r), NeedsId(q), q < r
      PROVE  IdOf(r) # IdOf(q)
  <2>1. \A k \in Sending : k \in Nat
    BY <1>1 DEF Request
  <2>2. Upto(q) \in SUBSET Upto(r) /\ r \in Upto(r) /\ r \notin Upto(q)
    <3>1. \A k \in Sending : k <= q => k <= r
      BY <1>5, <2>1
    <3>2. r <= r /\ ~(r <= q)
      BY <1>5, <2>1
    <3> QED
      BY <1>5, <3>1, <3>2, Zenon
  <2>3. IsFiniteSet(Upto(r)) /\ IsFiniteSet(Upto(q)) /\ Cardinality(Upto(r)) \in Nat
        /\ Cardinality(Upto(q)) \in Nat
    <3>1. Cardinality(All) \in Nat
      BY <1>3
    <3>2. /\ IsFiniteSet(Upto(r)) /\ Cardinality(Upto(r)) \in 1 .. Cardinality(All)
          /\ IsFiniteSet(Upto(q)) /\ Cardinality(Upto(q)) \in 1 .. Cardinality(All)
      BY <1>4, <1>5, Zenon
    <3> HIDE DEF All, Upto
    <3> QED
      BY <3>1, <3>2
  <2>4. Cardinality(Upto(q)) # Cardinality(Upto(r))
    <3>1. Cardinality(Upto(r)) = Cardinality(Upto(q)) => Upto(r) = Upto(q)
      BY <2>2, <2>3, FS_Subset
    <3> QED
      BY <2>2, <3>1
  <2>5. lastId \in Nat
    BY DEF TypeOK, StateTypeOK
  <2>6. IdOf(r) = lastId + Cardinality(Upto(r)) /\ IdOf(q) = lastId + Cardinality(Upto(q))
    BY <1>4, <1>5, Zenon
  <2> HIDE DEF Upto
  <2> QED
    BY <2>3, <2>4, <2>5, <2>6
<1>6. ASSUME NEW r \in Sending, NEW q \in Sending, NeedsId(r), NeedsId(q), IdOf(r) = IdOf(q)
      PROVE  r = q
  <2>1. r \in Nat /\ q \in Nat
    BY <1>1 DEF Request
  <2> QED
    BY <1>5, <1>6, <2>1
<1>7. IdsTaken = Cardinality(All)
  BY DEF IdsTaken
<1>8. ASSUME NEW r \in Sending, NeedsId(r)
      PROVE  IdOf(r) \in lastId + 1 .. lastId + IdsTaken
  <2>1. lastId \in Nat
    BY DEF TypeOK, StateTypeOK
  <2>2. /\ Cardinality(Upto(r)) \in 1 .. Cardinality(All)
        /\ IdOf(r) = lastId + Cardinality(Upto(r))
    BY <1>4, <1>8
  <2> HIDE DEF Upto, All
  <2> QED
    BY <1>3, <1>7, <2>1, <2>2
<1> HIDE DEF All, Upto
<1> QED
  BY <1>1, <1>3, <1>6, <1>7, <1>8

LEMMA IdTypes ==
    ASSUME TypeOK, lastId + MaxRequest + 2 <= MaxMsgId
    PROVE  /\ lastId + IdsTaken + 2 \in MsgId /\ IdsTaken \in Nat
           /\ \A r \in Sending : r \in Request /\ IdOf(r) \in MsgId
           /\ \A m \in MsgId : NewName(m) \in MsgId
<1>1. lastId \in Nat
  BY DEF TypeOK, StateTypeOK
<1>2. lastId + IdsTaken + 2 \in MsgId /\ IdsTaken \in Nat
  BY <1>1, NewIds DEF MsgId
<1>3. ASSUME NEW r \in Sending PROVE r \in Request /\ IdOf(r) \in MsgId
  <2>1. r \in Request
    BY NewIds DEF TypeOK, SharedTypeOK
  <2>2. CASE NeedsId(r)
    <3>1. IdOf(r) \in lastId + 1 .. lastId + IdsTaken
      BY <2>2, NewIds, Zenon
    <3> QED
      BY <1>1, <1>2, <2>1, <3>1 DEF MsgId
  <2>3. CASE ~NeedsId(r)
    BY <2>1, <2>3 DEF IdOf, NeedsId, TypeOK, ObjectTypeOK
  <2> QED
    BY <2>1, <2>2, <2>3
<1>4. ASSUME NEW m \in MsgId PROVE NewName(m) \in MsgId
  BY <1>3 DEF NewName, Renames
<1> QED
  BY <1>2, <1>3, <1>4

LEMMA RenamedType ==
    ASSUME NEW f \in [MsgId -> Request \cup {None}], NEW m \in MsgId
    PROVE  Renamed(f, m) \in Request \cup {None}
  BY DEF Renamed

LEMMA PacketType ==
    ASSUME TypeOK, NEW msgs \in SUBSET (MsgId \X Request),
           NEW container \in MsgId \cup {None}, NEW stateId \in MsgId \cup {None}
    PROVE  Packet(msgs, container, stateId) \in Packets
<1> DEFINE Ids == {x[1] : x \in msgs} \cup {lastId + 1}
           First == CHOOSE m \in Ids : \A x \in msgs : m <= x[1]
<1>1. Ids \in SUBSET Nat /\ Ids # {}
  BY DEF TypeOK, StateTypeOK, MsgId
<1>2. First \in Nat
  <2>1. \E m \in Ids : \A k \in Ids : m <= k
    BY <1>1, LeastNatural
  <2>2. \E m \in Ids : \A x \in msgs : m <= x[1]
    BY <2>1
  <2>3. First \in Ids
    BY <2>2
  <2> QED
    BY <1>1, <2>3
<1>3. PingPart \in BOOLEAN
  BY DEF PingPart
<1> HIDE DEF First
<1>4. Packet(msgs, container, stateId) =
        [session |-> session, msgs |-> msgs, container |-> container, first |-> First,
         acks |-> IF AckPart THEN ackData ELSE {},
         resend |-> IF ResendPart THEN resendData ELSE {},
         stateId |-> stateId, ask |-> IF StatePart THEN stateData ELSE {},
         ping |-> PingPart]
  BY DEF Packet, First
<1> QED
  BY <1>2, <1>3, <1>4 DEF Packets, TypeOK, StateTypeOK, ServiceTypeOK

LEMMA Untouched ==
    ASSUME TypeOK
    PROVE  /\ UNCHANGED mainVars => MainTypeOK'
           /\ UNCHANGED sharedVars => SharedTypeOK'
           /\ UNCHANGED objectVars => ObjectTypeOK'
           /\ UNCHANGED trackVars => TrackTypeOK'
           /\ UNCHANGED serviceVars => ServiceTypeOK'
           /\ UNCHANGED stateVars => StateTypeOK'
           /\ UNCHANGED netVars => NetTypeOK'
           /\ UNCHANGED serverVars => ServerTypeOK'
           /\ UNCHANGED countVars => CountTypeOK'
<1>1. UNCHANGED mainVars => MainTypeOK'
  BY DEF TypeOK, MainTypeOK, mainVars
<1>2. UNCHANGED sharedVars => SharedTypeOK'
  BY DEF TypeOK, SharedTypeOK, sharedVars
<1>3. UNCHANGED objectVars => ObjectTypeOK'
  BY DEF TypeOK, ObjectTypeOK, objectVars
<1>4. UNCHANGED trackVars => TrackTypeOK'
  BY DEF TypeOK, TrackTypeOK, trackVars
<1>5. UNCHANGED serviceVars => ServiceTypeOK'
  BY DEF TypeOK, ServiceTypeOK, serviceVars
<1>6. UNCHANGED stateVars => StateTypeOK'
  BY DEF TypeOK, StateTypeOK, stateVars
<1>7. UNCHANGED netVars => NetTypeOK'
  BY DEF TypeOK, NetTypeOK, netVars
<1>8. UNCHANGED serverVars => ServerTypeOK'
  BY DEF TypeOK, ServerTypeOK, serverVars
<1>9. UNCHANGED countVars => CountTypeOK'
  BY DEF TypeOK, CountTypeOK, countVars
<1> QED
  BY <1>1, <1>2, <1>3, <1>4, <1>5, <1>6, <1>7, <1>8, <1>9

LEMMA FaultType ==
    ASSUME TypeOK, NEW kind, Fault(kind)
    PROVE  faults' \in 0 .. MaxEvents
<1> DEFINE Used == Cardinality({r \in Request : status[r] # "unsent"})
<1>1. Used \in Nat
  BY RequestSets
<1>2. Used + faults < MaxEvents /\ faults' = faults + 1
  BY DEF Fault, Events
<1> HIDE DEF Used
<1> QED
  BY <1>1, <1>2 DEF TypeOK, CountTypeOK

LEMMA TakeResentTypes ==
    ASSUME TypeOK, NEW ids \in SUBSET MsgId, NEW sent \in [MsgId -> Request \cup {None}],
           NEW resending \in [MsgId -> Request \cup {None}], TakeResent(ids, sent, resending)
    PROVE  /\ hand' \in SUBSET Request
           /\ haveSent' \in [MsgId -> Request \cup {None}]
           /\ resendingIds' \in [MsgId -> Request \cup {None}]
           /\ inContainer' \in [Request -> BOOLEAN]
           /\ \A r \in hand' : inContainer'[r]
<1>1. /\ hand' = {sent[m] : m \in {k \in ids : k \in ids /\ sent[k] # None}}
      /\ haveSent' = [m \in MsgId |-> IF m \in ids /\ sent[m] # None THEN None ELSE sent[m]]
      /\ resendingIds' = [m \in MsgId |-> IF m \in ids /\ sent[m] # None THEN sent[m]
                                           ELSE resending[m]]
      /\ inContainer' = [r \in Request |-> inContainer[r]
                            \/ \E m \in ids : (m \in ids /\ sent[m] # None) /\ sent[m] = r]
  BY DEF TakeResent
<1>2. hand' \in SUBSET Request
  BY <1>1
<1>3. /\ haveSent' \in [MsgId -> Request \cup {None}]
      /\ resendingIds' \in [MsgId -> Request \cup {None}]
  BY <1>1
<1>4. inContainer' \in [Request -> BOOLEAN]
  BY <1>1
<1>5. \A r \in hand' : inContainer'[r]
  BY <1>1, <1>2
<1> QED
  BY <1>2, <1>3, <1>4, <1>5

LEMMA AckedTypes ==
    ASSUME TypeOK, NEW ids, NEW byResponse
    PROVE  /\ Acked(ids, byResponse).haveSent \in [MsgId -> Request \cup {None}]
           /\ Acked(ids, byResponse).resendingIds \in [MsgId -> Request \cup {None}]
           /\ Acked(ids, byResponse).toSend \in SUBSET toSend
           /\ Acked(ids, byResponse).ackedIds \in [MsgId -> Request \cup {None}]
           /\ Acked(ids, byResponse).sentContainers \in [MsgId -> SUBSET MsgId]
  BY DEF Acked, TypeOK, SharedTypeOK, TrackTypeOK

LEMMA TrimmedType ==
    ASSUME NEW f \in [MsgId -> Request \cup {None}], NEW n
    PROVE  Trimmed(f, n) \in [MsgId -> Request \cup {None}]
  BY DEF Trimmed

LEMMA RequestsAckedTypes ==
    ASSUME TypeOK, NEW ids, NEW byResponse, RequestsAcked(ids, byResponse)
    PROVE  /\ haveSent' \in [MsgId -> Request \cup {None}]
           /\ resendingIds' \in [MsgId -> Request \cup {None}]
           /\ toSend' \in SUBSET toSend
           /\ ackedIds' \in [MsgId -> Request \cup {None}]
           /\ sentContainers' \in [MsgId -> SUBSET MsgId]
<1> DEFINE now == Acked(ids, byResponse)
<1>1. /\ haveSent' = now.haveSent /\ resendingIds' = now.resendingIds
      /\ toSend' = now.toSend /\ ackedIds' = Trimmed(now.ackedIds, KeepAcked)
      /\ sentContainers' = now.sentContainers
  BY DEF RequestsAcked, TakeAcked
<1>2. /\ now.haveSent \in [MsgId -> Request \cup {None}]
      /\ now.resendingIds \in [MsgId -> Request \cup {None}]
      /\ now.toSend \in SUBSET toSend
      /\ now.ackedIds \in [MsgId -> Request \cup {None}]
      /\ now.sentContainers \in [MsgId -> SUBSET MsgId]
  BY AckedTypes
<1> HIDE DEF now
<1> QED
  BY <1>1, <1>2, TrimmedType

\* A message the client handles, by its type.
LEMMA MessageTypes ==
    ASSUME TypeOK, NEW type, Is(type)
    PROVE  /\ type = "newSession" => Message.msgId \in Nat
           /\ type \in {"seqno", "fatal"} => Message.msgId \in MsgId
           /\ type = "states" => Message.msgId \in MsgId
           /\ type = "result" => Message.msgId \in MsgId /\ Message.answer \in Nat
                                 /\ Message.ok \in BOOLEAN
           /\ type = "detailed" => Message.msgId \in MsgId /\ Message.answer \in Nat
           /\ type \in {"ack", "low", "states"} => Message.ids \in SUBSET MsgId
           /\ s2c \in Seq(Replies) /\ s2c # <<>> /\ Tail(s2c) \in Seq(Replies)
<1>1. s2c \in Seq(Replies) /\ s2c # <<>> /\ Message.type = type
  BY DEF Is, Message, TypeOK, NetTypeOK
<1>2. Message \in Replies /\ Tail(s2c) \in Seq(Replies)
  BY <1>1 DEF Message
<1> HIDE DEF Message
<1>3. type = "newSession" => Message.msgId \in Nat
  BY <1>1, <1>2 DEF Replies
<1>4. type \in {"seqno", "fatal"} => Message.msgId \in MsgId
  BY <1>1, <1>2 DEF Replies
<1>5. type = "states" => Message.msgId \in MsgId
  BY <1>1, <1>2 DEF Replies
<1>6. type = "result" => Message.msgId \in MsgId /\ Message.answer \in Nat /\ Message.ok \in BOOLEAN
  BY <1>1, <1>2 DEF Replies
<1>7. type = "detailed" => Message.msgId \in MsgId /\ Message.answer \in Nat
  BY <1>1, <1>2 DEF Replies
<1>8. type \in {"ack", "low", "states"} => Message.ids \in SUBSET MsgId
  BY <1>1, <1>2 DEF Replies
<1> QED
  BY <1>1, <1>2, <1>3, <1>4, <1>5, <1>6, <1>7, <1>8

-----------------------------------------------------------------------------
(* The types, action by action. *)

LEMMA SendPreparedTypes ==
    ASSUME TypeOK, NEW r \in Request, SendPrepared(r)
    PROVE  toSend' \subseteq Request /\ msgIdOf' \in [Request -> MsgId \cup {None}]
           /\ sendQueued' \in BOOLEAN
  BY DEF SendPrepared, TypeOK, SharedTypeOK, ObjectTypeOK

LEMMA MainTypes ==
    ASSUME TypeOK, MainStep
    PROVE  TypeOK'
<1>1. ASSUME NEW r \in Request, SendRequest(r) PROVE TypeOK'
  <2> USE <1>1 DEF SendRequest
  <2>1. TrackTypeOK' /\ ServiceTypeOK' /\ StateTypeOK' /\ NetTypeOK' /\ ServerTypeOK' /\ CountTypeOK'
    BY Untouched
  <2>2. MainTypeOK'
    BY DEF TypeOK, MainTypeOK
  <2>3. SharedTypeOK' /\ ObjectTypeOK'
    BY SendPreparedTypes DEF TypeOK, SharedTypeOK, ObjectTypeOK
  <2> QED
    BY <2>1, <2>2, <2>3 DEF TypeOK
<1>2. ASSUME NEW r \in Request, CancelBegin(r) PROVE TypeOK'
  <2> USE <1>2 DEF CancelBegin
  <2>1. SharedTypeOK' /\ ObjectTypeOK' /\ TrackTypeOK' /\ ServiceTypeOK' /\ StateTypeOK'
        /\ NetTypeOK' /\ ServerTypeOK'
    BY Untouched
  <2>2. MainTypeOK'
    BY DEF TypeOK, MainTypeOK, ObjectTypeOK
  <2>3. CountTypeOK'
    BY FaultType DEF TypeOK, CountTypeOK
  <2> QED
    BY <2>1, <2>2, <2>3 DEF TypeOK
<1>3. CASE CancelToSend
  <2> USE <1>3 DEF CancelToSend
  <2>1. ObjectTypeOK' /\ TrackTypeOK' /\ ServiceTypeOK' /\ StateTypeOK'
        /\ NetTypeOK' /\ ServerTypeOK' /\ CountTypeOK'
    BY Untouched
  <2>2. MainTypeOK'
    BY DEF TypeOK, MainTypeOK
  <2>3. SharedTypeOK'
    BY DEF TypeOK, SharedTypeOK
  <2> QED
    BY <2>1, <2>2, <2>3 DEF TypeOK
<1>4. CASE CancelHaveSent
  <2> USE <1>4 DEF CancelHaveSent
  <2>1. ObjectTypeOK' /\ TrackTypeOK' /\ ServiceTypeOK' /\ StateTypeOK'
        /\ NetTypeOK' /\ ServerTypeOK' /\ CountTypeOK'
    BY Untouched
  <2>2. MainTypeOK'
    BY DEF TypeOK, MainTypeOK
  <2>3. SharedTypeOK'
    BY DEF TypeOK, SharedTypeOK
  <2> QED
    BY <2>1, <2>2, <2>3 DEF TypeOK
<1>5. CASE ProcessCallback
  <2> USE <1>5 DEF ProcessCallback
  <2>1. ObjectTypeOK' /\ TrackTypeOK' /\ ServiceTypeOK' /\ StateTypeOK'
        /\ NetTypeOK' /\ ServerTypeOK' /\ CountTypeOK'
    BY Untouched
  <2>2. /\ haveReceived \in Seq([request : Request, ok : BOOLEAN]) /\ haveReceived # <<>>
        /\ haveReceived' = Tail(haveReceived)
        /\ UNCHANGED <<cancelling, toSend, haveSent, sendQueued>>
    BY DEF TypeOK, SharedTypeOK
  <2>3. SharedTypeOK'
    BY <2>2 DEF TypeOK, SharedTypeOK
  <2>4. PICK r \in Request : r = Head(haveReceived).request
    <3>1. Head(haveReceived) \in [request : Request, ok : BOOLEAN]
      BY <2>2, Queues, Zenon
    <3> QED
      BY <3>1
  <2>5. /\ status' \in {status, [status EXCEPT ![r] = "done"], [status EXCEPT ![r] = "failed"]}
        /\ delayed' \in {delayed, delayed \cup {r}}
    BY <2>4
  <2>6. MainTypeOK'
    BY <2>2, <2>5 DEF TypeOK, MainTypeOK
  <2> QED
    BY <2>1, <2>3, <2>6 DEF TypeOK
<1>6. ASSUME NEW r \in Request, CheckDelayedRequests(r) PROVE TypeOK'
  <2> USE <1>6 DEF CheckDelayedRequests
  <2>1. TrackTypeOK' /\ ServiceTypeOK' /\ StateTypeOK' /\ NetTypeOK' /\ ServerTypeOK' /\ CountTypeOK'
    BY Untouched
  <2>2. MainTypeOK'
    BY DEF TypeOK, MainTypeOK
  <2>3. /\ toSend' \subseteq Request /\ msgIdOf' \in [Request -> MsgId \cup {None}]
        /\ sendQueued' \in BOOLEAN
    BY SendPreparedTypes DEF TypeOK, SharedTypeOK, ObjectTypeOK
  <2>4. SharedTypeOK' /\ ObjectTypeOK'
    BY <2>3 DEF TypeOK, SharedTypeOK, ObjectTypeOK
  <2> QED
    BY <2>1, <2>2, <2>4 DEF TypeOK
<1> QED
  BY <1>1, <1>2, <1>3, <1>4, <1>5, <1>6 DEF MainStep

LEMMA TakeServiceTypes ==
    ASSUME TypeOK, TakeService
    PROVE  /\ started' \in BOOLEAN /\ ping' \in {"no", "due", "out"}
           /\ stateData' \subseteq MsgId /\ ackData' \subseteq Nat /\ resendData' \subseteq Nat
  BY DEF TakeService, TypeOK, StateTypeOK, ServiceTypeOK

\* The branches of tryToSend.
LEMMA TryToSendTypes ==
    ASSUME TypeOK, TryToSend
    PROVE  TypeOK'
<1>1. /\ MainTypeOK' /\ ServerTypeOK' /\ CountTypeOK'
      /\ UNCHANGED <<haveReceived, receivedIds, connected, session, sessionStart>>
  BY Untouched DEF TryToSend
<1> USE <1>1
<1>2. CASE ~connected
  <2> USE <1>2 DEF TryToSend
  <2>1. ObjectTypeOK' /\ TrackTypeOK' /\ NetTypeOK'
    BY Untouched
  <2>2. SharedTypeOK' /\ ServiceTypeOK' /\ StateTypeOK'
    BY DEF TypeOK, SharedTypeOK, ServiceTypeOK, StateTypeOK
  <2> QED
    BY <2>1, <2>2 DEF TypeOK
<1>3. CASE NothingToSend
  <2> USE <1>3 DEF NothingToSend
  <2>1. ObjectTypeOK' /\ TrackTypeOK' /\ NetTypeOK'
    BY Untouched
  <2>2. SharedTypeOK' /\ ServiceTypeOK' /\ StateTypeOK'
    BY TakeServiceTypes DEF TypeOK, SharedTypeOK, ServiceTypeOK, StateTypeOK
  <2> QED
    BY <2>1, <2>2 DEF TypeOK
<1> SUFFICES ASSUME lastId + MaxRequest + 2 <= MaxMsgId,
                    TakeSingle \/ SendSingleService \/ SendContainer
             PROVE  TypeOK'
  BY <1>2, <1>3 DEF TryToSend
<1>4. /\ lastId + IdsTaken + 2 \in MsgId /\ IdsTaken \in Nat /\ lastId \in Nat
      /\ \A r \in Sending : r \in Request /\ IdOf(r) \in MsgId
      /\ \A m \in MsgId : NewName(m) \in MsgId
      /\ Sending \subseteq toSend
  BY IdTypes, NewIds DEF TypeOK, StateTypeOK
<1>5. /\ lastId + IdsTaken \in 0 .. MaxMsgId /\ lastId + IdsTaken + 1 \in MsgId
      /\ lastId + 1 \in MsgId
  BY <1>4 DEF MsgId
<1>6. CASE TakeSingle
  <2> USE <1>6 DEF TakeSingle
  <2>1. NetTypeOK'
    BY Untouched
  <2>2. SharedTypeOK' /\ ServiceTypeOK'
    BY TakeServiceTypes DEF TypeOK, SharedTypeOK, ServiceTypeOK
  <2>3. ObjectTypeOK'
    BY <1>4 DEF SetIds, TypeOK, ObjectTypeOK
  <2>4. StateTypeOK'
    BY <1>5, TakeServiceTypes DEF TypeOK, StateTypeOK
  <2>5. single' \in MsgId
    <3>1. Sending # {}
      <4>1. Cardinality(Sending) # 0
        BY DEF TotalSending
      <4> QED
        BY <4>1, FS_EmptySet
    <3> QED
      BY <1>4, <3>1
  <2>6. TrackTypeOK'
    BY <1>4, <2>5 DEF NotResending, TypeOK, TrackTypeOK
  <2> QED
    BY <2>1, <2>2, <2>3, <2>4, <2>6 DEF TypeOK
<1>7. CASE SendSingleService
  <2> USE <1>7 DEF SendSingleService
  <2>1. ObjectTypeOK' /\ TrackTypeOK'
    BY Untouched
  <2>2. SharedTypeOK' /\ ServiceTypeOK'
    BY <1>5, TakeServiceTypes DEF TypeOK, SharedTypeOK, ServiceTypeOK
  <2>3. StateTypeOK'
    BY <1>5, TakeServiceTypes DEF TypeOK, StateTypeOK, MsgId
  <2>4. NetTypeOK'
    <3>1. Packet({}, None, IF StatePart THEN lastId + 1 ELSE None) \in Packets
      BY <1>5, PacketType
    <3> QED
      BY <3>1 DEF TypeOK, NetTypeOK
  <2> QED
    BY <2>1, <2>2, <2>3, <2>4 DEF TypeOK
<1>8. CASE SendContainer
  <2> DEFINE msgs == {<<IdOf(r), r>> : r \in Sending}
             stateId == IF StatePart THEN lastId + IdsTaken + 1 ELSE None
             container == IF Sending = {} THEN None
                          ELSE lastId + IdsTaken + (IF StatePart THEN 2 ELSE 1)
  <2>1. msgs \in SUBSET (MsgId \X Request) /\ stateId \in MsgId \cup {None}
        /\ container \in MsgId \cup {None}
    BY <1>4, <1>5
  <2>2. /\ haveSent' = [m \in MsgId |->
                IF Renamed(haveSent, m) # None THEN Renamed(haveSent, m)
                ELSE IF \E x \in msgs : x[1] = m THEN (CHOOSE x \in msgs : x[1] = m)[2]
                ELSE None]
        /\ ackedIds' = [m \in MsgId |-> Renamed(ackedIds, m)]
        /\ sentContainers' = [m \in MsgId |->
                IF m = container THEN {x[1] : x \in msgs}
                ELSE {NewName(k) : k \in sentContainers[m]}]
        /\ stateRequests' = [m \in MsgId |-> IF m = stateId THEN stateData ELSE stateRequests[m]]
        /\ lastId' = IF Sending # {} THEN container
                     ELSE IF StatePart THEN stateId ELSE lastId
        /\ c2s' = Append(c2s, Packet(msgs, container, stateId))
    BY <1>8 DEF SendContainer
  <2>3. /\ msgIdOf' = SetIds(msgIdOf) /\ resendingIds' = NotResending
        /\ toSend' = toSend \ Sending /\ checkTimer' = (checkTimer \/ Sending # {})
        /\ TakeService /\ sendQueued' = (toSend # Sending)
        /\ UNCHANGED <<inContainer, hand, single, s2c>>
    BY <1>8 DEF SendContainer
  <2>4. haveSent' \in [MsgId -> Request \cup {None}]
    <3>1. \A m \in MsgId : Renamed(haveSent, m) \in Request \cup {None}
      BY RenamedType DEF TypeOK, SharedTypeOK
    <3>2. \A m \in MsgId : (\E x \in msgs : x[1] = m) => (CHOOSE x \in msgs : x[1] = m)[2] \in Request
      BY <2>1
    <3> QED
      BY <2>2, <3>1, <3>2
  <2>5. ackedIds' \in [MsgId -> Request \cup {None}]
    <3>1. \A m \in MsgId : Renamed(ackedIds, m) \in Request \cup {None}
      BY RenamedType DEF TypeOK, TrackTypeOK
    <3> QED
      BY <2>2, <3>1
  <2>6. sentContainers' \in [MsgId -> SUBSET MsgId]
    <3>1. {x[1] : x \in msgs} \in SUBSET MsgId
      BY <2>1
    <3>2. \A m \in MsgId : {NewName(k) : k \in sentContainers[m]} \in SUBSET MsgId
      BY <1>4 DEF TypeOK, TrackTypeOK
    <3> QED
      BY <2>2, <3>1, <3>2
  <2>7. TrackTypeOK'
    BY <2>3, <2>5, <2>6 DEF NotResending, TypeOK, TrackTypeOK
  <2>8. SharedTypeOK'
    BY <2>3, <2>4 DEF TypeOK, SharedTypeOK
  <2>9. ObjectTypeOK'
    BY <1>4, <2>3 DEF SetIds, TypeOK, ObjectTypeOK
  <2>10. ServiceTypeOK'
    BY <2>2, <2>3, TakeServiceTypes DEF TypeOK, ServiceTypeOK
  <2>11. StateTypeOK'
    <3>1. lastId' \in 0 .. MaxMsgId
      BY <1>5, <2>1, <2>2 DEF TypeOK, StateTypeOK, MsgId
    <3> QED
      BY <2>3, <3>1, TakeServiceTypes DEF TypeOK, StateTypeOK
  <2>12. NetTypeOK'
    <3>1. Packet(msgs, container, stateId) \in Packets
      BY <2>1, PacketType
    <3> QED
      BY <2>2, <2>3, <3>1 DEF TypeOK, NetTypeOK
  <2> QED
    BY <2>7, <2>8, <2>9, <2>10, <2>11, <2>12 DEF TypeOK
<1> QED
  BY <1>6, <1>7, <1>8

\* The rest of what the session's thread does by itself.
LEMMA ThreadTypes ==
    ASSUME TypeOK, single # None => hand # {},
           \/ SendSingle \/ PutResent \/ CheckSentRequests \/ Connect \/ Drop \/ PingTimer
           \/ \E m \in MsgId : ClearOldContainer(m)
    PROVE  TypeOK'
<1>1. CASE SendSingle
  <2> USE <1>1 DEF SendSingle
  <2>1. MainTypeOK' /\ ObjectTypeOK' /\ ServiceTypeOK' /\ StateTypeOK' /\ ServerTypeOK' /\ CountTypeOK'
    BY Untouched
  <2>2. PICK r : r = CHOOSE q \in hand : TRUE
    OBVIOUS
  <2>3. r \in Request
    BY <2>2 DEF TypeOK, TrackTypeOK
  <2>4. SharedTypeOK'
    BY <2>2, <2>3 DEF TypeOK, SharedTypeOK
  <2>5. TrackTypeOK'
    BY DEF TypeOK, TrackTypeOK
  <2>6. NetTypeOK'
    <3>1. {<<single, r>>} \in SUBSET (MsgId \X Request)
      BY <2>3 DEF TypeOK, TrackTypeOK
    <3>2. Packet({<<single, r>>}, None, None) \in Packets
      BY <3>1, PacketType
    <3>3. c2s' = Append(c2s, Packet({<<single, r>>}, None, None)) /\ s2c' = s2c
      BY <2>2
    <3> QED
      BY <3>2, <3>3 DEF TypeOK, NetTypeOK
  <2> QED
    BY <2>1, <2>4, <2>5, <2>6 DEF TypeOK
<1>2. CASE PutResent
  <2> USE <1>2 DEF PutResent
  <2>1. MainTypeOK' /\ ObjectTypeOK' /\ ServiceTypeOK' /\ StateTypeOK' /\ NetTypeOK' /\ ServerTypeOK'
        /\ CountTypeOK'
    BY Untouched
  <2>2. SharedTypeOK' /\ TrackTypeOK'
    BY DEF TypeOK, SharedTypeOK, TrackTypeOK
  <2> QED
    BY <2>1, <2>2 DEF TypeOK
<1>3. CASE CheckSentRequests
  <2> USE <1>3 DEF CheckSentRequests
  <2>1. MainTypeOK' /\ ObjectTypeOK' /\ TrackTypeOK' /\ NetTypeOK' /\ ServerTypeOK' /\ CountTypeOK'
    BY Untouched
  <2>2. SharedTypeOK' /\ ServiceTypeOK' /\ StateTypeOK'
    BY DEF Sent, TypeOK, SharedTypeOK, ServiceTypeOK, StateTypeOK
  <2> QED
    BY <2>1, <2>2 DEF TypeOK
<1>4. CASE Connect
  <2> USE <1>4 DEF Connect
  <2>1. MainTypeOK' /\ ServiceTypeOK' /\ NetTypeOK' /\ ServerTypeOK' /\ CountTypeOK'
    BY Untouched
  <2>2. /\ hand' \in SUBSET Request
        /\ haveSent' \in [MsgId -> Request \cup {None}]
        /\ resendingIds' \in [MsgId -> Request \cup {None}]
        /\ inContainer' \in [Request -> BOOLEAN]
    <3>1. Sent \in SUBSET MsgId
      BY DEF Sent
    <3> QED
      BY <3>1, TakeResentTypes DEF TypeOK, SharedTypeOK, TrackTypeOK
  <2>3. SharedTypeOK' /\ ObjectTypeOK' /\ TrackTypeOK' /\ StateTypeOK'
    BY <2>2 DEF TypeOK, SharedTypeOK, ObjectTypeOK, TrackTypeOK, StateTypeOK
  <2> QED
    BY <2>1, <2>3 DEF TypeOK
<1>5. CASE Drop
  <2> USE <1>5 DEF Drop
  <2>1. MainTypeOK' /\ SharedTypeOK' /\ ObjectTypeOK' /\ TrackTypeOK' /\ ServiceTypeOK' /\ ServerTypeOK'
    BY Untouched
  <2>2. StateTypeOK' /\ NetTypeOK'
    BY Queues DEF Disconnect, TypeOK, StateTypeOK, NetTypeOK
  <2>3. CountTypeOK'
    BY FaultType DEF TypeOK, CountTypeOK
  <2> QED
    BY <2>1, <2>2, <2>3 DEF TypeOK
<1>6. CASE PingTimer
  <2> USE <1>6 DEF PingTimer
  <2>1. MainTypeOK' /\ ObjectTypeOK' /\ TrackTypeOK' /\ ServiceTypeOK' /\ NetTypeOK' /\ ServerTypeOK'
        /\ CountTypeOK'
    BY Untouched
  <2>2. SharedTypeOK' /\ StateTypeOK'
    BY DEF TypeOK, SharedTypeOK, StateTypeOK
  <2> QED
    BY <2>1, <2>2 DEF TypeOK
<1>7. ASSUME NEW m \in MsgId, ClearOldContainer(m) PROVE TypeOK'
  <2> USE <1>7 DEF ClearOldContainer
  <2>1. MainTypeOK' /\ ServiceTypeOK' /\ StateTypeOK' /\ NetTypeOK' /\ ServerTypeOK'
    BY Untouched
  <2>2. /\ hand' \in SUBSET Request
        /\ haveSent' \in [MsgId -> Request \cup {None}]
        /\ resendingIds' \in [MsgId -> Request \cup {None}]
        /\ inContainer' \in [Request -> BOOLEAN]
    <3>1. sentContainers[m] \in SUBSET MsgId
      BY DEF TypeOK, TrackTypeOK
    <3> QED
      BY <3>1, TakeResentTypes DEF TypeOK, SharedTypeOK, TrackTypeOK
  <2>3. SharedTypeOK' /\ ObjectTypeOK' /\ TrackTypeOK'
    BY <2>2 DEF TypeOK, SharedTypeOK, ObjectTypeOK, TrackTypeOK
  <2>4. CountTypeOK'
    BY FaultType DEF TypeOK, CountTypeOK
  <2> QED
    BY <2>1, <2>3, <2>4 DEF TypeOK
<1> QED
  BY <1>1, <1>2, <1>3, <1>4, <1>5, <1>6, <1>7

\* The handlers of what is received.
LEMMA HandlerTypes ==
    ASSUME TypeOK, HandleReceived
    PROVE  TypeOK'
<1>1. HandlerFrame
  BY DEF HandleReceived, HandleUnknown, HandleAck, HandleNewResult, HandleDuplicate, HandleReset,
         HandleTooLow, HandleFatal, HandleStates, HandleNewSession, HandleDetailed, HandlePong
<1>2. /\ MainTypeOK' /\ ServerTypeOK'
      /\ UNCHANGED <<msgIdOf, single, checkTimer, lastId>>
  BY <1>1, Untouched DEF HandlerFrame
<1>3. CASE HandleReset
  <2> USE <1>3 DEF HandleReset, ResetSession, Disconnect
  <2>1. SharedTypeOK'
    BY Untouched
  <2>2. ObjectTypeOK' /\ TrackTypeOK'
    BY <1>2 DEF TypeOK, ObjectTypeOK, TrackTypeOK
  <2>3. ServiceTypeOK'
    BY DEF TypeOK, ServiceTypeOK
  <2>4. StateTypeOK'
    <3>1. checkTimer' \in BOOLEAN /\ lastId' \in 0 .. MaxMsgId /\ lastId \in Nat
      BY <1>2 DEF TypeOK, StateTypeOK
    <3>2. connected' = FALSE /\ started' = FALSE /\ ping' = "no" /\ session' \in Nat
      BY DEF TypeOK, StateTypeOK
    <3> QED
      BY <3>1, <3>2 DEF StateTypeOK
  <2>6. NetTypeOK'
    BY Queues DEF TypeOK, NetTypeOK
  <2>5. CountTypeOK'
    BY DEF TypeOK, CountTypeOK
  <2> QED
    BY <1>2, <2>1, <2>2, <2>3, <2>4, <2>5, <2>6 DEF TypeOK
<1> SUFFICES ASSUME SameSession, s2c' = Tail(s2c), ~HandleReset PROVE TypeOK'
  BY <1>3 DEF HandleReceived, HandleUnknown, HandleAck, HandleNewResult, HandleDuplicate,
         HandleTooLow, HandleFatal, HandleStates, HandleNewSession, HandleDetailed, HandlePong
<1>4. PICK type : Is(type)
  BY DEF HandleReceived, HandleUnknown, HandleAck, HandleNewResult, HandleDuplicate,
         HandleTooLow, HandleFatal, HandleStates, HandleNewSession, HandleDetailed, HandlePong
<1>5. NetTypeOK'
  BY <1>4, MessageTypes DEF SameSession, TypeOK, NetTypeOK
<1> SUFFICES ASSUME TRUE
             PROVE  /\ SharedTypeOK' /\ inContainer' \in [Request -> BOOLEAN]
                    /\ hand' \subseteq Request
                    /\ resendingIds' \in [MsgId -> Request \cup {None}]
                    /\ ackedIds' \in [MsgId -> Request \cup {None}]
                    /\ sentContainers' \in [MsgId -> SUBSET MsgId]
                    /\ ServiceTypeOK' /\ ping' \in {"no", "due", "out"} /\ faults' = faults
  <2>1. ObjectTypeOK' /\ TrackTypeOK'
    BY <1>2 DEF TypeOK, ObjectTypeOK, TrackTypeOK
  <2>2. StateTypeOK' /\ CountTypeOK'
    BY <1>2 DEF SameSession, TypeOK, StateTypeOK, CountTypeOK
  <2> QED
    BY <1>2, <1>5, <2>1, <2>2 DEF TypeOK
<1> USE DEF TypeOK, SharedTypeOK, TrackTypeOK, ObjectTypeOK, ServiceTypeOK, StateTypeOK
<1>6. CASE HandleUnknown \/ HandlePong
  BY <1>6 DEF HandleUnknown, HandlePong, sharedVars, serviceVars
<1>7. CASE HandleAck
  BY <1>7, RequestsAckedTypes DEF HandleAck, serviceVars
<1>8. CASE HandleNewResult
  <2> USE <1>8 DEF HandleNewResult
  <2>1. Message.msgId \in MsgId /\ Message.answer \in Nat /\ Message.ok \in BOOLEAN
    BY MessageTypes
  <2>2. /\ haveSent' \in [MsgId -> Request \cup {None}]
        /\ resendingIds' \in [MsgId -> Request \cup {None}]
        /\ toSend' \in SUBSET toSend
        /\ ackedIds' \in [MsgId -> Request \cup {None}]
        /\ sentContainers' \in [MsgId -> SUBSET MsgId]
    BY RequestsAckedTypes
  <2>3. PICK r : r = RequestOf(resendingIds', ackedIds', haveSent', Message.msgId)
    OBVIOUS
  <2>4. r \in Request \cup {None}
    BY <2>1, <2>2, <2>3 DEF RequestOf
  <2>5. haveReceived' \in Seq([request : Request, ok : BOOLEAN])
    <3>1. haveReceived' = IF r = None THEN haveReceived
                          ELSE Append(haveReceived, [request |-> r, ok |-> Message.ok])
      BY <2>3 DEF Respond
    <3>2. r # None => [request |-> r, ok |-> Message.ok] \in [request : Request, ok : BOOLEAN]
      BY <2>1, <2>4
    <3>3. haveReceived \in Seq([request : Request, ok : BOOLEAN])
      OBVIOUS
    <3> QED
      BY <3>1, <3>2, <3>3, Queues, Zenon
  <2>6. receivedIds' \subseteq Nat
    BY <2>1 DEF Largest
  <2> QED
    BY <2>1, <2>2, <2>5, <2>6
<1>9. CASE HandleDuplicate
  <2> USE <1>9 DEF HandleDuplicate
  <2>1. Message.answer \in Nat
    BY MessageTypes
  <2> QED
    BY <2>1
<1>10. CASE HandleTooLow
  <2> USE <1>10 DEF HandleTooLow
  <2>1. Message.ids \in SUBSET MsgId
    BY MessageTypes
  <2> QED
    BY <2>1, TakeResentTypes DEF serviceVars
<1>11. CASE HandleNewSession
  <2> USE <1>11 DEF HandleNewSession
  <2>1. {m \in Sent : m < Message.msgId} \in SUBSET MsgId
    BY DEF Sent
  <2> QED
    BY <2>1, TakeResentTypes DEF serviceVars
<1>12. CASE HandleFatal
  <2> USE <1>12 DEF HandleFatal
  <2>1. PICK r : r = RequestOf(resendingIds, ackedIds, haveSent, Message.msgId)
    OBVIOUS
  <2>2. haveReceived' = IF r = None THEN haveReceived
                        ELSE Append(haveReceived, [request |-> r, ok |-> FALSE])
    BY <2>1 DEF Respond
  <2>3. r \in Request \cup {None}
    BY <2>1, MessageTypes DEF RequestOf
  <2>4. haveReceived' \in Seq([request : Request, ok : BOOLEAN])
    <3>1. r # None => [request |-> r, ok |-> FALSE] \in [request : Request, ok : BOOLEAN]
      BY <2>3
    <3>2. haveReceived \in Seq([request : Request, ok : BOOLEAN])
      OBVIOUS
    <3> QED
      BY <2>2, <3>1, <3>2, Queues, Zenon
  <2> QED
    BY <2>4 DEF serviceVars
<1>13. CASE HandleStates
  <2> USE <1>13 DEF HandleStates
  <2>1. Message.msgId \in MsgId /\ Message.ids \in SUBSET MsgId
    BY MessageTypes
  <2>2. PICK asked : asked = stateRequests[Message.msgId]
    OBVIOUS
  <2>3. PICK now : /\ now = Acked(asked \cap Message.ids, FALSE)
                   /\ TakeResent(asked \ Message.ids, now.haveSent, now.resendingIds)
                   /\ TakeAcked(now)
    BY <2>2
  <2>4. asked \in SUBSET MsgId
    BY <2>1, <2>2
  <2>5. /\ now.haveSent \in [MsgId -> Request \cup {None}]
        /\ now.resendingIds \in [MsgId -> Request \cup {None}]
        /\ now.toSend \in SUBSET toSend
        /\ now.ackedIds \in [MsgId -> Request \cup {None}]
        /\ now.sentContainers \in [MsgId -> SUBSET MsgId]
    BY <2>3, AckedTypes
  <2>6. /\ hand' \in SUBSET Request
        /\ haveSent' \in [MsgId -> Request \cup {None}]
        /\ resendingIds' \in [MsgId -> Request \cup {None}]
        /\ inContainer' \in [Request -> BOOLEAN]
    BY <2>3, <2>4, <2>5, TakeResentTypes
  <2>7. /\ toSend' \in SUBSET toSend
        /\ ackedIds' \in [MsgId -> Request \cup {None}]
        /\ sentContainers' \in [MsgId -> SUBSET MsgId]
    BY <2>3, <2>5, TrimmedType DEF TakeAcked
  <2>8. /\ UNCHANGED <<haveReceived, sendQueued, stateData, ackData, resendData, receivedIds, ping, faults>>
        /\ stateRequests' \in [MsgId -> SUBSET MsgId]
    BY <2>1
  <2> QED
    BY <2>6, <2>7, <2>8
<1>14. CASE HandleDetailed
  <2> USE <1>14 DEF HandleDetailed
  <2>1. Message.answer \in Nat
    BY MessageTypes
  <2>2. /\ haveSent' \in [MsgId -> Request \cup {None}]
        /\ resendingIds' \in [MsgId -> Request \cup {None}]
        /\ toSend' \in SUBSET toSend
        /\ ackedIds' \in [MsgId -> Request \cup {None}]
        /\ sentContainers' \in [MsgId -> SUBSET MsgId]
    BY RequestsAckedTypes
  <2> QED
    BY <2>1, <2>2
<1> QED
  BY <1>6, <1>7, <1>8, <1>9, <1>10, <1>11, <1>12, <1>13, <1>14 DEF HandleReceived

\* What the server adds to the connection.
LEMMA IfType ==
    ASSUME NEW condition, NEW message, condition => message \in Replies
    PROVE  If(condition, message) \in Seq(Replies)
<1>1. CASE condition
  <2>1. If(condition, message) = <<message>>
    BY <1>1 DEF If
  <2> QED
    BY <1>1, <2>1, Queues
<1>2. CASE ~condition
  <2>1. If(condition, message) = <<>>
    BY <1>2 DEF If
  <2> QED
    BY <2>1, Queues
<1> QED
  BY <1>1, <1>2

LEMMA TakeTypes ==
    ASSUME TypeOK, c2s # <<>>, NEW bad, NEW reply \in Seq(Replies), Take(bad, reply)
    PROVE  NetTypeOK' /\ srvSession' \in Nat /\ got' \subseteq MsgId /\ todo' \subseteq MsgId \X Request
           /\ answers' \subseteq answers /\ wanted' \subseteq Nat
<1>1. PICK p \in Packets : p = Head(c2s)
  BY Queues DEF TypeOK, NetTypeOK
<1> DEFINE new == p.session # srvSession
           had == IF new THEN {} ELSE got
           kept == IF new THEN {} ELSE {a \in answers : a.answer \notin p.acks}
           accepted == {x \in p.msgs : x[1] \notin bad}
           ids == {x[1] : x \in accepted}
<1>2. /\ p.session \in Nat /\ p.msgs \in SUBSET (MsgId \X Request)
      /\ p.container \in MsgId \cup {None} /\ p.first \in Nat /\ p.resend \in SUBSET Nat
      /\ p.stateId \in MsgId \cup {None} /\ p.ask \in SUBSET MsgId
  BY <1>1 DEF Packets
<1>3. /\ c2s' = Tail(c2s) /\ srvSession' = p.session /\ got' = had \cup ids /\ answers' = kept
      /\ todo' = {x \in IF new THEN {} ELSE todo :
                    ~\E a \in answers : a.msgId = x[1] /\ a.answer \in p.acks}
          \cup {x \in accepted : x[1] \notin had \/ \E a \in kept : a.msgId = x[1]}
      /\ wanted' = (IF new THEN {} ELSE wanted) \cup p.resend
  BY <1>1 DEF Take
<1>4. PICK acking \in {TRUE, "old" \notin Faults} :
        s2c' = s2c \o If(new, [type |-> "newSession", msgId |-> p.first])
           \o If(acking /\ ids # {}, [type |-> "ack",
                  ids |-> IF p.container = None THEN ids ELSE {p.container}])
           \o reply
           \o If(p.stateId # None, [type |-> "states", msgId |-> p.stateId,
                                    ids |-> p.ask \cap (had \cup ids)])
           \o If(p.ping, [type |-> "pong"])
  BY <1>1 DEF Take
<1>5. ids \in SUBSET MsgId /\ had \in SUBSET MsgId /\ accepted \in SUBSET (MsgId \X Request)
  BY <1>2 DEF TypeOK, ServerTypeOK
<1>6. srvSession' \in Nat /\ got' \subseteq MsgId /\ answers' \subseteq answers
  BY <1>2, <1>3, <1>5 DEF TypeOK, ServerTypeOK
<1>7. todo' \subseteq MsgId \X Request
  <2>1. todo \subseteq MsgId \X Request
    BY DEF TypeOK, ServerTypeOK
  <2> HIDE DEF accepted, had, kept, new
  <2> QED
    BY <1>3, <1>5, <2>1
<1>8. wanted' \subseteq Nat
  BY <1>2, <1>3 DEF TypeOK, ServerTypeOK
<1>9. c2s' \in Seq(Packets)
  BY <1>3, Queues DEF TypeOK, NetTypeOK
<1>10. s2c' \in Seq(Replies)
  <2> DEFINE a == [type |-> "newSession", msgId |-> p.first]
             b == [type |-> "ack", ids |-> IF p.container = None THEN ids ELSE {p.container}]
             c == [type |-> "states", msgId |-> p.stateId, ids |-> p.ask \cap (had \cup ids)]
             d == [type |-> "pong"]
  <2>1. a \in Replies /\ b \in Replies /\ d \in Replies
    BY <1>2, <1>5 DEF Replies
  <2>2. p.stateId # None => c \in Replies
    BY <1>2, <1>5 DEF Replies
  <2> HIDE DEF a, b, c, d
  <2>3. /\ If(new, a) \in Seq(Replies) /\ If(acking /\ ids # {}, b) \in Seq(Replies)
        /\ If(p.stateId # None, c) \in Seq(Replies) /\ If(p.ping, d) \in Seq(Replies)
    BY <2>1, <2>2, IfType
  <2>4. s2c' = s2c \o If(new, a) \o If(acking /\ ids # {}, b) \o reply
               \o If(p.stateId # None, c) \o If(p.ping, d)
    BY <1>4 DEF a, b, c, d
  <2>5. s2c \in Seq(Replies)
    BY DEF TypeOK, NetTypeOK
  <2> QED
    BY <2>3, <2>4, <2>5, Queues
<1> QED
  BY <1>6, <1>7, <1>8, <1>9, <1>10 DEF NetTypeOK

\* The steps of the server that leave the client alone.
LEMMA ServerStepTypes ==
    ASSUME TypeOK, ServerStep
    PROVE  TypeOK'
<1>1. CASE ServerReceive
  <2> USE <1>1 DEF ServerReceive
  <2>1. /\ MainTypeOK' /\ SharedTypeOK' /\ ObjectTypeOK' /\ TrackTypeOK' /\ ServiceTypeOK'
        /\ StateTypeOK'
    BY Untouched
  <2>2. /\ NetTypeOK' /\ srvSession' \in Nat /\ got' \subseteq MsgId
        /\ todo' \subseteq MsgId \X Request /\ answers' \subseteq answers /\ wanted' \subseteq Nat
    <3>1. Head(c2s) \in Packets
      BY Queues DEF TypeOK, NetTypeOK
    <3>2. Head(c2s).msgs \in SUBSET (MsgId \X Request)
      BY <3>1 DEF Packets
    <3>3. CASE TooLow = {} /\ Take({}, <<>>)
      BY <3>3, Queues, TakeTypes
    <3>4. CASE TooLow # {} /\ Take(TooLow, <<[type |-> "low", ids |-> TooLow]>>)
      <4>1. TooLow \in SUBSET MsgId
        BY <3>2 DEF TooLow
      <4>2. [type |-> "low", ids |-> TooLow] \in Replies
        BY <4>1 DEF Replies
      <4>3. <<[type |-> "low", ids |-> TooLow]>> \in Seq(Replies)
        BY <4>2, Queues
      <4> QED
        BY <3>4, <4>3, TakeTypes
    <3>5. ASSUME NEW kind \in {"seqno", "fatal"}, NEW x \in Head(c2s).msgs,
                 Take({x[1]}, <<[type |-> kind, msgId |-> x[1]]>>)
          PROVE  /\ NetTypeOK' /\ srvSession' \in Nat /\ got' \subseteq MsgId
                 /\ todo' \subseteq MsgId \X Request /\ answers' \subseteq answers
                 /\ wanted' \subseteq Nat
      <4>1. x[1] \in MsgId
        BY <3>2
      <4>2. [type |-> kind, msgId |-> x[1]] \in Replies
        BY <4>1 DEF Replies
      <4>3. <<[type |-> kind, msgId |-> x[1]]>> \in Seq(Replies)
        BY <4>2, Queues
      <4> QED
        BY <3>5, <4>3, TakeTypes
    <3> QED
      BY <3>3, <3>4, <3>5
  <2>3. CountTypeOK'
    BY FaultType DEF TypeOK, CountTypeOK
  <2>4. NetTypeOK' /\ ServerTypeOK'
    BY <2>2 DEF TypeOK, ServerTypeOK
  <2> QED
    BY <2>1, <2>3, <2>4 DEF TypeOK
<1>2. CASE ServerForget \/ TimePasses
  <2>1. ServerFrame /\ s2c' = s2c
    BY <1>2 DEF ServerForget, TimePasses
  <2>2. /\ MainTypeOK' /\ SharedTypeOK' /\ ObjectTypeOK' /\ TrackTypeOK' /\ ServiceTypeOK'
        /\ StateTypeOK' /\ NetTypeOK'
    BY <2>1, Untouched DEF ServerFrame, netVars
  <2>3. CountTypeOK'
    BY <1>2, FaultType DEF ServerForget, TimePasses, TypeOK, CountTypeOK
  <2>4. ServerTypeOK'
    <3>1. CASE ServerForget
      BY <3>1 DEF ServerForget, TypeOK, ServerTypeOK
    <3>2. CASE TimePasses
      BY <3>2 DEF TimePasses, TypeOK, ServerTypeOK, StateTypeOK
    <3> QED
      BY <1>2, <3>1, <3>2
  <2> QED
    BY <2>2, <2>3, <2>4 DEF TypeOK
<1> SUFFICES ASSUME \/ \E x \in todo : ServerExecute(x) \/ ServerAnswerAgain(x)
                    \/ \E a \in answers : ServerResend(a) \/ ServerRepeat(a)
             PROVE  TypeOK'
  BY <1>1, <1>2 DEF ServerStep
<1>3. ServerFrame
  BY DEF ServerExecute, ServerAnswerAgain, ServerResend, ServerRepeat
<1>4. /\ MainTypeOK' /\ SharedTypeOK' /\ ObjectTypeOK' /\ TrackTypeOK' /\ ServiceTypeOK'
      /\ StateTypeOK'
  BY <1>3, Untouched DEF ServerFrame
<1>5. c2s' = c2s /\ c2s \in Seq(Packets) /\ s2c \in Seq(Replies)
  BY <1>3 DEF ServerFrame, TypeOK, NetTypeOK
<1>6. \A a : a \in [msgId : MsgId, answer : Nat, ok : BOOLEAN] => Result(a) \in Replies
  BY DEF Result, Replies
<1>7. ASSUME NEW x \in todo, ServerExecute(x) PROVE TypeOK'
  <2>1. x[1] \in MsgId /\ x[2] \in Request /\ lastAnswer \in Nat
    BY DEF TypeOK, ServerTypeOK
  <2>2. PICK ok \in BOOLEAN :
          LET a == [msgId |-> x[1], answer |-> lastAnswer + 1, ok |-> ok] IN
          /\ IF ok THEN UNCHANGED faults ELSE Fault("error")
          /\ executed' = [executed EXCEPT ![x[2]] = IF ok THEN @ + 1 ELSE @]
          /\ answers' = answers \cup {a}
          /\ s2c' = s2c \o If(Online, Result(a))
    BY <1>7 DEF ServerExecute
  <2> DEFINE a == [msgId |-> x[1], answer |-> lastAnswer + 1, ok |-> ok]
  <2>3. a \in [msgId : MsgId, answer : Nat, ok : BOOLEAN]
    BY <2>1, <2>2
  <2>4. NetTypeOK'
    BY <1>5, <1>6, <2>2, <2>3, IfType, Queues DEF NetTypeOK
  <2>5. /\ todo' = todo \ {x} /\ lastAnswer' = lastAnswer + 1
        /\ UNCHANGED <<srvSession, got, wanted, lowest, losses>>
    BY <1>7 DEF ServerExecute
  <2>6. ServerTypeOK'
    BY <2>1, <2>2, <2>3, <2>5 DEF TypeOK, ServerTypeOK
  <2>7. CountTypeOK'
    BY <2>2, <2>5, FaultType DEF TypeOK, CountTypeOK
  <2> QED
    BY <1>4, <2>4, <2>6, <2>7 DEF TypeOK
<1>8. ASSUME NEW x \in todo, ServerAnswerAgain(x) PROVE TypeOK'
  <2>1. PICK a \in answers :
          /\ \/ s2c' = s2c \o If(Online, Result(a))
             \/ s2c' = s2c \o If(Online, [type |-> "detailed", msgId |-> a.msgId, answer |-> a.answer])
          /\ UNCHANGED faults
    BY <1>8 DEF ServerAnswerAgain
  <2>2. a \in [msgId : MsgId, answer : Nat, ok : BOOLEAN]
    BY DEF TypeOK, ServerTypeOK
  <2>3. [type |-> "detailed", msgId |-> a.msgId, answer |-> a.answer] \in Replies
    BY <2>2 DEF Replies
  <2>4. NetTypeOK'
    <3>1. CASE s2c' = s2c \o If(Online, Result(a))
      BY <1>5, <1>6, <2>2, <3>1, IfType, Queues DEF NetTypeOK
    <3>2. CASE s2c' = s2c \o If(Online, [type |-> "detailed", msgId |-> a.msgId, answer |-> a.answer])
      BY <1>5, <2>3, <3>2, IfType, Queues DEF NetTypeOK
    <3> QED
      BY <2>1, <3>1, <3>2
  <2>5. /\ todo' = todo \ {x}
        /\ UNCHANGED <<srvSession, got, answers, wanted, lastAnswer, executed, lowest, losses>>
    BY <1>8 DEF ServerAnswerAgain
  <2>6. ServerTypeOK' /\ CountTypeOK'
    BY <2>1, <2>5 DEF TypeOK, ServerTypeOK, CountTypeOK
  <2> QED
    BY <1>4, <2>4, <2>6 DEF TypeOK
<1>9. ASSUME NEW a \in answers, ServerResend(a) \/ ServerRepeat(a) PROVE TypeOK'
  <2>1. /\ s2c' = Append(s2c, Result(a)) /\ wanted' \subseteq wanted
        /\ UNCHANGED <<srvSession, got, todo, answers, lastAnswer, executed, lowest, losses>>
    BY <1>9 DEF ServerResend, ServerRepeat
  <2>2. a \in [msgId : MsgId, answer : Nat, ok : BOOLEAN]
    BY DEF TypeOK, ServerTypeOK
  <2>3. NetTypeOK'
    BY <1>5, <1>6, <2>1, <2>2, Queues DEF NetTypeOK
  <2>4. ServerTypeOK'
    BY <2>1 DEF TypeOK, ServerTypeOK
  <2>5. CountTypeOK'
    BY <1>9, <2>1, FaultType DEF ServerResend, ServerRepeat, TypeOK, CountTypeOK
  <2> QED
    BY <1>4, <2>3, <2>4, <2>5 DEF TypeOK
<1> QED
  BY <1>7, <1>8, <1>9

-----------------------------------------------------------------------------
(* What the operators the handlers share do to the maps. *)

LEMMA Resent ==
    ASSUME TypeOK, NEW ids \in SUBSET MsgId, NEW sent \in [MsgId -> Request \cup {None}],
           NEW resending \in [MsgId -> Request \cup {None}], TakeResent(ids, sent, resending)
    PROVE  /\ \A m \in MsgId : m \in ids /\ sent[m] # None =>
                /\ haveSent'[m] = None /\ resendingIds'[m] = sent[m] /\ sent[m] \in hand'
           /\ \A m \in MsgId : m \notin ids \/ sent[m] = None =>
                /\ haveSent'[m] = sent[m] /\ resendingIds'[m] = resending[m]
           /\ \A r \in hand' : \E m \in ids : sent[m] = r
           /\ \A r \in Request : inContainer[r] \/ r \in hand' => inContainer'[r]
<1>1. /\ hand' = {sent[m] : m \in {k \in ids : k \in ids /\ sent[k] # None}}
      /\ haveSent' = [m \in MsgId |-> IF m \in ids /\ sent[m] # None THEN None ELSE sent[m]]
      /\ resendingIds' = [m \in MsgId |-> IF m \in ids /\ sent[m] # None THEN sent[m]
                                           ELSE resending[m]]
      /\ inContainer' = [r \in Request |-> inContainer[r]
                            \/ \E m \in ids : (m \in ids /\ sent[m] # None) /\ sent[m] = r]
  BY DEF TakeResent
<1>2. \A r \in Request : inContainer[r] \/ r \in hand' => inContainer'[r]
  BY <1>1
<1> QED
  BY <1>1, <1>2

LEMMA ResentPointwise ==
    ASSUME TypeOK, NEW ids \in SUBSET MsgId, NEW sent \in [MsgId -> Request \cup {None}],
           NEW resending \in [MsgId -> Request \cup {None}], TakeResent(ids, sent, resending)
    PROVE  \A m \in MsgId : /\ haveSent'[m] \in {sent[m], None}
                            /\ resendingIds'[m] \in {sent[m], resending[m]}
<1>1. /\ haveSent' = [m \in MsgId |-> IF m \in ids /\ sent[m] # None THEN None ELSE sent[m]]
      /\ resendingIds' = [m \in MsgId |-> IF m \in ids /\ sent[m] # None THEN sent[m]
                                           ELSE resending[m]]
  BY DEF TakeResent
<1> QED
  BY <1>1

LEMMA ResentKept ==
    ASSUME TypeOK, NEW ids \in SUBSET MsgId, NEW sent \in [MsgId -> Request \cup {None}],
           NEW resending \in [MsgId -> Request \cup {None}], TakeResent(ids, sent, resending),
           NEW m \in MsgId, sent[m] # None
    PROVE  haveSent'[m] = sent[m] \/ sent[m] \in hand'
<1>1. /\ hand' = {sent[k] : k \in {j \in ids : j \in ids /\ sent[j] # None}}
      /\ haveSent' = [k \in MsgId |-> IF k \in ids /\ sent[k] # None THEN None ELSE sent[k]]
  BY DEF TakeResent
<1>2. CASE m \in ids
  BY <1>1, <1>2
<1>3. CASE m \notin ids
  BY <1>1, <1>3
<1> QED
  BY <1>2, <1>3

\* The guards of requestsAcked, for the ids that are acknowledged and those of
\* them that are answered: a request known by the id m is freed; it leaves
\* _haveSent, or _resendingIds and with it _toSend.
FreedIn(ids, answered, m, r) ==
    r # None /\ \/ m \in ids /\ sentContainers[m] = {} /\ (m \in answered \/ ~HasCallback(r))
                \/ (\E c \in ids : m \in sentContainers[c]) /\ ~HasCallback(r)
LeavesSent(ids, answered, m) == FreedIn(ids, answered, m, haveSent[m])
LeavesResending(ids, answered, m) ==
    haveSent[m] = None /\ FreedIn(ids, answered, m, resendingIds[m])
AckedAs(now, ids, answered) ==
    /\ now.toSend = {r \in toSend : \A m \in MsgId :
                        resendingIds[m] = r => ~LeavesResending(ids, answered, m)}
    /\ \A m \in MsgId :
         /\ now.haveSent[m] = IF LeavesSent(ids, answered, m) THEN None ELSE haveSent[m]
         /\ now.resendingIds[m] = IF LeavesResending(ids, answered, m) THEN None
                                  ELSE resendingIds[m]
         /\ now.ackedIds[m] =
              IF LeavesSent(ids, answered, m) THEN haveSent[m]
              ELSE IF LeavesResending(ids, answered, m) /\ resendingIds[m] \in toSend
              THEN resendingIds[m] ELSE ackedIds[m]
         /\ now.sentContainers[m] = IF m \in ids THEN {} ELSE sentContainers[m]

LEMMA AckedFields ==
    ASSUME TypeOK, NEW ids \in SUBSET MsgId, NEW answered, NEW now,
           now = [haveSent |-> [k \in MsgId |-> IF LeavesSent(ids, answered, k) THEN None
                                           ELSE haveSent[k]],
             resendingIds |-> [k \in MsgId |-> IF LeavesResending(ids, answered, k) THEN None
                                               ELSE resendingIds[k]],
             toSend |-> toSend \ {resendingIds[k] : k \in
                {j \in MsgId : LeavesResending(ids, answered, j) /\ resendingIds[j] \in toSend}},
             ackedIds |-> [k \in MsgId |->
                IF LeavesSent(ids, answered, k) THEN haveSent[k]
                ELSE IF LeavesResending(ids, answered, k) /\ resendingIds[k] \in toSend
                THEN resendingIds[k] ELSE ackedIds[k]],
             sentContainers |-> [k \in MsgId |-> IF k \in ids THEN {} ELSE sentContainers[k]]]
    PROVE  AckedAs(now, ids, answered)
<1>1. \A m \in MsgId :
         /\ now.haveSent[m] = IF LeavesSent(ids, answered, m) THEN None ELSE haveSent[m]
         /\ now.resendingIds[m] = IF LeavesResending(ids, answered, m) THEN None
                                  ELSE resendingIds[m]
         /\ now.ackedIds[m] =
              IF LeavesSent(ids, answered, m) THEN haveSent[m]
              ELSE IF LeavesResending(ids, answered, m) /\ resendingIds[m] \in toSend
              THEN resendingIds[m] ELSE ackedIds[m]
         /\ now.sentContainers[m] = IF m \in ids THEN {} ELSE sentContainers[m]
  OBVIOUS
<1>2. now.toSend = {r \in toSend : \A m \in MsgId :
                        resendingIds[m] = r => ~LeavesResending(ids, answered, m)}
  OBVIOUS
<1> QED
  BY <1>1, <1>2 DEF AckedAs

LEMMA Acknowledged ==
    ASSUME TypeOK, NEW ids \in SUBSET MsgId, NEW now, now = Acked(ids, FALSE)
    PROVE  AckedAs(now, ids, {})
<1> USE DEF Acked, LeavesSent, LeavesResending, FreedIn, Freed
<1> QED
  BY AckedFields

LEMMA Answered ==
    ASSUME TypeOK, NEW ids \in SUBSET MsgId, NEW now, now = Acked(ids, TRUE)
    PROVE  AckedAs(now, ids, ids)
<1> USE DEF Acked, LeavesSent, LeavesResending, FreedIn, Freed
<1> QED
  BY AckedFields

LEMMA AcknowledgedOnly ==
    ASSUME TypeOK, NEW ids \in SUBSET MsgId, NEW now, now = Acked(ids, FALSE)
    PROVE  /\ \A m \in MsgId : now.haveSent[m] # haveSent[m] => ~HasCallback(haveSent[m])
           /\ \A r \in toSend : r \notin now.toSend => ~HasCallback(r)
<1> AckedAs(now, ids, {})
  BY Acknowledged
<1>1. ASSUME NEW m \in MsgId, now.haveSent[m] # haveSent[m] PROVE ~HasCallback(haveSent[m])
  <2>1. LeavesSent(ids, {}, m)
    BY <1>1 DEF AckedAs
  <2> QED
    BY <2>1 DEF LeavesSent, FreedIn
<1>2. ASSUME NEW r \in toSend, r \notin now.toSend PROVE ~HasCallback(r)
  <2>1. PICK m \in MsgId : resendingIds[m] = r /\ LeavesResending(ids, {}, m)
    BY <1>2 DEF AckedAs
  <2> QED
    BY <2>1 DEF LeavesResending, FreedIn
<1> QED
  BY <1>1, <1>2

\* What an answer frees in a map is remembered in ackedIds.
AnswerIsKept(now, m) ==
    /\ \A k \in MsgId : now.haveSent[k] # haveSent[k] =>
         /\ now.haveSent[k] = None /\ now.ackedIds[k] = haveSent[k]
         /\ now.resendingIds[k] = resendingIds[k]
         /\ HasCallback(haveSent[k]) => k = m
    /\ \A r \in toSend : r \notin now.toSend => \E k \in MsgId :
         /\ resendingIds[k] = r /\ now.resendingIds[k] = None /\ now.ackedIds[k] = r
         /\ HasCallback(r) => k = m

LEMMA AnsweredIsKept ==
    ASSUME TypeOK, NEW m \in MsgId, NEW now, now = Acked({m}, TRUE)
    PROVE  AnswerIsKept(now, m)
<1> DEFINE ids == {m}
<1>1. ids \in SUBSET MsgId /\ \A k : k \in ids => k = m
  OBVIOUS
<1> HIDE DEF ids
<1>2. AckedAs(now, ids, ids)
  BY Answered DEF ids
<1>3. ASSUME NEW k \in MsgId, now.haveSent[k] # haveSent[k]
      PROVE  /\ now.haveSent[k] = None /\ now.ackedIds[k] = haveSent[k]
             /\ now.resendingIds[k] = resendingIds[k]
             /\ HasCallback(haveSent[k]) => k = m
  <2>1. /\ LeavesSent(ids, ids, k) /\ now.haveSent[k] = None
        /\ now.ackedIds[k] = haveSent[k]
    BY <1>1, <1>2, <1>3 DEF AckedAs
  <2>2. ~LeavesResending(ids, ids, k)
    BY <1>3, <2>1 DEF LeavesResending
  <2>3. now.resendingIds[k] = resendingIds[k]
    BY <1>1, <1>2, <2>2 DEF AckedAs
  <2>4. HasCallback(haveSent[k]) => k = m
    BY <1>1, <2>1 DEF LeavesSent, FreedIn
  <2> QED
    BY <2>1, <2>3, <2>4
<1>4. ASSUME NEW r \in toSend, r \notin now.toSend
      PROVE  \E k \in MsgId :
                /\ resendingIds[k] = r /\ now.resendingIds[k] = None /\ now.ackedIds[k] = r
                /\ HasCallback(r) => k = m
  <2>1. PICK k \in MsgId : resendingIds[k] = r /\ LeavesResending(ids, ids, k)
    BY <1>1, <1>2, <1>4 DEF AckedAs
  <2>2. ~LeavesSent(ids, ids, k)
    BY <2>1 DEF LeavesSent, LeavesResending, FreedIn
  <2>3. now.resendingIds[k] = None /\ now.ackedIds[k] = r
    BY <1>1, <1>2, <2>1, <2>2 DEF AckedAs
  <2>4. HasCallback(r) => k = m
    BY <1>1, <2>1 DEF LeavesResending, FreedIn
  <2> QED
    BY <2>1, <2>3, <2>4
<1> QED
  BY <1>3, <1>4 DEF AnswerIsKept

\* A buffer with room for every id keeps them all.
LEMMA TrimmedMap ==
    ASSUME NEW f \in [MsgId -> Request \cup {None}], NEW n \in Nat
    PROVE  /\ \A m \in MsgId : Trimmed(f, n)[m] \in {f[m], None}
           /\ n >= MaxMsgId => Trimmed(f, n) = f
<1> DEFINE Keys == {m \in MsgId : f[m] # None}
<1>1. Trimmed(f, n) = [m \in MsgId |-> IF m \in Largest(Keys, n) THEN f[m] ELSE None]
  BY DEF Trimmed
<1>2. ASSUME n >= MaxMsgId, NEW m \in MsgId, f[m] # None
      PROVE  m \in Largest(Keys, n)
  <2> DEFINE Above == {k \in Keys : k > m}
  <2>1. IsFiniteSet(MsgId) /\ Cardinality(MsgId) = MaxMsgId
    BY FS_Interval DEF MsgId
  <2>2. Above \in SUBSET MsgId /\ m \notin Above
    BY DEF MsgId
  <2>3. IsFiniteSet(Above) /\ Cardinality(Above) <= MaxMsgId /\ Cardinality(Above) # MaxMsgId
    BY <2>1, <2>2, FS_Subset
  <2>4. Cardinality(Above) \in Nat
    BY <2>3, FS_CardinalityType
  <2>5. Cardinality(Above) < n
    <3> HIDE DEF Above
    <3> QED
      BY <1>2, <2>3, <2>4
  <2> QED
    BY <1>2, <2>5 DEF Largest
<1> HIDE DEF Keys
<1>3. n >= MaxMsgId => \A m \in MsgId : Trimmed(f, n)[m] = f[m]
  BY <1>1, <1>2
<1> QED
  BY <1>1, <1>3

-----------------------------------------------------------------------------
(* The requests in the hand, and those that go without a container. *)

\* The hand holds one request that is being sent, or some that are resent.
HandParts ==
    /\ single # None => \E r \in Request : hand = {r}
    /\ single = None => \A r \in hand : inContainer[r]

LEMMA FreshFrame ==
    ASSUME TypeOK, HandParts, SingleIsFresh, toSend' \in SUBSET toSend,
           \A r \in Request : inContainer[r] => inContainer'[r],
           \A r \in toSend' : msgIdOf'[r] = msgIdOf[r]
    PROVE  SingleIsFresh'
  BY DEF SingleIsFresh, TypeOK, SharedTypeOK

LEMMA ServerLeavesClient ==
    ASSUME ServerStep
    PROVE  UNCHANGED <<mainVars, sharedVars, objectVars, trackVars, serviceVars, stateVars>>
  BY DEF ServerStep, ServerReceive, ServerForget, TimePasses, ServerExecute, ServerAnswerAgain,
         ServerResend, ServerRepeat, ServerFrame

LEMMA HandStep ==
    ASSUME TypeOK, HandParts, SingleIsFresh, Next
    PROVE  HandParts' /\ SingleIsFresh'
<1> USE DEF SingleIsFresh, HandParts
<1>1. CASE ServerStep
  <2>1. UNCHANGED <<toSend, msgIdOf, inContainer, hand, single>>
    BY <1>1, ServerLeavesClient DEF sharedVars, objectVars, trackVars
  <2> QED
    BY <2>1
<1>2. CASE MainStep
  <2>1. ASSUME NEW r \in Request, SendRequest(r) \/ CheckDelayedRequests(r)
        PROVE  HandParts' /\ SingleIsFresh'
    <3>1. UNCHANGED <<inContainer, hand, single>>
      BY <2>1 DEF SendRequest, CheckDelayedRequests, trackVars
    <3>2. \/ toSend' = toSend \cup {r} /\ msgIdOf' = [msgIdOf EXCEPT ![r] = None]
          \/ UNCHANGED <<toSend, msgIdOf>>
      BY <2>1 DEF SendRequest, CheckDelayedRequests, SendPrepared
    <3> QED
      BY <3>1, <3>2 DEF TypeOK, SharedTypeOK, ObjectTypeOK
  <2>2. CASE CancelToSend \/ CancelHaveSent \/ ProcessCallback \/ \E r \in Request : CancelBegin(r)
    <3>1. UNCHANGED <<msgIdOf, inContainer, hand, single>> /\ toSend' \in SUBSET toSend
      BY <2>2 DEF CancelToSend, CancelHaveSent, ProcessCallback, CancelBegin, trackVars, objectVars,
                  sharedVars
    <3> QED
      BY <3>1
  <2> QED
    BY <1>2, <2>1, <2>2 DEF MainStep
<1>3. CASE TryToSend
  <2>1. CASE UNCHANGED <<toSend, msgIdOf, inContainer, hand, single>>
    BY <2>1
  <2>2. CASE connected /\ TakeSingle
    <3>1. /\ toSend' = toSend \ Sending /\ hand' = Sending /\ UNCHANGED inContainer
          /\ msgIdOf' = SetIds(msgIdOf) /\ lastId + MaxRequest + 2 <= MaxMsgId
          /\ single' = IdOf(CHOOSE r \in Sending : TRUE) /\ Cardinality(Sending) = 1
      <4>1. TotalSending = 1 /\ ServiceCount = 0 /\ Cardinality(Sending) \in Nat
        BY <2>2, NewIds, RequestSets DEF TakeSingle, TypeOK, SharedTypeOK
      <4>2. Cardinality(Sending) = 1
        BY <4>1 DEF TotalSending
      <4>3. lastId + MaxRequest + 2 <= MaxMsgId
        BY <1>3, <2>2 DEF TryToSend, TakeSingle, TakeService
      <4> QED
        BY <2>2, <4>2, <4>3 DEF TakeSingle
    <3>2. PICK r : Sending = {r}
      <4>1. IsFiniteSet(Sending)
        BY NewIds, RequestSets DEF TypeOK, SharedTypeOK
      <4> QED
        BY <3>1, <4>1, FS_Singleton
    <3>3. single' \in MsgId /\ r \in Request
      BY <3>1, <3>2, IdTypes
    <3>4. HandParts'
      BY <3>1, <3>2, <3>3 DEF MsgId
    <3> QED
      BY <3>1, <3>4 DEF SetIds, TypeOK, SharedTypeOK
  <2>3. CASE SendContainer
    <3>1. /\ toSend' = toSend \ Sending /\ UNCHANGED <<hand, single, inContainer>>
          /\ msgIdOf' = SetIds(msgIdOf)
      BY <2>3 DEF SendContainer
    <3> QED
      BY <3>1 DEF SetIds, TypeOK, SharedTypeOK
  <2> QED
    BY <1>3, <2>1, <2>2, <2>3 DEF TryToSend, NothingToSend, SendSingleService, objectVars, trackVars
<1>4. CASE SendSingle
  BY <1>4 DEF SendSingle, objectVars
<1>5. CASE PutResent
  <2>1. /\ single = None /\ toSend' = toSend \cup hand /\ hand' = {} /\ single' = None
        /\ UNCHANGED <<msgIdOf, inContainer>>
    BY <1>5 DEF PutResent, objectVars
  <2> QED
    BY <2>1
<1>6. CASE CheckSentRequests \/ PingTimer \/ Drop
  <2>1. UNCHANGED <<toSend, msgIdOf, inContainer, hand, single>>
    BY <1>6 DEF CheckSentRequests, PingTimer, Drop, sharedVars, objectVars, trackVars
  <2> QED
    BY <2>1
<1>7. ASSUME UNCHANGED <<msgIdOf, single>>, single = None, toSend' \in SUBSET toSend,
             \A r \in Request : inContainer[r] \/ r \in hand' => inContainer'[r],
             hand' \in SUBSET Request
      PROVE  HandParts' /\ SingleIsFresh'
  BY <1>7, FreshFrame
<1>8. PrivateFree => single = None
  BY DEF PrivateFree
<1>9. CASE Connect \/ \E m \in MsgId : ClearOldContainer(m)
  <2>1. PICK ids \in SUBSET MsgId : TakeResent(ids, haveSent, resendingIds)
    BY <1>9 DEF Connect, ClearOldContainer, Sent, TypeOK, TrackTypeOK
  <2>2. /\ \A r \in Request : inContainer[r] \/ r \in hand' => inContainer'[r]
        /\ hand' \in SUBSET Request
    BY <2>1, Resent, TakeResentTypes DEF TypeOK, SharedTypeOK, TrackTypeOK
  <2>3. UNCHANGED <<toSend, msgIdOf, single>> /\ PrivateFree
    BY <1>9 DEF Connect, ClearOldContainer
  <2> QED
    BY <1>7, <1>8, <2>2, <2>3
<1>10. CASE HandleReceived
  <2>1. UNCHANGED <<msgIdOf, single>> /\ PrivateFree
    BY <1>10 DEF HandleReceived, HandleUnknown, HandleAck, HandleNewResult, HandleDuplicate, HandleReset,
           HandleTooLow, HandleFatal, HandleStates, HandleNewSession, HandleDetailed, HandlePong, Is,
           HandlerFrame
  <2> SUFFICES /\ \A r \in Request : inContainer[r] \/ r \in hand' => inContainer'[r]
               /\ hand' \in SUBSET Request /\ toSend' \in SUBSET toSend
    BY <1>7, <1>8, <2>1
  <2>2. CASE UNCHANGED <<toSend, hand, inContainer>>
    BY <2>1, <2>2 DEF PrivateFree
  <2>3. CASE HandleAck \/ HandleNewResult \/ HandleDetailed
    <3>1. UNCHANGED <<hand, inContainer>>
      BY <2>3 DEF HandleAck, HandleNewResult, HandleDetailed
    <3>2. toSend' \in SUBSET toSend
      BY <2>3, RequestsAckedTypes DEF HandleAck, HandleNewResult, HandleDetailed
    <3> QED
      BY <2>1, <3>1, <3>2 DEF PrivateFree
  <2>4. CASE HandleTooLow
    <3>1. Message.ids \in SUBSET MsgId
      BY <2>4, MessageTypes DEF HandleTooLow
    <3> QED
      BY <2>4, <3>1, Resent, TakeResentTypes DEF HandleTooLow, TypeOK, SharedTypeOK, TrackTypeOK
  <2>5. CASE HandleNewSession
    <3>1. {m \in Sent : m < Message.msgId} \in SUBSET MsgId
      BY DEF Sent
    <3> QED
      BY <2>5, <3>1, Resent, TakeResentTypes DEF HandleNewSession, TypeOK, SharedTypeOK, TrackTypeOK
  <2>6. CASE HandleStates
    <3>1. PICK asked : asked = stateRequests[Message.msgId] /\ asked \in SUBSET MsgId
      BY <2>6, MessageTypes DEF HandleStates, TypeOK, ServiceTypeOK
    <3>2. PICK now : /\ now = Acked(asked \cap Message.ids, FALSE)
                     /\ TakeResent(asked \ Message.ids, now.haveSent, now.resendingIds)
                     /\ TakeAcked(now)
      BY <2>6, <3>1 DEF HandleStates
    <3>3. /\ now.haveSent \in [MsgId -> Request \cup {None}]
          /\ now.resendingIds \in [MsgId -> Request \cup {None}]
          /\ now.toSend \in SUBSET toSend
      BY <3>2, AckedTypes
    <3>4. toSend' \in SUBSET toSend
      BY <3>2, <3>3 DEF TakeAcked
    <3> QED
      BY <3>1, <3>2, <3>3, <3>4, Resent, TakeResentTypes
  <2> QED
    BY <1>10, <2>2, <2>3, <2>4, <2>5, <2>6 DEF HandleReceived, HandleUnknown, HandleDuplicate,
       HandleReset, HandleFatal, HandlePong, sharedVars
<1> QED
  BY <1>1, <1>2, <1>3, <1>4, <1>5, <1>6, <1>9, <1>10 DEF Next, PrivateStep

-----------------------------------------------------------------------------
(* A message id belongs to one request.                                    *)

\* Something the session remembers knows request r by the id m.
Names(m, r) ==
    \/ haveSent[m] = r \/ resendingIds[m] = r \/ ackedIds[m] = r \/ msgIdOf[r] = m
    \/ single = m /\ r \in hand
    \/ cancelling.request = r /\ cancelling.msgId = m

OneOwner == \A m \in MsgId : \A r, q \in Request : Names(m, r) /\ Names(m, q) => r = q
Allotted == \A m \in MsgId : \A r \in Request : Names(m, r) => m <= lastId

\* No id gets a new owner in the step.
Shrinks ==
    /\ \A m \in MsgId : \A r \in Request : Names(m, r)' => Names(m, r)
    /\ lastId' >= lastId

LEMMA ShrinksIsEnough ==
    ASSUME TypeOK, TypeOK', OneOwner, Allotted, Shrinks
    PROVE  OneOwner' /\ Allotted'
<1>1. OneOwner'
  BY DEF OneOwner, Shrinks
<1>2. Allotted'
  <2>1. lastId \in Nat /\ lastId' \in Nat /\ \A m \in MsgId : m \in Nat
    BY DEF TypeOK, StateTypeOK, MsgId
  <2>2. \A m \in MsgId : \A r \in Request : Names(m, r)' => m <= lastId
    BY DEF Allotted, Shrinks
  <2> QED
    BY <2>1, <2>2 DEF Allotted, Shrinks
<1> QED
  BY <1>1, <1>2

\* The handlers of messages and resendAll only move what is known of an id.
LEMMA MovesShrink ==
    ASSUME TypeOK, UNCHANGED <<cancelling, msgIdOf, single, lastId>>, single = None,
           \A m \in MsgId :
              /\ haveSent'[m] \in {haveSent[m], None}
              /\ resendingIds'[m] \in {haveSent[m], resendingIds[m], None}
              /\ ackedIds'[m] \in {haveSent[m], resendingIds[m], ackedIds[m], None}
    PROVE  Shrinks
<1>1. lastId' >= lastId
  BY DEF TypeOK, StateTypeOK
<1>2. ASSUME NEW m \in MsgId, NEW r \in Request, Names(m, r)'
      PROVE  Names(m, r)
  <2>1. r # None /\ m # None
    BY DEF Request, MsgId
  <2> QED
    BY <1>2, <2>1 DEF Names
<1> QED
  BY <1>1, <1>2 DEF Shrinks

LEMMA ResentMoves ==
    ASSUME TypeOK, HandParts, PrivateFree, NEW ids \in SUBSET MsgId,
           TakeResent(ids, haveSent, resendingIds),
           UNCHANGED <<cancelling, msgIdOf, single, ackedIds, lastId>>
    PROVE  Shrinks
<1>1. \A m \in MsgId :
        /\ haveSent'[m] \in {haveSent[m], None}
        /\ resendingIds'[m] \in {haveSent[m], resendingIds[m], None}
  <2>1. /\ haveSent \in [MsgId -> Request \cup {None}]
        /\ resendingIds \in [MsgId -> Request \cup {None}]
    BY DEF TypeOK, SharedTypeOK, TrackTypeOK
  <2> QED
    BY <2>1, ResentPointwise
<1>2. single = None
  BY DEF HandParts, PrivateFree
<1> QED
  BY <1>1, <1>2, MovesShrink

LEMMA AckedMoves ==
    ASSUME TypeOK, NEW ids \in SUBSET MsgId, NEW byResponse \in BOOLEAN, NEW now,
           now = Acked(ids, byResponse)
    PROVE  \A m \in MsgId :
              /\ now.haveSent[m] \in {haveSent[m], None}
              /\ now.resendingIds[m] \in {resendingIds[m], None}
              /\ Trimmed(now.ackedIds, KeepAcked)[m] \in
                    {haveSent[m], resendingIds[m], ackedIds[m], None}
<1>1. now.ackedIds \in [MsgId -> Request \cup {None}] /\ KeepAcked \in Nat
  BY AckedTypes
<1>2. \A m \in MsgId : Trimmed(now.ackedIds, KeepAcked)[m] \in {now.ackedIds[m], None}
  BY <1>1, TrimmedMap
<1>3. \A m \in MsgId :
        /\ now.haveSent[m] \in {haveSent[m], None}
        /\ now.resendingIds[m] \in {resendingIds[m], None}
        /\ now.ackedIds[m] \in {ackedIds[m], haveSent[m], resendingIds[m]}
  <2>1. PICK answered : AckedAs(now, ids, answered)
    BY Acknowledged, Answered
  <2> HIDE DEF LeavesSent, LeavesResending
  <2> QED
    BY <2>1 DEF AckedAs
<1> QED
  BY <1>2, <1>3

LEMMA RequestsAckedMoves ==
    ASSUME TypeOK, HandParts, PrivateFree, NEW ids \in SUBSET MsgId, NEW byResponse \in BOOLEAN,
           RequestsAcked(ids, byResponse), UNCHANGED <<cancelling, msgIdOf, single, lastId>>
    PROVE  Shrinks
<1>1. PICK now : now = Acked(ids, byResponse)
  OBVIOUS
<1>2. /\ haveSent' = now.haveSent /\ resendingIds' = now.resendingIds
      /\ ackedIds' = Trimmed(now.ackedIds, KeepAcked)
  BY <1>1 DEF RequestsAcked, TakeAcked
<1>3. \A m \in MsgId :
        /\ now.haveSent[m] \in {haveSent[m], None}
        /\ now.resendingIds[m] \in {resendingIds[m], None}
        /\ Trimmed(now.ackedIds, KeepAcked)[m] \in
              {haveSent[m], resendingIds[m], ackedIds[m], None}
  BY <1>1, AckedMoves
<1>4. single = None
  BY DEF HandParts, PrivateFree
<1> QED
  BY <1>2, <1>3, <1>4, MovesShrink

LEMMA HandlersShrink ==
    ASSUME TypeOK, HandParts, HandleReceived
    PROVE  Shrinks
<1>1. UNCHANGED <<cancelling, msgIdOf, single, lastId>> /\ PrivateFree
  BY DEF HandleReceived, HandleUnknown, HandleAck, HandleNewResult, HandleDuplicate, HandleReset,
         HandleTooLow, HandleFatal, HandleStates, HandleNewSession, HandleDetailed, HandlePong, Is,
         HandlerFrame, mainVars
<1>2. single = None
  BY <1>1 DEF HandParts, PrivateFree
<1>3. CASE HandleUnknown \/ HandleDuplicate \/ HandleReset \/ HandleFatal \/ HandlePong
  <2>1. UNCHANGED <<haveSent, resendingIds, ackedIds>>
    BY <1>3 DEF HandleUnknown, HandleDuplicate, HandleReset, HandleFatal, HandlePong, sharedVars
  <2> QED
    BY <1>1, <1>2, <2>1, MovesShrink
<1>4. CASE HandleAck
  BY <1>1, <1>4, RequestsAckedMoves, MessageTypes DEF HandleAck
<1>5. CASE HandleNewResult
  <2>1. Message.msgId \in MsgId
    BY <1>5, MessageTypes DEF HandleNewResult
  <2> QED
    BY <1>1, <1>5, <2>1, RequestsAckedMoves DEF HandleNewResult
<1>6. CASE HandleDetailed
  <2>1. Message.msgId \in MsgId
    BY <1>6, MessageTypes DEF HandleDetailed
  <2> QED
    BY <1>1, <1>6, <2>1, RequestsAckedMoves DEF HandleDetailed
<1>7. CASE HandleTooLow
  <2>1. Message.ids \in SUBSET MsgId
    BY <1>7, MessageTypes DEF HandleTooLow
  <2> QED
    BY <1>1, <1>7, <2>1, ResentMoves DEF HandleTooLow
<1>8. CASE HandleNewSession
  <2>1. {m \in Sent : m < Message.msgId} \in SUBSET MsgId
    BY DEF Sent
  <2> QED
    BY <1>1, <1>8, <2>1, ResentMoves DEF HandleNewSession
<1>9. CASE HandleStates
  <2>1. PICK asked : asked = stateRequests[Message.msgId] /\ asked \in SUBSET MsgId
    BY <1>9, MessageTypes DEF HandleStates, TypeOK, ServiceTypeOK
  <2>2. PICK now : /\ now = Acked(asked \cap Message.ids, FALSE)
                   /\ TakeResent(asked \ Message.ids, now.haveSent, now.resendingIds)
                   /\ TakeAcked(now)
    BY <1>9, <2>1 DEF HandleStates
  <2>3. /\ now.haveSent \in [MsgId -> Request \cup {None}]
        /\ now.resendingIds \in [MsgId -> Request \cup {None}]
    BY <2>2, AckedTypes
  <2>4. \A m \in MsgId :
          /\ now.haveSent[m] \in {haveSent[m], None}
          /\ now.resendingIds[m] \in {resendingIds[m], None}
          /\ Trimmed(now.ackedIds, KeepAcked)[m] \in
                {haveSent[m], resendingIds[m], ackedIds[m], None}
    BY <2>1, <2>2, AckedMoves
  <2>5. \A m \in MsgId :
          /\ haveSent'[m] \in {now.haveSent[m], None}
          /\ resendingIds'[m] \in {now.haveSent[m], now.resendingIds[m]}
    BY <2>1, <2>2, <2>3, ResentPointwise
  <2>6. ackedIds' = Trimmed(now.ackedIds, KeepAcked)
    BY <2>2 DEF TakeAcked
  <2>7. \A m \in MsgId :
          /\ haveSent'[m] \in {haveSent[m], None}
          /\ resendingIds'[m] \in {haveSent[m], resendingIds[m], None}
          /\ ackedIds'[m] \in {haveSent[m], resendingIds[m], ackedIds[m], None}
    BY <2>4, <2>5, <2>6
  <2> QED
    BY <1>1, <1>2, <2>7, MovesShrink
<1> QED
  BY <1>3, <1>4, <1>5, <1>6, <1>7, <1>8, <1>9 DEF HandleReceived

LEMMA MainShrinks ==
    ASSUME TypeOK, MainStep
    PROVE  Shrinks
<1>1. UNCHANGED <<ackedIds, resendingIds, single, hand, lastId>>
  BY DEF MainStep, SendRequest, CancelBegin, CancelToSend, CancelHaveSent, ProcessCallback,
         CheckDelayedRequests, trackVars, stateVars
<1>2. lastId' >= lastId
  BY <1>1 DEF TypeOK, StateTypeOK
<1>3. /\ \A m \in MsgId : haveSent'[m] \in {haveSent[m], None}
      /\ \A r \in Request : msgIdOf'[r] \in {msgIdOf[r], None}
      /\ \/ cancelling'.request \in {cancelling.request, None}
            /\ cancelling'.msgId = cancelling.msgId
         \/ \E r \in Request : cancelling'.request = r /\ cancelling'.msgId = msgIdOf[r]
  <2>1. ASSUME NEW r \in Request, SendRequest(r) \/ CheckDelayedRequests(r)
        PROVE  /\ UNCHANGED <<haveSent, cancelling>>
               /\ \A q \in Request : msgIdOf'[q] \in {msgIdOf[q], None}
    BY <2>1 DEF SendRequest, CheckDelayedRequests, SendPrepared, TypeOK, ObjectTypeOK
  <2>2. ASSUME NEW r \in Request, CancelBegin(r)
        PROVE  /\ UNCHANGED <<haveSent, msgIdOf>>
               /\ cancelling'.request = r /\ cancelling'.msgId = msgIdOf[r]
    BY <2>2 DEF CancelBegin, sharedVars, objectVars
  <2>3. CASE CancelToSend
    BY <2>3 DEF CancelToSend, objectVars, TypeOK, MainTypeOK
  <2>4. CASE CancelHaveSent
    BY <2>4 DEF CancelHaveSent, objectVars, TypeOK, MainTypeOK
  <2>5. CASE ProcessCallback
    BY <2>5 DEF ProcessCallback, objectVars
  <2> QED
    BY <2>1, <2>2, <2>3, <2>4, <2>5 DEF MainStep
<1>4. ASSUME NEW m \in MsgId, NEW r \in Request, Names(m, r)'
      PROVE  Names(m, r)
  <2>1. r # None /\ m # None
    BY DEF Request, MsgId
  <2> QED
    BY <1>1, <1>3, <1>4, <2>1 DEF Names
<1> QED
  BY <1>2, <1>4 DEF Shrinks

LEMMA ThreadShrinks ==
    ASSUME TypeOK, HandParts,
           \/ SendSingle \/ PutResent \/ CheckSentRequests \/ Connect \/ Drop \/ PingTimer
           \/ \E m \in MsgId : ClearOldContainer(m)
           \/ TryToSend /\ (~connected \/ NothingToSend \/ SendSingleService)
    PROVE  Shrinks
<1>1. CASE SendSingle
  <2>1. PICK r \in Request : hand = {r} /\ r = CHOOSE q \in hand : TRUE
    BY <1>1 DEF SendSingle, HandParts
  <2>2. /\ haveSent' = [m \in MsgId |-> IF m = single /\ haveSent[m] = None THEN r ELSE haveSent[m]]
        /\ hand' = {} /\ UNCHANGED <<cancelling, msgIdOf, resendingIds, ackedIds, lastId>>
    BY <1>1, <2>1 DEF SendSingle, mainVars, objectVars, stateVars
  <2>3. lastId' >= lastId
    BY <2>2 DEF TypeOK, StateTypeOK
  <2>4. ASSUME NEW m \in MsgId, NEW q \in Request, Names(m, q)' PROVE Names(m, q)
    BY <2>1, <2>2, <2>4 DEF Names
  <2> QED
    BY <2>3, <2>4 DEF Shrinks
<1>2. CASE \/ PutResent \/ CheckSentRequests \/ Drop \/ PingTimer
           \/ TryToSend /\ (~connected \/ NothingToSend \/ SendSingleService)
  <2>1. /\ UNCHANGED <<haveSent, cancelling, msgIdOf, resendingIds, ackedIds, single>>
        /\ hand' \in SUBSET hand
        /\ lastId' \in {lastId, lastId + 1}
    BY <1>2 DEF PutResent, CheckSentRequests, Drop, PingTimer, TryToSend, NothingToSend,
         SendSingleService, mainVars, objectVars, stateVars, sharedVars, trackVars
  <2>2. lastId' >= lastId
    BY <2>1 DEF TypeOK, StateTypeOK
  <2>3. ASSUME NEW m \in MsgId, NEW q \in Request, Names(m, q)' PROVE Names(m, q)
    BY <2>1, <2>3 DEF Names
  <2> QED
    BY <2>2, <2>3 DEF Shrinks
<1>3. CASE Connect \/ \E m \in MsgId : ClearOldContainer(m)
  <2>1. PICK ids \in SUBSET MsgId : TakeResent(ids, haveSent, resendingIds)
    BY <1>3 DEF Connect, ClearOldContainer, Sent, TypeOK, TrackTypeOK
  <2>2. UNCHANGED <<cancelling, msgIdOf, single, ackedIds, lastId>> /\ PrivateFree
    BY <1>3 DEF Connect, ClearOldContainer, mainVars, stateVars
  <2> QED
    BY <2>1, <2>2, ResentMoves
<1> QED
  BY <1>1, <1>2, <1>3, Zenon

\* replaceMsgId gives the requests of a packet ids that nobody had, and moves
\* to them what is known of their old ids.
LEMMA NewNames ==
    ASSUME TypeOK, OneOwner, Allotted
    PROVE  /\ \A m \in MsgId : NewName(m) = m \/ NewName(m) > lastId
           /\ \A m \in MsgId : NewName(m) # m => \E r \in Request :
                  Renames(m, r) /\ NewName(m) = IdOf(r)
           /\ \A r \in Sending : IdOf(r) <= lastId => ~NeedsId(r) /\ IdOf(r) = msgIdOf[r]
           /\ \A r \in Sending : r \in Request
<1>1. lastId \in Nat /\ IdsTaken \in Nat /\ \A r \in Sending : r \in Request
  BY NewIds DEF TypeOK, StateTypeOK, SharedTypeOK
<1>2. \A r \in Sending : NeedsId(r) => IdOf(r) > lastId
  <2>1. \A r \in Sending : NeedsId(r) => IdOf(r) \in lastId + 1 .. lastId + IdsTaken
    BY NewIds, Zenon
  <2>2. \A n \in lastId + 1 .. lastId + IdsTaken : n > lastId
    BY <1>1
  <2> QED
    BY <2>1, <2>2, Zenon
<1>3. ASSUME NEW m \in MsgId, NewName(m) # m
      PROVE  \E r \in Request : Renames(m, r) /\ NewName(m) = IdOf(r)
  BY <1>3 DEF NewName
<1>4. ASSUME NEW m \in MsgId PROVE NewName(m) = m \/ NewName(m) > lastId
  <2>1. CASE NewName(m) # m
    <3>1. PICK r \in Request : Renames(m, r) /\ NewName(m) = IdOf(r)
      BY <1>3, <2>1, Zenon
    <3>2. r \in Sending /\ NeedsId(r)
      BY <3>1 DEF Renames
    <3> QED
      BY <1>2, <3>1, <3>2
  <2> QED
    BY <2>1
<1>5. ASSUME NEW r \in Sending, IdOf(r) <= lastId
      PROVE  ~NeedsId(r) /\ IdOf(r) = msgIdOf[r]
  <2>1. CASE NeedsId(r)
    <3>1. IdOf(r) \in lastId + 1 .. lastId + IdsTaken
      BY <2>1, NewIds, Zenon
    <3> QED
      BY <1>1, <1>5, <3>1
  <2>2. CASE ~NeedsId(r)
    BY <2>2 DEF IdOf
  <2> QED
    BY <2>1, <2>2
<1> QED
  BY <1>1, <1>3, <1>4, <1>5

\* An id that was allotted gets no new owner, and a new id that of its request.
RenamesOnly ==
    /\ lastId' >= lastId + IdsTaken
    /\ \A m \in MsgId : \A r \in Request : Names(m, r)' =>
          IF m <= lastId THEN Names(m, r) ELSE r \in Sending /\ IdOf(r) = m

LEMMA NewIdsAbove ==
    ASSUME TypeOK, Allotted, NEW m \in MsgId, ~(m <= lastId), NEW r \in Sending, IdOf(r) = m
    PROVE  NeedsId(r) /\ m \in lastId + 1 .. lastId + IdsTaken
<1>1. CASE NeedsId(r)
  <2>1. IdOf(r) \in lastId + 1 .. lastId + IdsTaken
    BY <1>1, NewIds, Zenon
  <2> QED
    BY <1>1, <2>1
<1>2. CASE ~NeedsId(r)
  <2>1. r \in Request /\ msgIdOf[r] = m
    BY <1>2, NewIds DEF IdOf, TypeOK, SharedTypeOK
  <2>2. Names(m, r)
    BY <2>1 DEF Names
  <2> QED
    BY <2>1, <2>2 DEF Allotted
<1> QED
  BY <1>1, <1>2

LEMMA RenamingIsEnough ==
    ASSUME TypeOK, TypeOK', OneOwner, Allotted, RenamesOnly
    PROVE  OneOwner' /\ Allotted'
<1> USE DEF RenamesOnly
<1>1. lastId \in Nat /\ lastId' \in Nat /\ IdsTaken \in Nat /\ \A m \in MsgId : m \in Nat
  BY NewIds DEF TypeOK, StateTypeOK, MsgId
<1>2. ASSUME NEW m \in MsgId, ~(m <= lastId), NEW r \in Sending, IdOf(r) = m
      PROVE  NeedsId(r) /\ m \in lastId + 1 .. lastId + IdsTaken
  BY <1>2, NewIdsAbove
<1>3. ASSUME NEW m \in MsgId, NEW r \in Request, NEW q \in Request, Names(m, r)', Names(m, q)'
      PROVE  r = q
  <2>1. CASE m <= lastId
    BY <1>3, <2>1 DEF OneOwner
  <2>2. CASE ~(m <= lastId)
    <3>1. r \in Sending /\ IdOf(r) = m /\ q \in Sending /\ IdOf(q) = m
      BY <1>3, <2>2
    <3>2. NeedsId(r) /\ NeedsId(q)
      BY <1>2, <2>2, <3>1
    <3> QED
      BY <3>1, <3>2, NewIds, Zenon
  <2> QED
    BY <2>1, <2>2
<1>4. ASSUME NEW m \in MsgId, NEW r \in Request, Names(m, r)' PROVE m <= lastId'
  <2>1. CASE m <= lastId
    BY <1>1, <2>1
  <2>2. CASE ~(m <= lastId)
    <3>1. m \in lastId + 1 .. lastId + IdsTaken
      BY <1>2, <1>4, <2>2
    <3> QED
      BY <1>1, <3>1
  <2> QED
    BY <2>1, <2>2
<1> QED
  BY <1>3, <1>4 DEF OneOwner, Allotted

LEMMA SingleRenames ==
    ASSUME TypeOK, HandParts, OneOwner, Allotted, TryToSend, connected, TakeSingle
    PROVE  RenamesOnly
<1>1. /\ hand' = Sending /\ single' = IdOf(CHOOSE r \in Sending : TRUE)
      /\ msgIdOf' = SetIds(msgIdOf) /\ resendingIds' = NotResending
      /\ lastId' = lastId + IdsTaken /\ UNCHANGED <<haveSent, ackedIds, cancelling>>
  BY DEF TryToSend, TakeSingle, mainVars
<1>2. /\ \A r \in Sending : r \in Request
      /\ \A r \in Sending : IdOf(r) <= lastId => IdOf(r) = msgIdOf[r]
      /\ lastId \in Nat /\ IdsTaken \in Nat
  BY NewNames, NewIds DEF TypeOK, StateTypeOK
<1>3. \E r : Sending = {r}
  <2>1. TotalSending = 1 /\ ServiceCount = 0 /\ Cardinality(Sending) \in Nat /\ IsFiniteSet(Sending)
    BY NewIds, RequestSets DEF TakeSingle, TypeOK, SharedTypeOK
  <2>2. Cardinality(Sending) = 1
    BY <2>1 DEF TotalSending
  <2> QED
    BY <2>1, <2>2, FS_Singleton
<1>4. PICK r : Sending = {r} /\ single' = IdOf(r) /\ r \in Request
  BY <1>1, <1>2, <1>3
<1>5. ASSUME NEW m \in MsgId, NEW q \in Request, Names(m, q)'
      PROVE  IF m <= lastId THEN Names(m, q) ELSE q \in Sending /\ IdOf(q) = m
  <2>1. \/ haveSent[m] = q \/ resendingIds[m] = q \/ ackedIds[m] = q
        \/ msgIdOf'[q] = m
        \/ IdOf(r) = m /\ q = r
        \/ cancelling.request = q /\ cancelling.msgId = m
    BY <1>1, <1>4, <1>5 DEF Names, NotResending, Request
  <2>2. msgIdOf'[q] = IF q \in Sending THEN IdOf(q) ELSE msgIdOf[q]
    BY <1>1 DEF SetIds
  <2>3. Names(m, q) \/ (q \in Sending /\ IdOf(q) = m)
    BY <1>4, <2>1, <2>2 DEF Names
  <2>4. Names(m, q) => m <= lastId
    BY DEF Allotted
  <2>5. q \in Sending /\ IdOf(q) = m /\ m <= lastId => Names(m, q)
    BY <1>2 DEF Names
  <2> QED
    BY <2>3, <2>4, <2>5
<1>6. lastId' >= lastId + IdsTaken
  BY <1>1, <1>2
<1> QED
  BY <1>5, <1>6 DEF RenamesOnly

\* Where an entry of a map goes: it keeps its id, or gets that of its request.
LEMMA RenamedMap ==
    ASSUME TypeOK, OneOwner, Allotted, NEW f \in [MsgId -> Request \cup {None}],
           \A m \in MsgId : \A r \in Request : f[m] = r => Names(m, r)
    PROVE  /\ \A m \in MsgId : \A r \in Request : Renamed(f, m) = r =>
                  IF m <= lastId THEN f[m] = r ELSE r \in Sending /\ IdOf(r) = m
           /\ \A k \in MsgId : f[k] # None /\ NewName(k) \in MsgId =>
                  Renamed(f, NewName(k)) = f[k]
<1>1. /\ \A m \in MsgId : NewName(m) = m \/ NewName(m) > lastId
      /\ \A m \in MsgId : NewName(m) # m => \E r \in Request :
                  Renames(m, r) /\ NewName(m) = IdOf(r)
      /\ lastId \in Nat /\ \A m \in MsgId : m \in Nat
  BY NewNames DEF TypeOK, StateTypeOK, MsgId
<1>2. \A k \in MsgId : f[k] # None => k <= lastId /\ f[k] \in Request
  BY DEF Allotted
<1>3. ASSUME NEW k \in MsgId, f[k] # None, NewName(k) # k
      PROVE  f[k] \in Sending /\ NeedsId(f[k]) /\ NewName(k) = IdOf(f[k])
  <2>1. PICK r \in Request : Renames(k, r) /\ NewName(k) = IdOf(r)
    BY <1>1, <1>3
  <2>2. r \in Sending /\ NeedsId(r) /\ msgIdOf[r] = k
    BY <2>1 DEF Renames
  <2>3. Names(k, r) /\ Names(k, f[k])
    BY <1>2, <1>3, <2>2 DEF Names
  <2>4. r = f[k]
    BY <1>2, <1>3, <2>3 DEF OneOwner
  <2> QED
    BY <2>1, <2>2, <2>4
<1>4. ASSUME NEW m \in MsgId, NEW r \in Request, Renamed(f, m) = r
      PROVE  IF m <= lastId THEN f[m] = r ELSE r \in Sending /\ IdOf(r) = m
  <2>1. r # None
    BY DEF Request
  <2>2. \E k \in MsgId : f[k] # None /\ NewName(k) = m
    BY <1>4, <2>1 DEF Renamed
  <2>3. PICK k \in MsgId : f[k] # None /\ NewName(k) = m /\ f[k] = r
    BY <1>4, <2>2 DEF Renamed
  <2>4. CASE k = m
    BY <1>1, <1>2, <2>3, <2>4
  <2>5. CASE k # m
    <3>1. r \in Sending /\ IdOf(r) = m
      BY <1>3, <2>3, <2>5
    <3>2. m > lastId
      BY <1>1, <2>3, <2>5
    <3> QED
      BY <1>1, <3>1, <3>2
  <2> QED
    BY <2>4, <2>5
<1>5. ASSUME NEW k \in MsgId, f[k] # None, NEW j \in MsgId, f[j] # None, NewName(k) = NewName(j)
      PROVE  k = j
  <2> k <= lastId /\ j <= lastId /\ k \in Nat /\ j \in Nat
    BY <1>1, <1>2, <1>5
  <2>1. CASE NewName(k) = k
    <3>1. NewName(j) = k /\ ~(k > lastId)
      BY <1>1, <1>5, <2>1
    <3>2. NewName(j) = j
      BY <1>1, <3>1
    <3> QED
      BY <3>1, <3>2
  <2>2. CASE NewName(k) # k
    <3>1. NewName(j) # j
      BY <1>1, <1>2, <1>5, <2>2
    <3>2. /\ f[k] \in Sending /\ NeedsId(f[k]) /\ NewName(k) = IdOf(f[k])
          /\ f[j] \in Sending /\ NeedsId(f[j]) /\ NewName(j) = IdOf(f[j])
      BY <1>3, <1>5, <2>2, <3>1
    <3>3. f[k] = f[j]
      BY <1>5, <3>2, NewIds, Zenon
    <3>4. PICK r \in Request : Renames(k, r) /\ NewName(k) = IdOf(r)
      BY <1>1, <2>2
    <3>5. PICK q \in Request : Renames(j, q) /\ NewName(j) = IdOf(q)
      BY <1>1, <3>1
    <3>6. /\ r \in Sending /\ NeedsId(r) /\ msgIdOf[r] = k
          /\ q \in Sending /\ NeedsId(q) /\ msgIdOf[q] = j
      BY <3>4, <3>5 DEF Renames
    <3>7. IdOf(r) = IdOf(q)
      BY <1>5, <3>4, <3>5
    <3>8. r = q
      BY <3>6, <3>7, NewIds, Zenon
    <3> QED
      BY <3>6, <3>8
  <2> QED
    BY <2>1, <2>2
<1>6. ASSUME NEW k \in MsgId, f[k] # None, NewName(k) \in MsgId
      PROVE  Renamed(f, NewName(k)) = f[k]
  <2>1. PICK j : j = CHOOSE i \in MsgId : f[i] # None /\ NewName(i) = NewName(k)
    OBVIOUS
  <2>2. j \in MsgId /\ f[j] # None /\ NewName(j) = NewName(k)
    BY <1>6, <2>1
  <2>3. j = k
    BY <1>5, <1>6, <2>2
  <2>4. Renamed(f, NewName(k)) = f[j]
    BY <1>6, <2>1 DEF Renamed
  <2> QED
    BY <2>3, <2>4
<1> QED
  BY <1>4, <1>6

\* What a container does to the maps.
LEMMA ContainerMaps ==
    ASSUME TypeOK, OneOwner, Allotted, SendContainer, lastId + MaxRequest + 2 <= MaxMsgId
    PROVE  /\ \A m \in MsgId : \A r \in Request : haveSent'[m] = r =>
                  IF m <= lastId THEN Names(m, r) ELSE r \in Sending /\ IdOf(r) = m
           /\ \A m \in MsgId : \A r \in Request : haveSent'[m] = r =>
                  haveSent[m] = r \/ (r \in Sending /\ IdOf(r) = m)
           /\ \A m \in MsgId : \A r \in Request : ackedIds'[m] = r =>
                  IF m <= lastId THEN ackedIds[m] = r ELSE r \in Sending /\ IdOf(r) = m
           /\ \A m \in MsgId : \A r \in Request : ackedIds'[m] = r =>
                  \E k \in MsgId : ackedIds[k] = r
           /\ \A r \in Sending : haveSent'[IdOf(r)] = r /\ IdOf(r) \in MsgId
           /\ \A m \in MsgId : haveSent[m] # None => \E k \in MsgId : haveSent'[k] = haveSent[m]
           /\ \A m \in MsgId : \A r \in Request : haveSent'[m] = r =>
                  r \in Sending \/ haveSent[m] = r
           /\ lastId' >= lastId + IdsTaken
<1> DEFINE msgs == {<<IdOf(r), r>> : r \in Sending}
<1>1. /\ haveSent' = [m \in MsgId |->
             IF Renamed(haveSent, m) # None THEN Renamed(haveSent, m)
             ELSE IF \E x \in msgs : x[1] = m THEN (CHOOSE x \in msgs : x[1] = m)[2]
             ELSE None]
      /\ ackedIds' = [m \in MsgId |-> Renamed(ackedIds, m)]
      /\ lastId' = IF Sending # {} THEN lastId + IdsTaken + (IF StatePart THEN 2 ELSE 1)
                   ELSE IF StatePart THEN lastId + IdsTaken + 1 ELSE lastId
  BY DEF SendContainer
<1>2. /\ \A r \in Sending : r \in Request /\ IdOf(r) \in MsgId
      /\ \A r \in Sending : IdOf(r) <= lastId => IdOf(r) = msgIdOf[r]
      /\ \A m \in MsgId : NewName(m) \in MsgId
      /\ lastId \in Nat /\ IdsTaken \in Nat /\ \A m \in MsgId : m \in Nat
      /\ \A r \in Request : r # None
  BY IdTypes, NewNames DEF TypeOK, StateTypeOK, MsgId, Request
<1>3. /\ \A m \in MsgId : \A r \in Request : Renamed(haveSent, m) = r =>
            IF m <= lastId THEN haveSent[m] = r ELSE r \in Sending /\ IdOf(r) = m
      /\ \A k \in MsgId : haveSent[k] # None => Renamed(haveSent, NewName(k)) = haveSent[k]
      /\ \A m \in MsgId : Renamed(haveSent, m) \in Request \cup {None}
  BY <1>2, RenamedMap, RenamedType DEF TypeOK, SharedTypeOK, Names
<1>4. \A m \in MsgId : \A r \in Request : Renamed(ackedIds, m) = r =>
        IF m <= lastId THEN ackedIds[m] = r ELSE r \in Sending /\ IdOf(r) = m
  BY RenamedMap DEF TypeOK, TrackTypeOK, Names
<1>5. \A m \in MsgId : (\E x \in msgs : x[1] = m) =>
        /\ (CHOOSE x \in msgs : x[1] = m)[2] \in Sending
        /\ IdOf((CHOOSE x \in msgs : x[1] = m)[2]) = m
  <2>1. ASSUME NEW m \in MsgId, \E x \in msgs : x[1] = m
        PROVE  /\ (CHOOSE x \in msgs : x[1] = m)[2] \in Sending
               /\ IdOf((CHOOSE x \in msgs : x[1] = m)[2]) = m
    <3>1. PICK y : y = CHOOSE x \in msgs : x[1] = m
      OBVIOUS
    <3>2. y \in msgs /\ y[1] = m
      BY <2>1, <3>1
    <3>3. PICK r \in Sending : y = <<IdOf(r), r>>
      BY <3>2
    <3>4. y[2] = r /\ y[1] = IdOf(r)
      BY <3>3
    <3>5. y[2] \in Sending /\ IdOf(y[2]) = m
      BY <3>2, <3>4
    <3> HIDE DEF msgs
    <3> QED
      BY <3>1, <3>5
  <2> QED
    BY <2>1
<1>6. ASSUME NEW r \in Sending PROVE \E x \in msgs : x[1] = IdOf(r)
  <2>1. <<IdOf(r), r>> \in msgs /\ <<IdOf(r), r>>[1] = IdOf(r)
    OBVIOUS
  <2> HIDE DEF msgs
  <2> QED
    BY <2>1
<1> HIDE DEF msgs
<1>7. ASSUME NEW m \in MsgId, NEW r \in Request, haveSent'[m] = r
      PROVE  /\ Renamed(haveSent, m) = r \/ (r \in Sending /\ IdOf(r) = m)
             /\ IF m <= lastId THEN Names(m, r) ELSE r \in Sending /\ IdOf(r) = m
             /\ r \in Sending \/ haveSent[m] = r
             /\ haveSent[m] = r \/ (r \in Sending /\ IdOf(r) = m)
  <2>1. Renamed(haveSent, m) = r \/ (r \in Sending /\ IdOf(r) = m)
    BY <1>1, <1>2, <1>5, <1>7
  <2>2. m <= lastId => Names(m, r)
    BY <1>2, <1>3, <2>1 DEF Names
  <2> QED
    BY <1>3, <2>1, <2>2
<1>8. ASSUME NEW r \in Sending PROVE haveSent'[IdOf(r)] = r /\ IdOf(r) \in MsgId
  <2>1. IdOf(r) \in MsgId /\ r \in Request
    BY <1>2
  <2>2. PICK q : q = haveSent'[IdOf(r)]
    OBVIOUS
  <2>3. q \in Request
    BY <1>1, <1>2, <1>3, <1>5, <1>6, <2>1, <2>2
  <2>4. CASE IdOf(r) <= lastId
    <3>1. Names(IdOf(r), q)
      BY <1>7, <2>1, <2>2, <2>3, <2>4
    <3>2. Names(IdOf(r), r)
      BY <1>2, <2>4 DEF Names
    <3> QED
      BY <2>1, <2>2, <2>3, <3>1, <3>2 DEF OneOwner
  <2>5. CASE ~(IdOf(r) <= lastId)
    <3>1. q \in Sending /\ IdOf(q) = IdOf(r)
      BY <1>7, <2>1, <2>2, <2>3, <2>5
    <3>2. NeedsId(q) /\ NeedsId(r)
      <4>1. ASSUME NEW p \in Sending, ~NeedsId(p) PROVE IdOf(p) <= lastId
        <5>1. IdOf(p) = msgIdOf[p] /\ p \in Request /\ IdOf(p) \in MsgId
          BY <1>2, <4>1 DEF IdOf
        <5>2. Names(IdOf(p), p)
          BY <5>1 DEF Names
        <5> QED
          BY <5>1, <5>2 DEF Allotted
      <4> QED
        BY <2>5, <3>1, <4>1
    <3>3. q = r
      BY <3>1, <3>2, NewIds, Zenon
    <3> QED
      BY <2>1, <2>2, <3>3
  <2> QED
    BY <2>4, <2>5
<1>9. ASSUME NEW m \in MsgId, haveSent[m] # None
      PROVE  \E k \in MsgId : haveSent'[k] = haveSent[m]
  <2>1. NewName(m) \in MsgId /\ Renamed(haveSent, NewName(m)) = haveSent[m]
    BY <1>2, <1>3, <1>9
  <2> QED
    BY <1>1, <1>9, <2>1
<1>10. lastId' >= lastId + IdsTaken
  <2>1. Sending = {} => IdsTaken = 0
    <3>1. Sending = {} => {r \in Sending : NeedsId(r)} = {}
      OBVIOUS
    <3> QED
      BY <3>1, FS_EmptySet DEF IdsTaken
  <2> QED
    BY <1>1, <1>2, <2>1
<1>11. \A m \in MsgId : \A r \in Request : ackedIds'[m] = r =>
        IF m <= lastId THEN ackedIds[m] = r ELSE r \in Sending /\ IdOf(r) = m
  BY <1>1, <1>4
<1>12. ASSUME NEW m \in MsgId, NEW r \in Request, ackedIds'[m] = r
       PROVE  \E k \in MsgId : ackedIds[k] = r
  <2>1. Renamed(ackedIds, m) = r /\ r # None
    BY <1>1, <1>2, <1>12
  <2> QED
    BY <2>1 DEF Renamed
<1> QED
  BY <1>7, <1>8, <1>9, <1>10, <1>11, <1>12

LEMMA ContainerRenames ==
    ASSUME TypeOK, HandParts, OneOwner, Allotted, TryToSend, connected, SendContainer
    PROVE  RenamesOnly
<1>1. /\ msgIdOf' = SetIds(msgIdOf) /\ resendingIds' = NotResending
      /\ UNCHANGED <<cancelling, single, hand>> /\ hand = {}
      /\ lastId + MaxRequest + 2 <= MaxMsgId
  BY DEF TryToSend, SendContainer, mainVars, PrivateFree
<1>2. /\ \A r \in Sending : r \in Request
      /\ \A r \in Sending : IdOf(r) <= lastId => IdOf(r) = msgIdOf[r]
  BY NewNames
<1>3. /\ \A m \in MsgId : \A r \in Request : haveSent'[m] = r =>
            IF m <= lastId THEN Names(m, r) ELSE r \in Sending /\ IdOf(r) = m
      /\ \A m \in MsgId : \A r \in Request : ackedIds'[m] = r =>
            IF m <= lastId THEN ackedIds[m] = r ELSE r \in Sending /\ IdOf(r) = m
      /\ lastId' >= lastId + IdsTaken
  BY <1>1, ContainerMaps
<1>4. ASSUME NEW m \in MsgId, NEW q \in Request, Names(m, q)'
      PROVE  IF m <= lastId THEN Names(m, q) ELSE q \in Sending /\ IdOf(q) = m
  <2>1. \/ haveSent'[m] = q \/ resendingIds[m] = q \/ ackedIds'[m] = q
        \/ msgIdOf'[q] = m
        \/ cancelling.request = q /\ cancelling.msgId = m
    BY <1>1, <1>4 DEF Names, NotResending, Request
  <2>2. msgIdOf'[q] = IF q \in Sending THEN IdOf(q) ELSE msgIdOf[q]
    BY <1>1 DEF SetIds
  <2>3. CASE m <= lastId
    BY <1>2, <1>3, <2>1, <2>2, <2>3 DEF Names
  <2>4. CASE ~(m <= lastId)
    <3>1. ~Names(m, q)
      BY <2>4 DEF Allotted
    <3> QED
      BY <1>3, <2>1, <2>2, <2>4, <3>1 DEF Names
  <2> QED
    BY <2>3, <2>4
<1> QED
  BY <1>3, <1>4 DEF RenamesOnly

LEMMA OwnerStep ==
    ASSUME TypeOK, TypeOK', HandParts, OneOwner, Allotted, Next
    PROVE  OneOwner' /\ Allotted'
<1>1. CASE MainStep
  BY <1>1, MainShrinks, ShrinksIsEnough
<1>2. CASE ServerStep
  <2>1. UNCHANGED <<haveSent, resendingIds, ackedIds, msgIdOf, single, hand, cancelling, lastId>>
    BY <1>2, ServerLeavesClient DEF mainVars, sharedVars, objectVars, trackVars, stateVars
  <2> QED
    BY <2>1 DEF OneOwner, Allotted, Names
<1>3. CASE HandleReceived
  BY <1>3, HandlersShrink, ShrinksIsEnough
<1>4. CASE TryToSend
  <2>1. CASE ~connected \/ NothingToSend \/ SendSingleService
    BY <1>4, <2>1, ThreadShrinks, ShrinksIsEnough
  <2>2. CASE connected /\ TakeSingle
    BY <1>4, <2>2, SingleRenames, RenamingIsEnough
  <2>3. CASE connected /\ SendContainer
    BY <1>4, <2>3, ContainerRenames, RenamingIsEnough
  <2> QED
    BY <1>4, <2>1, <2>2, <2>3 DEF TryToSend
<1>5. CASE \/ SendSingle \/ PutResent \/ CheckSentRequests \/ Connect \/ Drop \/ PingTimer
           \/ \E m \in MsgId : ClearOldContainer(m)
  BY <1>5, ThreadShrinks, ShrinksIsEnough
<1> QED
  BY <1>1, <1>2, <1>3, <1>4, <1>5 DEF Next, PrivateStep

-----------------------------------------------------------------------------
(* No request is lost, as long as ackedIds keeps what was answered.        *)

CancelParts == cancelling.request # None => status[cancelling.request] = "cancelling"

HasPlace(r) ==
    \/ r \in toSend \/ r \in hand \/ \E m \in MsgId : haveSent[m] = r
    \/ r \in delayed \/ \E i \in DOMAIN haveReceived : haveReceived[i].request = r

LEMMA PlacesAreRequests ==
    NoRequestLost <=> \A r \in Request : status[r] = "pending" => HasPlace(r)
  BY DEF NoRequestLost, HasPlace, Known, SentAs, Responses

LEMMA CancelStep ==
    ASSUME TypeOK, CancelParts, Next
    PROVE  CancelParts'
<1>1. CASE MainStep
  <2>1. ASSUME NEW r \in Request, CancelBegin(r) PROVE CancelParts'
    <3>1. cancelling'.request = r /\ status' = [status EXCEPT ![r] = "cancelling"]
      BY <2>1 DEF CancelBegin
    <3> QED
      BY <3>1 DEF CancelParts, TypeOK, MainTypeOK
  <2>2. CASE CancelToSend
    <3>1. cancelling'.request = cancelling.request /\ status' = status
      BY <2>2 DEF CancelToSend, TypeOK, MainTypeOK
    <3> QED
      BY <3>1 DEF CancelParts
  <2>3. CASE CancelHaveSent
    <3>1. cancelling'.request = None
      BY <2>3 DEF CancelHaveSent, TypeOK, MainTypeOK
    <3> QED
      BY <3>1 DEF CancelParts
  <2>4. CASE ProcessCallback \/ \E r \in Request : SendRequest(r) \/ CheckDelayedRequests(r)
    <3>1. cancelling' = cancelling /\ cancelling.request = None
      BY <2>4 DEF ProcessCallback, SendRequest, CheckDelayedRequests, MainFree
    <3> QED
      BY <3>1 DEF CancelParts
  <2> QED
    BY <1>1, <2>1, <2>2, <2>3, <2>4 DEF MainStep
<1>2. CASE PrivateStep \/ ServerStep
  <2>1. UNCHANGED mainVars
    BY <1>2, ServerLeavesClient DEF PrivateStep, TryToSend, SendSingle, PutResent,
       CheckSentRequests, Connect, Drop, PingTimer, ClearOldContainer, HandleReceived,
       HandleUnknown, HandleAck, HandleNewResult, HandleDuplicate, HandleReset, HandleTooLow,
       HandleFatal, HandleStates, HandleNewSession, HandleDetailed, HandlePong, HandlerFrame
  <2> QED
    BY <2>1 DEF CancelParts, mainVars
<1> QED
  BY <1>1, <1>2 DEF Next

\* The steps of the main thread.
LEMMA MainKeeps ==
    ASSUME TypeOK, CancelParts, OneOwner, NoRequestLost, MainStep
    PROVE  NoRequestLost'
<1> SUFFICES ASSUME NEW r \in Request, status'[r] = "pending" PROVE HasPlace(r)'
  <2>1. (NoRequestLost <=> \A r \in Request : status[r] = "pending" => HasPlace(r))'
    BY PlacesAreRequests, PTL
  <2> QED
    BY <2>1
<1>1. status[r] = "pending" => HasPlace(r)
  BY PlacesAreRequests
<1>2. UNCHANGED hand
  BY DEF MainStep, SendRequest, CancelBegin, CancelToSend, CancelHaveSent, ProcessCallback,
         CheckDelayedRequests, trackVars
<1>3. ASSUME NEW q \in Request, SendRequest(q) PROVE HasPlace(r)'
  <2>1. /\ toSend' = toSend \cup {q} /\ status' = [status EXCEPT ![q] = "pending"]
        /\ UNCHANGED <<haveSent, delayed, haveReceived>>
    BY <1>3 DEF SendRequest, SendPrepared
  <2> QED
    BY <1>1, <1>2, <2>1 DEF HasPlace, TypeOK, MainTypeOK
<1>4. ASSUME NEW q \in Request, CancelBegin(q) PROVE HasPlace(r)'
  <2>1. /\ status' = [status EXCEPT ![q] = "cancelling"]
        /\ UNCHANGED <<toSend, haveSent, delayed, haveReceived>>
    BY <1>4 DEF CancelBegin, sharedVars
  <2>2. status[r] = "pending"
    BY <2>1 DEF TypeOK, MainTypeOK
  <2> QED
    BY <1>1, <1>2, <2>1, <2>2 DEF HasPlace
<1>5. CASE CancelToSend
  <2>1. /\ toSend' = toSend \ {cancelling.request} /\ cancelling.request # None
        /\ UNCHANGED <<status, haveSent, delayed, haveReceived>>
    BY <1>5 DEF CancelToSend, MainFree
  <2>2. r # cancelling.request
    BY <2>1 DEF CancelParts
  <2> QED
    BY <1>1, <1>2, <2>1, <2>2 DEF HasPlace
<1>6. CASE CancelHaveSent
  <2>1. /\ haveSent' = [m \in MsgId |-> IF m = cancelling.msgId THEN None ELSE haveSent[m]]
        /\ status' = [status EXCEPT ![cancelling.request] = "cancelled"]
        /\ cancelling.request \in Request
        /\ UNCHANGED <<toSend, delayed, haveReceived>>
    BY <1>6 DEF CancelHaveSent, MainFree, TypeOK, MainTypeOK
  <2>2. status[r] = "pending" /\ r # cancelling.request
    BY <2>1 DEF TypeOK, MainTypeOK
  <2>3. ASSUME NEW m \in MsgId, haveSent[m] = r PROVE haveSent'[m] = r
    <3>1. CASE m = cancelling.msgId
      <4>1. Names(m, r) /\ Names(m, cancelling.request)
        BY <2>3, <3>1 DEF Names
      <4> QED
        BY <2>1, <2>2, <4>1 DEF OneOwner
    <3>2. CASE m # cancelling.msgId
      BY <2>1, <2>3, <3>2
    <3> QED
      BY <3>1, <3>2
  <2> QED
    BY <1>1, <1>2, <2>1, <2>2, <2>3 DEF HasPlace
<1>7. CASE ProcessCallback
  <2>1. /\ haveReceived \in Seq([request : Request, ok : BOOLEAN]) /\ haveReceived # <<>>
        /\ haveReceived' = Tail(haveReceived)
        /\ UNCHANGED <<toSend, haveSent>>
    BY <1>7 DEF ProcessCallback, TypeOK, SharedTypeOK
  <2>2. PICK q \in Request : q = haveReceived[1].request
    <3>1. Head(haveReceived) \in [request : Request, ok : BOOLEAN]
      BY <2>1, Queues, Zenon
    <3>2. Head(haveReceived) = haveReceived[1]
      BY <2>1
    <3> QED
      BY <3>1, <3>2
  <2>3. /\ \/ status' \in {[status EXCEPT ![q] = "done"], [status EXCEPT ![q] = "failed"]}
              /\ delayed' = delayed
           \/ delayed' = delayed \cup {q} /\ status' = status
           \/ status[q] # "pending" /\ UNCHANGED <<status, delayed>>
    BY <1>7, <2>1, <2>2 DEF ProcessCallback
  <2>4. status[r] = "pending" /\ (r = q => r \in delayed')
    BY <2>3 DEF TypeOK, MainTypeOK
  <2>5. ASSUME r # q, NEW i \in DOMAIN haveReceived, haveReceived[i].request = r
        PROVE  \E j \in DOMAIN haveReceived' : haveReceived'[j].request = r
    <3>1. i # 1 /\ i \in 1 .. Len(haveReceived) /\ Len(haveReceived) \in Nat
      BY <2>1, <2>2, <2>5
    <3>2. i - 1 \in DOMAIN haveReceived' /\ haveReceived'[i - 1] = haveReceived[i]
      BY <2>1, <3>1
    <3> QED
      BY <2>5, <3>2
  <2>6. delayed \subseteq delayed'
    BY <2>3
  <2> QED
    BY <1>1, <1>2, <2>1, <2>4, <2>5, <2>6 DEF HasPlace
<1>8. ASSUME NEW q \in Request, CheckDelayedRequests(q) PROVE HasPlace(r)'
  <2>1. /\ delayed' = delayed \ {q}
        /\ status[q] = "pending" => toSend' = toSend \cup {q}
        /\ status[q] # "pending" => toSend' = toSend
        /\ UNCHANGED <<status, haveSent, haveReceived>>
    BY <1>8 DEF CheckDelayedRequests, SendPrepared
  <2> QED
    BY <1>1, <1>2, <2>1 DEF HasPlace
<1> QED
  BY <1>3, <1>4, <1>5, <1>6, <1>7, <1>8 DEF MainStep

\* The other steps change nothing at the Instance: it is enough that what waits
\* for an answer keeps a place.
LEMMA KeptPlaces ==
    ASSUME NoRequestLost, UNCHANGED <<status, delayed>>,
           \A r \in Request : status[r] = "pending" /\ HasPlace(r) => HasPlace(r)'
    PROVE  NoRequestLost'
<1>1. (NoRequestLost <=> \A r \in Request : status[r] = "pending" => HasPlace(r))'
  BY PlacesAreRequests, PTL
<1>2. \A r \in Request : status[r] = "pending" => HasPlace(r)
  BY PlacesAreRequests
<1> QED
  BY <1>1, <1>2

LEMMA ResentKeeps ==
    ASSUME TypeOK, PrivateFree, NoRequestLost, NEW ids \in SUBSET MsgId,
           TakeResent(ids, haveSent, resendingIds),
           UNCHANGED <<status, delayed, toSend, haveReceived>>
    PROVE  NoRequestLost'
<1>1. ASSUME NEW m \in MsgId, haveSent[m] # None
      PROVE  haveSent'[m] = haveSent[m] \/ haveSent[m] \in hand'
  <2>1. /\ haveSent \in [MsgId -> Request \cup {None}]
        /\ resendingIds \in [MsgId -> Request \cup {None}]
    BY DEF TypeOK, SharedTypeOK, TrackTypeOK
  <2> QED
    BY <1>1, <2>1, ResentKept
<1>2. ASSUME NEW r \in Request, HasPlace(r) PROVE HasPlace(r)'
  BY <1>1, <1>2 DEF HasPlace, PrivateFree, Request
<1> QED
  BY <1>2, KeptPlaces

LEMMA ThreadKeeps ==
    ASSUME TypeOK, HandParts, OneOwner, Allotted, NoRequestLost,
           \/ SendSingle \/ PutResent \/ CheckSentRequests \/ Connect \/ Drop \/ PingTimer
           \/ TryToSend \/ \E m \in MsgId : ClearOldContainer(m)
    PROVE  NoRequestLost'
<1>1. UNCHANGED <<status, delayed, haveReceived>>
  BY DEF SendSingle, PutResent, CheckSentRequests, Connect, Drop, PingTimer, TryToSend,
         ClearOldContainer, mainVars, sharedVars
<1>2. CASE SendSingle
  <2>1. PICK r \in Request : hand = {r} /\ r = CHOOSE q \in hand : TRUE
    BY <1>2 DEF SendSingle, HandParts
  <2>2. /\ haveSent' = [m \in MsgId |-> IF m = single /\ haveSent[m] = None THEN r ELSE haveSent[m]]
        /\ toSend' = toSend /\ single \in MsgId
    BY <1>2, <2>1 DEF SendSingle, TypeOK, TrackTypeOK
  <2>3. haveSent'[single] = r
    <3>1. CASE haveSent[single] = None
      BY <2>2, <3>1
    <3>2. CASE haveSent[single] # None
      <4>1. haveSent[single] \in Request /\ haveSent'[single] = haveSent[single]
        BY <2>2, <3>2 DEF TypeOK, SharedTypeOK
      <4>2. Names(single, r) /\ Names(single, haveSent[single])
        BY <2>1 DEF Names
      <4> QED
        BY <2>2, <4>1, <4>2 DEF OneOwner
    <3> QED
      BY <3>1, <3>2
  <2>4. \A m \in MsgId : haveSent[m] # None => haveSent'[m] = haveSent[m]
    BY <2>2
  <2>5. ASSUME NEW q \in Request, HasPlace(q) PROVE HasPlace(q)'
    BY <1>1, <2>1, <2>2, <2>3, <2>4, <2>5 DEF HasPlace, Request
  <2> QED
    BY <1>1, <2>5, KeptPlaces
<1>3. CASE PutResent
  <2>1. toSend' = toSend \cup hand /\ UNCHANGED haveSent
    BY <1>3 DEF PutResent
  <2>2. ASSUME NEW q \in Request, HasPlace(q) PROVE HasPlace(q)'
    BY <1>1, <2>1, <2>2 DEF HasPlace
  <2> QED
    BY <1>1, <2>2, KeptPlaces
<1>4. CASE UNCHANGED <<toSend, haveSent, hand>>
  <2>1. ASSUME NEW q \in Request, HasPlace(q) PROVE HasPlace(q)'
    BY <1>1, <1>4, <2>1 DEF HasPlace
  <2> QED
    BY <1>1, <2>1, KeptPlaces
<1>5. CASE Connect \/ \E m \in MsgId : ClearOldContainer(m)
  <2>1. PICK ids \in SUBSET MsgId : TakeResent(ids, haveSent, resendingIds)
    BY <1>5 DEF Connect, ClearOldContainer, Sent, TypeOK, TrackTypeOK
  <2>2. UNCHANGED toSend /\ PrivateFree
    BY <1>5 DEF Connect, ClearOldContainer
  <2> QED
    BY <1>1, <2>1, <2>2, ResentKeeps
<1>6. CASE TryToSend
  <2>1. hand = {}
    BY <1>6 DEF TryToSend, PrivateFree
  <2>2. CASE TakeSingle
    <3>1. toSend' = toSend \ Sending /\ hand' = Sending /\ UNCHANGED haveSent
      BY <2>2 DEF TakeSingle
    <3>2. ASSUME NEW q \in Request, HasPlace(q) PROVE HasPlace(q)'
      BY <1>1, <2>1, <3>1, <3>2 DEF HasPlace
    <3> QED
      BY <1>1, <3>2, KeptPlaces
  <2>3. CASE connected /\ SendContainer
    <3>1. toSend' = toSend \ Sending /\ lastId + MaxRequest + 2 <= MaxMsgId
      BY <1>6, <2>3 DEF TryToSend, SendContainer
    <3>2. /\ \A r \in Sending : haveSent'[IdOf(r)] = r /\ IdOf(r) \in MsgId
          /\ \A m \in MsgId : haveSent[m] # None => \E k \in MsgId : haveSent'[k] = haveSent[m]
      BY <2>3, <3>1, ContainerMaps
    <3>3. ASSUME NEW q \in Request, HasPlace(q) PROVE HasPlace(q)'
      BY <1>1, <2>1, <3>1, <3>2, <3>3 DEF HasPlace, Request
    <3> QED
      BY <1>1, <3>3, KeptPlaces
  <2>4. CASE ~connected \/ NothingToSend \/ SendSingleService
    BY <1>4, <1>6, <2>4 DEF TryToSend, NothingToSend, SendSingleService, trackVars
  <2> QED
    BY <1>6, <2>2, <2>3, <2>4 DEF TryToSend
<1>7. CASE CheckSentRequests \/ Drop \/ PingTimer
  BY <1>4, <1>7 DEF CheckSentRequests, Drop, PingTimer, trackVars, sharedVars
<1> QED
  BY <1>2, <1>3, <1>5, <1>6, <1>7

LEMMA AckedKeeps ==
    ASSUME TypeOK, PrivateFree, NoRequestLost, NEW ids \in SUBSET MsgId,
           RequestsAcked(ids, FALSE), UNCHANGED <<status, delayed, haveReceived>>
    PROVE  NoRequestLost'
<1>1. PICK now : now = Acked(ids, FALSE)
  OBVIOUS
<1>2. haveSent' = now.haveSent /\ toSend' = now.toSend
  BY <1>1 DEF RequestsAcked, TakeAcked
<1>3. /\ \A m \in MsgId : now.haveSent[m] # haveSent[m] => ~HasCallback(haveSent[m])
      /\ \A r \in toSend : r \notin now.toSend => ~HasCallback(r)
  BY <1>1, AcknowledgedOnly
<1>4. ASSUME NEW r \in Request, status[r] = "pending", HasPlace(r) PROVE HasPlace(r)'
  <2>1. HasCallback(r)
    BY <1>4 DEF HasCallback
  <2> QED
    BY <1>2, <1>3, <1>4, <2>1 DEF HasPlace, PrivateFree
<1> QED
  BY <1>4, KeptPlaces

LEMMA ResultKeeps ==
    ASSUME TypeOK, HandParts, OneOwner, NoRequestLost, HandleNewResult, KeepAcked >= MaxMsgId
    PROVE  NoRequestLost'
<1>1. PICK m \in MsgId : m = Message.msgId
  BY MessageTypes DEF HandleNewResult
<1>2. PICK now : now = Acked({m}, TRUE)
  OBVIOUS
<1>3. /\ haveSent' = now.haveSent /\ resendingIds' = now.resendingIds /\ toSend' = now.toSend
      /\ ackedIds' = Trimmed(now.ackedIds, KeepAcked)
      /\ UNCHANGED <<status, delayed>> /\ hand = {}
      /\ Respond(RequestOf(resendingIds', ackedIds', haveSent', m), Message.ok)
  BY <1>1, <1>2 DEF HandleNewResult, RequestsAcked, TakeAcked, HandlerFrame, mainVars, Is, PrivateFree
<1>4. ackedIds' = now.ackedIds
  <2>1. now.ackedIds \in [MsgId -> Request \cup {None}] /\ KeepAcked \in Nat
    BY <1>2, AckedTypes
  <2> QED
    BY <1>3, <2>1, TrimmedMap
<1>5. AnswerIsKept(now, m)
  BY <1>2, AnsweredIsKept
<1>6. PICK q : q = RequestOf(resendingIds', ackedIds', haveSent', m)
  OBVIOUS
<1>7. haveReceived' = IF q = None THEN haveReceived
                      ELSE Append(haveReceived, [request |-> q, ok |-> Message.ok])
  BY <1>3, <1>6 DEF Respond
<1>8. haveReceived \in Seq([request : Request, ok : BOOLEAN])
  BY DEF TypeOK, SharedTypeOK
<1>9. \A r \in Request :
        /\ (\E i \in DOMAIN haveReceived : haveReceived[i].request = r) =>
              \E i \in DOMAIN haveReceived' : haveReceived'[i].request = r
        /\ q = r => \E i \in DOMAIN haveReceived' : haveReceived'[i].request = r
  <2>1. ASSUME q # None
        PROVE  /\ Len(haveReceived') = Len(haveReceived) + 1 /\ Len(haveReceived) \in Nat
               /\ haveReceived'[Len(haveReceived) + 1].request = q
               /\ \A i \in 1 .. Len(haveReceived) : haveReceived'[i] = haveReceived[i]
               /\ DOMAIN haveReceived' = 1 .. Len(haveReceived) + 1
               /\ DOMAIN haveReceived = 1 .. Len(haveReceived)
    BY <1>7, <1>8, <2>1
  <2>2. \A r \in Request : r # None
    BY DEF Request
  <2>3. CASE q = None
    BY <1>7, <2>2, <2>3
  <2>4. CASE q # None
    BY <2>1, <2>4
  <2> QED
    BY <2>3, <2>4
\* A request that leaves the maps is the one that is answered.
<1>10. ASSUME NEW r \in Request, status[r] = "pending", HasPlace(r) PROVE HasPlace(r)'
  <2>1. HasCallback(r) /\ r # None
    BY <1>10 DEF HasCallback, Request
  <2>2. CASE r \in toSend /\ r \notin toSend'
    <3>1. /\ resendingIds[m] = r /\ now.resendingIds[m] = None /\ now.ackedIds[m] = r
      BY <1>3, <1>5, <2>1, <2>2 DEF AnswerIsKept
    <3>2. q = r
      BY <1>3, <1>4, <1>6, <2>1, <3>1 DEF RequestOf
    <3> QED
      BY <1>9, <3>2 DEF HasPlace
  <2>3. ASSUME NEW k \in MsgId, haveSent[k] = r, haveSent'[k] # r PROVE HasPlace(r)'
    <3>1. /\ k = m /\ now.haveSent[m] = None /\ now.ackedIds[m] = r
          /\ now.resendingIds[m] = resendingIds[m]
      BY <1>3, <1>5, <2>1, <2>3 DEF AnswerIsKept
    <3>2. resendingIds[m] \in {r, None}
      <4>1. CASE resendingIds[m] # None
        <5>1. resendingIds[m] \in Request
          BY <4>1 DEF TypeOK, TrackTypeOK
        <5>2. Names(m, r) /\ Names(m, resendingIds[m])
          BY <2>3, <3>1 DEF Names
        <5> QED
          BY <5>1, <5>2 DEF OneOwner
      <4> QED
        BY <4>1
    <3>3. q = r
      BY <1>3, <1>4, <1>6, <2>1, <3>1, <3>2 DEF RequestOf
    <3> QED
      BY <1>9, <3>3 DEF HasPlace
  <2> QED
    BY <1>3, <1>9, <1>10, <2>2, <2>3 DEF HasPlace
<1> QED
  BY <1>3, <1>10, KeptPlaces

LEMMA HandlersKeep ==
    ASSUME TypeOK, HandParts, OneOwner, NoRequestLost, HandleReceived, KeepAcked >= MaxMsgId
    PROVE  NoRequestLost'
<1>1. UNCHANGED <<status, delayed>> /\ PrivateFree
  BY DEF HandleReceived, HandleUnknown, HandleAck, HandleNewResult, HandleDuplicate, HandleReset,
         HandleTooLow, HandleFatal, HandleStates, HandleNewSession, HandleDetailed, HandlePong, Is,
         HandlerFrame, mainVars
<1>2. CASE HandleUnknown \/ HandleDuplicate \/ HandleReset \/ HandlePong
  <2>1. UNCHANGED <<toSend, haveSent, haveReceived, hand>>
    BY <1>2 DEF HandleUnknown, HandleDuplicate, HandleReset, HandlePong, sharedVars
  <2>2. ASSUME NEW q \in Request, HasPlace(q) PROVE HasPlace(q)'
    BY <1>1, <2>1, <2>2 DEF HasPlace
  <2> QED
    BY <1>1, <2>2, KeptPlaces
<1>3. CASE HandleFatal
  <2>1. UNCHANGED <<toSend, haveSent, hand>>
    BY <1>3 DEF HandleFatal
  <2>2. PICK r : r = RequestOf(resendingIds, ackedIds, haveSent, Message.msgId)
    OBVIOUS
  <2>3. haveReceived' = IF r = None THEN haveReceived
                        ELSE Append(haveReceived, [request |-> r, ok |-> FALSE])
    BY <1>3, <2>2 DEF HandleFatal, Respond
  <2>4. haveReceived \in Seq([request : Request, ok : BOOLEAN])
    BY DEF TypeOK, SharedTypeOK
  <2>5. \A i \in DOMAIN haveReceived : i \in DOMAIN haveReceived' /\ haveReceived'[i] = haveReceived[i]
    BY <2>3, <2>4
  <2>6. ASSUME NEW q \in Request, HasPlace(q) PROVE HasPlace(q)'
    BY <1>1, <2>1, <2>5, <2>6 DEF HasPlace
  <2> QED
    BY <1>1, <2>6, KeptPlaces
<1>4. CASE HandleAck
  BY <1>1, <1>4, AckedKeeps, MessageTypes DEF HandleAck
<1>5. CASE HandleDetailed
  <2>1. Message.msgId \in MsgId
    BY <1>5, MessageTypes DEF HandleDetailed
  <2> QED
    BY <1>1, <1>5, <2>1, AckedKeeps DEF HandleDetailed
<1>6. CASE HandleNewResult
  BY <1>6, ResultKeeps
<1>7. CASE HandleTooLow
  <2>1. Message.ids \in SUBSET MsgId
    BY <1>7, MessageTypes DEF HandleTooLow
  <2> QED
    BY <1>1, <1>7, <2>1, ResentKeeps DEF HandleTooLow
<1>8. CASE HandleNewSession
  <2>1. {m \in Sent : m < Message.msgId} \in SUBSET MsgId
    BY DEF Sent
  <2> QED
    BY <1>1, <1>8, <2>1, ResentKeeps DEF HandleNewSession
<1>9. CASE HandleStates
  <2>1. PICK asked : asked = stateRequests[Message.msgId] /\ asked \in SUBSET MsgId
    BY <1>9, MessageTypes DEF HandleStates, TypeOK, ServiceTypeOK
  <2>2. PICK now : /\ now = Acked(asked \cap Message.ids, FALSE)
                   /\ TakeResent(asked \ Message.ids, now.haveSent, now.resendingIds)
                   /\ TakeAcked(now)
    BY <1>9, <2>1 DEF HandleStates
  <2>3. /\ now.haveSent \in [MsgId -> Request \cup {None}]
        /\ now.resendingIds \in [MsgId -> Request \cup {None}]
    BY <2>2, AckedTypes
  <2>4. /\ \A m \in MsgId : now.haveSent[m] # haveSent[m] => ~HasCallback(haveSent[m])
        /\ \A r \in toSend : r \notin now.toSend => ~HasCallback(r)
    BY <2>1, <2>2, AcknowledgedOnly
  <2>5. \A m \in MsgId : now.haveSent[m] # None =>
          haveSent'[m] = now.haveSent[m] \/ now.haveSent[m] \in hand'
    BY <2>1, <2>2, <2>3, ResentKept
  <2>6. toSend' = now.toSend /\ UNCHANGED haveReceived
    BY <1>9, <2>2 DEF TakeAcked, HandleStates
  <2>7. ASSUME NEW r \in Request, status[r] = "pending", HasPlace(r) PROVE HasPlace(r)'
    <3>1. HasCallback(r) /\ r # None
      BY <2>7 DEF HasCallback, Request
    <3> QED
      BY <1>1, <2>4, <2>5, <2>6, <2>7, <3>1 DEF HasPlace, PrivateFree
  <2> QED
    BY <1>1, <2>7, KeptPlaces
<1> QED
  BY <1>2, <1>3, <1>4, <1>5, <1>6, <1>7, <1>8, <1>9 DEF HandleReceived

LEMMA PlaceStep ==
    ASSUME TypeOK, HandParts, OneOwner, Allotted, CancelParts, NoRequestLost, Next,
           KeepAcked >= MaxMsgId
    PROVE  NoRequestLost'
<1>1. CASE MainStep
  BY <1>1, MainKeeps
<1>2. CASE ServerStep
  <2>1. UNCHANGED <<status, delayed, toSend, haveSent, haveReceived, hand>>
    BY <1>2, ServerLeavesClient DEF mainVars, sharedVars, trackVars
  <2>2. ASSUME NEW r \in Request, HasPlace(r) PROVE HasPlace(r)'
    BY <2>1, <2>2 DEF HasPlace
  <2> QED
    BY <2>1, <2>2, KeptPlaces
<1>3. CASE HandleReceived
  BY <1>3, HandlersKeep
<1>4. CASE \/ SendSingle \/ PutResent \/ CheckSentRequests \/ Connect \/ Drop \/ PingTimer
           \/ TryToSend \/ \E m \in MsgId : ClearOldContainer(m)
  BY <1>4, ThreadKeeps
<1> QED
  BY <1>1, <1>2, <1>3, <1>4 DEF Next, PrivateStep

-----------------------------------------------------------------------------
(* The invariant, and what follows from it. *)

\* What the maps of the session keep to, whatever the sizes and the faults.
SessionInv == TypeOK /\ HandParts /\ SingleIsFresh /\ OneOwner /\ Allotted /\ CancelParts

LEMMA InitTypes == Init => TypeOK
<1> SUFFICES ASSUME Init PROVE TypeOK
  OBVIOUS
<1>1. <<>> \in Seq([request : Request, ok : BOOLEAN]) /\ <<>> \in Seq(Packets)
      /\ <<>> \in Seq(Replies)
  BY Queues
<1>2. MainTypeOK /\ SharedTypeOK /\ ObjectTypeOK /\ TrackTypeOK
  BY <1>1 DEF Init, MainTypeOK, SharedTypeOK, ObjectTypeOK, TrackTypeOK, NoIds, NoSets
<1>3. ServiceTypeOK
  BY DEF Init, ServiceTypeOK, NoSets
<1>5. StateTypeOK
  <2>1. connected \in BOOLEAN /\ started \in BOOLEAN /\ checkTimer \in BOOLEAN
    BY DEF Init
  <2>2. session \in Nat /\ sessionStart \in Nat /\ ping \in {"no", "due", "out"}
    BY DEF Init
  <2>3. lastId \in 0 .. MaxMsgId
    BY DEF Init
  <2> QED
    BY <2>1, <2>2, <2>3 DEF StateTypeOK
<1>4. NetTypeOK /\ ServerTypeOK /\ CountTypeOK
  BY <1>1 DEF Init, NetTypeOK, ServerTypeOK, CountTypeOK
<1> QED
  BY <1>2, <1>3, <1>4, <1>5 DEF TypeOK

LEMMA InitInv == Init => SessionInv
<1> SUFFICES ASSUME Init PROVE SessionInv
  OBVIOUS
<1>1. HandParts /\ SingleIsFresh /\ CancelParts
  BY DEF Init, HandParts, SingleIsFresh, CancelParts
<1>2. \A m \in MsgId : \A r \in Request : ~Names(m, r)
  BY DEF Init, Names, NoIds, MsgId, Request
<1>3. OneOwner /\ Allotted
  BY <1>2 DEF OneOwner, Allotted
<1> QED
  BY <1>1, <1>3, InitTypes DEF SessionInv

LEMMA TypeStep ==
    ASSUME TypeOK, HandParts, Next
    PROVE  TypeOK'
<1>1. single # None => hand # {}
  BY DEF HandParts
<1> QED
  BY <1>1, MainTypes, TryToSendTypes, ThreadTypes, HandlerTypes, ServerStepTypes
  DEF Next, PrivateStep

LEMMA InvStep == SessionInv /\ [Next]_vars => SessionInv'
<1> SUFFICES ASSUME SessionInv, [Next]_vars PROVE SessionInv'
  OBVIOUS
<1> USE DEF SessionInv
<1>1. CASE Next
  <2>1. TypeOK'
    BY <1>1, TypeStep
  <2>2. HandParts' /\ SingleIsFresh'
    BY <1>1, HandStep
  <2>3. OneOwner' /\ Allotted'
    BY <1>1, <2>1, OwnerStep
  <2>4. CancelParts'
    BY <1>1, CancelStep
  <2> QED
    BY <2>1, <2>2, <2>3, <2>4
<1>2. CASE UNCHANGED vars
  <2> USE <1>2 DEF vars, mainVars, sharedVars, objectVars, trackVars, serviceVars, stateVars,
                   netVars, serverVars, countVars
  <2>1. TypeOK'
    <3>1. /\ UNCHANGED mainVars /\ UNCHANGED sharedVars /\ UNCHANGED objectVars
          /\ UNCHANGED trackVars /\ UNCHANGED serviceVars /\ UNCHANGED stateVars
          /\ UNCHANGED netVars /\ UNCHANGED serverVars /\ UNCHANGED countVars
      OBVIOUS
    <3>2. NetTypeOK'
      BY DEF TypeOK, NetTypeOK
    <3> QED
      BY <3>1, <3>2, Untouched DEF TypeOK
  <2>2. HandParts' /\ SingleIsFresh'
    BY DEF HandParts, SingleIsFresh
  <2>3. OneOwner' /\ Allotted'
    BY DEF OneOwner, Allotted, Names
  <2>4. CancelParts'
    BY DEF CancelParts
  <2> QED
    BY <2>1, <2>2, <2>3, <2>4
<1> QED
  BY <1>1, <1>2

THEOREM InvHolds == Spec => []SessionInv
<1> QED
  BY InitInv, InvStep, PTL DEF Spec

\* Each variable has its type.
THEOREM TypeCorrect == Spec => []TypeOK
<1>1. SessionInv => TypeOK
  BY DEF SessionInv
<1> QED
  BY <1>1, InvHolds, PTL

\* A request that is sent without a container has no id yet: replaceMsgId, which
\* uses _haveSent there without its lock, finds nothing of it to move.
THEOREM SingleFresh == Spec => []SingleIsFresh
<1>1. SessionInv => SingleIsFresh
  BY DEF SessionInv
<1> QED
  BY <1>1, InvHolds, PTL

\* A message id belongs to one request: _haveSent, _resendingIds, _ackedIds, the
\* request itself, a call of cancel and the message in the hand never name two by
\* the same id, and no id is used before mtproto_msg_id() gave it.
THEOREM IdsHaveOneOwner == Spec => [](OneOwner /\ Allotted)
<1>1. SessionInv => OneOwner /\ Allotted
  BY DEF SessionInv
<1> QED
  BY <1>1, InvHolds, PTL

\* While _ackedIds is not full, a request that somebody waits for always has a
\* place: no acknowledgement, resend, restart or lost session forgets it.
THEOREM NothingLost ==
    ASSUME KeepAcked >= MaxMsgId
    PROVE  Spec => []NoRequestLost
<1>1. Init => NoRequestLost
  BY DEF Init, NoRequestLost
<1>2. SessionInv /\ NoRequestLost /\ [Next]_vars => NoRequestLost'
  <2> SUFFICES ASSUME SessionInv, NoRequestLost, [Next]_vars PROVE NoRequestLost'
    OBVIOUS
  <2>1. CASE Next
    BY <2>1, PlaceStep DEF SessionInv
  <2>2. CASE UNCHANGED vars
    BY <2>2 DEF NoRequestLost, Known, SentAs, Responses, vars, mainVars, sharedVars, trackVars
  <2> QED
    BY <2>1, <2>2
<1> QED
  BY <1>1, <1>2, InvHolds, PTL DEF Spec

-----------------------------------------------------------------------------
(* The first packet of a session takes everything there is to send, when all of *)
(* it fits, so that what is sent later has an id of the session.                *)

NewEnough(r) == msgIdOf[r] = None \/ msgIdOf[r] > sessionStart
StartBelow == sessionStart <= lastId
NothingSentYet == ~started /\ connected => Sent = {}
KnownAreNew == started => \A r \in Request : Known(r) => NewEnough(r)
SingleIsNew == single # None => started /\ single > sessionStart
StartParts == StartBelow /\ NothingSentYet /\ KnownAreNew /\ SingleIsNew

LEMMA EverythingFits ==
    ASSUME TypeOK, ContainerSize >= MaxRequest
    PROVE  Sending = toSend
<1>1. ASSUME NEW r \in toSend PROVE Cardinality({q \in toSend : q < r}) < ContainerSize
  <2> DEFINE S == {q \in toSend : q < r}
  <2>1. IsFiniteSet(Request) /\ Cardinality(Request) = MaxRequest
    BY FS_Interval DEF Request
  <2>5. toSend \subseteq Request /\ r \in Request /\ r \in Int
    BY DEF TypeOK, SharedTypeOK, Request
  <2>7. ~(r < r)
    BY <2>5
  <2>2. S \in SUBSET Request /\ r \notin S
    BY <2>5, <2>7, Zenon
  <2>3. IsFiniteSet(S) /\ Cardinality(S) <= MaxRequest /\ Cardinality(S) # MaxRequest
    BY <2>1, <2>2, <2>5, FS_Subset
  <2>4. Cardinality(S) \in Nat
    BY <2>3, FS_CardinalityType
  <2> HIDE DEF S
  <2>6. Cardinality(S) < ContainerSize
    BY <2>3, <2>4
  <2> QED
    BY <2>6 DEF S
<1> QED
  BY <1>1 DEF Sending

\* Steps that give no request an old id and send nothing new in a session that
\* has not started.
LEMMA StartFrame ==
    ASSUME TypeOK, TypeOK', StartParts, started' = started, sessionStart' = sessionStart,
           single' \in {single, None}, lastId' >= lastId,
           connected' => connected \/ Sent' = {}, ~started => Sent' \in SUBSET Sent,
           \A r \in Request : Known(r)' =>
              \/ Known(r) /\ msgIdOf'[r] = msgIdOf[r]
              \/ msgIdOf'[r] = None
    PROVE  StartParts'
<1>1. StartBelow'
  BY DEF StartParts, StartBelow, TypeOK, StateTypeOK
<1>2. NothingSentYet'
  BY DEF StartParts, NothingSentYet
<1>3. KnownAreNew'
  BY DEF StartParts, KnownAreNew, NewEnough
<1>4. SingleIsNew'
  BY DEF StartParts, SingleIsNew
<1> QED
  BY <1>1, <1>2, <1>3, <1>4 DEF StartParts

\* The maps only move requests.
LEMMA StartMoves ==
    ASSUME TypeOK, TypeOK', StartParts,
           UNCHANGED <<started, sessionStart, single, lastId, msgIdOf>>,
           connected' => connected \/ Sent' = {}, ~started => Sent' \in SUBSET Sent,
           \A r \in Request : Known(r)' => Known(r)
    PROVE  StartParts'
<1>1. lastId' >= lastId
  BY DEF TypeOK, StateTypeOK
<1> QED
  BY <1>1, StartFrame

LEMMA ResentStart ==
    ASSUME TypeOK, TypeOK', StartParts, NEW ids \in SUBSET MsgId, NEW sent \in [MsgId -> Request \cup {None}],
           NEW resending \in [MsgId -> Request \cup {None}], TakeResent(ids, sent, resending),
           \A m \in MsgId : sent[m] \in {haveSent[m], None}, toSend' \in SUBSET toSend,
           UNCHANGED <<started, sessionStart, single, lastId, msgIdOf>>,
           connected' => connected \/ Sent' = {}
    PROVE  StartParts'
<1>1. \A m \in MsgId : haveSent'[m] \in {haveSent[m], None}
  BY ResentPointwise
<1>2. Sent' \in SUBSET Sent
  BY <1>1 DEF Sent
<1>3. \A r \in hand' : \E m \in ids : sent[m] = r
  BY DEF TakeResent
<1>4. ASSUME NEW r \in Request, Known(r)' PROVE Known(r)
  <2>1. (\E m \in MsgId : haveSent'[m] = r) \/ r \in hand' \/ r \in toSend'
    BY <1>4 DEF Known, SentAs
  <2>2. CASE r \in toSend'
    BY <2>2 DEF Known
  <2>3. CASE (\E m \in MsgId : haveSent'[m] = r) \/ r \in hand'
    <3>1. \E m \in MsgId : haveSent[m] = r
      BY <1>1, <1>3, <2>3 DEF Request
    <3> QED
      BY <3>1 DEF Known, SentAs
  <2> QED
    BY <2>1, <2>2, <2>3
<1> QED
  BY <1>2, <1>4, StartMoves

LEMMA AckedStart ==
    ASSUME TypeOK, TypeOK', StartParts, NEW ids \in SUBSET MsgId, NEW byResponse \in BOOLEAN,
           RequestsAcked(ids, byResponse), PrivateFree, UNCHANGED hand,
           UNCHANGED <<started, sessionStart, single, lastId, msgIdOf, connected>>
    PROVE  StartParts'
<1>1. PICK now : now = Acked(ids, byResponse)
  OBVIOUS
<1>2. haveSent' = now.haveSent /\ toSend' = now.toSend
  BY <1>1 DEF RequestsAcked, TakeAcked
<1>3. now.toSend \in SUBSET toSend
  BY <1>1, AckedTypes
<1>4. \A m \in MsgId : now.haveSent[m] \in {haveSent[m], None}
  BY <1>1, AckedMoves
<1>5. Sent' \in SUBSET Sent
  BY <1>2, <1>4 DEF Sent
<1>6. \A r \in Request : Known(r)' => Known(r)
  BY <1>2, <1>3, <1>4 DEF Known, SentAs, Request
<1> QED
  BY <1>5, <1>6, StartMoves

LEMMA HandlersStart ==
    ASSUME TypeOK, TypeOK', HandParts, StartParts, HandleReceived
    PROVE  StartParts'
<1>1. UNCHANGED <<msgIdOf, single, lastId>> /\ PrivateFree
  BY DEF HandleReceived, HandleUnknown, HandleAck, HandleNewResult, HandleDuplicate, HandleReset,
         HandleTooLow, HandleFatal, HandleStates, HandleNewSession, HandleDetailed, HandlePong, Is,
         HandlerFrame
<1>2. ~HandleReset => UNCHANGED <<started, sessionStart, connected>>
  BY DEF HandleReceived, HandleUnknown, HandleAck, HandleNewResult, HandleDuplicate,
         HandleTooLow, HandleFatal, HandleStates, HandleNewSession, HandleDetailed, HandlePong,
         SameSession
<1>3. CASE HandleUnknown \/ HandleDuplicate \/ HandleFatal \/ HandlePong
  <2>1. UNCHANGED <<toSend, haveSent, hand, started, sessionStart, connected>>
    BY <1>3 DEF HandleUnknown, HandleDuplicate, HandleFatal, HandlePong, sharedVars, SameSession
  <2>2. Sent' = Sent /\ \A r \in Request : Known(r)' => Known(r)
    BY <2>1 DEF Known, SentAs, Sent
  <2> QED
    BY <1>1, <2>1, <2>2, StartMoves
<1>4. CASE HandleReset
  <2>1. ~started' /\ ~connected' /\ sessionStart' = lastId /\ single = None
    BY <1>1, <1>4 DEF HandleReset, ResetSession, Disconnect, HandParts, PrivateFree
  <2>2. StartBelow'
    BY <1>1, <2>1 DEF StartBelow, TypeOK, StateTypeOK
  <2> QED
    BY <1>1, <2>1, <2>2 DEF StartParts, NothingSentYet, KnownAreNew, SingleIsNew
<1>5. CASE HandleAck
  <2>1. UNCHANGED <<hand, started, sessionStart, connected>>
    BY <1>5 DEF HandleAck, SameSession
  <2> QED
    BY <1>1, <1>5, <2>1, AckedStart, MessageTypes DEF HandleAck
<1>6. CASE HandleNewResult \/ HandleDetailed
  <2>1. UNCHANGED <<hand, started, sessionStart, connected>> /\ Message.msgId \in MsgId
    BY <1>6, MessageTypes DEF HandleNewResult, HandleDetailed, SameSession
  <2>2. RequestsAcked({Message.msgId}, TRUE) \/ RequestsAcked({Message.msgId}, FALSE)
    BY <1>6 DEF HandleNewResult, HandleDetailed
  <2> QED
    BY <1>1, <2>1, <2>2, AckedStart
<1>7. CASE HandleTooLow \/ HandleNewSession
  <2>1. PICK ids \in SUBSET MsgId : TakeResent(ids, haveSent, resendingIds)
    <3>1. CASE HandleTooLow
      BY <3>1, MessageTypes DEF HandleTooLow
    <3>2. CASE HandleNewSession
      <4>1. {m \in Sent : m < Message.msgId} \in SUBSET MsgId
        BY DEF Sent
      <4> QED
        BY <3>2, <4>1 DEF HandleNewSession
    <3> QED
      BY <1>7, <3>1, <3>2
  <2>2. UNCHANGED <<toSend, started, sessionStart, connected>>
    BY <1>7 DEF HandleTooLow, HandleNewSession, SameSession
  <2>3. /\ haveSent \in [MsgId -> Request \cup {None}]
        /\ resendingIds \in [MsgId -> Request \cup {None}]
    BY DEF TypeOK, SharedTypeOK, TrackTypeOK
  <2> QED
    BY <1>1, <2>1, <2>2, <2>3, ResentStart
<1>8. CASE HandleStates
  <2>1. PICK asked : asked = stateRequests[Message.msgId] /\ asked \in SUBSET MsgId
    BY <1>8, MessageTypes DEF HandleStates, TypeOK, ServiceTypeOK
  <2>2. PICK now : /\ now = Acked(asked \cap Message.ids, FALSE)
                   /\ TakeResent(asked \ Message.ids, now.haveSent, now.resendingIds)
                   /\ TakeAcked(now)
    BY <1>8, <2>1 DEF HandleStates
  <2>3. /\ now.haveSent \in [MsgId -> Request \cup {None}]
        /\ now.resendingIds \in [MsgId -> Request \cup {None}]
        /\ now.toSend \in SUBSET toSend
    BY <2>2, AckedTypes
  <2>4. \A m \in MsgId : now.haveSent[m] \in {haveSent[m], None}
    BY <2>1, <2>2, AckedMoves
  <2>5. toSend' \in SUBSET toSend
    BY <2>2, <2>3 DEF TakeAcked
  <2>6. UNCHANGED <<started, sessionStart, connected>>
    BY <1>8 DEF HandleStates, SameSession
  <2> QED
    BY <1>1, <2>1, <2>2, <2>3, <2>4, <2>5, <2>6, ResentStart
<1> QED
  BY <1>3, <1>4, <1>5, <1>6, <1>7, <1>8 DEF HandleReceived

LEMMA MainStart ==
    ASSUME TypeOK, TypeOK', StartParts, MainStep
    PROVE  StartParts'
<1>1. UNCHANGED <<single, hand, lastId, started, sessionStart, connected>>
  BY DEF MainStep, SendRequest, CancelBegin, CancelToSend, CancelHaveSent, ProcessCallback,
         CheckDelayedRequests, trackVars, stateVars
<1>2. ASSUME NEW r \in Request, SendRequest(r) \/ CheckDelayedRequests(r) PROVE StartParts'
  <2>1. /\ UNCHANGED haveSent
        /\ \/ toSend' = toSend \cup {r} /\ msgIdOf' = [msgIdOf EXCEPT ![r] = None]
           \/ UNCHANGED <<toSend, msgIdOf>>
    BY <1>2 DEF SendRequest, CheckDelayedRequests, SendPrepared
  <2>2. Sent' = Sent
    BY <2>1 DEF Sent
  <2>3. \A q \in Request : Known(q)' =>
              \/ Known(q) /\ msgIdOf'[q] = msgIdOf[q]
              \/ msgIdOf'[q] = None
    BY <1>1, <2>1 DEF Known, SentAs, TypeOK, ObjectTypeOK
  <2>4. lastId' >= lastId
    BY <1>1 DEF TypeOK, StateTypeOK
  <2> QED
    BY <1>1, <2>2, <2>3, <2>4, StartFrame
<1>3. CASE CancelToSend \/ CancelHaveSent \/ ProcessCallback \/ \E r \in Request : CancelBegin(r)
  <2>1. /\ UNCHANGED msgIdOf /\ toSend' \in SUBSET toSend
        /\ \A m \in MsgId : haveSent'[m] \in {haveSent[m], None}
    BY <1>3 DEF CancelToSend, CancelHaveSent, ProcessCallback, CancelBegin, objectVars, sharedVars
  <2>2. Sent' \in SUBSET Sent
    BY <2>1 DEF Sent
  <2>3. \A r \in Request : Known(r)' => Known(r)
    BY <1>1, <2>1 DEF Known, SentAs, Request
  <2> QED
    BY <1>1, <2>1, <2>2, <2>3, StartMoves
<1> QED
  BY <1>2, <1>3 DEF MainStep

LEMMA ThreadStart ==
    ASSUME TypeOK, TypeOK', HandParts, StartParts,
           \/ SendSingle \/ PutResent \/ CheckSentRequests \/ Connect \/ Drop \/ PingTimer
           \/ \E m \in MsgId : ClearOldContainer(m)
    PROVE  StartParts'
<1>1. UNCHANGED <<started, sessionStart, lastId, msgIdOf>>
  BY DEF SendSingle, PutResent, CheckSentRequests, Connect, Drop, PingTimer, ClearOldContainer,
         stateVars, objectVars
<1>2. lastId' >= lastId
  BY <1>1 DEF TypeOK, StateTypeOK
<1>3. CASE SendSingle
  <2>1. PICK r \in Request : hand = {r} /\ r = CHOOSE q \in hand : TRUE
    BY <1>3 DEF SendSingle, HandParts
  <2>2. /\ haveSent' = [m \in MsgId |-> IF m = single /\ haveSent[m] = None THEN r ELSE haveSent[m]]
        /\ hand' = {} /\ single' = None /\ single # None
        /\ UNCHANGED <<toSend, connected>>
    BY <1>3, <2>1 DEF SendSingle, stateVars
  <2>3. started
    BY <2>2 DEF StartParts, SingleIsNew
  <2>4. \A q \in Request : Known(q)' => Known(q)
    BY <2>1, <2>2 DEF Known, SentAs
  <2> QED
    BY <1>1, <1>2, <2>2, <2>3, <2>4, StartFrame
<1>4. CASE PutResent \/ CheckSentRequests \/ Drop \/ PingTimer
  <2>3. connected' => connected
    BY <1>4 DEF PutResent, CheckSentRequests, Drop, PingTimer, Disconnect, stateVars
  <2>1. /\ UNCHANGED <<haveSent, single>>
        /\ toSend' \cup hand' = toSend \cup hand
    BY <1>4 DEF PutResent, CheckSentRequests, Drop, PingTimer, Disconnect, stateVars, sharedVars,
           trackVars
  <2>2. Sent' = Sent /\ \A q \in Request : Known(q)' => Known(q)
    BY <2>1 DEF Known, SentAs, Sent
  <2> QED
    BY <1>1, <2>1, <2>2, <2>3, StartMoves
<1>5. CASE Connect \/ \E m \in MsgId : ClearOldContainer(m)
  <2>1. /\ haveSent \in [MsgId -> Request \cup {None}]
        /\ resendingIds \in [MsgId -> Request \cup {None}]
    BY DEF TypeOK, SharedTypeOK, TrackTypeOK
  <2>2. UNCHANGED <<toSend, single>>
    BY <1>5 DEF Connect, ClearOldContainer, trackVars
  <2>3. CASE Connect
    <3>1. TakeResent(Sent, haveSent, resendingIds) /\ Sent \in SUBSET MsgId
      BY <2>3 DEF Connect, Sent
    <3>2. haveSent' = [m \in MsgId |-> IF m \in Sent /\ haveSent[m] # None THEN None ELSE haveSent[m]]
      BY <3>1 DEF TakeResent
    <3>3. Sent' = {}
      BY <3>2 DEF Sent
    <3> QED
      BY <1>1, <2>1, <2>2, <3>1, <3>3, ResentStart
  <2>4. ASSUME NEW m \in MsgId, ClearOldContainer(m) PROVE StartParts'
    <3>1. /\ TakeResent(sentContainers[m], haveSent, resendingIds)
          /\ sentContainers[m] \in SUBSET MsgId /\ UNCHANGED connected
      BY <2>4 DEF ClearOldContainer, TypeOK, TrackTypeOK, stateVars
    <3> QED
      BY <1>1, <2>1, <2>2, <3>1, ResentStart
  <2> QED
    BY <1>5, <2>3, <2>4
<1> QED
  BY <1>3, <1>4, <1>5

\* The ids of a packet are new, or those of requests sent in this session.
LEMMA SendingAreNew ==
    ASSUME TypeOK, HandParts, StartParts
    PROVE  \A r \in Sending : IdOf(r) > sessionStart
<1>1. sessionStart \in Nat /\ lastId \in Nat /\ IdsTaken \in Nat
  BY NewIds DEF TypeOK, StateTypeOK
<1>2. ASSUME NEW r \in Sending, NeedsId(r) PROVE IdOf(r) > sessionStart
  <2>1. IdOf(r) \in lastId + 1 .. lastId + IdsTaken
    BY <1>2, NewIds, Zenon
  <2> QED
    BY <1>1, <2>1 DEF StartParts, StartBelow
<1>3. ASSUME NEW r \in Sending, ~NeedsId(r) PROVE IdOf(r) > sessionStart
  <2>1. IdOf(r) = msgIdOf[r] /\ msgIdOf[r] # None /\ started
    BY <1>3 DEF IdOf, NeedsId, ForceNewMsgId
  <2>2. Known(r) /\ r \in Request
    BY NewIds DEF Known, TypeOK, SharedTypeOK
  <2> QED
    BY <2>1, <2>2 DEF StartParts, KnownAreNew, NewEnough
<1> QED
  BY <1>2, <1>3

LEMMA ServiceCounts == ServiceCount \in Nat
<1> DEFINE A == IF PingPart THEN {"ping"} ELSE {}
           B == IF StatePart THEN {"state"} ELSE {}
           C == IF AckPart THEN {"ack"} ELSE {}
           D == IF ResendPart THEN {"resend"} ELSE {}
<1>1. IsFiniteSet(A) /\ IsFiniteSet(B) /\ IsFiniteSet(C) /\ IsFiniteSet(D)
  BY FS_EmptySet, FS_Singleton
<1> HIDE DEF A, B, C, D
<1>2. IsFiniteSet(A \cup B \cup C \cup D)
  BY <1>1, FS_Union
<1>3. Cardinality(A \cup B \cup C \cup D) \in Nat
  BY <1>2, FS_CardinalityType
<1> QED
  BY <1>3 DEF ServiceCount, A, B, C, D

LEMMA TryToSendStart ==
    ASSUME TypeOK, TypeOK', HandParts, OneOwner, Allotted, StartParts, TryToSend,
           ContainerSize >= MaxRequest
    PROVE  StartParts'
<1>1. UNCHANGED <<connected, sessionStart>> /\ PrivateFree /\ single = None
  BY DEF TryToSend, HandParts, PrivateFree
<1>2. CASE ~connected
  <2>1. UNCHANGED <<toSend, haveSent, hand, single, msgIdOf, started, lastId>>
    BY <1>2 DEF TryToSend, objectVars, trackVars
  <2>2. Sent' = Sent /\ \A q \in Request : Known(q)' => Known(q)
    BY <2>1 DEF Known, SentAs, Sent
  <2> QED
    BY <1>1, <2>1, <2>2, StartMoves
<1>3. CASE connected
  <2>1. lastId + MaxRequest + 2 <= MaxMsgId
        /\ (NothingToSend \/ TakeSingle \/ SendSingleService \/ SendContainer)
    BY <1>3 DEF TryToSend
  <2>2. started'
    BY <2>1 DEF NothingToSend, TakeSingle, SendSingleService, SendContainer, TakeService
  <2>3. /\ sessionStart \in Nat /\ lastId \in Nat /\ lastId' \in Nat /\ sessionStart <= lastId
        /\ Sending = toSend /\ \A r \in Sending : r \in Request /\ IdOf(r) > sessionStart
    BY EverythingFits, SendingAreNew DEF TypeOK, StateTypeOK, SharedTypeOK, StartParts, StartBelow
  \* What was known before the session started is in this packet.
  <2>4. ASSUME NEW r \in Request, Known(r), r \notin Sending PROVE NewEnough(r)
    <3>1. SentAs(r) # {}
      BY <1>1, <2>3, <2>4 DEF Known, PrivateFree
    <3>2. Sent # {}
      BY <3>1 DEF SentAs, Sent, Request
    <3>3. started
      BY <1>3, <3>2 DEF StartParts, NothingSentYet
    <3> QED
      BY <2>4, <3>3 DEF StartParts, KnownAreNew
  <2>5. SUFFICES /\ lastId' >= lastId
                 /\ single' # None => single' > sessionStart
                 /\ \A r \in Request : Known(r)' => (Known(r) \/ r \in Sending)
                 /\ \A r \in Request : Known(r)' =>
                        IF r \in Sending THEN msgIdOf'[r] = IdOf(r) ELSE msgIdOf'[r] = msgIdOf[r]
    <3>1. StartBelow'
      BY <1>1, <2>3, <2>5 DEF StartBelow
    <3>2. NothingSentYet' /\ SingleIsNew'
      BY <1>1, <2>2, <2>5 DEF NothingSentYet, SingleIsNew
    <3>3. KnownAreNew'
      <4>1. ASSUME NEW r \in Request, Known(r)' PROVE NewEnough(r)'
        <5>1. CASE r \in Sending
          BY <1>1, <2>3, <2>5, <4>1, <5>1 DEF NewEnough
        <5>2. CASE r \notin Sending
          BY <1>1, <2>4, <2>5, <4>1, <5>2 DEF NewEnough
        <5> QED
          BY <5>1, <5>2
      <4> QED
        BY <4>1 DEF KnownAreNew
    <3> QED
      BY <3>1, <3>2, <3>3 DEF StartParts
  <2>6. CASE NothingToSend \/ SendSingleService
    <3>1. Sending = {}
      <4>1. IsFiniteSet(Sending) /\ Cardinality(Sending) \in Nat
        BY NewIds, RequestSets DEF TypeOK, SharedTypeOK
      <4>2. ServiceCount \in Nat
        BY ServiceCounts
      <4>3. Cardinality(Sending) = 0
        BY <2>6, <4>1, <4>2 DEF NothingToSend, SendSingleService, TotalSending
      <4> QED
        BY <4>1, <4>3, FS_EmptySet
    <3>2. /\ UNCHANGED <<toSend, haveSent, hand, single, msgIdOf>> /\ lastId' >= lastId
      BY <2>3, <2>6 DEF NothingToSend, SendSingleService, objectVars, trackVars
    <3>3. \A r \in Request : Known(r)' => Known(r)
      BY <3>2 DEF Known, SentAs
    <3> QED
      BY <1>1, <3>1, <3>2, <3>3
  <2>7. CASE TakeSingle
    <3>1. /\ toSend' = toSend \ Sending /\ hand' = Sending /\ UNCHANGED haveSent
          /\ msgIdOf' = SetIds(msgIdOf) /\ lastId' = lastId + IdsTaken
          /\ single' = IdOf(CHOOSE r \in Sending : TRUE)
      BY <2>7 DEF TakeSingle
    <3>2. Sending # {}
      <4>1. TotalSending = 1 /\ ServiceCount = 0
        BY <2>7 DEF TakeSingle
      <4> QED
        BY <4>1, FS_EmptySet DEF TotalSending
    <3>3. single' > sessionStart
      BY <2>3, <3>1, <3>2
    <3>4. lastId' >= lastId
      BY <2>3, <3>1, NewIds
    <3>5. \A r \in Request : Known(r)' => (Known(r) \/ r \in Sending)
      BY <3>1 DEF Known, SentAs
    <3> QED
      BY <3>1, <3>3, <3>4, <3>5 DEF SetIds
  <2>8. CASE SendContainer
    <3>1. /\ toSend' = toSend \ Sending /\ UNCHANGED <<hand, single>>
          /\ msgIdOf' = SetIds(msgIdOf)
      BY <2>8 DEF SendContainer
    <3>2. /\ \A m \in MsgId : \A r \in Request : haveSent'[m] = r => r \in Sending \/ haveSent[m] = r
          /\ lastId' >= lastId + IdsTaken
      BY <2>1, <2>8, ContainerMaps
    <3>3. lastId' >= lastId
      BY <2>3, <3>2, NewIds
    <3>4. \A r \in Request : Known(r)' => (Known(r) \/ r \in Sending)
      BY <3>1, <3>2 DEF Known, SentAs
    <3> QED
      BY <1>1, <3>1, <3>3, <3>4 DEF SetIds
  <2> QED
    BY <2>1, <2>6, <2>7, <2>8
<1> QED
  BY <1>2, <1>3

LEMMA StartStep ==
    ASSUME TypeOK, TypeOK', HandParts, OneOwner, Allotted, StartParts, Next,
           ContainerSize >= MaxRequest
    PROVE  StartParts'
<1>1. CASE MainStep
  BY <1>1, MainStart
<1>2. CASE ServerStep
  <2>1. UNCHANGED <<toSend, haveSent, hand, single, msgIdOf, started, lastId, connected, sessionStart>>
    BY <1>2, ServerLeavesClient DEF sharedVars, objectVars, trackVars, stateVars
  <2>2. Sent' = Sent /\ \A q \in Request : Known(q)' => Known(q)
    BY <2>1 DEF Known, SentAs, Sent
  <2> QED
    BY <2>1, <2>2, StartMoves
<1>3. CASE HandleReceived
  BY <1>3, HandlersStart
<1>4. CASE TryToSend
  BY <1>4, TryToSendStart
<1>5. CASE \/ SendSingle \/ PutResent \/ CheckSentRequests \/ Connect \/ Drop \/ PingTimer
           \/ \E m \in MsgId : ClearOldContainer(m)
  BY <1>5, ThreadStart
<1> QED
  BY <1>1, <1>2, <1>3, <1>4, <1>5 DEF Next, PrivateStep

\* What is in the connection towards the server changes when a packet is sent or
\* taken and when the connection is lost.
LEMMA MessagesKept ==
    ASSUME TypeOK, MessagesOfThisSession, UNCHANGED <<session, sessionStart>>,
           c2s' \in {c2s, <<>>} \/ (c2s # <<>> /\ c2s' = Tail(c2s))
    PROVE  MessagesOfThisSession'
<1>1. c2s \in Seq(Packets)
  BY DEF TypeOK, NetTypeOK
<1>2. CASE c2s' = c2s
  BY <1>2 DEF MessagesOfThisSession
<1>3. CASE c2s' = <<>>
  BY <1>3 DEF MessagesOfThisSession
<1>4. CASE c2s # <<>> /\ c2s' = Tail(c2s)
  <2>1. ASSUME NEW i \in DOMAIN c2s' PROVE i + 1 \in DOMAIN c2s /\ c2s'[i] = c2s[i + 1]
    BY <1>1, <1>4, <2>1
  <2> QED
    BY <2>1 DEF MessagesOfThisSession
<1> QED
  BY <1>2, <1>3, <1>4

LEMMA MessagesSent ==
    ASSUME TypeOK, MessagesOfThisSession, UNCHANGED <<session, sessionStart>>,
           NEW msgs, NEW container, NEW stateId, c2s' = Append(c2s, Packet(msgs, container, stateId)),
           \A x \in msgs : x[1] > sessionStart
    PROVE  MessagesOfThisSession'
<1>1. c2s \in Seq(Packets)
  BY DEF TypeOK, NetTypeOK
<1>2. PICK p : p = Packet(msgs, container, stateId)
  OBVIOUS
<1>3. p.msgs = msgs
  BY <1>2 DEF Packet
<1>4. ASSUME NEW i \in DOMAIN c2s', i \notin DOMAIN c2s PROVE c2s'[i] = p
  BY <1>1, <1>2, <1>4
<1>5. ASSUME NEW i \in DOMAIN c2s PROVE c2s'[i] = c2s[i]
  BY <1>1, <1>5
<1> QED
  BY <1>3, <1>4, <1>5 DEF MessagesOfThisSession

LEMMA MessagesStep ==
    ASSUME TypeOK, HandParts, StartParts, MessagesOfThisSession, Next
    PROVE  MessagesOfThisSession'
<1>1. CASE MainStep
  <2>1. UNCHANGED <<c2s, session, sessionStart>>
    BY <1>1 DEF MainStep, SendRequest, CancelBegin, CancelToSend, CancelHaveSent, ProcessCallback,
       CheckDelayedRequests, netVars, stateVars
  <2> QED
    BY <2>1, MessagesKept
<1>2. CASE ServerStep
  <2>1. UNCHANGED <<session, sessionStart>>
    BY <1>2, ServerLeavesClient DEF stateVars
  <2>2. c2s' = c2s \/ (c2s # <<>> /\ c2s' = Tail(c2s))
    BY <1>2 DEF ServerStep, ServerReceive, ServerForget, TimePasses, ServerExecute,
       ServerAnswerAgain, ServerResend, ServerRepeat, ServerFrame, Take
  <2> QED
    BY <2>1, <2>2, MessagesKept
<1>3. CASE HandleReceived
  <2>1. c2s' = <<>> \/ UNCHANGED <<c2s, session, sessionStart>>
    BY <1>3 DEF HandleReceived, HandleUnknown, HandleAck, HandleNewResult, HandleDuplicate,
       HandleReset, HandleTooLow, HandleFatal, HandleStates, HandleNewSession, HandleDetailed,
       HandlePong, SameSession, ResetSession, Disconnect
  <2>2. CASE c2s' = <<>>
    BY <2>2 DEF MessagesOfThisSession
  <2> QED
    BY <2>1, <2>2, MessagesKept
<1>4. CASE SendSingle
  <2>1. PICK r : r = CHOOSE q \in hand : TRUE
    OBVIOUS
  <2>2. /\ c2s' = Append(c2s, Packet({<<single, r>>}, None, None))
        /\ single # None /\ UNCHANGED <<session, sessionStart>>
    BY <1>4, <2>1 DEF SendSingle, stateVars
  <2>3. \A x \in {<<single, r>>} : x[1] > sessionStart
    BY <2>2 DEF StartParts, SingleIsNew
  <2> QED
    BY <2>2, <2>3, MessagesSent
<1>5. CASE \/ PutResent \/ CheckSentRequests \/ Connect \/ Drop \/ PingTimer
           \/ \E m \in MsgId : ClearOldContainer(m)
  <2>1. UNCHANGED <<session, sessionStart>> /\ c2s' \in {c2s, <<>>}
    BY <1>5 DEF PutResent, CheckSentRequests, Connect, Drop, PingTimer, ClearOldContainer,
       Disconnect, stateVars, netVars
  <2> QED
    BY <2>1, MessagesKept
<1>6. CASE TryToSend
  <2>1. UNCHANGED <<session, sessionStart>>
    BY <1>6 DEF TryToSend
  <2>2. CASE UNCHANGED c2s
    BY <2>1, <2>2, MessagesKept
  <2>3. CASE SendSingleService
    <3>1. c2s' = Append(c2s, Packet({}, None, IF StatePart THEN lastId + 1 ELSE None))
      BY <2>3 DEF SendSingleService
    <3> QED
      BY <2>1, <3>1, MessagesSent
  <2>4. CASE SendContainer
    <3> DEFINE msgs == {<<IdOf(r), r>> : r \in Sending}
    <3>1. PICK container, stateId : c2s' = Append(c2s, Packet(msgs, container, stateId))
      BY <2>4 DEF SendContainer
    <3>2. \A x \in msgs : x[1] > sessionStart
      BY SendingAreNew
    <3> QED
      BY <2>1, <3>1, <3>2, MessagesSent
  <2> QED
    BY <1>6, <2>2, <2>3, <2>4 DEF TryToSend, NothingToSend, TakeSingle, netVars
<1> QED
  BY <1>1, <1>2, <1>3, <1>4, <1>5, <1>6 DEF Next, PrivateStep

\* Every message that is sent has an id allotted in its session, when one packet
\* has room for all there is to send: the server cannot take it for one of the
\* session before.
THEOREM MessagesAreOfTheSession ==
    ASSUME ContainerSize >= MaxRequest
    PROVE  Spec => []MessagesOfThisSession
<1> DEFINE Inv == StartParts /\ MessagesOfThisSession
<1>1. Init => Inv
  BY DEF Init, StartParts, StartBelow, NothingSentYet, KnownAreNew, SingleIsNew,
         MessagesOfThisSession
<1>2. SessionInv /\ SessionInv' /\ Inv /\ [Next]_vars => Inv'
  <2> SUFFICES ASSUME SessionInv, SessionInv', Inv, [Next]_vars PROVE Inv'
    OBVIOUS
  <2>1. CASE Next
    BY <2>1, StartStep, MessagesStep DEF SessionInv
  <2>2. CASE UNCHANGED vars
    BY <2>2 DEF StartParts, StartBelow, NothingSentYet, KnownAreNew, SingleIsNew, NewEnough,
       MessagesOfThisSession, Known, SentAs, Sent, vars, sharedVars, objectVars, trackVars,
       stateVars, netVars
  <2> QED
    BY <2>1, <2>2
<1>3. Inv => MessagesOfThisSession
  OBVIOUS
<1> QED
  BY <1>1, <1>2, <1>3, InvHolds, PTL DEF Spec

-----------------------------------------------------------------------------
(* One place for each request. *)

GoodReplies == {x \in Replies : x.type # "fatal" /\ (x.type = "result" => x.ok)}
NoErrors ==
    /\ delayed = {}
    /\ \A a \in answers : a.ok
    /\ s2c \in Seq(GoodReplies)
    /\ haveReceived \in Seq([request : Request, ok : {TRUE}])

\* What the server adds to the connection, when no message is refused for good:
\* the answers it has, and messages that answer nothing.
LEMMA IfReply ==
    ASSUME NEW G, NEW condition, NEW message, condition => message \in G
    PROVE  If(condition, message) \in Seq(G)
<1>1. CASE condition
  <2>1. If(condition, message) = <<message>>
    BY <1>1 DEF If
  <2> QED
    BY <1>1, <2>1, Queues
<1>2. CASE ~condition
  <2>1. If(condition, message) = <<>>
    BY <1>2 DEF If
  <2> QED
    BY <2>1, Queues
<1> QED
  BY <1>1, <1>2

Others == {x \in Replies : x.type \notin {"result", "fatal"}}

LEMMA TakeReplies ==
    ASSUME TypeOK, c2s # <<>>, NEW G, Others \in SUBSET G, s2c \in Seq(G),
           NEW bad, NEW reply \in Seq(G), Take(bad, reply)
    PROVE  s2c' \in Seq(G)
<1>1. PICK p \in Packets : p = Head(c2s)
  BY Queues DEF TypeOK, NetTypeOK
<1> DEFINE new == p.session # srvSession
           had == IF new THEN {} ELSE got
           ids == {x[1] : x \in {y \in p.msgs : y[1] \notin bad}}
           a == [type |-> "newSession", msgId |-> p.first]
           b == [type |-> "ack", ids |-> IF p.container = None THEN ids ELSE {p.container}]
           c == [type |-> "states", msgId |-> p.stateId, ids |-> p.ask \cap (had \cup ids)]
           d == [type |-> "pong"]
<1>2. /\ p.session \in Nat /\ p.msgs \in SUBSET (MsgId \X Request)
      /\ p.container \in MsgId \cup {None} /\ p.first \in Nat /\ p.resend \in SUBSET Nat
      /\ p.stateId \in MsgId \cup {None} /\ p.ask \in SUBSET MsgId
  BY <1>1 DEF Packets
<1>3. ids \in SUBSET MsgId
  BY <1>2
<1>4. PICK acking \in {TRUE, "old" \notin Faults} :
        s2c' = s2c \o If(new, a) \o If(acking /\ ids # {}, b) \o reply
           \o If(p.stateId # None, c) \o If(p.ping, d)
  BY <1>1 DEF Take
<1>5. a \in Others
  BY <1>2 DEF Replies, Others
<1>6. b \in Others
  BY <1>2, <1>3 DEF Replies, Others
<1>7. p.stateId # None => c \in Others
  BY <1>2 DEF Replies, Others
<1>8. d \in Others
  BY DEF Replies, Others
<1> HIDE DEF a, b, c, d, new, ids
<1>9. /\ If(new, a) \in Seq(G) /\ If(acking /\ ids # {}, b) \in Seq(G)
      /\ If(p.stateId # None, c) \in Seq(G) /\ If(p.ping, d) \in Seq(G)
  BY <1>5, <1>6, <1>7, <1>8, IfReply
<1> QED
  BY <1>4, <1>9, Queues

LEMMA ServerReplies ==
    ASSUME TypeOK, "fatal" \notin Faults, ServerStep, NEW G, Others \in SUBSET G, s2c \in Seq(G),
           Online => \A a \in answers \cup answers' : Result(a) \in G
    PROVE  s2c' \in Seq(G)
<1>1. CASE ServerReceive
  <2>1. c2s # <<>>
    BY <1>1 DEF ServerReceive
  <2>2. Head(c2s).msgs \in SUBSET (MsgId \X Request)
    <3>1. Head(c2s) \in Packets
      BY <2>1, Queues DEF TypeOK, NetTypeOK
    <3> QED
      BY <3>1 DEF Packets
  <2>3. CASE Take({}, <<>>)
    <3>1. <<>> \in Seq(G)
      BY Queues
    <3> QED
      BY <2>1, <2>3, <3>1, TakeReplies
  <2>4. CASE Take(TooLow, <<[type |-> "low", ids |-> TooLow]>>)
    <3>1. TooLow \in SUBSET MsgId
      BY <2>2 DEF TooLow
    <3>2. [type |-> "low", ids |-> TooLow] \in Others
      BY <3>1 DEF Others, Replies
    <3>3. <<[type |-> "low", ids |-> TooLow]>> \in Seq(G)
      BY <3>2, Queues
    <3> QED
      BY <2>1, <2>4, <3>3, TakeReplies
  <2>5. CASE \E kind \in {"seqno", "fatal"} : \E x \in Head(c2s).msgs :
                Fault(kind) /\ Take({x[1]}, <<[type |-> kind, msgId |-> x[1]]>>)
    <3>1. PICK x \in Head(c2s).msgs : Take({x[1]}, <<[type |-> "seqno", msgId |-> x[1]]>>)
      BY <2>5 DEF Fault
    <3>2. [type |-> "seqno", msgId |-> x[1]] \in Others
      BY <2>2 DEF Others, Replies
    <3>3. <<[type |-> "seqno", msgId |-> x[1]]>> \in Seq(G)
      BY <3>2, Queues
    <3> QED
      BY <2>1, <3>1, <3>3, TakeReplies
  <2> QED
    BY <1>1, <2>3, <2>4, <2>5 DEF ServerReceive
<1>2. CASE ServerForget \/ TimePasses
  BY <1>2 DEF ServerForget, TimePasses
<1>3. ASSUME NEW x \in todo, ServerExecute(x) PROVE s2c' \in Seq(G)
  <2>1. PICK a \in answers' : s2c' = s2c \o If(Online, Result(a))
    <3>1. PICK ok \in BOOLEAN :
          LET a == [msgId |-> x[1], answer |-> lastAnswer + 1, ok |-> ok] IN
          /\ answers' = answers \cup {a}
          /\ s2c' = s2c \o If(Online, Result(a))
      BY <1>3 DEF ServerExecute
    <3> QED
      BY <3>1
  <2>2. If(Online, Result(a)) \in Seq(G)
    BY <2>1, IfReply
  <2> QED
    BY <2>1, <2>2, Queues
<1>4. ASSUME NEW x \in todo, ServerAnswerAgain(x) PROVE s2c' \in Seq(G)
  <2>1. PICK a \in answers :
          \/ s2c' = s2c \o If(Online, Result(a))
          \/ s2c' = s2c \o If(Online, [type |-> "detailed", msgId |-> a.msgId, answer |-> a.answer])
    BY <1>4 DEF ServerAnswerAgain
  <2>2. [type |-> "detailed", msgId |-> a.msgId, answer |-> a.answer] \in Others
    BY DEF Others, Replies, TypeOK, ServerTypeOK
  <2>3. /\ If(Online, Result(a)) \in Seq(G)
        /\ If(Online, [type |-> "detailed", msgId |-> a.msgId, answer |-> a.answer]) \in Seq(G)
    BY <2>2, IfReply
  <2> QED
    BY <2>1, <2>3, Queues
<1>5. ASSUME NEW a \in answers, ServerResend(a) \/ ServerRepeat(a) PROVE s2c' \in Seq(G)
  <2>1. Online /\ s2c' = Append(s2c, Result(a))
    BY <1>5 DEF ServerResend, ServerRepeat
  <2> QED
    BY <2>1, Queues
<1> QED
  BY <1>1, <1>2, <1>3, <1>4, <1>5 DEF ServerStep

\* What becomes of the answers: one more, some less, none.
LEMMA AnswersNext ==
    ASSUME ServerStep
    PROVE  \/ \E x \in todo : ServerExecute(x)
           \/ answers' \in SUBSET answers
<1>1. ASSUME ServerReceive PROVE answers' \in SUBSET answers
  BY <1>1 DEF ServerReceive, Take
<1> QED
  BY <1>1 DEF ServerStep, ServerForget, TimePasses, ServerAnswerAgain, ServerResend, ServerRepeat

LEMMA NoErrorsServer ==
    ASSUME TypeOK, NoErrors, ServerStep, "error" \notin Faults, "fatal" \notin Faults
    PROVE  NoErrors'
<1>1. UNCHANGED <<delayed, haveReceived>>
  BY ServerLeavesClient DEF mainVars, sharedVars
<1>2. \A a \in answers' : a.ok /\ a \in [msgId : MsgId, answer : Nat, ok : BOOLEAN]
  <2>1. ASSUME NEW x \in todo, ServerExecute(x), NEW a \in answers'
        PROVE  a.ok /\ a \in [msgId : MsgId, answer : Nat, ok : BOOLEAN]
    <3>1. x[1] \in MsgId /\ lastAnswer \in Nat
      BY DEF TypeOK, ServerTypeOK
    <3>2. PICK ok \in BOOLEAN :
            /\ IF ok THEN UNCHANGED faults ELSE Fault("error")
            /\ answers' = answers \cup {[msgId |-> x[1], answer |-> lastAnswer + 1, ok |-> ok]}
      BY <2>1 DEF ServerExecute
    <3>3. ok
      BY <3>2 DEF Fault
    <3>4. CASE a \in answers
      BY <3>4 DEF NoErrors, TypeOK, ServerTypeOK
    <3>5. CASE a = [msgId |-> x[1], answer |-> lastAnswer + 1, ok |-> ok]
      BY <3>1, <3>3, <3>5
    <3> QED
      BY <2>1, <3>2, <3>4, <3>5
  <2> QED
    BY <2>1, AnswersNext DEF NoErrors, TypeOK, ServerTypeOK
<1>3. \A a \in answers \cup answers' : Result(a) \in GoodReplies
  BY <1>2 DEF NoErrors, GoodReplies, Replies, Result, TypeOK, ServerTypeOK
<1>4. s2c' \in Seq(GoodReplies)
  <2>1. Others \in SUBSET GoodReplies
    BY DEF Others, GoodReplies
  <2>2. s2c \in Seq(GoodReplies)
    BY DEF NoErrors
  <2> QED
    BY <1>3, <2>1, <2>2, ServerReplies
<1> QED
  BY <1>1, <1>2, <1>4 DEF NoErrors

LEMMA NoErrorsMain ==
    ASSUME TypeOK, NoErrors, MainStep
    PROVE  NoErrors'
<1>1. UNCHANGED <<answers, s2c>>
  BY DEF MainStep, SendRequest, CancelBegin, CancelToSend, CancelHaveSent, ProcessCallback,
         CheckDelayedRequests, serverVars, netVars
<1>2. CASE ProcessCallback
  <2>1. /\ Head(haveReceived) \in [request : Request, ok : {TRUE}]
        /\ haveReceived' \in Seq([request : Request, ok : {TRUE}])
    BY <1>2, Queues DEF NoErrors, ProcessCallback
  <2>2. Head(haveReceived).ok
    BY <2>1
  <2>3. delayed' = delayed
    BY <1>2, <2>2 DEF ProcessCallback
  <2> QED
    BY <1>1, <2>1, <2>3 DEF NoErrors
<1>3. CASE ~ProcessCallback
  <2>1. UNCHANGED <<delayed, haveReceived>>
    BY <1>3 DEF MainStep, SendRequest, CancelBegin, CancelToSend, CancelHaveSent,
       CheckDelayedRequests, sharedVars, NoErrors
  <2> QED
    BY <1>1, <2>1 DEF NoErrors
<1> QED
  BY <1>2, <1>3

LEMMA NoErrorsPrivate ==
    ASSUME TypeOK, NoErrors, PrivateStep
    PROVE  NoErrors' /\ ~HandleFatal /\ (HandleNewResult => Message.ok)
<1>1. UNCHANGED <<answers, delayed>>
  BY DEF PrivateStep, TryToSend, SendSingle, PutResent, CheckSentRequests, Connect, Drop,
       PingTimer, ClearOldContainer, HandleReceived, HandleUnknown, HandleAck, HandleNewResult,
       HandleDuplicate, HandleReset, HandleTooLow, HandleFatal, HandleStates, HandleNewSession,
       HandleDetailed, HandlePong, HandlerFrame, mainVars, serverVars
<1>2. s2c # <<>> => Head(s2c) \in GoodReplies /\ Tail(s2c) \in Seq(GoodReplies)
  BY Queues DEF NoErrors
<1>3. ~HandleFatal
  BY <1>2 DEF HandleFatal, Is, GoodReplies
<1>4. HandleNewResult => Message.ok
  BY <1>2 DEF HandleNewResult, Is, GoodReplies, Message
<1>5. s2c' \in Seq(GoodReplies)
  <2>1. s2c' = s2c \/ s2c' = <<>> \/ (s2c # <<>> /\ s2c' = Tail(s2c))
    BY DEF PrivateStep, TryToSend, SendSingle, PutResent, CheckSentRequests, Connect, Drop,
       PingTimer, ClearOldContainer, HandleReceived, HandleUnknown, HandleAck, HandleNewResult,
       HandleDuplicate, HandleReset, HandleTooLow, HandleFatal, HandleStates, HandleNewSession,
       HandleDetailed, HandlePong, NothingToSend, TakeSingle, SendSingleService, SendContainer,
       Is, ResetSession, Disconnect, netVars
  <2>2. <<>> \in Seq(GoodReplies)
    BY Queues
  <2> QED
    BY <1>2, <2>1, <2>2 DEF NoErrors
<1>6. haveReceived' \in Seq([request : Request, ok : {TRUE}])
  <2>1. CASE HandleNewResult
    <3>1. PICK q : q = RequestOf(resendingIds', ackedIds', haveSent', Message.msgId)
      OBVIOUS
    <3>2. q \in Request \cup {None}
      <4>1. Message.msgId \in MsgId
        BY <2>1, MessageTypes DEF HandleNewResult
      <4>2. /\ haveSent' \in [MsgId -> Request \cup {None}]
            /\ resendingIds' \in [MsgId -> Request \cup {None}]
            /\ ackedIds' \in [MsgId -> Request \cup {None}]
        BY <2>1, RequestsAckedTypes DEF HandleNewResult
      <4> QED
        BY <3>1, <4>1, <4>2 DEF RequestOf
    <3>3. haveReceived' = IF q = None THEN haveReceived
                          ELSE Append(haveReceived, [request |-> q, ok |-> Message.ok])
      BY <2>1, <3>1 DEF HandleNewResult, Respond
    <3>4. q # None => [request |-> q, ok |-> Message.ok] \in [request : Request, ok : {TRUE}]
      <4>1. Message.ok = TRUE
        <5>1. Message.ok \in BOOLEAN
          BY <2>1, MessageTypes DEF HandleNewResult
        <5> QED
          BY <1>4, <2>1, <5>1
      <4> QED
        BY <3>2, <4>1
    <3>5. haveReceived \in Seq([request : Request, ok : {TRUE}])
      BY DEF NoErrors
    <3> QED
      BY <3>3, <3>4, <3>5, Queues
  <2>2. CASE ~HandleNewResult
    <3>1. UNCHANGED haveReceived
      BY <1>3, <2>2 DEF PrivateStep, TryToSend, SendSingle, PutResent, CheckSentRequests, Connect,
       Drop, PingTimer, ClearOldContainer, HandleReceived, HandleUnknown, HandleAck,
       HandleDuplicate, HandleReset, HandleTooLow, HandleStates, HandleNewSession,
       HandleDetailed, HandlePong, sharedVars
    <3> QED
      BY <3>1 DEF NoErrors
  <2> QED
    BY <2>1, <2>2
<1> QED
  BY <1>1, <1>3, <1>4, <1>5, <1>6 DEF NoErrors

\* The id of a container is that of no request.
ContainersApart == \A m \in MsgId : sentContainers[m] # {} =>
    m <= lastId /\ \A r \in Request : ~Names(m, r)

LEMMA ApartFrame ==
    ASSUME TypeOK, TypeOK', ContainersApart, Shrinks,
           \A m \in MsgId : sentContainers'[m] \in {sentContainers[m], {}}
    PROVE  ContainersApart'
<1>1. lastId \in Nat /\ lastId' \in Nat /\ \A m \in MsgId : m \in Nat
  BY DEF TypeOK, StateTypeOK, MsgId
<1>2. \A m \in MsgId : \A r \in Request : Names(m, r)' => Names(m, r)
  BY DEF Shrinks
<1>3. \A m \in MsgId : sentContainers'[m] # {} => sentContainers[m] # {}
  OBVIOUS
<1> QED
  BY <1>1, <1>2, <1>3 DEF ContainersApart, Shrinks

LEMMA ApartStep ==
    ASSUME TypeOK, TypeOK', HandParts, OneOwner, Allotted, ContainersApart, Next
    PROVE  ContainersApart'
<1>1. CASE MainStep
  <2>1. UNCHANGED sentContainers
    BY <1>1 DEF MainStep, SendRequest, CancelBegin, CancelToSend, CancelHaveSent, ProcessCallback,
         CheckDelayedRequests, trackVars
  <2> QED
    BY <1>1, <2>1, MainShrinks, ApartFrame
<1>2. CASE ServerStep
  <2>1. UNCHANGED <<haveSent, resendingIds, ackedIds, msgIdOf, single, hand, cancelling, lastId,
                    sentContainers>>
    BY <1>2, ServerLeavesClient DEF mainVars, sharedVars, objectVars, trackVars, stateVars
  <2> QED
    BY <2>1 DEF ContainersApart, Names
<1>3. CASE HandleReceived
  <2>1. \A m \in MsgId : sentContainers'[m] \in {sentContainers[m], {}}
    <3>1. CASE UNCHANGED sentContainers
      BY <3>1
    <3>2. CASE HandleAck \/ HandleNewResult \/ HandleDetailed \/ HandleStates
      <4>1. PICK ids, byResponse : sentContainers' = Acked(ids, byResponse).sentContainers
        BY <3>2 DEF HandleAck, HandleNewResult, HandleDetailed, HandleStates, RequestsAcked, TakeAcked
      <4>2. sentContainers' = [m \in MsgId |-> IF m \in ids THEN {} ELSE sentContainers[m]]
        BY <4>1 DEF Acked
      <4> QED
        BY <4>2
    <3> QED
      BY <1>3, <3>1, <3>2 DEF HandleReceived, HandleUnknown, HandleDuplicate, HandleReset,
         HandleTooLow, HandleFatal, HandleNewSession, HandlePong
  <2> QED
    BY <1>3, <2>1, HandlersShrink, ApartFrame
<1>4. CASE \/ SendSingle \/ PutResent \/ CheckSentRequests \/ Connect \/ Drop \/ PingTimer
           \/ \E m \in MsgId : ClearOldContainer(m)
           \/ TryToSend /\ (~connected \/ NothingToSend \/ SendSingleService)
  <2>1. \A m \in MsgId : sentContainers'[m] \in {sentContainers[m], {}}
    BY <1>4 DEF SendSingle, PutResent, CheckSentRequests, Connect, Drop, PingTimer,
       ClearOldContainer, TryToSend, NothingToSend, SendSingleService, trackVars,
       TypeOK, TrackTypeOK
  <2> QED
    BY <1>4, <2>1, ThreadShrinks, ApartFrame
<1>5. CASE TryToSend /\ connected /\ (TakeSingle \/ SendContainer)
  <2>1. RenamesOnly
    BY <1>5, SingleRenames, ContainerRenames
  <2>2. lastId \in Nat /\ lastId' \in Nat /\ IdsTaken \in Nat /\ \A m \in MsgId : m \in Nat
    BY NewIds DEF TypeOK, StateTypeOK, MsgId
  \* What was a container stays one, with the ids of its requests replaced.
  <2>3. ASSUME NEW m \in MsgId, sentContainers[m] # {}
        PROVE  m <= lastId' /\ \A r \in Request : ~Names(m, r)'
    BY <2>1, <2>2, <2>3 DEF ContainersApart, RenamesOnly
  <2>4. CASE TakeSingle
    <3>1. UNCHANGED sentContainers
      BY <2>4 DEF TakeSingle
    <3> QED
      BY <2>3, <3>1 DEF ContainersApart
  <2>5. CASE SendContainer
    <3> DEFINE container == IF Sending = {} THEN None
                            ELSE lastId + IdsTaken + (IF StatePart THEN 2 ELSE 1)
    <3>1. /\ \A m \in MsgId : m # container =>
               sentContainers'[m] = {NewName(k) : k \in sentContainers[m]}
          /\ Sending # {} => lastId' = container
      BY <2>5 DEF SendContainer
    <3>2. container \in MsgId => lastId' = container /\ container > lastId + IdsTaken
      BY <2>2, <3>1 DEF MsgId
    <3>3. ASSUME NEW m \in MsgId, m = container, NEW r \in Request PROVE ~Names(m, r)'
      <4>1. m > lastId + IdsTaken /\ ~(m <= lastId)
        BY <2>2, <3>2, <3>3
      <4>2. Names(m, r)' => r \in Sending /\ IdOf(r) = m
        BY <2>1, <4>1 DEF RenamesOnly
      <4>3. Names(m, r)' => m \in lastId + 1 .. lastId + IdsTaken
        BY <4>1, <4>2, NewIdsAbove
      <4> QED
        BY <2>2, <4>1, <4>3
    <3> HIDE DEF container
    <3>4. ASSUME NEW m \in MsgId, m # container, sentContainers'[m] # {} PROVE sentContainers[m] # {}
      BY <3>1, <3>4
    <3>5. ASSUME NEW m \in MsgId, sentContainers'[m] # {}
          PROVE  m <= lastId' /\ \A r \in Request : ~Names(m, r)'
      <4>1. CASE m = container
        BY <2>2, <3>2, <3>3, <4>1
      <4>2. CASE m # container
        BY <2>3, <3>4, <3>5, <4>2
      <4> QED
        BY <4>1, <4>2
    <3> QED
      BY <3>5 DEF ContainersApart
  <2> QED
    BY <1>5, <2>4, <2>5
<1> QED
  BY <1>1, <1>2, <1>3, <1>4, <1>5 DEF Next, PrivateStep, TryToSend

\* Only the main thread makes a request known to the session.
LEMMA ResentKnown ==
    ASSUME TypeOK, NEW ids \in SUBSET MsgId, NEW sent \in [MsgId -> Request \cup {None}],
           NEW resending \in [MsgId -> Request \cup {None}], TakeResent(ids, sent, resending),
           \A m \in MsgId : sent[m] \in {haveSent[m], None}, toSend' \in SUBSET toSend
    PROVE  \A r \in Request : Known(r)' => Known(r)
<1>1. \A m \in MsgId : haveSent'[m] \in {haveSent[m], None}
  BY ResentPointwise
<1>2. \A r \in hand' : \E m \in ids : sent[m] = r
  BY DEF TakeResent
<1>3. ASSUME NEW r \in Request, Known(r)' PROVE Known(r)
  <2>1. (\E m \in MsgId : haveSent'[m] = r) \/ r \in hand' \/ r \in toSend'
    BY <1>3 DEF Known, SentAs
  <2>2. CASE r \in toSend'
    BY <2>2 DEF Known
  <2>3. CASE (\E m \in MsgId : haveSent'[m] = r) \/ r \in hand'
    <3>1. \E m \in MsgId : haveSent[m] = r
      BY <1>1, <1>2, <2>3 DEF Request
    <3> QED
      BY <3>1 DEF Known, SentAs
  <2> QED
    BY <2>1, <2>2, <2>3
<1> QED
  BY <1>3

LEMMA AckedKnown ==
    ASSUME TypeOK, NEW ids \in SUBSET MsgId, NEW byResponse \in BOOLEAN,
           RequestsAcked(ids, byResponse), UNCHANGED hand
    PROVE  \A r \in Request : Known(r)' => Known(r)
<1>1. PICK now : now = Acked(ids, byResponse)
  OBVIOUS
<1>2. haveSent' = now.haveSent /\ toSend' = now.toSend
  BY <1>1 DEF RequestsAcked, TakeAcked
<1>3. now.toSend \in SUBSET toSend
  BY <1>1, AckedTypes
<1>4. \A m \in MsgId : now.haveSent[m] \in {haveSent[m], None}
  BY <1>1, AckedMoves
<1> QED
  BY <1>2, <1>3, <1>4 DEF Known, SentAs, Request

LEMMA HandlersKnown ==
    ASSUME TypeOK, HandleReceived
    PROVE  \A r \in Request : Known(r)' => Known(r)
<1>1. PrivateFree
  BY DEF HandleReceived, HandleUnknown, HandleAck, HandleNewResult, HandleDuplicate, HandleReset,
         HandleTooLow, HandleFatal, HandleStates, HandleNewSession, HandleDetailed, HandlePong, Is
<1>2. CASE HandleUnknown \/ HandleDuplicate \/ HandleFatal \/ HandlePong \/ HandleReset
  <2>1. UNCHANGED <<toSend, haveSent, hand>>
    BY <1>2 DEF HandleUnknown, HandleDuplicate, HandleFatal, HandlePong, HandleReset, sharedVars
  <2> QED
    BY <2>1 DEF Known, SentAs
<1>3. CASE HandleAck
  BY <1>3, AckedKnown, MessageTypes DEF HandleAck
<1>4. CASE HandleNewResult \/ HandleDetailed
  <2>1. UNCHANGED hand /\ Message.msgId \in MsgId
    BY <1>4, MessageTypes DEF HandleNewResult, HandleDetailed
  <2>2. RequestsAcked({Message.msgId}, TRUE) \/ RequestsAcked({Message.msgId}, FALSE)
    BY <1>4 DEF HandleNewResult, HandleDetailed
  <2> QED
    BY <2>1, <2>2, AckedKnown
<1>5. CASE HandleTooLow \/ HandleNewSession
  <2>1. PICK ids \in SUBSET MsgId : TakeResent(ids, haveSent, resendingIds)
    <3>1. CASE HandleTooLow
      BY <3>1, MessageTypes DEF HandleTooLow
    <3>2. CASE HandleNewSession
      <4>1. {m \in Sent : m < Message.msgId} \in SUBSET MsgId
        BY DEF Sent
      <4> QED
        BY <3>2, <4>1 DEF HandleNewSession
    <3> QED
      BY <1>5, <3>1, <3>2
  <2>2. UNCHANGED toSend
    BY <1>5 DEF HandleTooLow, HandleNewSession
  <2>3. /\ haveSent \in [MsgId -> Request \cup {None}]
        /\ resendingIds \in [MsgId -> Request \cup {None}]
    BY DEF TypeOK, SharedTypeOK, TrackTypeOK
  <2> QED
    BY <2>1, <2>2, <2>3, ResentKnown
<1>6. CASE HandleStates
  <2>1. PICK asked : asked = stateRequests[Message.msgId] /\ asked \in SUBSET MsgId
    BY <1>6, MessageTypes DEF HandleStates, TypeOK, ServiceTypeOK
  <2>2. PICK now : /\ now = Acked(asked \cap Message.ids, FALSE)
                   /\ TakeResent(asked \ Message.ids, now.haveSent, now.resendingIds)
                   /\ TakeAcked(now)
    BY <1>6, <2>1 DEF HandleStates
  <2>3. /\ now.haveSent \in [MsgId -> Request \cup {None}]
        /\ now.resendingIds \in [MsgId -> Request \cup {None}]
        /\ now.toSend \in SUBSET toSend
    BY <2>2, AckedTypes
  <2>4. \A m \in MsgId : now.haveSent[m] \in {haveSent[m], None}
    BY <2>1, <2>2, AckedMoves
  <2>5. toSend' \in SUBSET toSend
    BY <2>2, <2>3 DEF TakeAcked
  <2> QED
    BY <2>1, <2>2, <2>3, <2>4, <2>5, ResentKnown
<1> QED
  BY <1>2, <1>3, <1>4, <1>5, <1>6 DEF HandleReceived

LEMMA PrivateKnown ==
    ASSUME TypeOK, HandParts, OneOwner, Allotted, PrivateStep
    PROVE  \A r \in Request : Known(r)' => Known(r)
<1>1. CASE HandleReceived
  BY <1>1, HandlersKnown
<1>2. CASE SendSingle
  <2>1. PICK r \in Request : hand = {r} /\ r = CHOOSE q \in hand : TRUE
    BY <1>2 DEF SendSingle, HandParts
  <2>2. /\ haveSent' = [m \in MsgId |-> IF m = single /\ haveSent[m] = None THEN r ELSE haveSent[m]]
        /\ hand' = {} /\ UNCHANGED toSend
    BY <1>2, <2>1 DEF SendSingle
  <2> QED
    BY <2>1, <2>2 DEF Known, SentAs
<1>3. CASE PutResent \/ CheckSentRequests \/ Drop \/ PingTimer
  <2>1. UNCHANGED haveSent /\ toSend' \cup hand' = toSend \cup hand
    BY <1>3 DEF PutResent, CheckSentRequests, Drop, PingTimer, sharedVars, trackVars
  <2> QED
    BY <2>1 DEF Known, SentAs
<1>4. CASE Connect \/ \E m \in MsgId : ClearOldContainer(m)
  <2>1. PICK ids \in SUBSET MsgId : TakeResent(ids, haveSent, resendingIds)
    BY <1>4 DEF Connect, ClearOldContainer, Sent, TypeOK, TrackTypeOK
  <2>2. /\ haveSent \in [MsgId -> Request \cup {None}]
        /\ resendingIds \in [MsgId -> Request \cup {None}]
    BY DEF TypeOK, SharedTypeOK, TrackTypeOK
  <2>3. UNCHANGED toSend
    BY <1>4 DEF Connect, ClearOldContainer
  <2> QED
    BY <2>1, <2>2, <2>3, ResentKnown
<1>5. CASE TryToSend
  <2>1. Sending \in SUBSET toSend
    BY NewIds
  <2>2. CASE ~connected \/ NothingToSend \/ SendSingleService
    <3>1. UNCHANGED <<toSend, haveSent, hand>>
      BY <1>5, <2>2 DEF TryToSend, NothingToSend, SendSingleService, trackVars
    <3> QED
      BY <3>1 DEF Known, SentAs
  <2>3. CASE TakeSingle
    <3>1. toSend' = toSend \ Sending /\ hand' = Sending /\ UNCHANGED haveSent
      BY <2>3 DEF TakeSingle
    <3> QED
      BY <2>1, <3>1 DEF Known, SentAs
  <2>4. CASE connected /\ SendContainer
    <3>1. /\ toSend' = toSend \ Sending /\ UNCHANGED hand
          /\ lastId + MaxRequest + 2 <= MaxMsgId
      BY <1>5, <2>4 DEF TryToSend, SendContainer
    <3>2. \A m \in MsgId : \A r \in Request : haveSent'[m] = r => r \in Sending \/ haveSent[m] = r
      BY <2>4, <3>1, ContainerMaps
    <3> QED
      BY <2>1, <3>1, <3>2 DEF Known, SentAs
  <2> QED
    BY <1>5, <2>2, <2>3, <2>4 DEF TryToSend
<1> QED
  BY <1>1, <1>2, <1>3, <1>4, <1>5 DEF PrivateStep

LEMMA ServerKnown ==
    ASSUME ServerStep
    PROVE  \A r \in Request : Known(r)' => Known(r)
<1>1. UNCHANGED <<toSend, haveSent, hand>>
  BY ServerLeavesClient DEF sharedVars, trackVars
<1> QED
  BY <1>1 DEF Known, SentAs

LEMMA PrivateMain ==
    ASSUME PrivateStep
    PROVE  UNCHANGED mainVars
  BY DEF PrivateStep, TryToSend, SendSingle, PutResent, CheckSentRequests, Connect, Drop,
       PingTimer, ClearOldContainer, HandleReceived, HandleUnknown, HandleAck, HandleNewResult,
       HandleDuplicate, HandleReset, HandleTooLow, HandleFatal, HandleStates, HandleNewSession,
       HandleDetailed, HandlePong, HandlerFrame

\* An answer to r waits for the main thread.
HasAnswer(r) == \E i \in DOMAIN haveReceived : haveReceived[i].request = r

\* The session knows nothing of a request that was not sent yet.
UnsentUnknown == \A r \in Request : status[r] = "unsent" =>
    r \notin delayed /\ ~Known(r) /\ ~HasAnswer(r) /\ \A m \in MsgId : ~Names(m, r)

\* The answers that wait are of requests the session had a name for.
LEMMA NewAnswer ==
    ASSUME TypeOK, HandParts, PrivateStep
    PROVE  \A r \in Request : HasAnswer(r)' => HasAnswer(r) \/ \E m \in MsgId : Names(m, r)
<1>1. haveReceived \in Seq([request : Request, ok : BOOLEAN])
  BY DEF TypeOK, SharedTypeOK
<1>2. CASE UNCHANGED haveReceived
  BY <1>2 DEF HasAnswer
<1>3. CASE HandleNewResult \/ HandleFatal
  <2>1. PICK m \in MsgId : m = Message.msgId
    BY <1>3, MessageTypes DEF HandleNewResult, HandleFatal
  <2>2. PICK q, ok : /\ haveReceived' = IF q = None THEN haveReceived
                           ELSE Append(haveReceived, [request |-> q, ok |-> ok])
                     /\ \/ q = RequestOf(resendingIds', ackedIds', haveSent', m)
                        \/ q = RequestOf(resendingIds, ackedIds, haveSent, m)
    BY <1>3, <2>1 DEF HandleNewResult, HandleFatal, Respond
  <2>3. q \in Request => \/ haveSent[m] = q \/ resendingIds[m] = q \/ ackedIds[m] = q
                         \/ haveSent'[m] = q \/ resendingIds'[m] = q \/ ackedIds'[m] = q
    BY <2>2 DEF RequestOf
  <2>4. Shrinks
    BY <1>3, HandlersShrink DEF HandleReceived
  <2>5. q \in Request => Names(m, q)
    <3>1. \A r \in Request : Names(m, r)' => Names(m, r)
      BY <2>4 DEF Shrinks
    <3>2. \A r \in Request : haveSent'[m] = r \/ resendingIds'[m] = r \/ ackedIds'[m] = r
                                => Names(m, r)'
      BY DEF Names
    <3>3. \A r \in Request : haveSent[m] = r \/ resendingIds[m] = r \/ ackedIds[m] = r
                                => Names(m, r)
      BY DEF Names
    <3> QED
      BY <2>3, <3>1, <3>2, <3>3
  <2>6. ASSUME NEW r \in Request, NEW i \in DOMAIN haveReceived', haveReceived'[i].request = r
        PROVE  r = q \/ HasAnswer(r)
    <3>1. CASE i \in DOMAIN haveReceived
      <4>1. haveReceived'[i] = haveReceived[i]
        BY <1>1, <2>2, <3>1
      <4> QED
        BY <2>6, <3>1, <4>1 DEF HasAnswer
    <3>2. CASE i \notin DOMAIN haveReceived
      <4>1. q # None /\ i = Len(haveReceived) + 1
        BY <1>1, <2>2, <2>6, <3>2
      <4>2. haveReceived'[i] = [request |-> q, ok |-> ok]
        BY <1>1, <2>2, <4>1
      <4> QED
        BY <2>6, <4>2
    <3> QED
      BY <3>1, <3>2
  <2> QED
    BY <2>1, <2>5, <2>6 DEF HasAnswer
<1> QED
  BY <1>2, <1>3 DEF PrivateStep, TryToSend, SendSingle, PutResent, CheckSentRequests, Connect,
       Drop, PingTimer, ClearOldContainer, HandleReceived, HandleUnknown, HandleAck,
       HandleDuplicate, HandleReset, HandleTooLow, HandleStates, HandleNewSession,
       HandleDetailed, HandlePong, sharedVars

\* A request gets a new name only when it is sent.
LEMMA NamedWhenSent ==
    ASSUME TypeOK, HandParts, OneOwner, Allotted, PrivateStep
    PROVE  \A m \in MsgId : \A r \in Request : Names(m, r)' => Names(m, r) \/ Known(r)
<1>1. CASE Shrinks
  BY <1>1 DEF Shrinks
<1>2. CASE TryToSend /\ connected /\ (TakeSingle \/ SendContainer)
  <2>1. RenamesOnly
    BY <1>2, SingleRenames, ContainerRenames
  <2>2. Sending \in SUBSET toSend
    BY NewIds
  <2> QED
    BY <2>1, <2>2 DEF RenamesOnly, Known
<1>3. CASE HandleReceived
  BY <1>1, <1>3, HandlersShrink
<1> QED
  BY <1>1, <1>2, <1>3, ThreadShrinks DEF PrivateStep, TryToSend

LEMMA UnsentStep ==
    ASSUME TypeOK, TypeOK', HandParts, OneOwner, Allotted, UnsentUnknown, Next
    PROVE  UnsentUnknown'
<1>1. CASE PrivateStep
  <2>1. UNCHANGED <<status, delayed>>
    BY <1>1, PrivateMain DEF mainVars
  <2> QED
    BY <1>1, <2>1, PrivateKnown, NewAnswer, NamedWhenSent DEF UnsentUnknown
<1>2. CASE ServerStep
  <2>1. UNCHANGED <<status, delayed, haveReceived, haveSent, resendingIds, ackedIds, msgIdOf, single,
                    hand, cancelling>>
    BY <1>2, ServerLeavesClient DEF mainVars, sharedVars, objectVars, trackVars
  <2>2. \A m \in MsgId : \A r \in Request : Names(m, r)' => Names(m, r)
    BY <2>1 DEF Names
  <2> QED
    BY <1>2, <2>1, <2>2, ServerKnown DEF UnsentUnknown, HasAnswer
<1>3. CASE MainStep
  <2>1. \A m \in MsgId : \A r \in Request : Names(m, r)' => Names(m, r)
    BY <1>3, MainShrinks DEF Shrinks
  <2>2. \A r \in Request : HasAnswer(r)' => HasAnswer(r)
    <3>1. CASE ProcessCallback
      <4>1. /\ haveReceived \in Seq([request : Request, ok : BOOLEAN]) /\ haveReceived # <<>>
            /\ haveReceived' = Tail(haveReceived)
        BY <3>1 DEF ProcessCallback, TypeOK, SharedTypeOK
      <4>2. ASSUME NEW i \in DOMAIN haveReceived'
            PROVE  i + 1 \in DOMAIN haveReceived /\ haveReceived'[i] = haveReceived[i + 1]
        BY <4>1, <4>2
      <4> QED
        BY <4>2 DEF HasAnswer
    <3>2. CASE UNCHANGED haveReceived
      BY <3>2 DEF HasAnswer
    <3> QED
      BY <1>3, <3>1, <3>2 DEF MainStep, SendRequest, CancelBegin, CancelToSend, CancelHaveSent,
         CheckDelayedRequests, sharedVars
  <2>3. \A r \in Request : status'[r] = "unsent" =>
           status[r] = "unsent" /\ r \notin delayed' /\ (Known(r)' => Known(r))
    <3>1. UNCHANGED hand
      BY <1>3 DEF MainStep, SendRequest, CancelBegin, CancelToSend, CancelHaveSent, ProcessCallback,
                  CheckDelayedRequests, trackVars
    <3>2. ASSUME NEW q \in Request, SendRequest(q), NEW r \in Request, status'[r] = "unsent"
          PROVE  status[r] = "unsent" /\ r \notin delayed' /\ (Known(r)' => Known(r))
      <4>1. /\ status' = [status EXCEPT ![q] = "pending"] /\ toSend' = toSend \cup {q}
            /\ UNCHANGED <<haveSent, delayed>>
        BY <3>2 DEF SendRequest, SendPrepared
      <4>2. r # q /\ status[r] = "unsent"
        BY <3>2, <4>1 DEF TypeOK, MainTypeOK
      <4> QED
        BY <3>1, <4>1, <4>2 DEF Known, SentAs, UnsentUnknown
    <3>3. CASE ProcessCallback \/ CancelToSend \/ CancelHaveSent \/ \E q \in Request : CancelBegin(q)
      <4>1. /\ toSend' \in SUBSET toSend
            /\ \A m \in MsgId : haveSent'[m] \in {haveSent[m], None}
        BY <3>3 DEF ProcessCallback, CancelToSend, CancelHaveSent, CancelBegin, sharedVars
      <4>2. \A r \in Request : Known(r)' => Known(r)
        BY <3>1, <4>1 DEF Known, SentAs, Request
      <4>3. \A r \in Request : status'[r] = "unsent" => status[r] = "unsent"
        BY <3>3 DEF ProcessCallback, CancelToSend, CancelHaveSent, CancelBegin, TypeOK, MainTypeOK
      <4>4. \A r \in delayed' : r \in delayed \/ status[r] = "pending"
        BY <3>3 DEF ProcessCallback, CancelToSend, CancelHaveSent, CancelBegin
      <4> QED
        BY <4>2, <4>3, <4>4 DEF UnsentUnknown
    <3>4. ASSUME NEW q \in Request, CheckDelayedRequests(q), NEW r \in Request, status'[r] = "unsent"
          PROVE  status[r] = "unsent" /\ r \notin delayed' /\ (Known(r)' => Known(r))
      <4>1. /\ UNCHANGED <<status, haveSent>> /\ delayed' \in SUBSET delayed /\ q \in delayed
            /\ toSend' \in SUBSET (toSend \cup {q})
        BY <3>4 DEF CheckDelayedRequests, SendPrepared
      <4>2. r # q
        BY <3>4, <4>1 DEF UnsentUnknown
      <4> QED
        BY <3>1, <3>4, <4>1, <4>2 DEF Known, SentAs, UnsentUnknown
    <3> QED
      BY <1>3, <3>2, <3>3, <3>4 DEF MainStep
  <2> QED
    BY <2>1, <2>2, <2>3 DEF UnsentUnknown
<1> QED
  BY <1>1, <1>2, <1>3 DEF Next

\* The maps ts (_toSend), hs (_haveSent), hd and sg (the hand), rs (_resendingIds)
\* and ak (_ackedIds) agree.  The parameters are the maps in the middle of a
\* handler that acknowledges first and resends then.
Stopped(r) == status[r] \in {"cancelling", "cancelled"}
KnownIn(r, ts, hs, hd) == r \in ts \/ r \in hd \/ \E m \in MsgId : hs[m] = r
HandApart(ts, hd, sg) ==
    /\ ts \cap hd = {}
    /\ sg # None => \A r \in hd : msgIdOf[r] = sg
SentApart(ts, hs, hd) == \A m \in MsgId : \A r \in Request :
    hs[m] = r => msgIdOf[r] = m /\ r \notin ts /\ r \notin hd
ResendingWaits(ts, hd, sg, rs) == \A m \in MsgId : \A r \in Request :
    rs[m] = r => Stopped(r) \/ (msgIdOf[r] = m /\ (r \in ts \/ (r \in hd /\ sg = None)))
AckedGone(ts, hs, hd, ak) == \A m \in MsgId : \A r \in Request :
    ak[m] = r => ~KnownIn(r, ts, hs, hd)
MapsOK(ts, hs, hd, sg, rs, ak) ==
    HandApart(ts, hd, sg) /\ SentApart(ts, hs, hd) /\ ResendingWaits(ts, hd, sg, rs)
    /\ AckedGone(ts, hs, hd, ak)
MapsAgree == MapsOK(toSend, haveSent, hand, single, resendingIds, ackedIds)

LEMMA AckedAgree ==
    ASSUME TypeOK, MapsOK(toSend, haveSent, {}, None, resendingIds, ackedIds),
           NEW ids, NEW answered, NEW now, AckedAs(now, ids, answered)
    PROVE  MapsOK(now.toSend, now.haveSent, {}, None, now.resendingIds, now.ackedIds)
<1>1. /\ now.toSend \in SUBSET toSend
      /\ \A m \in MsgId : \A r \in Request : now.haveSent[m] = r =>
            haveSent[m] = r /\ ~LeavesSent(ids, answered, m)
  BY DEF AckedAs, Request
<1>2. /\ \A m \in MsgId : \A r \in Request : haveSent[m] = r => msgIdOf[r] = m /\ r \notin toSend
      /\ \A m \in MsgId : \A r \in Request : resendingIds[m] = r =>
            Stopped(r) \/ (msgIdOf[r] = m /\ r \in toSend)
      /\ \A m \in MsgId : \A r \in Request : ackedIds[m] = r =>
            ~KnownIn(r, toSend, haveSent, {})
  BY DEF MapsOK, SentApart, ResendingWaits, AckedGone
<1>3. HandApart(now.toSend, {}, None)
  BY DEF HandApart
<1>4. SentApart(now.toSend, now.haveSent, {})
  BY <1>1, <1>2 DEF SentApart
<1>5. ResendingWaits(now.toSend, {}, None, now.resendingIds)
  <2>1. ASSUME NEW m \in MsgId, NEW r \in Request, now.resendingIds[m] = r, ~Stopped(r)
        PROVE  msgIdOf[r] = m /\ r \in now.toSend
    <3>1. resendingIds[m] = r /\ ~LeavesResending(ids, answered, m)
      BY <2>1 DEF AckedAs, Request
    <3>2. msgIdOf[r] = m /\ r \in toSend
      BY <1>2, <2>1, <3>1
    <3>3. \A k \in MsgId : resendingIds[k] = r => k = m
      BY <1>2, <2>1, <3>2
    <3> QED
      BY <3>1, <3>2, <3>3 DEF AckedAs
  <2> QED
    BY <2>1 DEF ResendingWaits
<1>6. AckedGone(now.toSend, now.haveSent, {}, now.ackedIds)
  <2>1. ASSUME NEW m \in MsgId, NEW r \in Request, now.ackedIds[m] = r
        PROVE  r \notin now.toSend /\ \A k \in MsgId : now.haveSent[k] # r
    <3>1. CASE LeavesSent(ids, answered, m)
      <4>1. haveSent[m] = r
        BY <2>1, <3>1 DEF AckedAs
      <4>2. msgIdOf[r] = m /\ r \notin toSend
        BY <1>2, <4>1
      <4>3. \A k \in MsgId : haveSent[k] = r => k = m
        BY <1>2, <4>2
      <4> QED
        BY <1>1, <3>1, <4>2, <4>3
    <3>2. CASE ~LeavesSent(ids, answered, m) /\ LeavesResending(ids, answered, m)
               /\ resendingIds[m] \in toSend
      <4>1. resendingIds[m] = r
        BY <2>1, <3>2 DEF AckedAs
      <4>2. r \notin now.toSend
        BY <3>2, <4>1 DEF AckedAs
      <4> QED
        BY <1>1, <1>2, <3>2, <4>1, <4>2
    <3>3. CASE ~LeavesSent(ids, answered, m) /\ ~(LeavesResending(ids, answered, m)
               /\ resendingIds[m] \in toSend)
      <4>1. ackedIds[m] = r
        BY <2>1, <3>3 DEF AckedAs
      <4> QED
        BY <1>1, <1>2, <4>1 DEF KnownIn
    <3> QED
      BY <3>1, <3>2, <3>3
  <2> QED
    BY <2>1 DEF AckedGone, KnownIn
<1> QED
  BY <1>3, <1>4, <1>5, <1>6 DEF MapsOK

LEMMA TrimmedAgree ==
    ASSUME NEW ts, NEW hs, NEW hd, NEW sg, NEW rs, NEW ak, NEW kept,
           MapsOK(ts, hs, hd, sg, rs, ak), \A m \in MsgId : kept[m] \in {ak[m], None}
    PROVE  MapsOK(ts, hs, hd, sg, rs, kept)
<1>1. AckedGone(ts, hs, hd, kept)
  BY DEF MapsOK, AckedGone, Request
<1> QED
  BY <1>1 DEF MapsOK

LEMMA ResentAgree ==
    ASSUME TypeOK, NEW ids \in SUBSET MsgId, NEW ts, NEW hs \in [MsgId -> Request \cup {None}],
           NEW rs \in [MsgId -> Request \cup {None}], NEW ak, MapsOK(ts, hs, {}, None, rs, ak),
           TakeResent(ids, hs, rs)
    PROVE  MapsOK(ts, haveSent', hand', None, resendingIds', ak)
<1>1. /\ hand' = {hs[k] : k \in {j \in ids : j \in ids /\ hs[j] # None}}
      /\ haveSent' = [k \in MsgId |-> IF k \in ids /\ hs[k] # None THEN None ELSE hs[k]]
      /\ resendingIds' = [k \in MsgId |-> IF k \in ids /\ hs[k] # None THEN hs[k] ELSE rs[k]]
  BY DEF TakeResent
<1>2. /\ \A m \in MsgId : \A r \in Request : hs[m] = r => msgIdOf[r] = m /\ r \notin ts
      /\ \A m \in MsgId : \A r \in Request : rs[m] = r =>
            Stopped(r) \/ (msgIdOf[r] = m /\ r \in ts)
      /\ \A m \in MsgId : \A r \in Request : ak[m] = r => ~KnownIn(r, ts, hs, {})
  BY DEF MapsOK, SentApart, ResendingWaits, AckedGone
<1>3. \A r \in hand' : r \in Request /\ \E m \in ids : hs[m] = r
  BY <1>1
<1>4. \A m \in MsgId : \A r \in Request : haveSent'[m] = r => hs[m] = r /\ m \notin ids
  BY <1>1 DEF Request
<1>5. HandApart(ts, hand', None)
  BY <1>2, <1>3 DEF HandApart
<1>6. SentApart(ts, haveSent', hand')
  BY <1>2, <1>3, <1>4 DEF SentApart
<1>7. ResendingWaits(ts, hand', None, resendingIds')
  <2>1. ASSUME NEW m \in MsgId, NEW r \in Request, resendingIds'[m] = r
        PROVE  (m \in ids /\ hs[m] = r) \/ rs[m] = r
    BY <1>1, <2>1
  <2>2. \A m \in ids : hs[m] # None => hs[m] \in hand'
    BY <1>1
  <2>3. \A r \in Request : r # None
    BY DEF Request
  <2> QED
    BY <1>2, <2>1, <2>2, <2>3 DEF ResendingWaits
<1>8. AckedGone(ts, haveSent', hand', ak)
  <2>1. \A r \in Request : KnownIn(r, ts, haveSent', hand') => KnownIn(r, ts, hs, {})
    BY <1>3, <1>4 DEF KnownIn
  <2> QED
    BY <1>2, <2>1 DEF AckedGone
<1> QED
  BY <1>5, <1>6, <1>7, <1>8 DEF MapsOK

\* What holds of the maps of the next state, with the ids and states they had.
LEMMA AgreeNext ==
    ASSUME UNCHANGED <<status, msgIdOf>>,
           MapsOK(toSend', haveSent', hand', single', resendingIds', ackedIds')
    PROVE  MapsAgree'
<1> USE DEF MapsOK, MapsAgree
<1>1. HandApart(toSend, hand, single)'
  BY DEF HandApart
<1>2. SentApart(toSend, haveSent, hand)'
  BY DEF SentApart
<1>3. ResendingWaits(toSend, hand, single, resendingIds)'
  BY DEF ResendingWaits, Stopped
<1>4. AckedGone(toSend, haveSent, hand, ackedIds)'
  BY DEF AckedGone, KnownIn
<1> QED
  BY <1>1, <1>2, <1>3, <1>4

LEMMA HandlersAgree ==
    ASSUME TypeOK, HandParts, MapsAgree, HandleReceived
    PROVE  MapsAgree'
<1>1. /\ UNCHANGED <<status, msgIdOf, single>> /\ hand = {} /\ single = None
  BY DEF HandleReceived, HandleUnknown, HandleAck, HandleNewResult, HandleDuplicate, HandleReset,
         HandleTooLow, HandleFatal, HandleStates, HandleNewSession, HandleDetailed, HandlePong, Is,
         HandlerFrame, mainVars, PrivateFree, HandParts
<1>2. MapsOK(toSend, haveSent, {}, None, resendingIds, ackedIds)
  BY <1>1 DEF MapsAgree
<1>3. /\ haveSent \in [MsgId -> Request \cup {None}]
      /\ resendingIds \in [MsgId -> Request \cup {None}]
  BY DEF TypeOK, SharedTypeOK, TrackTypeOK
<1>4. CASE HandleUnknown \/ HandleDuplicate \/ HandleFatal \/ HandlePong \/ HandleReset
  <2>1. UNCHANGED <<toSend, haveSent, hand, resendingIds, ackedIds>>
    BY <1>4 DEF HandleUnknown, HandleDuplicate, HandleFatal, HandlePong, HandleReset, sharedVars
  <2>2. MapsOK(toSend', haveSent', hand', single', resendingIds', ackedIds')
    BY <1>1, <2>1 DEF MapsAgree
  <2> QED
    BY <1>1, <2>2, AgreeNext
<1>5. CASE HandleAck \/ HandleNewResult \/ HandleDetailed
  <2>1. PICK now : /\ haveSent' = now.haveSent /\ resendingIds' = now.resendingIds
                   /\ toSend' = now.toSend /\ ackedIds' = Trimmed(now.ackedIds, KeepAcked)
                   /\ now.ackedIds \in [MsgId -> Request \cup {None}]
                   /\ MapsOK(now.toSend, now.haveSent, {}, None, now.resendingIds, now.ackedIds)
    <3>1. CASE HandleAck
      <4>1. Message.ids \in SUBSET MsgId
        BY <3>1, MessageTypes DEF HandleAck
      <4>2. PICK now : now = Acked(Message.ids, FALSE)
        OBVIOUS
      <4>3. AckedAs(now, Message.ids, {})
        BY <4>1, <4>2, Acknowledged
      <4>4. MapsOK(now.toSend, now.haveSent, {}, None, now.resendingIds, now.ackedIds)
        BY <1>2, <4>3, AckedAgree
      <4>5. now.ackedIds \in [MsgId -> Request \cup {None}]
        BY <4>2, AckedTypes
      <4> QED
        BY <3>1, <4>2, <4>4, <4>5 DEF HandleAck, RequestsAcked, TakeAcked
    <3>2. CASE HandleDetailed
      <4>1. {Message.msgId} \in SUBSET MsgId
        BY <3>2, MessageTypes DEF HandleDetailed
      <4>2. PICK now : now = Acked({Message.msgId}, FALSE)
        OBVIOUS
      <4>3. AckedAs(now, {Message.msgId}, {})
        BY <4>1, <4>2, Acknowledged
      <4>4. MapsOK(now.toSend, now.haveSent, {}, None, now.resendingIds, now.ackedIds)
        BY <1>2, <4>3, AckedAgree
      <4>5. now.ackedIds \in [MsgId -> Request \cup {None}]
        BY <4>2, AckedTypes
      <4> QED
        BY <3>2, <4>2, <4>4, <4>5 DEF HandleDetailed, RequestsAcked, TakeAcked
    <3>3. CASE HandleNewResult
      <4>1. {Message.msgId} \in SUBSET MsgId
        BY <3>3, MessageTypes DEF HandleNewResult
      <4>2. PICK now : now = Acked({Message.msgId}, TRUE)
        OBVIOUS
      <4>3. AckedAs(now, {Message.msgId}, {Message.msgId})
        BY <4>1, <4>2, Answered
      <4>4. MapsOK(now.toSend, now.haveSent, {}, None, now.resendingIds, now.ackedIds)
        BY <1>2, <4>3, AckedAgree
      <4>5. now.ackedIds \in [MsgId -> Request \cup {None}]
        BY <4>2, AckedTypes
      <4> QED
        BY <3>3, <4>2, <4>4, <4>5 DEF HandleNewResult, RequestsAcked, TakeAcked
    <3> QED
      BY <1>5, <3>1, <3>2, <3>3
  <2>2. hand' = {} /\ single' = None
    BY <1>1, <1>5 DEF HandleAck, HandleNewResult, HandleDetailed
  <2>3. \A m \in MsgId : ackedIds'[m] \in {now.ackedIds[m], None}
    BY <2>1, TrimmedMap
  <2>4. MapsOK(toSend', haveSent', hand', single', resendingIds', ackedIds')
    BY <2>1, <2>2, <2>3, TrimmedAgree
  <2> QED
    BY <1>1, <2>4, AgreeNext
<1>6. CASE HandleTooLow \/ HandleNewSession
  <2>1. PICK ids \in SUBSET MsgId : TakeResent(ids, haveSent, resendingIds)
    <3>1. CASE HandleTooLow
      BY <3>1, MessageTypes DEF HandleTooLow
    <3>2. CASE HandleNewSession
      <4>1. {m \in Sent : m < Message.msgId} \in SUBSET MsgId
        BY DEF Sent
      <4> QED
        BY <3>2, <4>1 DEF HandleNewSession
    <3> QED
      BY <1>6, <3>1, <3>2
  <2>2. MapsOK(toSend, haveSent', hand', None, resendingIds', ackedIds)
    BY <1>2, <1>3, <2>1, ResentAgree
  <2>3. UNCHANGED <<toSend, ackedIds>>
    BY <1>6 DEF HandleTooLow, HandleNewSession
  <2>4. MapsOK(toSend', haveSent', hand', single', resendingIds', ackedIds')
    BY <1>1, <2>2, <2>3
  <2> QED
    BY <1>1, <2>4, AgreeNext
<1>7. CASE HandleStates
  <2>1. PICK asked : asked = stateRequests[Message.msgId] /\ asked \in SUBSET MsgId
    BY <1>7, MessageTypes DEF HandleStates, TypeOK, ServiceTypeOK
  <2>2. PICK now : /\ now = Acked(asked \cap Message.ids, FALSE)
                   /\ TakeResent(asked \ Message.ids, now.haveSent, now.resendingIds)
                   /\ TakeAcked(now)
    BY <1>7, <2>1 DEF HandleStates
  <2>3. /\ now.haveSent \in [MsgId -> Request \cup {None}]
        /\ now.resendingIds \in [MsgId -> Request \cup {None}]
        /\ now.ackedIds \in [MsgId -> Request \cup {None}]
    BY <2>2, AckedTypes
  <2>4. AckedAs(now, asked \cap Message.ids, {})
    BY <2>1, <2>2, Acknowledged
  <2>5. MapsOK(now.toSend, now.haveSent, {}, None, now.resendingIds, now.ackedIds)
    BY <1>2, <2>4, AckedAgree
  <2>6. MapsOK(now.toSend, haveSent', hand', None, resendingIds', now.ackedIds)
    BY <2>1, <2>2, <2>3, <2>5, ResentAgree
  <2>7. toSend' = now.toSend /\ \A m \in MsgId : ackedIds'[m] \in {now.ackedIds[m], None}
    BY <2>2, <2>3, TrimmedMap DEF TakeAcked
  <2>8. MapsOK(toSend', haveSent', hand', single', resendingIds', ackedIds')
    BY <1>1, <2>6, <2>7, TrimmedAgree
  <2> QED
    BY <1>1, <2>8, AgreeNext
<1> QED
  BY <1>4, <1>5, <1>6, <1>7 DEF HandleReceived

LEMMA ThreadAgrees ==
    ASSUME TypeOK, HandParts, MapsAgree,
           \/ SendSingle \/ PutResent \/ CheckSentRequests \/ Connect \/ Drop \/ PingTimer
           \/ \E m \in MsgId : ClearOldContainer(m)
           \/ TryToSend /\ (~connected \/ NothingToSend \/ SendSingleService)
    PROVE  MapsAgree'
<1>1. UNCHANGED <<status, msgIdOf>>
  BY DEF SendSingle, PutResent, CheckSentRequests, Connect, Drop, PingTimer, ClearOldContainer,
         TryToSend, NothingToSend, SendSingleService, mainVars, objectVars
<1> USE DEF MapsAgree
<1>2. CASE SendSingle
  <2>1. PICK r \in Request : hand = {r} /\ r = CHOOSE q \in hand : TRUE
    BY <1>2 DEF SendSingle, HandParts
  <2>2. /\ haveSent' = [m \in MsgId |-> IF m = single /\ haveSent[m] = None THEN r ELSE haveSent[m]]
        /\ hand' = {} /\ single' = None /\ single # None
        /\ UNCHANGED <<toSend, resendingIds, ackedIds>>
    BY <1>2, <2>1 DEF SendSingle
  <2>3. msgIdOf[r] = single /\ r \notin toSend
    BY <2>1, <2>2 DEF MapsOK, HandApart
  <2>4. \A m \in MsgId : \A q \in Request :
          haveSent'[m] = q => haveSent[m] = q \/ (m = single /\ q = r)
    BY <2>2
  <2>5. HandApart(toSend', hand', single')
    BY <2>2 DEF HandApart
  <2>6. SentApart(toSend', haveSent', hand')
    BY <2>2, <2>3, <2>4 DEF MapsOK, SentApart
  <2>7. ResendingWaits(toSend', hand', single', resendingIds')
    BY <2>2 DEF MapsOK, ResendingWaits
  <2>8. AckedGone(toSend', haveSent', hand', ackedIds')
    <3>1. \A q \in Request : KnownIn(q, toSend', haveSent', hand') =>
            KnownIn(q, toSend, haveSent, hand)
      BY <2>1, <2>2, <2>4 DEF KnownIn
    <3> QED
      BY <2>2, <3>1 DEF MapsOK, AckedGone
  <2> QED
    BY <1>1, <2>5, <2>6, <2>7, <2>8, AgreeNext DEF MapsOK
<1>3. CASE PutResent
  <2>1. /\ toSend' = toSend \cup hand /\ hand' = {} /\ single = None
        /\ UNCHANGED <<haveSent, single, resendingIds, ackedIds>>
    BY <1>3 DEF PutResent
  <2>2. HandApart(toSend', hand', single')
    BY <2>1 DEF HandApart
  <2>3. SentApart(toSend', haveSent', hand')
    BY <2>1 DEF MapsOK, SentApart
  <2>4. ResendingWaits(toSend', hand', single', resendingIds')
    BY <2>1 DEF MapsOK, ResendingWaits
  <2>5. AckedGone(toSend', haveSent', hand', ackedIds')
    BY <2>1 DEF MapsOK, AckedGone, KnownIn
  <2> QED
    BY <1>1, <2>2, <2>3, <2>4, <2>5, AgreeNext DEF MapsOK
<1>4. CASE Connect \/ \E m \in MsgId : ClearOldContainer(m)
  <2>1. PICK ids \in SUBSET MsgId : TakeResent(ids, haveSent, resendingIds)
    BY <1>4 DEF Connect, ClearOldContainer, Sent, TypeOK, TrackTypeOK
  <2>2. /\ haveSent \in [MsgId -> Request \cup {None}]
        /\ resendingIds \in [MsgId -> Request \cup {None}]
    BY DEF TypeOK, SharedTypeOK, TrackTypeOK
  <2>3. UNCHANGED <<toSend, single, ackedIds>> /\ hand = {} /\ single = None
    BY <1>4 DEF Connect, ClearOldContainer, PrivateFree, HandParts
  <2>4. MapsOK(toSend, haveSent', hand', None, resendingIds', ackedIds)
    BY <2>1, <2>2, <2>3, ResentAgree
  <2>5. MapsOK(toSend', haveSent', hand', single', resendingIds', ackedIds')
    BY <2>3, <2>4
  <2> QED
    BY <1>1, <2>5, AgreeNext
<1>5. CASE \/ CheckSentRequests \/ Drop \/ PingTimer
           \/ TryToSend /\ (~connected \/ NothingToSend \/ SendSingleService)
  <2>1. UNCHANGED <<toSend, haveSent, hand, single, resendingIds, ackedIds>>
    BY <1>5 DEF CheckSentRequests, Drop, PingTimer, TryToSend, NothingToSend, SendSingleService,
       sharedVars, trackVars
  <2>2. MapsOK(toSend', haveSent', hand', single', resendingIds', ackedIds')
    BY <2>1
  <2> QED
    BY <1>1, <2>2, AgreeNext
<1> QED
  BY <1>2, <1>3, <1>4, <1>5

LEMMA SingleAgrees ==
    ASSUME TypeOK, HandParts, SingleIsFresh, MapsAgree, TryToSend, connected, TakeSingle
    PROVE  MapsAgree'
<1>1. /\ hand' = Sending /\ single' = IdOf(CHOOSE r \in Sending : TRUE) /\ toSend' = toSend \ Sending
      /\ msgIdOf' = SetIds(msgIdOf) /\ resendingIds' = NotResending
      /\ UNCHANGED <<haveSent, ackedIds, status>> /\ hand = {} /\ single = None
      /\ \A r \in Sending : ~inContainer[r]
  BY DEF TryToSend, TakeSingle, mainVars, PrivateFree, HandParts
<1>2. Sending \in SUBSET toSend /\ toSend \in SUBSET Request
  BY NewIds DEF TypeOK, SharedTypeOK
<1>3. \E r : Sending = {r}
  <2>1. TotalSending = 1 /\ ServiceCount = 0 /\ Cardinality(Sending) \in Nat /\ IsFiniteSet(Sending)
    BY NewIds, RequestSets DEF TakeSingle, TypeOK, SharedTypeOK
  <2>2. Cardinality(Sending) = 1
    BY <2>1 DEF TotalSending
  <2> QED
    BY <2>1, <2>2, FS_Singleton
<1>4. PICK r \in Request : Sending = {r} /\ single' = IdOf(r) /\ r \in toSend
  BY <1>1, <1>2, <1>3
<1>5. msgIdOf[r] = None
  BY <1>1, <1>4 DEF SingleIsFresh
<1>6. \A q \in Request : msgIdOf'[q] = IF q = r THEN IdOf(r) ELSE msgIdOf[q]
  BY <1>1, <1>4 DEF SetIds
<1>7. \A m \in MsgId : \A q \in Request : resendingIds'[m] = q => resendingIds[m] = q
  BY <1>1 DEF NotResending, Request
<1>8. /\ \A m \in MsgId : \A q \in Request : haveSent[m] = q => msgIdOf[q] = m /\ q \notin toSend
      /\ \A m \in MsgId : \A q \in Request : resendingIds[m] = q =>
            Stopped(q) \/ (msgIdOf[q] = m /\ q \in toSend)
      /\ \A m \in MsgId : \A q \in Request : ackedIds[m] = q => ~KnownIn(q, toSend, haveSent, hand)
  BY <1>1 DEF MapsAgree, MapsOK, SentApart, ResendingWaits, AckedGone
<1>9. HandApart(toSend, hand, single)'
  BY <1>1, <1>4, <1>6 DEF HandApart
<1>10. SentApart(toSend, haveSent, hand)'
  BY <1>1, <1>4, <1>6, <1>8 DEF SentApart
<1>11. ResendingWaits(toSend, hand, single, resendingIds)'
  <2>1. \A m \in MsgId : m # None
    BY DEF MsgId
  <2>2. ASSUME NEW m \in MsgId, NEW q \in Request, resendingIds[m] = q, ~Stopped(q)
        PROVE  msgIdOf'[q] = m /\ q \in toSend'
    BY <1>1, <1>4, <1>5, <1>6, <1>8, <2>1, <2>2
  <2> QED
    BY <1>1, <1>7, <2>2 DEF ResendingWaits, Stopped
<1>12. AckedGone(toSend, haveSent, hand, ackedIds)'
  <2>1. \A q \in Request : KnownIn(q, toSend, haveSent, hand)' => KnownIn(q, toSend, haveSent, hand)
    BY <1>1, <1>4 DEF KnownIn
  <2> QED
    BY <1>1, <1>8, <2>1 DEF AckedGone
<1> QED
  BY <1>9, <1>10, <1>11, <1>12 DEF MapsAgree, MapsOK

LEMMA ContainerAgrees ==
    ASSUME TypeOK, HandParts, OneOwner, Allotted, MapsAgree, TryToSend, connected, SendContainer
    PROVE  MapsAgree'
<1>1. /\ toSend' = toSend \ Sending /\ msgIdOf' = SetIds(msgIdOf) /\ resendingIds' = NotResending
      /\ UNCHANGED <<status, hand, single>> /\ hand = {} /\ single = None
      /\ lastId + MaxRequest + 2 <= MaxMsgId
  BY DEF TryToSend, SendContainer, mainVars, PrivateFree, HandParts
<1>2. Sending \in SUBSET toSend /\ toSend \in SUBSET Request
  BY NewIds DEF TypeOK, SharedTypeOK
<1>3. /\ \A m \in MsgId : \A r \in Request : haveSent'[m] = r =>
            haveSent[m] = r \/ (r \in Sending /\ IdOf(r) = m)
      /\ \A m \in MsgId : \A r \in Request : ackedIds'[m] = r => \E k \in MsgId : ackedIds[k] = r
  BY <1>1, ContainerMaps
<1>4. \A q \in Request : msgIdOf'[q] = IF q \in Sending THEN IdOf(q) ELSE msgIdOf[q]
  BY <1>1 DEF SetIds
<1>5. \A m \in MsgId : \A q \in Request : resendingIds'[m] = q =>
        resendingIds[m] = q /\ \A r \in Sending : msgIdOf[r] # m
  BY <1>1 DEF NotResending, Request
<1>6. /\ \A m \in MsgId : \A q \in Request : haveSent[m] = q => msgIdOf[q] = m /\ q \notin toSend
      /\ \A m \in MsgId : \A q \in Request : resendingIds[m] = q =>
            Stopped(q) \/ (msgIdOf[q] = m /\ q \in toSend)
      /\ \A m \in MsgId : \A q \in Request : ackedIds[m] = q => ~KnownIn(q, toSend, haveSent, hand)
  BY <1>1 DEF MapsAgree, MapsOK, SentApart, ResendingWaits, AckedGone
<1>7. HandApart(toSend, hand, single)'
  BY <1>1 DEF HandApart
<1>8. SentApart(toSend, haveSent, hand)'
  BY <1>1, <1>2, <1>3, <1>4, <1>6 DEF SentApart
<1>9. ResendingWaits(toSend, hand, single, resendingIds)'
  BY <1>1, <1>4, <1>5, <1>6 DEF ResendingWaits, Stopped
<1>10. AckedGone(toSend, haveSent, hand, ackedIds)'
  <2>1. \A q \in Request : KnownIn(q, toSend, haveSent, hand)' => KnownIn(q, toSend, haveSent, hand)
    BY <1>1, <1>2, <1>3 DEF KnownIn
  <2> QED
    BY <1>3, <1>6, <2>1 DEF AckedGone
<1> QED
  BY <1>7, <1>8, <1>9, <1>10 DEF MapsAgree, MapsOK

LEMMA MainAgrees ==
    ASSUME TypeOK, CancelParts, UnsentUnknown, MapsAgree, delayed = {}, MainStep
    PROVE  MapsAgree'
<1>1. UNCHANGED <<hand, single, resendingIds, ackedIds>>
  BY DEF MainStep, SendRequest, CancelBegin, CancelToSend, CancelHaveSent, ProcessCallback,
         CheckDelayedRequests, trackVars
<1>2. /\ HandApart(toSend, hand, single) /\ SentApart(toSend, haveSent, hand)
      /\ ResendingWaits(toSend, hand, single, resendingIds)
      /\ AckedGone(toSend, haveSent, hand, ackedIds)
  BY DEF MapsAgree, MapsOK
<1>3. ASSUME NEW r \in Request, SendRequest(r) PROVE MapsAgree'
  <2>1. /\ toSend' = toSend \cup {r} /\ msgIdOf' = [msgIdOf EXCEPT ![r] = None]
        /\ status' = [status EXCEPT ![r] = "pending"] /\ status[r] = "unsent"
        /\ UNCHANGED haveSent
    BY <1>3 DEF SendRequest, SendPrepared
  <2>2. /\ r \notin hand /\ \A m \in MsgId : haveSent[m] # r
        /\ \A m \in MsgId : resendingIds[m] # r /\ ackedIds[m] # r
    BY <2>1 DEF UnsentUnknown, Known, SentAs, Names
  <2>3. \A q \in Request : q # r => msgIdOf'[q] = msgIdOf[q] /\ status'[q] = status[q]
    BY <2>1 DEF TypeOK, MainTypeOK, ObjectTypeOK
  <2>8. \A q \in Request : q \in hand => q # r
    BY <2>2
  <2>4. HandApart(toSend, hand, single)'
    BY <1>1, <1>2, <2>1, <2>2, <2>3, <2>8 DEF HandApart, TypeOK, TrackTypeOK
  <2>5. SentApart(toSend, haveSent, hand)'
    BY <1>1, <1>2, <2>1, <2>2, <2>3 DEF SentApart
  <2>6. ResendingWaits(toSend, hand, single, resendingIds)'
    BY <1>1, <1>2, <2>1, <2>2, <2>3 DEF ResendingWaits, Stopped
  <2>7. AckedGone(toSend, haveSent, hand, ackedIds)'
    BY <1>1, <1>2, <2>1, <2>2 DEF AckedGone, KnownIn
  <2> QED
    BY <2>4, <2>5, <2>6, <2>7 DEF MapsAgree, MapsOK
<1>4. CASE CancelToSend \/ CancelHaveSent \/ ProcessCallback \/ \E r \in Request : CancelBegin(r)
  <2>1. /\ UNCHANGED msgIdOf /\ toSend' \in SUBSET toSend
        /\ \A m \in MsgId : haveSent'[m] \in {haveSent[m], None}
    BY <1>4 DEF CancelToSend, CancelHaveSent, ProcessCallback, CancelBegin, objectVars, sharedVars
  <2>2. \A r \in Request : Stopped(r) => Stopped(r)'
    BY <1>4 DEF CancelToSend, CancelHaveSent, ProcessCallback, CancelBegin, Stopped, TypeOK, MainTypeOK
  <2>3. \A r \in toSend : r \in toSend' \/ Stopped(r)
    BY <1>4 DEF CancelToSend, CancelHaveSent, ProcessCallback, CancelBegin, sharedVars, CancelParts,
       MainFree, Stopped
  <2>4. HandApart(toSend, hand, single)'
    BY <1>1, <1>2, <2>1 DEF HandApart
  <2>5. SentApart(toSend, haveSent, hand)'
    BY <1>1, <1>2, <2>1 DEF SentApart, Request
  <2>6. ResendingWaits(toSend, hand, single, resendingIds)'
    BY <1>1, <1>2, <2>1, <2>2, <2>3 DEF ResendingWaits
  <2>7. AckedGone(toSend, haveSent, hand, ackedIds)'
    <3>1. \A q \in Request : KnownIn(q, toSend, haveSent, hand)' => KnownIn(q, toSend, haveSent, hand)
      BY <1>1, <2>1 DEF KnownIn, Request
    <3> QED
      BY <1>1, <1>2, <3>1 DEF AckedGone
  <2> QED
    BY <2>4, <2>5, <2>6, <2>7 DEF MapsAgree, MapsOK
<1>5. \A r \in Request : ~CheckDelayedRequests(r)
  BY DEF CheckDelayedRequests
<1> QED
  BY <1>3, <1>4, <1>5 DEF MainStep

LEMMA AgreeStep ==
    ASSUME TypeOK, HandParts, SingleIsFresh, OneOwner, Allotted, CancelParts, UnsentUnknown,
           MapsAgree, delayed = {}, Next
    PROVE  MapsAgree'
<1>1. CASE MainStep
  BY <1>1, MainAgrees
<1>2. CASE ServerStep
  <2>1. UNCHANGED <<status, msgIdOf, toSend, haveSent, hand, single, resendingIds, ackedIds>>
    BY <1>2, ServerLeavesClient DEF mainVars, sharedVars, objectVars, trackVars
  <2>2. MapsOK(toSend', haveSent', hand', single', resendingIds', ackedIds')
    BY <2>1 DEF MapsAgree
  <2> QED
    BY <2>1, <2>2, AgreeNext
<1>3. CASE PrivateStep
  BY <1>3, HandlersAgree, ThreadAgrees, SingleAgrees, ContainerAgrees DEF PrivateStep, TryToSend
<1> QED
  BY <1>1, <1>2, <1>3 DEF Next

\* A request that was answered is in none of the maps.
AnsweredGone == \A r \in Request :
    status[r] \in {"done", "failed"} \/ (status[r] = "pending" /\ HasAnswer(r)) => ~Known(r)

\* The request an answer is for has left the maps, unless it is cancelled.
LEMMA ResultGone ==
    ASSUME TypeOK, HandParts, OneOwner, ContainersApart, MapsAgree, MapsAgree', HandleNewResult
    PROVE  \A r \in Request : HasAnswer(r)' => HasAnswer(r) \/ Stopped(r) \/ ~Known(r)'
<1>1. PICK m \in MsgId : m = Message.msgId
  BY MessageTypes DEF HandleNewResult
<1>2. PICK now : now = Acked({m}, TRUE)
  OBVIOUS
<1>3. /\ haveSent' = now.haveSent /\ resendingIds' = now.resendingIds /\ hand = {}
      /\ Respond(RequestOf(resendingIds', ackedIds', haveSent', m), Message.ok)
      /\ UNCHANGED hand
  BY <1>1, <1>2 DEF HandleNewResult, RequestsAcked, TakeAcked, Is, PrivateFree
<1> DEFINE ids == {m}
<1>4. ids \in SUBSET MsgId /\ m \in ids
  OBVIOUS
<1>5. AckedAs(now, ids, ids)
  BY <1>2, Answered
<1> HIDE DEF ids
<1>6. PICK q : q = RequestOf(resendingIds', ackedIds', haveSent', m)
  OBVIOUS
<1>7. haveReceived' = IF q = None THEN haveReceived
                      ELSE Append(haveReceived, [request |-> q, ok |-> Message.ok])
  BY <1>3, <1>6 DEF Respond
<1>8. haveReceived \in Seq([request : Request, ok : BOOLEAN])
  BY DEF TypeOK, SharedTypeOK
<1>9. ASSUME NEW r \in Request, HasAnswer(r)' PROVE HasAnswer(r) \/ (r = q /\ q # None)
  <2>1. PICK i \in DOMAIN haveReceived' : haveReceived'[i].request = r
    BY <1>9 DEF HasAnswer
  <2>2. CASE i \in DOMAIN haveReceived
    <3>1. haveReceived'[i] = haveReceived[i]
      BY <1>7, <1>8, <2>2
    <3> QED
      BY <2>1, <2>2, <3>1 DEF HasAnswer
  <2>3. CASE i \notin DOMAIN haveReceived
    <3>1. q # None /\ i = Len(haveReceived) + 1
      BY <1>7, <1>8, <2>1, <2>3
    <3>2. haveReceived'[i] = [request |-> q, ok |-> Message.ok]
      BY <1>7, <1>8, <3>1
    <3> QED
      BY <2>1, <3>1, <3>2
  <2> QED
    BY <2>2, <2>3
\* The id of an answer is that of a message, not of a container.
<1>10. haveSent[m] # None \/ resendingIds[m] # None => sentContainers[m] = {}
  BY DEF ContainersApart, Names, TypeOK, SharedTypeOK, TrackTypeOK
<1>11. haveSent[m] # None => LeavesSent(ids, ids, m)
  BY <1>4, <1>10 DEF LeavesSent, FreedIn
<1>12. haveSent'[m] = None
  BY <1>3, <1>5, <1>11 DEF AckedAs
<1>13. ASSUME q \in Request, resendingIds'[m] # None PROVE Stopped(q)
  <2>1. resendingIds[m] = q /\ ~LeavesResending(ids, ids, m)
    BY <1>3, <1>5, <1>6, <1>13 DEF RequestOf, AckedAs
  <2>2. haveSent[m] # None
    BY <1>4, <1>10, <1>13, <2>1 DEF LeavesResending, FreedIn, Request
  <2>3. haveSent[m] = q
    <3>1. haveSent[m] \in Request
      BY <2>2 DEF TypeOK, SharedTypeOK
    <3>2. Names(m, q) /\ Names(m, haveSent[m])
      BY <2>1 DEF Names
    <3> QED
      BY <1>13, <3>1, <3>2 DEF OneOwner
  <2> QED
    BY <1>13, <2>1, <2>3 DEF MapsAgree, MapsOK, SentApart, ResendingWaits
<1>14. ASSUME q \in Request, resendingIds'[m] = None PROVE ~Known(q)'
  <2>1. ackedIds'[m] = q
    BY <1>6, <1>12, <1>14 DEF RequestOf, Request
  <2>2. AckedGone(toSend, haveSent, hand, ackedIds)'
    BY DEF MapsAgree, MapsOK
  <2> QED
    BY <1>14, <2>1, <2>2 DEF AckedGone, KnownIn, Known, SentAs
<1> QED
  BY <1>9, <1>13, <1>14

LEMMA AnsweredStep ==
    ASSUME TypeOK, HandParts, OneOwner, Allotted, ContainersApart, MapsAgree, MapsAgree',
           UnsentUnknown, AnsweredGone, NoErrors, Next
    PROVE  AnsweredGone'
<1>1. CASE PrivateStep
  <2>1. UNCHANGED status /\ \A r \in Request : Known(r)' => Known(r)
    BY <1>1, PrivateMain, PrivateKnown DEF mainVars
  <2>2. ~HandleFatal
    BY <1>1, NoErrorsPrivate
  <2>3. CASE HandleNewResult
    BY <2>1, <2>3, ResultGone DEF AnsweredGone, Stopped
  <2>4. CASE ~HandleNewResult
    <3>1. UNCHANGED haveReceived
      BY <1>1, <2>2, <2>4 DEF PrivateStep, TryToSend, SendSingle, PutResent, CheckSentRequests,
         Connect, Drop, PingTimer, ClearOldContainer, HandleReceived, HandleUnknown, HandleAck,
         HandleDuplicate, HandleReset, HandleTooLow, HandleStates, HandleNewSession,
         HandleDetailed, HandlePong, sharedVars
    <3> QED
      BY <2>1, <3>1 DEF AnsweredGone, HasAnswer
  <2> QED
    BY <2>3, <2>4
<1>2. CASE ServerStep
  <2>1. UNCHANGED <<status, haveReceived>>
    BY <1>2, ServerLeavesClient DEF mainVars, sharedVars
  <2> QED
    BY <1>2, <2>1, ServerKnown DEF AnsweredGone, HasAnswer
<1>3. ASSUME NEW q \in Request, SendRequest(q) PROVE AnsweredGone'
  <2>1. /\ status' = [status EXCEPT ![q] = "pending"] /\ status[q] = "unsent"
        /\ toSend' = toSend \cup {q} /\ UNCHANGED <<haveSent, haveReceived, hand>>
    BY <1>3 DEF SendRequest, SendPrepared, trackVars
  <2>2. ~HasAnswer(q) /\ \A r \in Request : HasAnswer(r)' = HasAnswer(r)
    BY <2>1 DEF UnsentUnknown, HasAnswer
  <2>3. status'[q] = "pending" /\ \A r \in Request : r # q =>
            status'[r] = status[r] /\ (Known(r)' => Known(r))
    BY <2>1 DEF TypeOK, MainTypeOK, Known, SentAs
  <2> QED
    BY <2>2, <2>3 DEF AnsweredGone
<1>4. CASE CancelToSend \/ CancelHaveSent \/ \E q \in Request : CancelBegin(q)
  <2>1. /\ toSend' \in SUBSET toSend /\ UNCHANGED <<hand, haveReceived>>
        /\ \A m \in MsgId : haveSent'[m] \in {haveSent[m], None}
    BY <1>4 DEF CancelToSend, CancelHaveSent, CancelBegin, sharedVars, trackVars
  <2>2. \A r \in Request : Known(r)' => Known(r)
    BY <2>1 DEF Known, SentAs, Request
  <2>3. \A r \in Request : status'[r] \in {status[r], "cancelling", "cancelled"}
    BY <1>4 DEF CancelToSend, CancelHaveSent, CancelBegin, TypeOK, MainTypeOK
  <2> QED
    BY <2>1, <2>2, <2>3 DEF AnsweredGone, HasAnswer
<1>5. CASE ProcessCallback
  <2>1. /\ haveReceived \in Seq([request : Request, ok : BOOLEAN]) /\ haveReceived # <<>>
        /\ haveReceived' = Tail(haveReceived) /\ UNCHANGED <<toSend, haveSent, hand>>
    BY <1>5 DEF ProcessCallback, TypeOK, SharedTypeOK, trackVars
  <2>2. PICK q \in Request : q = Head(haveReceived).request
    <3>1. Head(haveReceived) \in [request : Request, ok : BOOLEAN]
      BY <2>1, Queues, Zenon
    <3> QED
      BY <3>1
  <2>3. HasAnswer(q)
    <3>1. 1 \in DOMAIN haveReceived /\ haveReceived[1].request = q
      BY <2>1, <2>2
    <3> QED
      BY <3>1 DEF HasAnswer
  <2>4. \A r \in Request : status'[r] = status[r] \/ (r = q /\ status[q] = "pending")
    BY <1>5, <2>2 DEF ProcessCallback, TypeOK, MainTypeOK
  <2>5. \A r \in Request : HasAnswer(r)' => HasAnswer(r)
    <3>1. ASSUME NEW i \in DOMAIN haveReceived'
          PROVE  i + 1 \in DOMAIN haveReceived /\ haveReceived'[i] = haveReceived[i + 1]
      BY <2>1, <3>1
    <3> QED
      BY <3>1 DEF HasAnswer
  <2>6. \A r \in Request : Known(r)' = Known(r)
    BY <2>1 DEF Known, SentAs
  <2> QED
    BY <2>3, <2>4, <2>5, <2>6 DEF AnsweredGone
<1>6. \A r \in Request : ~CheckDelayedRequests(r)
  BY DEF CheckDelayedRequests, NoErrors
<1> QED
  BY <1>1, <1>2, <1>3, <1>4, <1>5, <1>6 DEF Next, MainStep

-----------------------------------------------------------------------------
StrictInv == NoErrors /\ ContainersApart /\ UnsentUnknown /\ MapsAgree /\ AnsweredGone

LEMMA InitStrict == Init => StrictInv
<1> SUFFICES ASSUME Init PROVE StrictInv
  OBVIOUS
<1>1. \A m \in MsgId : haveSent[m] = None /\ resendingIds[m] = None /\ ackedIds[m] = None
                       /\ sentContainers[m] = {}
  BY DEF Init, NoIds, NoSets
<1>2. toSend = {} /\ hand = {} /\ single = None /\ haveReceived = <<>> /\ s2c = <<>>
      /\ answers = {} /\ delayed = {} /\ cancelling.request = None
      /\ \A r \in Request : msgIdOf[r] = None
  BY DEF Init
<1>3. (\A r \in Request : r # None) /\ \A m \in MsgId : m # None
  BY DEF Request, MsgId
<1>4. NoErrors
  BY <1>2, Queues DEF NoErrors
<1>5. ContainersApart
  BY <1>1 DEF ContainersApart
<1>6. UnsentUnknown
  BY <1>1, <1>2, <1>3 DEF UnsentUnknown, Known, SentAs, HasAnswer, Names
<1>7. MapsAgree
  BY <1>1, <1>2, <1>3 DEF MapsAgree, MapsOK, HandApart, SentApart, ResendingWaits, AckedGone
<1>8. AnsweredGone
  BY <1>1, <1>2, <1>3 DEF AnsweredGone, Known, SentAs
<1> QED
  BY <1>4, <1>5, <1>6, <1>7, <1>8 DEF StrictInv

LEMMA StrictStep ==
    ASSUME SessionInv, SessionInv', StrictInv, [Next]_vars,
           "error" \notin Faults, "fatal" \notin Faults
    PROVE  StrictInv'
<1> USE DEF SessionInv, StrictInv
<1>1. CASE Next
  <2>1. NoErrors'
    BY <1>1, NoErrorsServer, NoErrorsMain, NoErrorsPrivate DEF Next
  <2>2. delayed = {}
    BY DEF NoErrors
  <2>3. ContainersApart'
    BY <1>1, ApartStep
  <2>4. UnsentUnknown'
    BY <1>1, UnsentStep
  <2>5. MapsAgree'
    BY <1>1, <2>2, AgreeStep
  <2>6. AnsweredGone'
    BY <1>1, <2>5, AnsweredStep
  <2> QED
    BY <2>1, <2>3, <2>4, <2>5, <2>6
<1>2. CASE UNCHANGED vars
  <2> USE <1>2 DEF vars, mainVars, sharedVars, objectVars, trackVars, stateVars, netVars, serverVars
  <2>1. NoErrors'
    BY DEF NoErrors
  <2>2. ContainersApart'
    BY DEF ContainersApart, Names
  <2>3. UnsentUnknown' /\ AnsweredGone'
    BY DEF UnsentUnknown, AnsweredGone, Known, SentAs, HasAnswer, Names
  <2>4. MapsAgree'
    BY DEF MapsAgree, MapsOK, HandApart, SentApart, ResendingWaits, AckedGone, KnownIn, Stopped
  <2> QED
    BY <2>1, <2>2, <2>3, <2>4
<1> QED
  BY <1>1, <1>2

\* What the invariant says of the places of a request.
LEMMA StrictPlaces ==
    ASSUME SessionInv, StrictInv
    PROVE  OneCopy /\ ResendingIsWaiting
<1>1. /\ toSend \cap hand = {}
      /\ \A m \in MsgId : \A r \in Request : haveSent[m] = r => msgIdOf[r] = m /\ r \notin toSend
      /\ \A m \in MsgId : \A r \in Request : resendingIds[m] = r =>
            Stopped(r) \/ (msgIdOf[r] = m /\ r \in toSend \cup hand)
      /\ AnsweredGone
  BY DEF StrictInv, MapsAgree, MapsOK, HandApart, SentApart, ResendingWaits
<1>2. ASSUME NEW r \in Request PROVE Cardinality(SentAs(r)) <= 1
  <2>1. SentAs(r) \in SUBSET {msgIdOf[r]}
    BY <1>1 DEF SentAs
  <2>2. IsFiniteSet({msgIdOf[r]}) /\ Cardinality({msgIdOf[r]}) = 1
    BY FS_Singleton
  <2> QED
    BY <2>1, <2>2, FS_Subset
<1>3. \A r \in Request : r \in toSend => SentAs(r) = {} /\ r \notin hand
  BY <1>1 DEF SentAs
<1>4. \A r \in Request : status[r] \in {"done", "failed"} => ~Known(r)
  BY <1>1 DEF AnsweredGone
<1>5. OneCopy
  BY <1>2, <1>3, <1>4 DEF OneCopy
<1>6. ResendingIsWaiting
  BY <1>1 DEF ResendingIsWaiting, Stopped, SessionInv, TypeOK, TrackTypeOK
<1> QED
  BY <1>5, <1>6

LEMMA StrictHolds ==
    ASSUME "error" \notin Faults, "fatal" \notin Faults
    PROVE  Spec => [](SessionInv /\ StrictInv)
<1>1. SessionInv /\ SessionInv' /\ StrictInv /\ [Next]_vars => StrictInv'
  BY StrictStep
<1> QED
  BY <1>1, InitStrict, InvHolds, PTL DEF Spec

\* When requests are answered by results only and _ackedIds is not full, every
\* request has one place: in _toSend, on its way to _haveSent or back, or in
\* _haveSent under one id, until its answer takes it out of all of them; and as
\* long as somebody waits for it, it is in one of them or its answer is coming.
THEOREM OnePlace ==
    ASSUME "error" \notin Faults, "fatal" \notin Faults, KeepAcked >= MaxMsgId
    PROVE  Spec => []EveryRequestHasOnePlace
<1>1. Spec => []NoRequestLost
  BY NothingLost
<1>2. Spec => [](SessionInv /\ StrictInv)
  BY StrictHolds
<1>3. SessionInv /\ StrictInv /\ NoRequestLost => EveryRequestHasOnePlace
  BY StrictPlaces DEF EveryRequestHasOnePlace
<1> QED
  BY <1>1, <1>2, <1>3, PTL

\* When requests are answered by results only and one packet has room for all
\* there is to send, the maps of the session agree: a request without a container
\* is fresh, an id in _resendingIds is that of a request about to be sent again,
\* and what is sent in a session has an id allotted in it.
THEOREM MapsOfSessionAgree ==
    ASSUME "error" \notin Faults, "fatal" \notin Faults, ContainerSize >= MaxRequest
    PROVE  Spec => []SessionMapsAgree
<1>1. Spec => []MessagesOfThisSession
  BY MessagesAreOfTheSession
<1>2. Spec => [](SessionInv /\ StrictInv)
  BY StrictHolds
<1>3. SessionInv /\ StrictInv /\ MessagesOfThisSession => SessionMapsAgree
  BY StrictPlaces DEF SessionMapsAgree, SessionInv
<1> QED
  BY <1>1, <1>2, <1>3, PTL

-----------------------------------------------------------------------------
(* What is on its way to the server. *)

\* The messages in each packet of the connection, and after them the one in
\* the hand.
OnWay(i) ==
    IF i \in DOMAIN c2s THEN c2s[i].msgs
    ELSE IF i = Len(c2s) + 1 /\ single # None THEN {single} \X hand ELSE {}
Moving(k, r) == \E i \in Nat : <<k, r>> \in OnWay(i)

\* Nothing of an earlier session is in the connection, and nothing at all
\* before the session is marked as started.
SessionsInOrder ==
    /\ session # None /\ srvSession <= session
    /\ \A i \in DOMAIN c2s : c2s[i].session = session
    /\ single # None \/ c2s # <<>> \/ srvSession = session => started

LEMMA ClientLeavesServer ==
    ASSUME MainStep \/ PrivateStep
    PROVE  UNCHANGED serverVars
  BY DEF MainStep, SendRequest, CancelBegin, CancelToSend, CancelHaveSent, ProcessCallback,
       CheckDelayedRequests, PrivateStep, TryToSend, SendSingle, PutResent, CheckSentRequests,
       Connect, Drop, PingTimer, ClearOldContainer, HandleReceived, HandleUnknown, HandleAck,
       HandleNewResult, HandleDuplicate, HandleReset, HandleTooLow, HandleFatal, HandleStates,
       HandleNewSession, HandleDetailed, HandlePong, HandlerFrame

\* A packet is sent with the messages msgs: those being sent, or the one in
\* the hand.
Sends(msgs) ==
    /\ \E container, stateId : c2s' = Append(c2s, Packet(msgs, container, stateId))
    /\ single' = None
    /\ \/ /\ TryToSend /\ single = None /\ started'
          /\ msgs = {<<IdOf(r), r>> : r \in Sending} /\ msgIdOf' = SetIds(msgIdOf)
       \/ TryToSend /\ single = None /\ started' /\ msgs = {}
       \/ SendSingle /\ msgs = {single} \X hand /\ UNCHANGED <<msgIdOf, started>> /\ single # None

LEMMA ConnectionNext ==
    ASSUME TypeOK, HandParts, Next
    PROVE  \/ UNCHANGED c2s /\ (single' = None \/ UNCHANGED <<single, hand>>)
           \/ c2s' = <<>> /\ single' = None
           \/ ServerReceive /\ c2s # <<>> /\ c2s' = Tail(c2s) /\ UNCHANGED <<single, hand>>
           \/ /\ TryToSend /\ UNCHANGED c2s /\ single = None /\ started'
              /\ msgIdOf' = SetIds(msgIdOf)
              /\ hand' = Sending /\ \A r \in hand' : single' = IdOf(r)
           \/ \E msgs : Sends(msgs)
<1>1. PrivateFree => single = None
  BY DEF HandParts, PrivateFree
<1>2. CASE MainStep
  BY <1>2 DEF MainStep, SendRequest, CancelBegin, CancelToSend, CancelHaveSent,
     ProcessCallback, CheckDelayedRequests, netVars, trackVars
<1>3. CASE ServerStep
  <2>1. UNCHANGED <<single, hand>>
    BY <1>3, ServerLeavesClient DEF trackVars
  <2> QED
    BY <1>3, <2>1 DEF ServerStep, ServerReceive, ServerForget, TimePasses, ServerExecute,
       ServerAnswerAgain, ServerResend, ServerRepeat, ServerFrame, Take
<1>4. CASE HandleReceived
  <2>1. single' = None
    BY <1>1, <1>4 DEF HandleReceived, HandleUnknown, HandleAck, HandleNewResult, HandleDuplicate,
       HandleReset, HandleTooLow, HandleFatal, HandleStates, HandleNewSession, HandleDetailed,
       HandlePong, Is, HandlerFrame
  <2>2. c2s' \in {c2s, <<>>}
    BY <1>4 DEF HandleReceived, HandleUnknown, HandleAck, HandleNewResult, HandleDuplicate,
       HandleReset, HandleTooLow, HandleFatal, HandleStates, HandleNewSession, HandleDetailed,
       HandlePong, SameSession, ResetSession, Disconnect
  <2> QED
    BY <2>1, <2>2
<1>5. CASE \/ PutResent \/ CheckSentRequests \/ Connect \/ Drop \/ PingTimer
           \/ \E m \in MsgId : ClearOldContainer(m)
  <2>1. c2s' \in {c2s, <<>>} /\ single' = None
    BY <1>1, <1>5 DEF PutResent, CheckSentRequests, Connect, Drop, PingTimer, ClearOldContainer,
       Disconnect, netVars, trackVars
  <2> QED
    BY <2>1
<1>6. CASE SendSingle
  <2>1. PICK q \in Request : hand = {q}
    BY <1>6 DEF SendSingle, HandParts
  <2>2. (CHOOSE r \in hand : TRUE) = q
    BY <2>1
  <2>3. PICK msgs : msgs = {single} \X hand
    OBVIOUS
  <2>4. msgs = {<<single, q>>}
    BY <2>1, <2>3
  <2>5. c2s' = Append(c2s, Packet(msgs, None, None)) /\ single' = None /\ single # None
    BY <1>6, <2>2, <2>4 DEF SendSingle
  <2>6. UNCHANGED <<msgIdOf, started>>
    BY <1>6 DEF SendSingle, objectVars, stateVars
  <2> QED
    BY <1>6, <2>3, <2>5, <2>6 DEF Sends
<1>7. CASE TryToSend /\ SendContainer
  <2>1. PICK msgs : msgs = {<<IdOf(r), r>> : r \in Sending}
    OBVIOUS
  <2>2. \E container, stateId : c2s' = Append(c2s, Packet(msgs, container, stateId))
    BY <1>7, <2>1 DEF SendContainer
  <2>3. single = None /\ single' = None /\ msgIdOf' = SetIds(msgIdOf) /\ started'
    BY <1>1, <1>7 DEF TryToSend, SendContainer, TakeService
  <2> QED
    BY <1>7, <2>1, <2>2, <2>3 DEF Sends
<1>8. CASE TryToSend /\ SendSingleService
  <2>1. \E container, stateId : c2s' = Append(c2s, Packet({}, container, stateId))
    BY <1>8 DEF SendSingleService
  <2>2. single = None /\ single' = None /\ started'
    BY <1>1, <1>8 DEF TryToSend, SendSingleService, TakeService, trackVars
  <2> QED
    BY <1>8, <2>1, <2>2 DEF Sends
<1>9. CASE TryToSend /\ TakeSingle
  <2>1. TotalSending = 1 /\ ServiceCount = 0 /\ Cardinality(Sending) \in Nat /\ IsFiniteSet(Sending)
    BY <1>9, NewIds, RequestSets DEF TakeSingle, TypeOK, SharedTypeOK
  <2>2. Cardinality(Sending) = 1
    BY <2>1 DEF TotalSending
  <2>3. PICK q : Sending = {q}
    BY <2>1, <2>2, FS_Singleton
  <2>4. (CHOOSE r \in Sending : TRUE) = q
    BY <2>3
  <2>5. /\ hand' = Sending /\ single' = IdOf(q) /\ msgIdOf' = SetIds(msgIdOf) /\ started'
        /\ UNCHANGED c2s
    BY <1>9, <2>4 DEF TakeSingle, TakeService, netVars
  <2> QED
    BY <1>1, <1>9, <2>3, <2>5 DEF TryToSend
<1>10. CASE TryToSend /\ ~TakeSingle /\ ~SendSingleService /\ ~SendContainer
  BY <1>1, <1>10 DEF TryToSend, NothingToSend, netVars, trackVars
<1> QED
  BY <1>2, <1>3, <1>4, <1>5, <1>6, <1>7, <1>8, <1>9, <1>10 DEF Next, PrivateStep

\* The server takes the first packet.
LEMMA PacketsMove ==
    ASSUME TypeOK, ServerReceive
    PROVE  \A i \in Nat : OnWay(i)' \in SUBSET OnWay(i + 1)
<1>1. c2s \in Seq(Packets) /\ c2s # <<>> /\ c2s' = Tail(c2s) /\ UNCHANGED <<single, hand>>
  BY DEF ServerReceive, Take, trackVars, TypeOK, NetTypeOK
<1>2. /\ DOMAIN c2s = 1 .. Len(c2s) /\ DOMAIN c2s' = 1 .. Len(c2s') /\ Len(c2s) \in Nat
      /\ Len(c2s') = Len(c2s) - 1 /\ \A i \in 1 .. Len(c2s') : c2s'[i] = c2s[i + 1]
  BY <1>1
<1>3. ASSUME NEW i \in Nat PROVE OnWay(i)' \in SUBSET OnWay(i + 1)
  <2>1. CASE i \in 1 .. Len(c2s')
    <3>1. i + 1 \in 1 .. Len(c2s) /\ c2s'[i] = c2s[i + 1]
      BY <1>2, <2>1
    <3> QED
      BY <1>2, <2>1, <3>1 DEF OnWay
  <2>2. CASE i \notin 1 .. Len(c2s')
    <3>1. i = Len(c2s') + 1 => i + 1 = Len(c2s) + 1 /\ i + 1 \notin 1 .. Len(c2s)
      BY <1>2
    <3> QED
      BY <1>1, <1>2, <2>2, <3>1 DEF OnWay
  <2> QED
    BY <2>1, <2>2
<1> QED
  BY <1>3

\* Messages move on, and new ones come last.
LEMMA OnWayNext ==
    ASSUME TypeOK, HandParts, Next
    PROVE  \/ \A i \in Nat : OnWay(i)' \in SUBSET OnWay(i)
           \/ ServerReceive /\ \A i \in Nat : OnWay(i)' \in SUBSET OnWay(i + 1)
           \/ /\ TryToSend /\ started' /\ msgIdOf' = SetIds(msgIdOf)
              /\ \E n \in Nat : /\ \A i \in Nat : i >= n => OnWay(i) = {}
                                /\ \A i \in Nat : i # n => OnWay(i)' \in SUBSET OnWay(i)
                                /\ OnWay(n)' \in SUBSET {<<IdOf(r), r>> : r \in Sending}
                                /\ \A i \in Nat : i > n => OnWay(i)' = {}
<1>1. c2s \in Seq(Packets) /\ c2s' \in Seq(Packets) /\ Len(c2s) \in Nat
  <2>1. TypeOK'
    BY TypeStep
  <2> QED
    BY <2>1 DEF TypeOK, NetTypeOK
<1>2. DOMAIN c2s = 1 .. Len(c2s) /\ DOMAIN c2s' = 1 .. Len(c2s')
  BY <1>1
<1>3. CASE UNCHANGED c2s /\ (single' = None \/ UNCHANGED <<single, hand>>)
  BY <1>3 DEF OnWay
<1>4. CASE c2s' = <<>> /\ single' = None
  BY <1>4 DEF OnWay
<1>5. CASE ServerReceive
  BY <1>5, PacketsMove
<1>6. CASE /\ TryToSend /\ UNCHANGED c2s /\ single = None /\ started' /\ msgIdOf' = SetIds(msgIdOf)
           /\ hand' = Sending /\ \A r \in hand' : single' = IdOf(r)
  <2>0. PICK n \in Nat : n = Len(c2s) + 1
    BY <1>1
  <2>1. \A i \in Nat : i >= n => OnWay(i) = {}
    BY <1>1, <1>2, <1>6, <2>0 DEF OnWay
  <2>2. \A i \in Nat : i # n => OnWay(i)' \in SUBSET OnWay(i)
    BY <1>6, <2>0 DEF OnWay
  <2>3. OnWay(n)' \in SUBSET {<<IdOf(r), r>> : r \in Sending}
    <3>1. n \notin DOMAIN c2s'
      BY <1>1, <1>2, <1>6, <2>0
    <3>2. OnWay(n)' \in SUBSET ({single'} \X hand')
      BY <1>6, <3>1 DEF OnWay
    <3> QED
      BY <1>6, <3>2
  <2>4. \A i \in Nat : i > n => OnWay(i)' = {}
    BY <1>1, <1>2, <1>6, <2>0 DEF OnWay
  <2> QED
    BY <1>6, <2>1, <2>2, <2>3, <2>4
<1>7. ASSUME NEW n \in Nat, n = Len(c2s) + 1, NEW msgs, Sends(msgs)
      PROVE  /\ \A i \in Nat : i # n => OnWay(i)' \in SUBSET OnWay(i)
             /\ OnWay(n)' = msgs
             /\ \A i \in Nat : i > n => OnWay(i)' = {}
             /\ n \notin DOMAIN c2s
  <2>1. PICK container, stateId : c2s' = Append(c2s, Packet(msgs, container, stateId))
    BY <1>7 DEF Sends
  <2>2. PICK p : p = Packet(msgs, container, stateId)
    OBVIOUS
  <2>3. p.msgs = msgs
    BY <2>2 DEF Packet
  <2>4. /\ Len(c2s') = n /\ c2s'[n] = p
        /\ \A i \in 1 .. Len(c2s) : c2s'[i] = c2s[i]
    BY <1>1, <1>7, <2>1, <2>2
  <2>5. single' = None
    BY <1>7 DEF Sends
  <2>6. n \notin DOMAIN c2s /\ n \in DOMAIN c2s'
    BY <1>1, <1>2, <1>7, <2>4
  <2>7. OnWay(n)' = msgs
    BY <2>3, <2>4, <2>6 DEF OnWay
  <2>8. \A i \in Nat : i > n => i \notin DOMAIN c2s'
    BY <1>1, <1>2, <2>4
  <2>9. \A i \in Nat : i > n => OnWay(i)' = {}
    BY <2>5, <2>8 DEF OnWay
  <2>10. ASSUME NEW i \in Nat, i # n PROVE OnWay(i)' \in SUBSET OnWay(i)
    <3>1. CASE i \in DOMAIN c2s
      <4>1. i \in DOMAIN c2s' /\ c2s'[i] = c2s[i]
        BY <1>1, <1>2, <1>7, <2>4, <3>1
      <4> QED
        BY <3>1, <4>1 DEF OnWay
    <3>2. CASE i \notin DOMAIN c2s
      <4>1. i \notin DOMAIN c2s'
        BY <1>1, <1>2, <1>7, <2>4, <2>10, <3>2
      <4> QED
        BY <2>5, <4>1 DEF OnWay
    <3> QED
      BY <3>1, <3>2
  <2> QED
    BY <2>6, <2>7, <2>9, <2>10
<1>8. ASSUME NEW msgs, Sends(msgs)
      PROVE  \/ \A i \in Nat : OnWay(i)' \in SUBSET OnWay(i)
             \/ /\ TryToSend /\ started' /\ msgIdOf' = SetIds(msgIdOf)
                /\ \E n \in Nat : /\ \A i \in Nat : i >= n => OnWay(i) = {}
                                  /\ \A i \in Nat : i # n => OnWay(i)' \in SUBSET OnWay(i)
                                  /\ OnWay(n)' \in SUBSET {<<IdOf(r), r>> : r \in Sending}
                                  /\ \A i \in Nat : i > n => OnWay(i)' = {}
  <2>1. PICK n \in Nat : n = Len(c2s) + 1
    BY <1>1
  <2>2. /\ \A i \in Nat : i # n => OnWay(i)' \in SUBSET OnWay(i)
        /\ OnWay(n)' = msgs /\ \A i \in Nat : i > n => OnWay(i)' = {} /\ n \notin DOMAIN c2s
    BY <1>7, <1>8, <2>1, Zenon
  <2>3. CASE msgs = {single} \X hand /\ single # None
    <3>1. OnWay(n) = msgs
      BY <2>1, <2>2, <2>3 DEF OnWay
    <3> QED
      BY <2>2, <3>1
  <2>4. CASE msgs = {}
    BY <2>2, <2>4
  <2>5. CASE TryToSend /\ single = None /\ started' /\ msgIdOf' = SetIds(msgIdOf)
             /\ msgs = {<<IdOf(r), r>> : r \in Sending}
    <3>1. \A i \in Nat : i >= n => OnWay(i) = {}
      BY <1>1, <1>2, <2>1, <2>5 DEF OnWay
    <3>2. OnWay(n)' \in SUBSET {<<IdOf(r), r>> : r \in Sending}
      BY <2>2, <2>5
    <3> QED
      BY <2>2, <2>5, <3>1, <3>2
  <2> QED
    BY <1>8, <2>3, <2>4, <2>5 DEF Sends
<1> QED
  BY <1>3, <1>4, <1>5, <1>6, <1>8, ConnectionNext

\* Where a session begins anew, and where not.
LEMMA SessionNext ==
    ASSUME Next
    PROVE  \/ UNCHANGED <<session, losses>> /\ (started => started')
           \/ ServerForget /\ UNCHANGED <<session, started>>
           \/ HandleReset /\ session' = session + 1 /\ losses' = losses + 1 /\ c2s' = <<>> /\ ~started'
<1>1. CASE MainStep
  BY <1>1 DEF MainStep, SendRequest, CancelBegin, CancelToSend, CancelHaveSent, ProcessCallback,
       CheckDelayedRequests, stateVars, countVars
<1>2. CASE ServerStep
  <2>1. UNCHANGED <<session, started>>
    BY <1>2, ServerLeavesClient DEF stateVars
  <2>2. ~ServerForget => UNCHANGED losses
    BY <1>2 DEF ServerStep, ServerReceive, TimePasses, ServerExecute, ServerAnswerAgain,
       ServerResend, ServerRepeat
  <2> QED
    BY <2>1, <2>2
<1>3. CASE TryToSend
  BY <1>3 DEF TryToSend, NothingToSend, TakeSingle, SendSingleService, SendContainer, TakeService,
       countVars
<1>4. CASE HandleReset
  BY <1>4 DEF HandleReset, ResetSession, Disconnect
<1>5. CASE PrivateStep /\ ~TryToSend /\ ~HandleReset
  BY <1>5 DEF PrivateStep, SendSingle, PutResent, CheckSentRequests, Connect, Drop, PingTimer,
       ClearOldContainer, HandleReceived, HandleUnknown, HandleAck, HandleNewResult,
       HandleDuplicate, HandleTooLow, HandleFatal, HandleStates, HandleNewSession, HandleDetailed,
       HandlePong, SameSession, stateVars, countVars
<1> QED
  BY <1>1, <1>2, <1>3, <1>4, <1>5 DEF Next

\* An id that was allotted names no other request later.
LEMMA OldNames ==
    ASSUME SessionInv, Next
    PROVE  /\ lastId' >= lastId
           /\ \A m \in MsgId : \A r \in Request : m <= lastId /\ Names(m, r)' => Names(m, r)
<1> USE DEF SessionInv
<1>1. CASE Shrinks
  BY <1>1 DEF Shrinks
<1>2. CASE RenamesOnly
  <2>1. IdsTaken \in Nat /\ lastId \in Nat /\ lastId' \in Nat
    <3>1. TypeOK'
      BY TypeStep
    <3> QED
      BY <3>1, NewIds DEF TypeOK, StateTypeOK
  <2> QED
    BY <1>2, <2>1 DEF RenamesOnly
<1>3. CASE ServerStep
  <2>1. UNCHANGED <<haveSent, resendingIds, ackedIds, msgIdOf, single, hand, cancelling, lastId>>
    BY <1>3, ServerLeavesClient DEF mainVars, sharedVars, objectVars, trackVars, stateVars
  <2> QED
    BY <2>1 DEF Names, TypeOK, StateTypeOK
<1> QED
  BY <1>1, <1>2, <1>3, MainShrinks, HandlersShrink, ThreadShrinks, SingleRenames, ContainerRenames
  DEF Next, PrivateStep, TryToSend

\* The main thread does not forget that a request was sent.
LEMMA StaysSent ==
    ASSUME TypeOK, Next
    PROVE  \A r \in Request : status[r] # "unsent" => status'[r] # "unsent"
<1>1. CASE MainStep
  BY <1>1 DEF MainStep, SendRequest, CancelBegin, CancelToSend, CancelHaveSent, ProcessCallback,
     CheckDelayedRequests, TypeOK, MainTypeOK
<1> QED
  BY <1>1, PrivateMain, ServerLeavesClient DEF Next, mainVars

-----------------------------------------------------------------------------
(* What an id names. *)

\* Where the id of a request is taken back, and where it gets a new one.
LEMMA IdsNext ==
    ASSUME SessionInv, UnsentUnknown, Next, NEW r \in Request
    PROVE  \/ msgIdOf'[r] = msgIdOf[r]
           \/ CheckDelayedRequests(r) /\ msgIdOf'[r] = None
           \/ TryToSend /\ r \in Sending /\ NeedsId(r) /\ msgIdOf'[r] = IdOf(r) /\ IdOf(r) > lastId
<1>1. msgIdOf \in [Request -> MsgId \cup {None}] /\ lastId \in Nat /\ IdsTaken \in Nat
  BY NewIds DEF SessionInv, TypeOK, ObjectTypeOK, StateTypeOK
<1>2. CASE UNCHANGED msgIdOf
  BY <1>2
<1>3. ASSUME NEW q \in Request, SendRequest(q)
      PROVE  msgIdOf'[r] = msgIdOf[r]
  <2>1. status[q] = "unsent" /\ msgIdOf' = [msgIdOf EXCEPT ![q] = None]
    BY <1>3 DEF SendRequest, SendPrepared
  <2>2. \A m \in MsgId : ~Names(m, q)
    BY <2>1 DEF UnsentUnknown
  <2>3. msgIdOf[q] \notin MsgId
    BY <2>2 DEF Names
  <2> QED
    BY <1>1, <2>1, <2>3
<1>4. ASSUME NEW q \in Request, CheckDelayedRequests(q)
      PROVE  msgIdOf'[r] = msgIdOf[r] \/ (r = q /\ msgIdOf'[r] = None)
  BY <1>1, <1>4 DEF CheckDelayedRequests, SendPrepared
<1>5. CASE TryToSend /\ (TakeSingle \/ SendContainer)
  <2>1. msgIdOf' = SetIds(msgIdOf)
    BY <1>5 DEF TakeSingle, SendContainer
  <2>2. msgIdOf'[r] = IF r \in Sending THEN IdOf(r) ELSE msgIdOf[r]
    BY <2>1 DEF SetIds
  <2>3. CASE r \in Sending /\ NeedsId(r)
    <3>1. IdOf(r) \in lastId + 1 .. lastId + IdsTaken
      BY <2>3, NewIds, Zenon DEF SessionInv
    <3> QED
      BY <1>1, <1>5, <2>2, <2>3, <3>1
  <2>4. r \in Sending /\ ~NeedsId(r) => IdOf(r) = msgIdOf[r]
    BY DEF IdOf
  <2> QED
    BY <2>2, <2>3, <2>4
<1>6. CASE HandleReceived
  BY <1>2, <1>6 DEF HandleReceived, HandleUnknown, HandleAck, HandleNewResult, HandleDuplicate,
       HandleReset, HandleTooLow, HandleFatal, HandleStates, HandleNewSession, HandleDetailed,
       HandlePong, HandlerFrame
<1>7. CASE ServerStep
  BY <1>2, <1>7, ServerLeavesClient DEF objectVars
<1> QED
  BY <1>2, <1>3, <1>4, <1>5, <1>6, <1>7 DEF Next, MainStep, CancelBegin, CancelToSend, CancelHaveSent,
     ProcessCallback, PrivateStep, TryToSend, NothingToSend, SendSingleService, SendSingle, PutResent,
     CheckSentRequests, Connect, Drop, PingTimer, ClearOldContainer, objectVars

\* The id k is of r and of no other request, whatever becomes of it.
Owned(k, r) ==
    k <= lastId /\ status[r] # "unsent" /\ \A q \in Request : Names(k, q) => q = r

LEMMA OwnedStays ==
    ASSUME SessionInv, Next, NEW k \in MsgId, NEW r \in Request, Owned(k, r)
    PROVE  Owned(k, r)'
<1>1. lastId \in Nat /\ lastId' \in Nat /\ k \in Nat
  <2>1. TypeOK'
    BY TypeStep DEF SessionInv
  <2> QED
    BY <2>1 DEF SessionInv, TypeOK, StateTypeOK, MsgId
<1>2. k <= lastId /\ \A q \in Request : Names(k, q) => q = r
  BY DEF Owned
<1>3. lastId' >= lastId /\ \A q \in Request : Names(k, q)' => Names(k, q)
  BY <1>2, OldNames
<1>4. k <= lastId'
  BY <1>1, <1>2, <1>3
<1>5. status'[r] # "unsent"
  BY StaysSent DEF SessionInv, Owned
<1> QED
  BY <1>2, <1>3, <1>4, <1>5 DEF Owned

\* Request r is sent in this step, with the id k.
SentNow(k, r) ==
    TryToSend /\ started' /\ msgIdOf' = SetIds(msgIdOf) /\ r \in Sending /\ k = IdOf(r)

LEMMA MovingNext ==
    ASSUME TypeOK, HandParts, Next, NEW k, NEW r, Moving(k, r)'
    PROVE  Moving(k, r) \/ SentNow(k, r)
<1>1. PICK i \in Nat : <<k, r>> \in OnWay(i)'
  BY DEF Moving
<1>2. CASE \A j \in Nat : OnWay(j)' \in SUBSET OnWay(j)
  BY <1>1, <1>2 DEF Moving
<1>3. CASE \A j \in Nat : OnWay(j)' \in SUBSET OnWay(j + 1)
  <2>1. <<k, r>> \in OnWay(i + 1) /\ i + 1 \in Nat
    BY <1>1, <1>3
  <2> QED
    BY <2>1 DEF Moving
<1>4. ASSUME TryToSend, started', msgIdOf' = SetIds(msgIdOf), NEW n \in Nat,
             \A j \in Nat : j # n => OnWay(j)' \in SUBSET OnWay(j),
             OnWay(n)' \in SUBSET {<<IdOf(q), q>> : q \in Sending}
      PROVE  Moving(k, r) \/ SentNow(k, r)
  <2>1. CASE i # n
    BY <1>1, <1>4, <2>1 DEF Moving
  <2>2. CASE i = n
    <3>1. PICK q \in Sending : <<k, r>> = <<IdOf(q), q>>
      BY <1>1, <1>4, <2>2
    <3>2. k = IdOf(q) /\ r = q
      BY <3>1
    <3> QED
      BY <1>4, <3>2 DEF SentNow
  <2> QED
    BY <2>1, <2>2
<1>5. CASE /\ TryToSend /\ started' /\ msgIdOf' = SetIds(msgIdOf)
           /\ \E n \in Nat : /\ \A j \in Nat : j >= n => OnWay(j) = {}
                             /\ \A j \in Nat : j # n => OnWay(j)' \in SUBSET OnWay(j)
                             /\ OnWay(n)' \in SUBSET {<<IdOf(q), q>> : q \in Sending}
                             /\ \A j \in Nat : j > n => OnWay(j)' = {}
  BY <1>4, <1>5, Zenon
<1> QED
  BY <1>2, <1>3, <1>5, OnWayNext, Zenon

LEMMA SentNowOwned ==
    ASSUME SessionInv, UnsentUnknown, Next, NEW k \in MsgId, NEW r \in Request, SentNow(k, r)
    PROVE  msgIdOf'[r] = k /\ Names(k, r)' /\ Owned(k, r)'
<1>1. msgIdOf'[r] = k
  BY DEF SentNow, SetIds
<1>2. Names(k, r)'
  BY <1>1 DEF Names
<1>3. SessionInv'
  BY InvStep
<1>4. status'[r] = status[r] /\ status[r] # "unsent"
  <2>1. Sending \subseteq toSend
    BY NewIds DEF SessionInv
  <2>2. Known(r) /\ UNCHANGED status
    BY <2>1 DEF SentNow, Known, TryToSend, mainVars
  <2> QED
    BY <2>2 DEF UnsentUnknown
<1> QED
  BY <1>1, <1>2, <1>3, <1>4 DEF Owned, SessionInv, OneOwner, Allotted

LEMMA InOrderStep ==
    ASSUME SessionInv, SessionsInOrder, Next
    PROVE  SessionsInOrder'
<1> USE DEF SessionInv
<1>1. session \in Nat /\ srvSession \in Nat /\ c2s \in Seq(Packets)
  BY DEF TypeOK, StateTypeOK, ServerTypeOK, NetTypeOK
<1>2. c2s # <<>> => Head(c2s).session = session /\ started
  BY <1>1 DEF SessionsInOrder
<1>3. srvSession' \in {srvSession, None} \/ (srvSession' = session /\ started /\ UNCHANGED session)
  <2>1. CASE ServerReceive
    BY <1>2, <2>1 DEF ServerReceive, Take, stateVars
  <2>2. CASE ServerStep /\ ~ServerReceive
    BY <2>2 DEF ServerStep, ServerForget, TimePasses, ServerExecute, ServerAnswerAgain,
       ServerResend, ServerRepeat
  <2> QED
    BY <2>1, <2>2, ClientLeavesServer DEF Next, serverVars
<1>4. ASSUME NEW msgs, Sends(msgs)
      PROVE  \A i \in DOMAIN c2s' : c2s'[i].session = session
  <2>1. PICK container, stateId : c2s' = Append(c2s, Packet(msgs, container, stateId))
    BY <1>4 DEF Sends
  <2>2. PICK p : p = Packet(msgs, container, stateId)
    OBVIOUS
  <2>3. p.session = session
    BY <2>2 DEF Packet
  <2>4. c2s' = Append(c2s, p)
    BY <2>1, <2>2
  <2> QED
    BY <1>1, <2>3, <2>4 DEF SessionsInOrder
<1>5. \A i \in DOMAIN c2s' : c2s'[i].session = session
  <2>1. CASE c2s # <<>> /\ c2s' = Tail(c2s)
    <3>1. \A i \in DOMAIN c2s' : i + 1 \in DOMAIN c2s /\ c2s'[i] = c2s[i + 1]
      BY <1>1, <2>1
    <3> QED
      BY <3>1 DEF SessionsInOrder
  <2>2. CASE c2s' \in {c2s, <<>>}
    BY <2>2 DEF SessionsInOrder
  <2> QED
    BY <1>4, <2>1, <2>2, ConnectionNext
<1>6. single' # None \/ c2s' # <<>> => started' \/ single # None \/ c2s # <<>>
  <2>1. \A msgs : Sends(msgs) => started' \/ single # None
    BY DEF Sends
  <2> QED
    BY <2>1, ConnectionNext
<1>7. CASE UNCHANGED session /\ (started => started')
  <2>1. srvSession' <= session'
    BY <1>1, <1>3, <1>7 DEF SessionsInOrder
  <2>2. srvSession' = session' => started'
    BY <1>1, <1>3, <1>7 DEF SessionsInOrder
  <2> QED
    BY <1>5, <1>6, <1>7, <2>1, <2>2 DEF SessionsInOrder
<1>8. CASE HandleReset /\ session' = session + 1 /\ c2s' = <<>>
  <2>1. single = None /\ single' = None
    BY <1>8 DEF HandleReset, HandlerFrame, Is, HandParts, PrivateFree
  <2>2. srvSession' = srvSession
    BY <1>8 DEF HandleReset, HandlerFrame, serverVars
  <2> QED
    BY <1>1, <1>8, <2>1, <2>2 DEF SessionsInOrder
<1> QED
  BY <1>7, <1>8, SessionNext

-----------------------------------------------------------------------------
(* The order of ids. *)

\* The ids a request has and is on its way with.
Ahead(k, r) == msgIdOf[r] = k \/ (k # None /\ Moving(k, r))

\* What is on its way, or waits to be answered, is of one request.
FlightOwned ==
    /\ \A k \in MsgId : \A r \in Request : Moving(k, r) \/ <<k, r>> \in todo => Owned(k, r)
    /\ \A k \in MsgId : \A r, q \in Request : Moving(k, r) /\ Moving(k, q) => r = q
    /\ \A m \in got : m <= lastId

\* A request is sent with greater and greater ids, and has the last one of
\* them; in the session the server knows it did not get a later one before.
InLine == \A r \in Request : \A k, l \in MsgId : \A i, j \in Nat :
    i <= j /\ <<k, r>> \in OnWay(i) /\ <<l, r>> \in OnWay(j) => k <= l
LastIsNamed == \A r \in Request : \A k \in MsgId :
    Moving(k, r) /\ msgIdOf[r] # None => k <= msgIdOf[r]
GotBehind == srvSession = session => \A r \in Request : \A k \in MsgId : \A l \in got :
    Moving(k, r) /\ Ahead(l, r) => l <= k
IdsInOrder == InLine /\ LastIsNamed /\ GotBehind

\* So the server got one of them at most.
LEMMA OneGot ==
    ASSUME TypeOK, IdsInOrder, srvSession = session, NEW r \in Request, NEW k \in got, NEW l \in got,
           Ahead(k, r), Ahead(l, r)
    PROVE  k = l
<1>1. k \in MsgId /\ l \in MsgId /\ k # None /\ l # None /\ k \in Nat /\ l \in Nat
  BY DEF TypeOK, ServerTypeOK, MsgId
<1>2. CASE Moving(k, r) /\ Moving(l, r)
  <2>1. k <= l /\ l <= k
    BY <1>1, <1>2 DEF IdsInOrder, GotBehind
  <2> QED
    BY <1>1, <2>1
<1>3. CASE Moving(k, r) /\ msgIdOf[r] = l
  <2>1. k <= l /\ l <= k
    BY <1>1, <1>3 DEF IdsInOrder, GotBehind, LastIsNamed
  <2> QED
    BY <1>1, <2>1
<1>4. CASE Moving(l, r) /\ msgIdOf[r] = k
  <2>1. k <= l /\ l <= k
    BY <1>1, <1>4 DEF IdsInOrder, GotBehind, LastIsNamed
  <2> QED
    BY <1>1, <2>1
<1> QED
  BY <1>1, <1>2, <1>3, <1>4 DEF Ahead

\* What the server does with a packet: what it has to answer comes from it, or
\* was there in the same session.
LEMMA TakeNext ==
    ASSUME TypeOK, SessionsInOrder, ServerReceive
    PROVE  /\ srvSession' = session
           /\ \A m \in got' : \/ \E r \in Request : <<m, r>> \in OnWay(1)
                              \/ srvSession = session /\ m \in got
           /\ \A x \in todo' : \/ x \in OnWay(1) /\ x \in MsgId \X Request /\ x[1] \in got'
                               \/ srvSession = session /\ x \in todo
           /\ srvSession = session => got \in SUBSET got' /\ answers' \in SUBSET answers
           /\ srvSession # session => answers' = {}
           /\ \A x \in todo' : (\A a \in answers' : a.msgId # x[1]) =>
                 \/ x \in todo /\ \A a \in answers : a.msgId # x[1]
                 \/ /\ x \in OnWay(1) /\ x[1] \in got'
                    /\ srvSession = session => x[1] \notin got
<1>1. PICK bad, reply : Take(bad, reply)
  BY DEF ServerReceive
<1>2. c2s # <<>> /\ c2s \in Seq(Packets)
  BY DEF ServerReceive, TypeOK, NetTypeOK
<1>3. PICK p \in Packets : p = Head(c2s) /\ p = c2s[1]
  BY <1>2
<1>4. 1 \in DOMAIN c2s /\ p.session = session /\ p.msgs \in SUBSET (MsgId \X Request)
  BY <1>2, <1>3 DEF SessionsInOrder, Packets
<1>5. OnWay(1) = p.msgs
  BY <1>3, <1>4 DEF OnWay
<1> DEFINE new == p.session # srvSession
           had == IF new THEN {} ELSE got
           kept == IF new THEN {} ELSE {a \in answers : a.answer \notin p.acks}
           accepted == {x \in p.msgs : x[1] \notin bad}
<1>6. /\ srvSession' = p.session /\ got' = had \cup {x[1] : x \in accepted} /\ answers' = kept
      /\ todo' = {x \in IF new THEN {} ELSE todo :
                    ~\E a \in answers : a.msgId = x[1] /\ a.answer \in p.acks}
          \cup {x \in accepted : x[1] \notin had \/ \E a \in kept : a.msgId = x[1]}
  BY <1>1, <1>3 DEF Take
<1>7. ASSUME NEW x \in todo'
      PROVE  \/ x \in accepted /\ (x[1] \notin had \/ \E a \in answers' : a.msgId = x[1])
             \/ ~new /\ x \in todo /\ ~\E a \in answers : a.msgId = x[1] /\ a.answer \in p.acks
  BY <1>6
<1>8. \A x \in accepted : x \in OnWay(1) /\ x \in MsgId \X Request /\ x[1] \in got'
  BY <1>4, <1>5, <1>6
<1>9. ASSUME NEW m \in got' PROVE (\E r \in Request : <<m, r>> \in OnWay(1)) \/ (~new /\ m \in got)
  <2>1. CASE m \in had
    BY <2>1
  <2>2. ASSUME NEW x \in accepted, m = x[1] PROVE \E r \in Request : <<m, r>> \in OnWay(1)
    <3>1. x \in OnWay(1) /\ x[2] \in Request /\ x = <<m, x[2]>>
      BY <1>8, <2>2
    <3> QED
      BY <3>1
  <2> QED
    BY <1>6, <2>1, <2>2
<1>10. ~new => \A a \in answers : a \in answers' \/ a.answer \in p.acks
  BY <1>6
<1>11. had = got \/ new
  OBVIOUS
<1>12. ~new => got \in SUBSET got' /\ answers' \in SUBSET answers
  BY <1>6
<1>13. new => answers' = {}
  BY <1>6
<1>14. new <=> srvSession # session
  BY <1>4
<1> HIDE DEF accepted, had, new
<1>15. ASSUME NEW x \in todo', \A a \in answers' : a.msgId # x[1]
       PROVE  \/ x \in todo /\ \A a \in answers : a.msgId # x[1]
              \/ /\ x \in OnWay(1) /\ x[1] \in got'
                 /\ srvSession = session => x[1] \notin got
  <2>1. CASE x \in accepted /\ x[1] \notin had
    BY <1>8, <1>11, <1>14, <2>1
  <2>2. CASE ~new /\ x \in todo /\ ~\E a \in answers : a.msgId = x[1] /\ a.answer \in p.acks
    BY <1>10, <1>15, <2>2
  <2> QED
    BY <1>7, <1>15, <2>1, <2>2
<1> QED
  BY <1>4, <1>6, <1>7, <1>8, <1>9, <1>12, <1>13, <1>14, <1>15

LEMMA FlightStep ==
    ASSUME SessionInv, UnsentUnknown, SessionsInOrder, FlightOwned, Next
    PROVE  FlightOwned'
<1> USE DEF SessionInv
<1>1. /\ todo \in SUBSET (MsgId \X Request) /\ got \in SUBSET MsgId /\ 1 \in Nat
      /\ lastId \in Nat /\ lastId' \in Nat /\ \A m \in MsgId : m \in Nat
  <2>1. TypeOK'
    BY TypeStep
  <2> QED
    BY <2>1 DEF TypeOK, ServerTypeOK, StateTypeOK, MsgId
<1>2. ASSUME NEW k \in MsgId, NEW r \in Request, Moving(k, r)' PROVE Owned(k, r)'
  BY <1>2, MovingNext, OwnedStays, SentNowOwned DEF FlightOwned
<1>3. ASSUME NEW k \in MsgId, NEW r \in Request, <<k, r>> \in todo' PROVE Owned(k, r)'
  <2>1. CASE <<k, r>> \in todo
    BY <2>1, OwnedStays DEF FlightOwned
  <2>2. CASE ServerReceive /\ <<k, r>> \in OnWay(1)
    <3>1. Moving(k, r)
      BY <1>1, <2>2 DEF Moving
    <3> QED
      BY <3>1, OwnedStays DEF FlightOwned
  <2>3. CASE ServerReceive
    BY <1>3, <2>1, <2>2, <2>3, TakeNext
  <2>4. CASE ServerStep /\ ~ServerReceive
    <3>1. todo' \in SUBSET todo
      BY <2>4 DEF ServerStep, ServerForget, TimePasses, ServerExecute, ServerAnswerAgain,
         ServerResend, ServerRepeat
    <3> QED
      BY <1>3, <2>1, <3>1
  <2>5. CASE MainStep \/ PrivateStep
    BY <1>3, <2>1, <2>5, ClientLeavesServer DEF serverVars
  <2> QED
    BY <2>3, <2>4, <2>5 DEF Next
<1>4. ASSUME NEW k \in MsgId, NEW r \in Request, NEW q \in Request, Moving(k, r)', Moving(k, q)'
      PROVE  r = q
  <2>1. CASE Moving(k, r) /\ Moving(k, q)
    BY <2>1 DEF FlightOwned
  <2>2. CASE SentNow(k, q)
    BY <1>2, <1>4, <2>2, SentNowOwned DEF Owned
  <2>3. CASE SentNow(k, r)
    BY <1>2, <1>4, <2>3, SentNowOwned DEF Owned
  <2> QED
    BY <1>4, <2>1, <2>2, <2>3, MovingNext
<1>5. ASSUME NEW m \in got' PROVE m <= lastId'
  <2>1. lastId' >= lastId
    BY OldNames
  <2>2. CASE m \in got
    BY <1>1, <2>1, <2>2 DEF FlightOwned
  <2>3. CASE ServerReceive
    <3>1. CASE \E r \in Request : <<m, r>> \in OnWay(1)
      <4>1. PICK r \in Request : Moving(m, r)
        BY <1>1, <3>1 DEF Moving
      <4>2. m \in MsgId
        <5>1. TypeOK'
          BY TypeStep
        <5> QED
          BY <5>1 DEF TypeOK, ServerTypeOK
      <4>3. m <= lastId
        BY <4>1, <4>2 DEF FlightOwned, Owned
      <4> QED
        BY <1>1, <2>1, <4>2, <4>3
    <3> QED
      BY <2>2, <2>3, <3>1, TakeNext
  <2>4. CASE ServerStep /\ ~ServerReceive
    <3>1. got' \in SUBSET got
      BY <2>4 DEF ServerStep, ServerForget, TimePasses, ServerExecute, ServerAnswerAgain,
         ServerResend, ServerRepeat
    <3> QED
      BY <2>2, <3>1
  <2>5. CASE MainStep \/ PrivateStep
    BY <2>2, <2>5, ClientLeavesServer DEF serverVars
  <2> QED
    BY <2>3, <2>4, <2>5 DEF Next
<1> QED
  BY <1>2, <1>3, <1>4, <1>5 DEF FlightOwned

\* A new id is greater than all that are on their way.
LEMMA SentAbove ==
    ASSUME SessionInv, FlightOwned, LastIsNamed, NEW k \in MsgId, NEW r \in Request, Moving(k, r),
           r \in Sending
    PROVE  k <= IdOf(r)
<1>0. k <= lastId
  BY Zenon DEF FlightOwned, Owned
<1>1. lastId \in Nat /\ IdsTaken \in Nat /\ k \in Nat /\ k <= lastId
  BY <1>0, NewIds DEF SessionInv, TypeOK, StateTypeOK, MsgId
<1>2. CASE NeedsId(r)
  <2>1. IdOf(r) \in lastId + 1 .. lastId + IdsTaken
    BY <1>2, NewIds, Zenon DEF SessionInv
  <2> QED
    BY <1>1, <2>1
<1>3. CASE ~NeedsId(r)
  BY <1>3 DEF NeedsId, IdOf, LastIsNamed
<1> QED
  BY <1>2, <1>3

LEMMA LineStep ==
    ASSUME SessionInv, UnsentUnknown, FlightOwned, InLine, LastIsNamed, Next
    PROVE  InLine' /\ LastIsNamed'
<1> USE DEF SessionInv
<1>1. \A m \in MsgId : m \in Nat /\ m <= m
  BY DEF MsgId
<1>2. ASSUME \A i \in Nat : OnWay(i)' \in SUBSET OnWay(i) PROVE InLine'
  <2>1. ASSUME NEW r \in Request, NEW k \in MsgId, NEW l \in MsgId, NEW i \in Nat, NEW j \in Nat,
               i <= j, <<k, r>> \in OnWay(i)', <<l, r>> \in OnWay(j)'
        PROVE  k <= l
    <3>1. <<k, r>> \in OnWay(i) /\ <<l, r>> \in OnWay(j)
      BY <1>2, <2>1
    <3> QED
      BY <2>1, <3>1 DEF InLine
  <2> QED
    BY <2>1, Zenon DEF InLine
<1>3. ASSUME \A i \in Nat : OnWay(i)' \in SUBSET OnWay(i + 1) PROVE InLine'
  <2>1. ASSUME NEW r \in Request, NEW k \in MsgId, NEW l \in MsgId, NEW i \in Nat, NEW j \in Nat,
               i <= j, <<k, r>> \in OnWay(i)', <<l, r>> \in OnWay(j)'
        PROVE  k <= l
    <3>1. i + 1 \in Nat /\ j + 1 \in Nat /\ i + 1 <= j + 1
      BY <2>1
    <3>2. <<k, r>> \in OnWay(i + 1) /\ <<l, r>> \in OnWay(j + 1)
      BY <1>3, <2>1
    <3> QED
      BY <3>1, <3>2 DEF InLine
  <2> QED
    BY <2>1, Zenon DEF InLine
<1>4. ASSUME TryToSend, started', msgIdOf' = SetIds(msgIdOf), NEW n \in Nat,
             \A j \in Nat : j # n => OnWay(j)' \in SUBSET OnWay(j),
             OnWay(n)' \in SUBSET {<<IdOf(q), q>> : q \in Sending},
             \A j \in Nat : j > n => OnWay(j)' = {}
      PROVE  InLine'
  <2>1. ASSUME NEW k, NEW r, <<k, r>> \in OnWay(n)'
        PROVE  r \in Sending /\ k = IdOf(r)
    <3>1. PICK q \in Sending : <<k, r>> = <<IdOf(q), q>>
      BY <1>4, <2>1
    <3>2. k = IdOf(q) /\ r = q
      BY <3>1
    <3> QED
      BY <3>2
  <2>2. ASSUME NEW r \in Request, NEW k \in MsgId, NEW l \in MsgId, NEW i \in Nat, NEW j \in Nat,
               i <= j, <<k, r>> \in OnWay(i)', <<l, r>> \in OnWay(j)'
        PROVE  k <= l
    <3>1. CASE i # n /\ j # n
      BY <1>4, <2>2, <3>1 DEF InLine
    <3>2. CASE i = n /\ j # n
      BY <1>4, <2>2, <3>2
    <3>3. CASE i # n /\ j = n
      <4>1. Moving(k, r)
        BY <1>4, <2>2, <3>3 DEF Moving
      <4>2. r \in Sending /\ l = IdOf(r)
        BY <2>1, <2>2, <3>3
      <4> QED
        BY <4>1, <4>2, SentAbove
    <3>4. CASE i = n /\ j = n
      <4>1. k = IdOf(r) /\ l = IdOf(r)
        BY <2>1, <2>2, <3>4
      <4> QED
        BY <1>1, <4>1
    <3> QED
      BY <3>1, <3>2, <3>3, <3>4
  <2> QED
    BY <2>2, Zenon DEF InLine
<1>5. ASSUME TryToSend, started', msgIdOf' = SetIds(msgIdOf),
             \E n \in Nat :
                /\ \A j \in Nat : j >= n => OnWay(j) = {}
                /\ \A j \in Nat : j # n => OnWay(j)' \in SUBSET OnWay(j)
                /\ OnWay(n)' \in SUBSET {<<IdOf(q), q>> : q \in Sending}
                /\ \A j \in Nat : j > n => OnWay(j)' = {}
      PROVE  InLine'
  <2>1. PICK n \in Nat :
           /\ \A j \in Nat : j # n => OnWay(j)' \in SUBSET OnWay(j)
           /\ OnWay(n)' \in SUBSET {<<IdOf(q), q>> : q \in Sending}
           /\ \A j \in Nat : j > n => OnWay(j)' = {}
    BY <1>5
  <2> QED
    BY <1>4, <1>5, <2>1, Zenon
<1>6. InLine'
  BY <1>2, <1>3, <1>5, OnWayNext, Zenon
<1>7. ASSUME NEW r \in Request, NEW k \in MsgId, Moving(k, r)', msgIdOf'[r] # None
      PROVE  k <= msgIdOf'[r]
  <2>1. CASE SentNow(k, r)
    BY <1>1, <2>1, SentNowOwned
  <2>2. CASE Moving(k, r) /\ msgIdOf'[r] = msgIdOf[r]
    BY <1>7, <2>2 DEF LastIsNamed
  <2>3. CASE Moving(k, r) /\ r \in Sending /\ msgIdOf'[r] = IdOf(r)
    BY <2>3, SentAbove
  <2> QED
    BY <1>7, <2>1, <2>2, <2>3, MovingNext, IdsNext
<1> QED
  BY <1>6, <1>7 DEF LastIsNamed

\* Which session the server knows, and what it got in it.
LEMMA GotNext ==
    ASSUME TypeOK, SessionsInOrder, Next, ~ServerReceive, srvSession' = session'
    PROVE  UNCHANGED <<srvSession, session, got>>
<1>1. session \in Nat /\ srvSession \in Nat /\ session # None /\ srvSession <= session
  BY DEF TypeOK, StateTypeOK, ServerTypeOK, SessionsInOrder
<1>2. CASE ServerStep
  <2>1. UNCHANGED session
    BY <1>2, ServerLeavesClient DEF stateVars
  <2>2. ~ServerForget
    BY <1>1, <2>1 DEF ServerForget
  <2> QED
    BY <1>2, <2>1, <2>2 DEF ServerStep, TimePasses, ServerExecute, ServerAnswerAgain,
       ServerResend, ServerRepeat
<1>3. CASE MainStep \/ PrivateStep
  <2>1. UNCHANGED <<srvSession, got>>
    BY <1>3, ClientLeavesServer DEF serverVars
  <2>2. session' \in {session, session + 1}
    BY SessionNext
  <2> QED
    BY <1>1, <2>1, <2>2
<1> QED
  BY <1>2, <1>3 DEF Next

LEMMA GotStep ==
    ASSUME SessionInv, UnsentUnknown, SessionsInOrder, FlightOwned, IdsInOrder, Next
    PROVE  GotBehind'
<1> USE DEF SessionInv
<1>1. /\ got \in SUBSET MsgId /\ got' \in SUBSET MsgId /\ 1 \in Nat
      /\ lastId \in Nat /\ lastId' \in Nat /\ \A m \in MsgId : m \in Nat /\ m # None
  <2>1. TypeOK'
    BY TypeStep
  <2> QED
    BY <2>1 DEF TypeOK, ServerTypeOK, StateTypeOK, MsgId
<1>2. ASSUME ServerReceive, NEW r \in Request, NEW k \in MsgId, NEW l \in got',
             Moving(k, r)', Ahead(l, r)'
      PROVE  l <= k
  <2>1. UNCHANGED msgIdOf
    BY <1>2 DEF ServerReceive, objectVars
  <2>2. PICK i \in Nat : i + 1 \in Nat /\ 1 <= i + 1 /\ <<k, r>> \in OnWay(i + 1)
    BY <1>2, PacketsMove DEF Moving
  <2>3. Moving(k, r)
    BY <2>2 DEF Moving
  <2>4. Ahead(l, r)
    <3>1. ASSUME Moving(l, r)' PROVE Moving(l, r)
      <4>1. PICK j \in Nat : j + 1 \in Nat /\ <<l, r>> \in OnWay(j + 1)
        BY <1>2, <3>1, PacketsMove DEF Moving
      <4> QED
        BY <4>1 DEF Moving
    <3> QED
      BY <1>2, <2>1, <3>1 DEF Ahead
  <2>5. CASE srvSession = session /\ l \in got
    BY <2>3, <2>4, <2>5 DEF IdsInOrder, GotBehind
  <2>6. ASSUME NEW q \in Request, <<l, q>> \in OnWay(1) PROVE l <= k
    <3>1. Moving(l, q) /\ l \in MsgId
      BY <1>1, <2>6 DEF Moving
    <3>2. r = q
      BY <2>4, <3>1 DEF Ahead, FlightOwned, Owned, Names
    <3> QED
      BY <1>1, <2>2, <2>6, <3>1, <3>2 DEF IdsInOrder, InLine
  <2> QED
    BY <1>2, <2>5, <2>6, TakeNext
<1>3. ASSUME ~ServerReceive, srvSession' = session', NEW r \in Request, NEW k \in MsgId,
             NEW l \in got', Moving(k, r)', Ahead(l, r)'
      PROVE  l <= k
  <2>1. UNCHANGED <<srvSession, session, got>>
    BY <1>3, GotNext
  <2>2. l \in got /\ l \in MsgId /\ l # None /\ l <= lastId /\ srvSession = session
    BY <1>1, <1>3, <2>1 DEF FlightOwned
  <2>3. CASE SentNow(k, r)
    <3>1. msgIdOf'[r] = k
      BY <2>3, SentNowOwned
    <3>2. Moving(l, r)' => l <= msgIdOf'[r]
      <4>1. LastIsNamed'
        BY LineStep DEF IdsInOrder
      <4> QED
        BY <1>1, <2>2, <3>1, <4>1 DEF LastIsNamed
    <3> QED
      BY <1>1, <1>3, <2>2, <3>1, <3>2 DEF Ahead
  <2>4. CASE Moving(k, r)
    <3>1. Moving(l, r)' => Ahead(l, r)
      <4>1. CASE SentNow(l, r)
        <5>1. IdOf(r) = msgIdOf[r]
          <6>1. l = IdOf(r) /\ r \in Sending
            BY <4>1 DEF SentNow
          <6> QED
            BY <2>2, <6>1, NewNames
        <5> QED
          BY <4>1, <5>1 DEF SentNow, Ahead
      <4> QED
        BY <2>2, <4>1, MovingNext DEF Ahead
    <3>2. msgIdOf'[r] = l => Ahead(l, r)
      <4>1. ~(IdOf(r) = l /\ IdOf(r) > lastId)
        BY <1>1, <2>2
      <4> QED
        BY <2>2, <4>1, IdsNext DEF Ahead
    <3>3. Ahead(l, r)
      BY <1>3, <3>1, <3>2 DEF Ahead
    <3> QED
      BY <2>2, <2>4, <3>3 DEF IdsInOrder, GotBehind
  <2> QED
    BY <1>3, <2>3, <2>4, MovingNext
<1> QED
  BY <1>2, <1>3 DEF GotBehind

-----------------------------------------------------------------------------
(* What a request can still cost. *)

\* An answer n that refuses message m is with the server or on its way.
Refused(m, n) ==
    \/ srvSession = session /\ \E a \in answers : a.msgId = m /\ a.answer = n /\ ~a.ok
    \/ \E i \in DOMAIN s2c :
          s2c[i].type = "result" /\ s2c[i].msgId = m /\ s2c[i].answer = n /\ ~s2c[i].ok

\* Where the execution that a request has in hand can be: ahead of the server
\* under an id it did not get yet, with the server, with an error that is on
\* its way to the session or to the main thread, or with the delayed request.
AheadToken(k, r) == Ahead(k, r) /\ ~(srvSession = session /\ k \in got)
TodoToken(k, r) == <<k, r>> \in todo /\ \A a \in answers : a.msgId # k
Seen(S, n) == n \in S \/ (Cardinality(S) >= KeepReceived /\ \A k \in S : n < k)
ErrorToken(n, r) == ~Seen(receivedIds, n) /\ \E m \in MsgId : Names(m, r) /\ Refused(m, n)
AnswerToken(i, r) == i \in DOMAIN haveReceived /\ haveReceived[i].request = r /\ ~haveReceived[i].ok
Tokens(r) ==
    {x \in {"ahead", "todo", "error", "answer", "delayed"} \X Nat :
        \/ x[1] = "ahead" /\ x[2] \in MsgId \cup {None} /\ AheadToken(x[2], r)
        \/ x[1] = "todo" /\ TodoToken(x[2], r)
        \/ x[1] = "error" /\ ErrorToken(x[2], r)
        \/ x[1] = "answer" /\ AnswerToken(x[2], r)
        \/ x[1] = "delayed" /\ x[2] = 0 /\ r \in delayed}

\* Each loss of a session gives a request one execution more.
Budget == \A r \in Request :
    IsFiniteSet(Tokens(r)) /\ executed[r] + Cardinality(Tokens(r)) <= losses + 1

-----------------------------------------------------------------------------
(* Counting. *)

LEMMA CountImage ==
    ASSUME NEW S, IsFiniteSet(S), NEW T, NEW h \in [T -> S], \A x, y \in T : h[x] = h[y] => x = y
    PROVE  /\ IsFiniteSet(T) /\ Cardinality(T) \in Nat /\ Cardinality(S) \in Nat
           /\ Cardinality(T) <= Cardinality(S)
<1>1. h \in Injection(T, S)
  BY DEF Injection, IsInjective
<1> QED
  BY <1>1, FS_Injection, FS_CardinalityType

LEMMA CountKept ==
    ASSUME NEW S, IsFiniteSet(S), NEW T \in SUBSET S
    PROVE  /\ IsFiniteSet(T) /\ Cardinality(T) \in Nat /\ Cardinality(S) \in Nat
           /\ Cardinality(T) <= Cardinality(S)
  BY FS_Subset, FS_CardinalityType

LEMMA CountGrown ==
    ASSUME NEW S, IsFiniteSet(S), NEW y, NEW T \in SUBSET (S \cup {y})
    PROVE  /\ IsFiniteSet(T) /\ Cardinality(T) \in Nat /\ Cardinality(S) \in Nat
           /\ Cardinality(T) <= Cardinality(S) + 1
<1>1. IsFiniteSet(S \cup {y}) /\ Cardinality(S \cup {y}) \in {Cardinality(S), Cardinality(S) + 1}
  BY FS_AddElement
<1>2. /\ IsFiniteSet(T) /\ Cardinality(T) \in Nat
      /\ Cardinality(T) <= Cardinality(S \cup {y})
  BY <1>1, CountKept
<1>3. Cardinality(S) \in Nat
  BY FS_CardinalityType
<1> QED
  BY <1>1, <1>2, <1>3

LEMMA CountUsed ==
    ASSUME NEW S, IsFiniteSet(S), NEW x \in S, NEW T \in SUBSET (S \ {x})
    PROVE  /\ IsFiniteSet(T) /\ Cardinality(T) \in Nat /\ Cardinality(S) \in Nat
           /\ Cardinality(T) + 1 <= Cardinality(S)
<1>1. IsFiniteSet(S \ {x}) /\ Cardinality(S \ {x}) = Cardinality(S) - 1
  BY FS_RemoveElement
<1>2. IsFiniteSet(T) /\ Cardinality(T) \in Nat /\ Cardinality(T) <= Cardinality(S \ {x})
  BY <1>1, CountKept
<1>3. Cardinality(S) \in Nat
  BY FS_CardinalityType
<1> QED
  BY <1>1, <1>2, <1>3

LEMMA CountMoved ==
    ASSUME NEW S, IsFiniteSet(S), NEW x \in S, NEW y, NEW T \in SUBSET ((S \ {x}) \cup {y})
    PROVE  /\ IsFiniteSet(T) /\ Cardinality(T) \in Nat /\ Cardinality(S) \in Nat
           /\ Cardinality(T) <= Cardinality(S)
<1>1. PICK R : R = S \ {x}
  OBVIOUS
<1>2. IsFiniteSet(R) /\ Cardinality(R) \in Nat /\ Cardinality(S) \in Nat
      /\ Cardinality(R) + 1 <= Cardinality(S)
  BY <1>1, CountUsed
<1>3. IsFiniteSet(T) /\ Cardinality(T) \in Nat /\ Cardinality(T) <= Cardinality(R) + 1
  BY <1>1, <1>2, CountGrown
<1> QED
  BY <1>2, <1>3

-----------------------------------------------------------------------------
(* The ids of answers that were received. *)

\* The largest ids are kept: all, or as many as there is room for.
LEMMA LargestNumber ==
    ASSUME NEW S \in SUBSET Nat, IsFiniteSet(S), NEW n \in Nat \ {0}
    PROVE  Largest(S, n) = S \/ Cardinality(Largest(S, n)) >= n
<1> DEFINE Above(m) == {k \in S : k > m}
           L == Largest(S, n)
           Counts == {c \in Nat : \E m \in S \ L : c = Cardinality(Above(m))}
<1>1. \A m \in S : IsFiniteSet(Above(m)) /\ Cardinality(Above(m)) \in Nat
  BY FS_Subset, FS_CardinalityType
<1>2. L = {m \in S : Cardinality(Above(m)) < n}
  BY DEF Largest
<1>3. IsFiniteSet(L) /\ Cardinality(L) \in Nat /\ L \in SUBSET S
  BY <1>2, FS_Subset, FS_CardinalityType
<1>4. CASE S \ L # {}
  <2>1. Counts # {} /\ Counts \in SUBSET Nat
    BY <1>1, <1>4
  <2>2. PICK c \in Counts : \A d \in Counts : c <= d
    BY <2>1, LeastNatural
  <2>3. PICK m \in S \ L : c = Cardinality(Above(m))
    BY <2>2
  <2>4. c \in Nat /\ c >= n
    BY <1>1, <1>2, <2>3
  <2>5. ASSUME NEW k \in Above(m) PROVE k \in L
    <3>0. k \in S /\ k > m /\ k \in Nat /\ m \in Nat
      OBVIOUS
    <3>1. k \in S /\ k > m /\ Above(k) \in SUBSET Above(m)
      <4>1. \A j \in S : j \in Nat /\ (j > k => j > m)
        BY <3>0
      <4> QED
        BY <3>0, <4>1
    <3>2. k \in Above(m) /\ k \notin Above(k)
      OBVIOUS
    <3>3. Cardinality(Above(k)) < Cardinality(Above(m))
      <4>1. /\ Cardinality(Above(k)) <= Cardinality(Above(m))
            /\ Cardinality(Above(m)) = Cardinality(Above(k)) => Above(m) = Above(k)
        BY <1>1, <3>1, FS_Subset
      <4> HIDE DEF Above
      <4> QED
        BY <1>1, <3>1, <3>2, <4>1
    <3>4. k \notin L => Cardinality(Above(k)) \in Counts
      BY <1>1, <3>1
    <3>5. m \in S
      BY <2>3
    <3> HIDE DEF Above, Counts, L
    <3> QED
      BY <1>1, <2>2, <2>3, <3>1, <3>3, <3>4, <3>5
  <2>6. Cardinality(Above(m)) <= Cardinality(L)
    <3>1. Above(m) \in SUBSET L
      BY <2>5
    <3> QED
      BY <1>3, <3>1, FS_Subset
  <2> QED
    BY <1>1, <1>3, <2>3, <2>4, <2>6
<1> QED
  BY <1>3, <1>4

\* An id that was seen is never taken for a new one.
LEMMA SeenStays ==
    ASSUME receivedIds \in SUBSET Nat, IsFiniteSet(receivedIds), NEW id \in Nat,
           ~Seen(receivedIds, id), NEW n \in Nat, Seen(receivedIds, n) \/ n = id
    PROVE  Seen(Largest(receivedIds \cup {id}, KeepReceived), n)
<1> DEFINE S == receivedIds \cup {id}
           L == Largest(S, KeepReceived)
           Above(m) == {k \in S : k > m}
<1>1. KeepReceived \in Nat \ {0}
  OBVIOUS
<1>2. IsFiniteSet(S) /\ S \in SUBSET Nat
  BY FS_AddElement
<1>3. /\ L = S \/ Cardinality(L) >= KeepReceived
      /\ L = {m \in S : Cardinality(Above(m)) < KeepReceived}
  <2>1. L = S \/ Cardinality(L) >= KeepReceived
    BY <1>1, <1>2, LargestNumber
  <2> QED
    BY <2>1 DEF Largest
<1>4. CASE n \in S
  <2>1. ASSUME n \notin L, NEW m \in L PROVE n < m
    <3>1. m \in S /\ m \in Nat /\ Cardinality(Above(m)) < KeepReceived
      BY <1>2, <1>3, <2>1
    <3>2. ~(Cardinality(Above(n)) < KeepReceived)
      BY <1>3, <1>4, <2>1
    <3>3. m < n => Above(n) \in SUBSET Above(m)
      <4>1. m < n => \A k \in S : k > n => k > m
        BY <1>2, <3>1
      <4> QED
        BY <4>1
    <3>4. /\ IsFiniteSet(Above(m)) /\ Cardinality(Above(m)) \in Nat
          /\ IsFiniteSet(Above(n)) /\ Cardinality(Above(n)) \in Nat
      <4>1. Above(m) \in SUBSET S /\ Above(n) \in SUBSET S
        OBVIOUS
      <4> HIDE DEF Above, S
      <4> QED
        BY <1>2, <4>1, FS_Subset, FS_CardinalityType
    <3>5. ~(m < n)
      <4> HIDE DEF Above
      <4>1. Above(n) \in SUBSET Above(m) => Cardinality(Above(n)) <= Cardinality(Above(m))
        BY <3>4, FS_Subset
      <4> QED
        BY <1>1, <3>1, <3>2, <3>3, <3>4, <4>1
    <3> QED
      BY <2>1, <3>1, <3>5
  <2>2. n \in L \/ Cardinality(L) >= KeepReceived
    BY <1>3, <1>4
  <2> HIDE DEF L
  <2> QED
    BY <2>1, <2>2 DEF Seen, L, S
<1>5. CASE n \notin S
  <2>1. Cardinality(receivedIds) >= KeepReceived /\ \A k \in receivedIds : n < k
    BY <1>5 DEF Seen
  <2>2. PICK k \in receivedIds : ~(id < k)
    BY <2>1 DEF Seen
  <2>3. \A m \in S : n < m
    BY <2>1, <2>2
  <2>4. Cardinality(S) >= Cardinality(receivedIds) /\ Cardinality(S) \in Nat
        /\ Cardinality(receivedIds) \in Nat
    <3>1. receivedIds \in SUBSET S
      OBVIOUS
    <3> HIDE DEF S
    <3> QED
      BY <1>2, <3>1, FS_Subset, FS_CardinalityType
  <2>5. Cardinality(L) >= KeepReceived
    <3>1. L = S \/ Cardinality(L) >= KeepReceived
      BY <1>3
    <3> HIDE DEF L, S, Above
    <3> QED
      BY <1>1, <2>1, <2>4, <3>1
  <2>6. \A m \in L : n < m
    BY <1>3, <2>3
  <2> HIDE DEF L
  <2> QED
    BY <2>5, <2>6 DEF Seen, L, S
<1> QED
  BY <1>4, <1>5

LEMMA ElementsOf ==
    ASSUME NEW S, NEW q \in Seq(S)
    PROVE  \A i \in DOMAIN q : q[i] \in S
  OBVIOUS

LEMMA SeqOf ==
    ASSUME NEW S, NEW T, NEW q \in Seq(S), \A i \in DOMAIN q : q[i] \in T
    PROVE  q \in Seq(T)
  OBVIOUS

-----------------------------------------------------------------------------
(* The tokens of a request after a step. *)

LEMMA TokensHave ==
    ASSUME NEW r
    PROVE  /\ \A k \in MsgId \cup {None} : AheadToken(k, r) => <<"ahead", k>> \in Tokens(r)
           /\ \A k \in MsgId : TodoToken(k, r) => <<"todo", k>> \in Tokens(r)
           /\ \A n \in Nat : ErrorToken(n, r) => <<"error", n>> \in Tokens(r)
           /\ \A i \in Nat : AnswerToken(i, r) => <<"answer", i>> \in Tokens(r)
           /\ r \in delayed => <<"delayed", 0>> \in Tokens(r)
<1>1. MsgId \in SUBSET Nat /\ None \in Nat
  BY DEF MsgId
<1>2. \A k \in MsgId \cup {None} : AheadToken(k, r) => <<"ahead", k>> \in Tokens(r)
  BY <1>1 DEF Tokens
<1>3. \A k \in MsgId : TodoToken(k, r) => <<"todo", k>> \in Tokens(r)
  BY <1>1 DEF Tokens
<1>4. \A n \in Nat : ErrorToken(n, r) => <<"error", n>> \in Tokens(r)
  BY DEF Tokens
<1>5. \A i \in Nat : AnswerToken(i, r) => <<"answer", i>> \in Tokens(r)
  BY DEF Tokens
<1>6. r \in delayed => <<"delayed", 0>> \in Tokens(r)
  BY DEF Tokens
<1> QED
  BY <1>2, <1>3, <1>4, <1>5, <1>6

LEMMA TokensNext ==
    ASSUME todo' \in SUBSET (MsgId \X Request), NEW r, NEW gone, NEW new,
           \A k \in MsgId \cup {None} : AheadToken(k, r)' =>
              (AheadToken(k, r) /\ <<"ahead", k>> \notin gone) \/ <<"ahead", k>> \in new,
           \A k \in MsgId : TodoToken(k, r)' =>
              (TodoToken(k, r) /\ <<"todo", k>> \notin gone) \/ <<"todo", k>> \in new,
           \A n \in Nat : ErrorToken(n, r)' =>
              (ErrorToken(n, r) /\ <<"error", n>> \notin gone) \/ <<"error", n>> \in new,
           \A i \in Nat : AnswerToken(i, r)' =>
              (AnswerToken(i, r) /\ <<"answer", i>> \notin gone) \/ <<"answer", i>> \in new,
           r \in delayed' =>
              (r \in delayed /\ <<"delayed", 0>> \notin gone) \/ <<"delayed", 0>> \in new
    PROVE  Tokens(r)' \in SUBSET ((Tokens(r) \ gone) \cup new)
<1>1. ASSUME NEW x \in Tokens(r)' PROVE x \in (Tokens(r) \ gone) \cup new
  <2>1. PICK s \in {"ahead", "todo", "error", "answer", "delayed"}, n \in Nat : x = <<s, n>>
    BY <1>1 DEF Tokens
  <2>2. x[1] = s /\ x[2] = n
    BY <2>1
  <2>3. \/ s = "ahead" /\ n \in MsgId \cup {None} /\ AheadToken(n, r)'
        \/ s = "todo" /\ TodoToken(n, r)'
        \/ s = "error" /\ ErrorToken(n, r)'
        \/ s = "answer" /\ AnswerToken(n, r)'
        \/ s = "delayed" /\ n = 0 /\ r \in delayed'
    BY <1>1, <2>2 DEF Tokens
  <2>4. TodoToken(n, r)' => n \in MsgId
    BY DEF TodoToken
  <2>5. <<s, n>> \in new \/ (<<s, n>> \in Tokens(r) /\ <<s, n>> \notin gone)
    BY <2>1, <2>3, <2>4, TokensHave
  <2> QED
    BY <2>1, <2>5
<1> QED
  BY <1>1

LEMMA KindsApart ==
    ASSUME NEW s, NEW k
    PROVE  \A t, n : t # s => <<t, n>> \notin {<<s, k>>}
  OBVIOUS

FlightInv == SessionInv /\ UnsentUnknown /\ SessionsInOrder /\ FlightOwned /\ IdsInOrder

LEMMA MovingSame ==
    ASSUME UNCHANGED <<c2s, single, hand>>, NEW k, NEW r
    PROVE  Moving(k, r)' <=> Moving(k, r)
  BY DEF Moving, OnWay

-----------------------------------------------------------------------------
(* The tokens after a step of the server. *)

LEMMA ServerNext ==
    ASSUME ServerStep
    PROVE  \/ ServerReceive
           \/ ServerForget /\ UNCHANGED c2s
           \/ UNCHANGED c2s /\ \E x \in todo : ServerExecute(x)
           \/ todo' \in SUBSET todo /\ UNCHANGED <<c2s, answers, got, srvSession, executed, losses>>
<1>1. ServerReceive \/ UNCHANGED c2s
  BY DEF ServerStep, ServerForget, TimePasses, ServerExecute, ServerAnswerAgain, ServerResend,
     ServerRepeat, ServerFrame
<1> QED
  BY <1>1 DEF ServerStep, TimePasses, ServerAnswerAgain, ServerResend, ServerRepeat

LEMMA Execution ==
    ASSUME TypeOK, NEW x \in todo, ServerExecute(x)
    PROVE  /\ x \in MsgId \X Request /\ \A a \in answers : a.msgId # x[1]
           /\ todo' = todo \ {x} /\ UNCHANGED <<srvSession, got, losses, c2s>>
           /\ answers \in SUBSET answers'
           /\ \E ok \in BOOLEAN :
              /\ \A a \in answers' :
                    a \in answers \/ (a.msgId = x[1] /\ a.answer = lastAnswer + 1 /\ a.ok = ok)
              /\ [msgId |-> x[1], answer |-> lastAnswer + 1, ok |-> ok] \in answers'
              /\ ok => executed' = [executed EXCEPT ![x[2]] = @ + 1]
              /\ ~ok => UNCHANGED executed
<1>1. PICK ok \in BOOLEAN :
         /\ executed' = [executed EXCEPT ![x[2]] = IF ok THEN @ + 1 ELSE @]
         /\ answers' = answers \cup {[msgId |-> x[1], answer |-> lastAnswer + 1, ok |-> ok]}
  BY DEF ServerExecute
<1>2. /\ x \in MsgId \X Request /\ executed \in [Request -> Nat] /\ x[2] \in Request
  BY DEF TypeOK, ServerTypeOK
<1>3. /\ ok => executed' = [executed EXCEPT ![x[2]] = @ + 1]
      /\ ~ok => UNCHANGED executed
  BY <1>1, <1>2
<1>4. /\ \A a \in answers' :
            a \in answers \/ (a.msgId = x[1] /\ a.answer = lastAnswer + 1 /\ a.ok = ok)
      /\ [msgId |-> x[1], answer |-> lastAnswer + 1, ok |-> ok] \in answers'
      /\ answers \in SUBSET answers'
  BY <1>1
<1> QED
  BY <1>2, <1>3, <1>4 DEF ServerExecute, ServerFrame

LEMMA AheadServer ==
    ASSUME FlightInv, ServerStep, NEW r \in Request, NEW k \in MsgId \cup {None},
           AheadToken(k, r)'
    PROVE  \/ AheadToken(k, r)
           \/ ServerForget /\ srvSession = session /\ k \in got /\ Ahead(k, r)
<1> USE DEF FlightInv, SessionInv
<1>1. UNCHANGED <<msgIdOf, session, single, hand>>
  BY ServerLeavesClient DEF objectVars, stateVars, trackVars
<1>2. CASE ServerReceive
  <2>1. Moving(k, r)' => Moving(k, r)
    <3>1. ASSUME Moving(k, r)' PROVE Moving(k, r)
      <4>1. PICK i \in Nat : <<k, r>> \in OnWay(i + 1)
        BY <1>2, <3>1, PacketsMove DEF Moving
      <4>2. i + 1 \in Nat
        OBVIOUS
      <4> QED
        BY <4>1, <4>2 DEF Moving
    <3> QED
      BY <3>1
  <2>2. srvSession = session /\ k \in got => srvSession' = session' /\ k \in got'
    BY <1>1, <1>2, TakeNext
  <2> QED
    BY <1>1, <2>1, <2>2 DEF AheadToken, Ahead
<1>3. CASE UNCHANGED c2s
  <2>1. Ahead(k, r)
    BY <1>1, <1>3, MovingSame DEF AheadToken, Ahead
  <2>2. CASE ServerForget
    BY <2>1, <2>2 DEF AheadToken
  <2>3. CASE UNCHANGED <<got, srvSession>>
    BY <1>1, <2>1, <2>3 DEF AheadToken
  <2> QED
    BY <1>2, <2>2, <2>3, ServerNext, Execution
<1> QED
  BY <1>2, <1>3, ServerNext

LEMMA TodoServer ==
    ASSUME FlightInv, ServerStep, NEW r \in Request, NEW k \in MsgId, TodoToken(k, r)'
    PROVE  \/ TodoToken(k, r)
           \/ /\ ServerReceive /\ <<k, r>> \in OnWay(1)
              /\ AheadToken(k, r) /\ ~AheadToken(k, r)'
<1> USE DEF FlightInv, SessionInv
<1>1. <<k, r>>[1] = k /\ <<k, r>> \in todo' /\ \A a \in answers' : a.msgId # k
  BY DEF TodoToken
<1>2. CASE ServerReceive
  <2>1. CASE <<k, r>> \in todo /\ \A a \in answers : a.msgId # k
    BY <2>1 DEF TodoToken
  <2>2. CASE <<k, r>> \in OnWay(1) /\ k \in got' /\ (srvSession = session => k \notin got)
    <3>1. Moving(k, r) /\ k # None
      BY <2>2 DEF Moving, MsgId
    <3>2. srvSession' = session'
      BY <1>2, TakeNext DEF ServerReceive, stateVars
    <3> QED
      BY <1>2, <2>2, <3>1, <3>2 DEF AheadToken, Ahead
  <2>3. \/ <<k, r>> \in todo /\ \A a \in answers : a.msgId # <<k, r>>[1]
        \/ <<k, r>> \in OnWay(1) /\ <<k, r>>[1] \in got'
           /\ (srvSession = session => <<k, r>>[1] \notin got)
    <3>1. \A a \in answers' : a.msgId # <<k, r>>[1]
      BY <1>1
    <3> QED
      BY <1>1, <1>2, <3>1, TakeNext, Zenon
  <2> QED
    BY <1>1, <2>1, <2>2, <2>3
<1>3. CASE ServerForget
  BY <1>1, <1>3 DEF ServerForget
<1>4. CASE todo' \in SUBSET todo /\ answers \in SUBSET answers'
  BY <1>1, <1>4 DEF TodoToken
<1> QED
  BY <1>2, <1>3, <1>4, ServerNext, Execution

LEMMA RefusedServer ==
    ASSUME TypeOK, SessionsInOrder, ServerStep, "fatal" \notin Faults,
           NEW m \in MsgId, NEW n \in Nat, Refused(m, n)'
    PROVE  \/ Refused(m, n)
           \/ \E x \in todo : /\ ServerExecute(x) /\ x[1] = m /\ n = lastAnswer + 1
                              /\ UNCHANGED executed
<1> DEFINE New == \E x \in todo : /\ ServerExecute(x) /\ x[1] = m /\ n = lastAnswer + 1
                                  /\ UNCHANGED executed
           Refusal(y) == y.type = "result" /\ y.msgId = m /\ y.answer = n /\ ~y.ok
           G == {y \in Replies : Refusal(y) => Refused(m, n) \/ New}
<1>1. UNCHANGED session
  BY ServerLeavesClient DEF stateVars
<1>2. ASSUME NEW a \in answers', a \notin answers, a.msgId = m, a.answer = n, ~a.ok
      PROVE  New
  <2>1. PICK x \in todo : ServerExecute(x)
    BY <1>2, AnswersNext
  <2> QED
    BY <1>2, <2>1, Execution
<1>3. ASSUME srvSession' = session', NEW a \in answers', a.msgId = m, a.answer = n, ~a.ok
      PROVE  Refused(m, n) \/ New
  <2>1. CASE a \notin answers
    BY <1>2, <1>3, <2>1
  <2>2. CASE a \in answers
    <3>1. srvSession = session
      <4>1. CASE ServerReceive
        BY <1>3, <4>1, TakeNext
      <4>2. CASE ServerForget
        BY <1>3, <4>2 DEF ServerForget
      <4> QED
        BY <1>1, <1>3, <4>1, <4>2, ServerNext, Execution
    <3> QED
      BY <1>3, <2>2, <3>1 DEF Refused
  <2> QED
    BY <2>1, <2>2
<1>4. Others \in SUBSET G
  BY DEF Others
<1>5. s2c \in Seq(G)
  <2>1. s2c \in Seq(Replies)
    BY DEF TypeOK, NetTypeOK
  <2>2. \A i \in DOMAIN s2c : s2c[i] \in G
    <3>1. \A i \in DOMAIN s2c : s2c[i] \in Replies
      BY <2>1, ElementsOf
    <3> HIDE DEF New
    <3> QED
      BY <3>1 DEF Refused
  <2> HIDE DEF G
  <2> QED
    BY <2>1, <2>2, SeqOf
<1>6. Online => \A a \in answers \cup answers' : Result(a) \in G
  <2>1. ASSUME Online, NEW a \in answers \cup answers' PROVE Result(a) \in G
    <3>1. a \in [msgId : MsgId, answer : Nat, ok : BOOLEAN]
      <4>1. TypeOK'
        BY ServerStepTypes
      <4> QED
        BY <4>1 DEF TypeOK, ServerTypeOK
    <3>2. Result(a) \in Replies
      BY <3>1 DEF Result, Replies
    <3>3. PICK y : y = Result(a)
      OBVIOUS
    <3>4. y.msgId = a.msgId /\ y.answer = a.answer /\ y.ok = a.ok
      BY <3>3 DEF Result
    <3>5. Refusal(y) => Refused(m, n) \/ New
      <4>1. CASE a \in answers
        BY <2>1, <3>4, <4>1 DEF Refused, Online
      <4>2. CASE a \notin answers
        BY <1>2, <2>1, <3>4, <4>2
      <4> QED
        BY <4>1, <4>2
    <3> HIDE DEF New
    <3> QED
      BY <3>2, <3>3, <3>5
  <2> QED
    BY <2>1
<1>7. s2c' \in Seq(G)
  <2> HIDE DEF G
  <2> QED
    BY <1>4, <1>5, <1>6, ServerReplies
<1>8. \A i \in DOMAIN s2c' : s2c'[i] \in G
  <2> HIDE DEF G
  <2> QED
    BY <1>7, ElementsOf
<1>9. ASSUME NEW i \in DOMAIN s2c', s2c'[i].type = "result", s2c'[i].msgId = m,
             s2c'[i].answer = n, ~s2c'[i].ok
      PROVE  Refused(m, n) \/ New
  <2> HIDE DEF New
  <2> QED
    BY <1>8, <1>9
<1> HIDE DEF New
<1>10. Refused(m, n) \/ New
  <2>1. CASE srvSession' = session' /\ \E a \in answers' : a.msgId = m /\ a.answer = n /\ ~a.ok
    BY <1>3, <2>1
  <2>2. CASE \E i \in DOMAIN s2c' : s2c'[i].type = "result" /\ s2c'[i].msgId = m
                                  /\ s2c'[i].answer = n /\ ~s2c'[i].ok
    BY <1>9, <2>2
  <2> QED
    BY <2>1, <2>2 DEF Refused
<1> QED
  BY <1>10 DEF New

LEMMA ErrorServer ==
    ASSUME FlightInv, ServerStep, "fatal" \notin Faults, NEW r \in Request, NEW n \in Nat,
           ErrorToken(n, r)'
    PROVE  \/ ErrorToken(n, r)
           \/ \E x \in todo : /\ ServerExecute(x) /\ x[2] = r /\ n = lastAnswer + 1
                              /\ UNCHANGED executed
<1> USE DEF FlightInv, SessionInv
<1>1. UNCHANGED <<haveSent, resendingIds, ackedIds, msgIdOf, single, hand, cancelling, receivedIds>>
  BY ServerLeavesClient DEF mainVars, sharedVars, objectVars, trackVars, serviceVars
<1>2. PICK m \in MsgId : Names(m, r)' /\ Refused(m, n)'
  BY DEF ErrorToken
<1>3. Names(m, r) /\ ~Seen(receivedIds, n)
  BY <1>1, <1>2 DEF Names, ErrorToken
<1>4. CASE Refused(m, n)
  BY <1>3, <1>4 DEF ErrorToken
<1>5. ASSUME NEW x \in todo, ServerExecute(x), x[1] = m PROVE x[2] = r
  <2>1. x[2] \in Request /\ <<m, x[2]>> \in todo
    <3>1. x \in MsgId \X Request
      BY DEF TypeOK, ServerTypeOK
    <3> QED
      BY <1>5, <3>1
  <2> QED
    BY <1>3, <2>1 DEF FlightOwned, Owned
<1> QED
  BY <1>2, <1>4, <1>5, RefusedServer

\* Nothing else is left of a request at the server than what it had before.
LEMMA OthersServer ==
    ASSUME ServerStep
    PROVE  /\ UNCHANGED <<delayed, haveReceived>>
           /\ \A r : \A i : AnswerToken(i, r)' <=> AnswerToken(i, r)
<1>1. UNCHANGED <<delayed, haveReceived>>
  BY ServerLeavesClient DEF mainVars, sharedVars
<1> QED
  BY <1>1 DEF AnswerToken

\* The server takes a packet: a request gets from its way to the server.
LEMMA BudgetReceive ==
    ASSUME FlightInv, ServerReceive, "fatal" \notin Faults, NEW r \in Request, IsFiniteSet(Tokens(r))
    PROVE  IsFiniteSet(Tokens(r)') /\ Cardinality(Tokens(r)') <= Cardinality(Tokens(r))
<1>1. /\ ServerStep /\ todo' \in SUBSET (MsgId \X Request) /\ ~ServerForget
      /\ \A x \in todo : ~ServerExecute(x)
  <2>1. ServerStep
    BY DEF ServerStep
  <2>2. TypeOK'
    BY <2>1, ServerStepTypes DEF FlightInv, SessionInv
  <2>3. c2s' # c2s
    <3>1. c2s \in Seq(Packets) /\ c2s # <<>> /\ c2s' = Tail(c2s)
      BY DEF ServerReceive, Take, FlightInv, SessionInv, TypeOK, NetTypeOK
    <3>2. Len(c2s') # Len(c2s)
      BY <3>1
    <3> QED
      BY <3>2
  <2> QED
    BY <2>1, <2>2, <2>3 DEF TypeOK, ServerTypeOK, ServerForget, ServerExecute, ServerFrame
<1>2. \A k \in MsgId \cup {None} : AheadToken(k, r)' => AheadToken(k, r)
  BY <1>1, AheadServer
<1>3. \A n \in Nat : ErrorToken(n, r)' => ErrorToken(n, r)
  BY <1>1, ErrorServer
<1>4. UNCHANGED delayed /\ \A i \in Nat : AnswerToken(i, r)' => AnswerToken(i, r)
  BY <1>1, OthersServer
<1>5. \A k \in MsgId : TodoToken(k, r)' => \/ TodoToken(k, r)
                                          \/ /\ <<k, r>> \in OnWay(1)
                                             /\ AheadToken(k, r) /\ ~AheadToken(k, r)'
  BY <1>1, TodoServer
<1>6. CASE \A k \in MsgId : TodoToken(k, r)' => TodoToken(k, r)
  <2>1. Tokens(r)' \in SUBSET ((Tokens(r) \ {}) \cup {})
    BY <1>1, <1>2, <1>3, <1>4, <1>6, TokensNext
  <2> QED
    BY <2>1, CountKept
<1>7. ASSUME NEW k \in MsgId, <<k, r>> \in OnWay(1), AheadToken(k, r), ~AheadToken(k, r)'
      PROVE  IsFiniteSet(Tokens(r)') /\ Cardinality(Tokens(r)') <= Cardinality(Tokens(r))
  <2>1. ASSUME NEW l \in MsgId, <<l, r>> \in OnWay(1) PROVE l = k
    <3>1. l <= k /\ k <= l /\ l \in Nat /\ k \in Nat
      <4>1. 1 \in Nat /\ 1 <= 1
        OBVIOUS
      <4>2. l <= k /\ k <= l
        BY <1>7, <2>1, <4>1 DEF FlightInv, IdsInOrder, InLine
      <4> QED
        BY <4>2 DEF MsgId
    <3> QED
      BY <3>1
  <2>2. <<"ahead", k>> \in Tokens(r)
    BY <1>7, TokensHave
  <2>3. PICK gone, new : gone = {<<"ahead", k>>} /\ new = {<<"todo", k>>}
    OBVIOUS
  <2>4. \A s, n : s # "ahead" => <<s, n>> \notin gone
    BY <2>3, KindsApart
  <2>5. \A l \in MsgId \cup {None} : AheadToken(l, r)' =>
           AheadToken(l, r) /\ <<"ahead", l>> \notin gone
    BY <1>2, <1>7, <2>3
  <2>6. \A l \in MsgId : TodoToken(l, r)' =>
           (TodoToken(l, r) /\ <<"todo", l>> \notin gone) \/ <<"todo", l>> \in new
    BY <1>5, <2>1, <2>3
  <2>7. Tokens(r)' \in SUBSET ((Tokens(r) \ gone) \cup new)
    BY <1>1, <1>3, <1>4, <2>4, <2>5, <2>6, TokensNext
  <2> QED
    BY <2>2, <2>3, <2>7, CountMoved
<1> QED
  BY <1>5, <1>6, <1>7

\* The server answers message x.
LEMMA BudgetExecute ==
    ASSUME FlightInv, "fatal" \notin Faults, NEW x \in todo, ServerExecute(x), NEW r \in Request,
           IsFiniteSet(Tokens(r))
    PROVE  /\ IsFiniteSet(Tokens(r)')
           /\ executed'[r] + Cardinality(Tokens(r)') <= executed[r] + Cardinality(Tokens(r))
<1> USE DEF FlightInv, SessionInv
<1>1. /\ x \in MsgId \X Request /\ \A a \in answers : a.msgId # x[1]
      /\ todo' = todo \ {x} /\ answers \in SUBSET answers'
      /\ executed \in [Request -> Nat] /\ UNCHANGED <<srvSession, c2s>>
  BY Execution DEF TypeOK, ServerTypeOK
<1>2. /\ ServerStep /\ todo' \in SUBSET (MsgId \X Request) /\ ~ServerForget /\ ~ServerReceive
      /\ \A y \in todo : ServerExecute(y) => y = x
  <2>1. ServerStep
    BY DEF ServerStep
  <2>2. TypeOK'
    BY <2>1, ServerStepTypes
  <2>3. ~ServerForget
    BY <1>1 DEF ServerForget
  <2>4. ~ServerReceive
    <3>1. ServerReceive => c2s \in Seq(Packets) /\ c2s # <<>> /\ c2s' = Tail(c2s)
      BY DEF ServerReceive, Take, TypeOK, NetTypeOK
    <3>2. ServerReceive => Len(c2s') # Len(c2s)
      BY <3>1
    <3> QED
      BY <1>1, <3>2
  <2>5. \A y \in todo : ServerExecute(y) => y = x
    <3>1. \A y \in todo : ServerExecute(y) => todo' = todo \ {y}
      BY DEF ServerExecute
    <3> QED
      BY <1>1, <3>1
  <2> QED
    BY <2>1, <2>2, <2>3, <2>4, <2>5 DEF TypeOK, ServerTypeOK
<1>3. \A k \in MsgId \cup {None} : AheadToken(k, r)' => AheadToken(k, r)
  BY <1>2, AheadServer
<1>4. UNCHANGED delayed /\ \A i \in Nat : AnswerToken(i, r)' => AnswerToken(i, r)
  BY <1>2, OthersServer
<1>5. \A k \in MsgId : TodoToken(k, r)' => TodoToken(k, r) /\ <<k, r>> # x
  <2>1. \A k \in MsgId : TodoToken(k, r)' => TodoToken(k, r)
    BY <1>2, TodoServer
  <2> QED
    BY <1>1, <2>1 DEF TodoToken
<1>6. \A n \in Nat : ErrorToken(n, r)' =>
          ErrorToken(n, r) \/ (x[2] = r /\ n = lastAnswer + 1 /\ UNCHANGED executed)
  BY <1>2, ErrorServer
<1>7. CASE x[2] # r
  <2>1. executed'[r] = executed[r]
    BY <1>1, <1>7, Execution
  <2>2. Tokens(r)' \in SUBSET ((Tokens(r) \ {}) \cup {})
    BY <1>2, <1>3, <1>4, <1>5, <1>6, <1>7, TokensNext
  <2>3. /\ IsFiniteSet(Tokens(r)') /\ Cardinality(Tokens(r)') \in Nat
        /\ Cardinality(Tokens(r)) \in Nat /\ Cardinality(Tokens(r)') <= Cardinality(Tokens(r))
    BY <2>2, CountKept
  <2> QED
    BY <1>1, <2>1, <2>3
<1>8. CASE x[2] = r
  <2>1. PICK k \in MsgId : x = <<k, r>> /\ k = x[1]
    BY <1>1, <1>8
  <2>2. <<"todo", k>> \in Tokens(r)
    <3>1. TodoToken(k, r)
      BY <1>1, <2>1 DEF TodoToken
    <3> QED
      BY <3>1, TokensHave
  <2>3. PICK gone : gone = {<<"todo", k>>}
    OBVIOUS
  <2>4. \A s, n : s # "todo" => <<s, n>> \notin gone
    BY <2>3, KindsApart
  <2>5. \A l \in MsgId : TodoToken(l, r)' => TodoToken(l, r) /\ <<"todo", l>> \notin gone
    BY <1>5, <2>1, <2>3
  <2>6. CASE executed' = [executed EXCEPT ![x[2]] = @ + 1]
    <3>1. executed'[r] = executed[r] + 1
      BY <1>1, <1>8, <2>6
    <3>2. \A n \in Nat : ErrorToken(n, r)' => ErrorToken(n, r)
      BY <1>1, <1>6, <3>1
    <3>3. Tokens(r)' \in SUBSET ((Tokens(r) \ gone) \cup {})
      BY <1>2, <1>3, <1>4, <2>4, <2>5, <3>2, TokensNext
    <3>4. /\ IsFiniteSet(Tokens(r)') /\ Cardinality(Tokens(r)') \in Nat
          /\ Cardinality(Tokens(r)) \in Nat /\ Cardinality(Tokens(r)') + 1 <= Cardinality(Tokens(r))
      BY <2>2, <2>3, <3>3, CountUsed
    <3> QED
      BY <1>1, <3>1, <3>4
  <2>7. CASE UNCHANGED executed
    <3>1. PICK new : new = {<<"error", lastAnswer + 1>>}
      OBVIOUS
    <3>2. \A n \in Nat : ErrorToken(n, r)' =>
              (ErrorToken(n, r) /\ <<"error", n>> \notin gone) \/ <<"error", n>> \in new
      BY <1>6, <2>4, <3>1
    <3>3. Tokens(r)' \in SUBSET ((Tokens(r) \ gone) \cup new)
      BY <1>2, <1>3, <1>4, <2>4, <2>5, <3>2, TokensNext
    <3>4. /\ IsFiniteSet(Tokens(r)') /\ Cardinality(Tokens(r)') \in Nat
          /\ Cardinality(Tokens(r)) \in Nat /\ Cardinality(Tokens(r)') <= Cardinality(Tokens(r))
      BY <2>2, <2>3, <3>1, <3>3, CountMoved
    <3> QED
      BY <1>1, <2>7, <3>4
  <2> QED
    BY <2>6, <2>7, Execution
<1> QED
  BY <1>7, <1>8

\* A session is lost: the one id that the server got in it may be sent again.
LEMMA BudgetLose ==
    ASSUME FlightInv, NEW r \in Request, IsFiniteSet(Tokens(r)), todo' \in SUBSET (MsgId \X Request),
           \A k \in MsgId \cup {None} : AheadToken(k, r)' =>
              AheadToken(k, r) \/ (srvSession = session /\ k \in got /\ Ahead(k, r)),
           \A k \in MsgId : TodoToken(k, r)' => TodoToken(k, r),
           \A n \in Nat : ErrorToken(n, r)' => ErrorToken(n, r),
           \A i \in Nat : AnswerToken(i, r)' => AnswerToken(i, r),
           r \in delayed' => r \in delayed
    PROVE  /\ IsFiniteSet(Tokens(r)') /\ Cardinality(Tokens(r)') \in Nat
           /\ Cardinality(Tokens(r)) \in Nat /\ Cardinality(Tokens(r)') <= Cardinality(Tokens(r)) + 1
<1>1. PICK new, x : /\ new = {x}
                    /\ \A k \in MsgId \cup {None} :
                          srvSession = session /\ k \in got /\ Ahead(k, r) => x = <<"ahead", k>>
  <2>1. CASE \E k \in got : srvSession = session /\ Ahead(k, r)
    <3>1. PICK k \in got : srvSession = session /\ Ahead(k, r)
      BY <2>1
    <3>2. \A l \in got : Ahead(l, r) => l = k
      BY <3>1, OneGot DEF FlightInv, SessionInv
    <3>3. PICK x : x = <<"ahead", k>>
      OBVIOUS
    <3> QED
      BY <3>1, <3>2, <3>3
  <2>2. CASE ~\E k \in got : srvSession = session /\ Ahead(k, r)
    BY <2>2
  <2> QED
    BY <2>1, <2>2
<1>2. \A k \in MsgId \cup {None} : AheadToken(k, r)' => AheadToken(k, r) \/ <<"ahead", k>> \in new
  BY <1>1
<1>3. Tokens(r)' \in SUBSET ((Tokens(r) \ {}) \cup new)
  BY <1>2, TokensNext
<1> QED
  BY <1>1, <1>3, CountGrown

LEMMA BudgetServer ==
    ASSUME FlightInv, Budget, ServerStep, "fatal" \notin Faults
    PROVE  Budget'
<1> USE DEF FlightInv, SessionInv
<1>1. /\ executed \in [Request -> Nat] /\ losses \in Nat /\ todo' \in SUBSET (MsgId \X Request)
  <2>1. TypeOK'
    BY ServerStepTypes
  <2> QED
    BY <2>1 DEF TypeOK, ServerTypeOK, CountTypeOK
<1>2. ASSUME NEW r \in Request
      PROVE  IsFiniteSet(Tokens(r)') /\ executed'[r] + Cardinality(Tokens(r)') <= losses' + 1
  <2>1. /\ IsFiniteSet(Tokens(r)) /\ Cardinality(Tokens(r)) \in Nat /\ executed[r] \in Nat
        /\ executed[r] + Cardinality(Tokens(r)) <= losses + 1
    BY <1>1, FS_CardinalityType DEF Budget
  <2>2. CASE ServerReceive
    <3>1. UNCHANGED <<executed, losses>>
      BY <2>2 DEF ServerReceive
    <3>2. IsFiniteSet(Tokens(r)') /\ Cardinality(Tokens(r)') <= Cardinality(Tokens(r))
      BY <2>1, <2>2, BudgetReceive
    <3>3. Cardinality(Tokens(r)') \in Nat
      BY <3>2, FS_CardinalityType
    <3> QED
      BY <1>1, <2>1, <3>1, <3>2, <3>3
  <2>3. ASSUME NEW x \in todo, ServerExecute(x)
        PROVE  IsFiniteSet(Tokens(r)') /\ executed'[r] + Cardinality(Tokens(r)') <= losses' + 1
    <3>1. /\ IsFiniteSet(Tokens(r)') /\ UNCHANGED losses
          /\ executed'[r] + Cardinality(Tokens(r)') <= executed[r] + Cardinality(Tokens(r))
      BY <2>1, <2>3, BudgetExecute, Execution
    <3>2. Cardinality(Tokens(r)') \in Nat /\ executed'[r] \in Nat
      <4>1. TypeOK'
        BY ServerStepTypes
      <4> QED
        BY <3>1, <4>1, FS_CardinalityType DEF TypeOK, ServerTypeOK
    <3> QED
      BY <1>1, <2>1, <3>1, <3>2
  <2>4. \A i \in Nat : AnswerToken(i, r)' => AnswerToken(i, r)
    BY OthersServer
  <2>5. UNCHANGED delayed
    BY OthersServer
  <2>6. CASE ~ServerReceive /\ \A x \in todo : ~ServerExecute(x)
    <3>1. /\ \A k \in MsgId : TodoToken(k, r)' => TodoToken(k, r)
          /\ \A n \in Nat : ErrorToken(n, r)' => ErrorToken(n, r)
      BY <2>6, TodoServer, ErrorServer
    <3>2. \A k \in MsgId \cup {None} : AheadToken(k, r)' =>
             AheadToken(k, r) \/ (ServerForget /\ srvSession = session /\ k \in got /\ Ahead(k, r))
      BY AheadServer
    <3>3. CASE ServerForget
      <4>1. /\ IsFiniteSet(Tokens(r)') /\ Cardinality(Tokens(r)') \in Nat
            /\ Cardinality(Tokens(r)') <= Cardinality(Tokens(r)) + 1
        BY <1>1, <2>1, <2>4, <2>5, <3>1, <3>2, BudgetLose
      <4>2. UNCHANGED executed /\ losses' = losses + 1
        BY <3>3 DEF ServerForget
      <4> QED
        BY <1>1, <2>1, <4>1, <4>2
    <3>4. CASE ~ServerForget
      <4>1. UNCHANGED <<executed, losses>>
        BY <2>6, <3>4, ServerNext
      <4>2. Tokens(r)' \in SUBSET ((Tokens(r) \ {}) \cup {})
        BY <1>1, <2>4, <2>5, <3>1, <3>2, <3>4, TokensNext
      <4>3. IsFiniteSet(Tokens(r)') /\ Cardinality(Tokens(r)') \in Nat
            /\ Cardinality(Tokens(r)') <= Cardinality(Tokens(r))
        BY <2>1, <4>2, CountKept
      <4> QED
        BY <1>1, <2>1, <4>1, <4>3
    <3> QED
      BY <3>3, <3>4
  <2> QED
    BY <2>2, <2>3, <2>6
<1> QED
  BY <1>2 DEF Budget

-----------------------------------------------------------------------------
(* The tokens after a step of the main thread. *)

LEMMA AheadKept ==
    ASSUME UNCHANGED <<c2s, single, hand, srvSession, session, got>>, NEW r, msgIdOf'[r] = msgIdOf[r]
    PROVE  \A k : AheadToken(k, r)' <=> AheadToken(k, r)
<1>1. ASSUME NEW k PROVE AheadToken(k, r)' <=> AheadToken(k, r)
  <2>1. Moving(k, r)' <=> Moving(k, r)
    BY MovingSame
  <2> QED
    BY <2>1 DEF AheadToken, Ahead
<1> QED
  BY <1>1

LEMMA MainFrame ==
    ASSUME TypeOK, MainStep
    PROVE  /\ UNCHANGED <<c2s, s2c, single, hand, srvSession, session, got, todo, answers, executed,
                          losses, receivedIds>>
           /\ \A r \in Request : \A k \in MsgId : TodoToken(k, r)' <=> TodoToken(k, r)
           /\ \A r \in Request : \A n \in Nat : ErrorToken(n, r)' => ErrorToken(n, r)
<1>1. UNCHANGED <<c2s, s2c, single, hand, srvSession, session, got, todo, answers, executed,
                  losses, receivedIds>>
  BY DEF MainStep, SendRequest, CancelBegin, CancelToSend, CancelHaveSent, ProcessCallback,
     CheckDelayedRequests, netVars, trackVars, serverVars, stateVars, countVars, serviceVars
<1>2. \A r \in Request : \A k \in MsgId : TodoToken(k, r)' <=> TodoToken(k, r)
  BY <1>1 DEF TodoToken
<1>3. \A m, n : Refused(m, n)' <=> Refused(m, n)
  BY <1>1 DEF Refused
<1>4. \A m \in MsgId : \A r \in Request : Names(m, r)' => Names(m, r)
  BY MainShrinks DEF Shrinks
<1>5. \A r \in Request : \A n \in Nat : ErrorToken(n, r)' => ErrorToken(n, r)
  BY <1>1, <1>3, <1>4 DEF ErrorToken
<1> QED
  BY <1>1, <1>2, <1>5

\* An error is told to the request, or makes it wait.
LEMMA BudgetCallback ==
    ASSUME FlightInv, ProcessCallback, NEW r \in Request, IsFiniteSet(Tokens(r))
    PROVE  IsFiniteSet(Tokens(r)') /\ Cardinality(Tokens(r)') <= Cardinality(Tokens(r))
<1> USE DEF FlightInv, SessionInv
<1>1. MainStep /\ UNCHANGED msgIdOf
  BY DEF MainStep, ProcessCallback, objectVars
<1>2. haveReceived \in Seq([request : Request, ok : BOOLEAN]) /\ haveReceived # <<>>
      /\ haveReceived' = Tail(haveReceived)
  BY DEF ProcessCallback, TypeOK, SharedTypeOK
<1>3. /\ \A k \in MsgId \cup {None} : AheadToken(k, r)' => AheadToken(k, r)
      /\ \A k \in MsgId : TodoToken(k, r)' => TodoToken(k, r)
      /\ \A n \in Nat : ErrorToken(n, r)' => ErrorToken(n, r)
      /\ todo' \in SUBSET (MsgId \X Request)
  BY <1>1, MainFrame, AheadKept DEF TypeOK, ServerTypeOK
<1>4. ASSUME NEW i \in Nat, AnswerToken(i, r)' PROVE AnswerToken(i + 1, r) /\ i # 0
  <2>1. i \in DOMAIN haveReceived' /\ haveReceived'[i].request = r /\ ~haveReceived'[i].ok
    BY <1>4 DEF AnswerToken
  <2>2. i + 1 \in DOMAIN haveReceived /\ haveReceived'[i] = haveReceived[i + 1] /\ i # 0
    BY <1>2, <2>1
  <2> QED
    BY <2>1, <2>2 DEF AnswerToken
<1>5. r \in delayed' /\ r \notin delayed => AnswerToken(1, r)
  <2>1. 1 \in DOMAIN haveReceived /\ Head(haveReceived) = haveReceived[1]
    BY <1>2
  <2> QED
    BY <2>1 DEF ProcessCallback, AnswerToken
<1> DEFINE T == Tokens(r)'
           S == Tokens(r)
           Shift(x) == IF x[1] = "answer" THEN <<"answer", x[2] + 1>>
                       ELSE IF x[1] = "delayed" /\ r \notin delayed THEN <<"answer", 1>>
                       ELSE x
           h == [x \in T |-> Shift(x)]
<1>6. ASSUME NEW x \in T
      PROVE  /\ Shift(x) \in S
             /\ x[1] \in {"ahead", "todo", "error", "answer", "delayed"} /\ x[2] \in Nat
             /\ x = <<x[1], x[2]>>
             /\ x[1] = "answer" => x[2] # 0
             /\ x[1] = "delayed" => x[2] = 0
  <2>1. PICK s \in {"ahead", "todo", "error", "answer", "delayed"}, n \in Nat : x = <<s, n>>
    BY <1>6 DEF Tokens
  <2>2. x[1] = s /\ x[2] = n
    BY <2>1
  <2>3. \/ s = "ahead" /\ n \in MsgId \cup {None} /\ AheadToken(n, r)'
        \/ s = "todo" /\ TodoToken(n, r)'
        \/ s = "error" /\ ErrorToken(n, r)'
        \/ s = "answer" /\ AnswerToken(n, r)'
        \/ s = "delayed" /\ n = 0 /\ r \in delayed'
    BY <1>6, <2>2 DEF Tokens
  <2>4. TodoToken(n, r)' => n \in MsgId
    BY <1>3 DEF TodoToken
  <2>5. CASE s = "answer"
    <3>1. AnswerToken(n + 1, r) /\ n + 1 \in Nat /\ n # 0
      BY <1>4, <2>3, <2>5
    <3>2. <<"answer", n + 1>> \in S
      BY <3>1, TokensHave
    <3> QED
      BY <2>1, <2>2, <2>5, <3>1, <3>2
  <2>6. CASE s = "delayed" /\ r \notin delayed
    <3>1. <<"answer", 1>> \in S
      BY <1>5, <2>3, <2>6, TokensHave
    <3> QED
      BY <2>1, <2>2, <2>3, <2>6, <3>1
  <2>7. CASE s # "answer" /\ ~(s = "delayed" /\ r \notin delayed)
    <3>1. <<s, n>> \in S
      BY <1>3, <2>3, <2>4, <2>7, TokensHave
    <3> QED
      BY <2>1, <2>2, <2>3, <2>7, <3>1
  <2> QED
    BY <2>5, <2>6, <2>7
<1> HIDE DEF S, T
<1>7. ASSUME NEW x \in T, NEW y \in T, Shift(x) = Shift(y) PROVE x = y
  <2>1. /\ Shift(x)[1] = IF x[1] = "answer" \/ (x[1] = "delayed" /\ r \notin delayed) THEN "answer" ELSE x[1]
        /\ Shift(x)[2] = IF x[1] = "answer" THEN x[2] + 1
                         ELSE IF x[1] = "delayed" /\ r \notin delayed THEN 1 ELSE x[2]
    OBVIOUS
  <2>2. /\ Shift(y)[1] = IF y[1] = "answer" \/ (y[1] = "delayed" /\ r \notin delayed) THEN "answer" ELSE y[1]
        /\ Shift(y)[2] = IF y[1] = "answer" THEN y[2] + 1
                         ELSE IF y[1] = "delayed" /\ r \notin delayed THEN 1 ELSE y[2]
    OBVIOUS
  <2> HIDE DEF Shift
  <2>3. x[1] = y[1] /\ x[2] = y[2]
    BY <1>6, <1>7, <2>1, <2>2
  <2> QED
    BY <1>6, <2>3
<1>8. h \in [T -> S] /\ \A x, y \in T : h[x] = h[y] => x = y
  BY <1>6, <1>7
<1> QED
  BY <1>8, CountImage DEF S, T

LEMMA BudgetMain ==
    ASSUME FlightInv, Budget, MainStep
    PROVE  Budget'
<1> USE DEF FlightInv, SessionInv
<1>1. ASSUME NEW r \in Request
      PROVE  IsFiniteSet(Tokens(r)') /\ Cardinality(Tokens(r)') <= Cardinality(Tokens(r))
  <2>1. IsFiniteSet(Tokens(r))
    BY DEF Budget
  <2>2. /\ \A k \in MsgId : TodoToken(k, r)' => TodoToken(k, r)
        /\ \A n \in Nat : ErrorToken(n, r)' => ErrorToken(n, r)
        /\ todo' \in SUBSET (MsgId \X Request)
        /\ UNCHANGED <<c2s, single, hand, srvSession, session, got>>
    BY MainFrame DEF TypeOK, ServerTypeOK
  <2>3. msgIdOf \in [Request -> MsgId \cup {None}]
    BY DEF TypeOK, ObjectTypeOK
  <2>4. CASE msgIdOf'[r] = msgIdOf[r] /\ UNCHANGED haveReceived /\ (r \in delayed' => r \in delayed)
    <3>1. \A k \in MsgId \cup {None} : AheadToken(k, r)' => AheadToken(k, r)
      BY <2>2, <2>4, AheadKept
    <3>2. \A i \in Nat : AnswerToken(i, r)' => AnswerToken(i, r)
      BY <2>4 DEF AnswerToken
    <3>3. Tokens(r)' \in SUBSET ((Tokens(r) \ {}) \cup {})
      BY <2>2, <2>4, <3>1, <3>2, TokensNext
    <3> QED
      BY <2>1, <3>3, CountKept
  <2>5. ASSUME NEW q \in Request, SendRequest(q)
        PROVE  msgIdOf'[r] = msgIdOf[r] /\ UNCHANGED <<haveReceived, delayed>>
    <3>1. status[q] = "unsent" /\ msgIdOf' = [msgIdOf EXCEPT ![q] = None]
          /\ UNCHANGED <<haveReceived, delayed>>
      BY <2>5 DEF SendRequest, SendPrepared
    <3>2. msgIdOf[q] \notin MsgId
      BY <3>1 DEF UnsentUnknown, Names
    <3> QED
      BY <2>3, <3>1, <3>2
  <2>6. ASSUME NEW q \in Request, CheckDelayedRequests(q)
        PROVE  IsFiniteSet(Tokens(r)') /\ Cardinality(Tokens(r)') <= Cardinality(Tokens(r))
    <3>1. /\ q \in delayed /\ delayed' = delayed \ {q} /\ UNCHANGED haveReceived
          /\ msgIdOf' = msgIdOf \/ msgIdOf' = [msgIdOf EXCEPT ![q] = None]
      BY <2>6 DEF CheckDelayedRequests, SendPrepared
    <3>2. CASE msgIdOf'[r] = msgIdOf[r]
      BY <2>4, <3>1, <3>2
    <3>3. CASE msgIdOf'[r] # msgIdOf[r]
      <4>1. r = q /\ msgIdOf'[r] = None
        BY <2>3, <3>1, <3>3
      <4>2. PICK gone, new : gone = {<<"delayed", 0>>} /\ new = {<<"ahead", None>>}
        OBVIOUS
      <4>3. \A s, n : s # "delayed" => <<s, n>> \notin gone
        BY <4>2, KindsApart
      <4>4. \A k \in MsgId \cup {None} : AheadToken(k, r)' => AheadToken(k, r) \/ <<"ahead", k>> \in new
        <5>1. ASSUME NEW k \in MsgId, AheadToken(k, r)' PROVE AheadToken(k, r)
          <6>1. Moving(k, r)' /\ k # None
            BY <4>1, <5>1 DEF AheadToken, Ahead, MsgId
          <6>2. Moving(k, r)
            BY <2>2, <6>1, MovingSame
          <6> QED
            BY <2>2, <5>1, <6>1, <6>2 DEF AheadToken, Ahead
        <5> QED
          BY <4>2, <5>1
      <4>5. \A i \in Nat : AnswerToken(i, r)' => AnswerToken(i, r)
        BY <3>1 DEF AnswerToken
      <4>6. r \notin delayed' /\ <<"delayed", 0>> \in Tokens(r)
        BY <3>1, <4>1, TokensHave
      <4>7. Tokens(r)' \in SUBSET ((Tokens(r) \ gone) \cup new)
        BY <2>2, <4>3, <4>4, <4>5, <4>6, TokensNext
      <4> QED
        BY <2>1, <4>2, <4>6, <4>7, CountMoved
    <3> QED
      BY <3>2, <3>3
  <2>7. CASE ProcessCallback
    BY <2>1, <2>7, BudgetCallback
  <2>8. CASE CancelToSend \/ CancelHaveSent \/ \E q \in Request : CancelBegin(q)
    <3>1. UNCHANGED <<msgIdOf, haveReceived, delayed>>
      BY <2>8 DEF CancelToSend, CancelHaveSent, CancelBegin, objectVars, sharedVars
    <3> QED
      BY <2>4, <3>1
  <2> QED
    BY <2>4, <2>5, <2>6, <2>7, <2>8 DEF MainStep
<1>2. executed \in [Request -> Nat] /\ losses \in Nat /\ UNCHANGED <<executed, losses>>
  BY MainFrame DEF TypeOK, ServerTypeOK, CountTypeOK
<1>3. ASSUME NEW r \in Request
      PROVE  IsFiniteSet(Tokens(r)') /\ executed'[r] + Cardinality(Tokens(r)') <= losses' + 1
  <2>1. /\ IsFiniteSet(Tokens(r)) /\ Cardinality(Tokens(r)) \in Nat /\ executed[r] \in Nat
        /\ executed[r] + Cardinality(Tokens(r)) <= losses + 1
    BY <1>2, FS_CardinalityType DEF Budget
  <2>2. IsFiniteSet(Tokens(r)') /\ Cardinality(Tokens(r)') <= Cardinality(Tokens(r))
    BY <1>1
  <2>3. Cardinality(Tokens(r)') \in Nat
    BY <2>2, FS_CardinalityType
  <2> QED
    BY <1>2, <2>1, <2>2, <2>3
<1> QED
  BY <1>3 DEF Budget

-----------------------------------------------------------------------------
(* Results are told of what was executed only. *)

Given == {m \in MsgId : m <= lastId}
Served == {m \in Given : \A r \in Request : Names(m, r) => executed[r] > 0}
TrueReplies(S, G) == {x \in Replies :
    x.type # "fatal" /\ (x.type = "result" => x.msgId \in G /\ (x.ok => x.msgId \in S))}
ResultsTrue ==
    /\ \A a \in answers : a.msgId \in Given /\ (a.ok => a.msgId \in Served)
    /\ s2c \in Seq(TrueReplies(Served, Given))
    /\ \A i \in DOMAIN haveReceived :
          haveReceived[i].ok => executed[haveReceived[i].request] > 0

\* The number of executions of a request only grows.
LEMMA ExecutedGrows ==
    ASSUME TypeOK, Next
    PROVE  \A r \in Request : executed'[r] = executed[r] \/ executed'[r] = executed[r] + 1
<1>1. executed \in [Request -> Nat]
  BY DEF TypeOK, ServerTypeOK
<1>2. ASSUME NEW x \in todo, ServerExecute(x)
      PROVE  \A r \in Request : executed'[r] = executed[r] \/ executed'[r] = executed[r] + 1
  <2>1. UNCHANGED executed \/ executed' = [executed EXCEPT ![x[2]] = @ + 1]
    BY <1>2, Execution, Zenon
  <2> QED
    BY <1>1, <2>1
<1>3. CASE UNCHANGED executed
  BY <1>3
<1>4. CASE ServerStep
  <2>1. ServerReceive \/ ServerForget => UNCHANGED executed
    BY DEF ServerReceive, ServerForget
  <2> QED
    BY <1>2, <1>3, <1>4, <2>1, ServerNext
<1> QED
  BY <1>3, <1>4, ClientLeavesServer DEF Next, serverVars

LEMMA RepliesGrow ==
    ASSUME NEW S, NEW T, S \in SUBSET T, NEW G, NEW H, G \in SUBSET H,
           NEW q \in Seq(TrueReplies(S, G))
    PROVE  q \in Seq(TrueReplies(T, H))
<1>1. TrueReplies(S, G) \in SUBSET TrueReplies(T, H)
  BY DEF TrueReplies
<1> HIDE DEF TrueReplies
<1> QED
  BY <1>1

\* The thread takes the first reply, or leaves them, or drops them all.
LEMMA ClientReplies ==
    ASSUME MainStep \/ PrivateStep
    PROVE  s2c' = s2c \/ s2c' = <<>> \/ (s2c # <<>> /\ s2c' = Tail(s2c))
  BY DEF MainStep, SendRequest, CancelBegin, CancelToSend, CancelHaveSent, ProcessCallback,
     CheckDelayedRequests, PrivateStep, TryToSend, SendSingle, PutResent, CheckSentRequests,
     Connect, Drop, PingTimer, ClearOldContainer, HandleReceived, HandleUnknown, HandleAck,
     HandleNewResult, HandleDuplicate, HandleReset, HandleTooLow, HandleFatal, HandleStates,
     HandleNewSession, HandleDetailed, HandlePong, NothingToSend, TakeSingle, SendSingleService,
     SendContainer, Is, ResetSession, Disconnect, netVars

LEMMA FirstReply ==
    ASSUME ResultsTrue, s2c # <<>>
    PROVE  /\ 1 \in DOMAIN s2c /\ Message = s2c[1] /\ Message \in TrueReplies(Served, Given)
           /\ Message.type = "result" => /\ Message.msgId \in Given /\ Message.answer \in Nat
                                         /\ (Message.ok => Message.msgId \in Served)
           /\ Message.type # "fatal"
<1>1. s2c \in Seq(TrueReplies(Served, Given))
  BY DEF ResultsTrue
<1>2. 1 \in DOMAIN s2c /\ Message = s2c[1]
  BY <1>1 DEF Message
<1>3. Message \in TrueReplies(Served, Given)
  BY <1>1, <1>2, ElementsOf
<1>4. PICK y \in TrueReplies(Served, Given) : y = Message
  BY <1>3
<1>5. /\ y.type = "result" => y.msgId \in Given /\ y.answer \in Nat /\ (y.ok => y.msgId \in Served)
      /\ y.type # "fatal"
  BY DEF TrueReplies, Replies
<1> QED
  BY <1>2, <1>3, <1>4, <1>5

\* Whom an answer is told to.
LEMMA Answering ==
    ASSUME SessionInv, HandleNewResult, NEW m \in MsgId, m = Message.msgId
    PROVE  \E q \in Request \cup {None} :
              /\ q # None => Names(m, q)'
              /\ haveReceived' = IF q = None THEN haveReceived
                                 ELSE Append(haveReceived, [request |-> q, ok |-> Message.ok])
<1>1. PICK q : q = RequestOf(resendingIds', ackedIds', haveSent', m)
  OBVIOUS
<1>2. haveReceived' = IF q = None THEN haveReceived
                      ELSE Append(haveReceived, [request |-> q, ok |-> Message.ok])
  BY <1>1 DEF HandleNewResult, Respond
<1>3. q \in Request \cup {None}
  <2>1. /\ haveSent' \in [MsgId -> Request \cup {None}]
        /\ resendingIds' \in [MsgId -> Request \cup {None}]
        /\ ackedIds' \in [MsgId -> Request \cup {None}]
    <3>1. Next
      BY DEF Next, PrivateStep, HandleReceived
    <3>2. TypeOK'
      BY <3>1, TypeStep DEF SessionInv
    <3> QED
      BY <3>2 DEF TypeOK, SharedTypeOK, TrackTypeOK
  <2> QED
    BY <1>1, <2>1 DEF RequestOf
<1>4. q # None => Names(m, q)'
  BY <1>1, <1>3 DEF RequestOf, Names
<1> QED
  BY <1>2, <1>3, <1>4

LEMMA ResultsStep ==
    ASSUME FlightInv, ResultsTrue, Next, "fatal" \notin Faults
    PROVE  ResultsTrue'
<1> USE DEF FlightInv
<1>1. /\ executed \in [Request -> Nat] /\ executed' \in [Request -> Nat]
      /\ todo \in SUBSET (MsgId \X Request) /\ lastId \in Nat /\ lastId' \in Nat
      /\ answers' \in SUBSET [msgId : MsgId, answer : Nat, ok : BOOLEAN]
      /\ answers \in SUBSET [msgId : MsgId, answer : Nat, ok : BOOLEAN]
      /\ \A m \in MsgId : m \in Nat
  <2>1. TypeOK'
    BY TypeStep DEF SessionInv
  <2> QED
    BY <2>1 DEF SessionInv, TypeOK, ServerTypeOK, StateTypeOK, MsgId
<1>2. \A r \in Request : executed'[r] >= executed[r]
  BY <1>1, ExecutedGrows DEF SessionInv
<1>3. Given \in SUBSET Given' /\ Served \in SUBSET Served'
  <2>1. Given \in SUBSET Given'
    BY <1>1, OldNames DEF Given
  <2>2. ASSUME NEW m \in Given, \A r \in Request : Names(m, r) => executed[r] > 0
        PROVE  \A r \in Request : Names(m, r)' => executed'[r] > 0
    <3>1. \A r \in Request : Names(m, r)' => Names(m, r)
      BY OldNames DEF Given
    <3> QED
      BY <1>1, <1>2, <2>2, <3>1
  <2> QED
    BY <2>1, <2>2 DEF Served
<1>4. \A a \in answers' : a.msgId \in Given' /\ (a.ok => a.msgId \in Served')
  <2>1. ASSUME NEW x \in todo PROVE x[1] \in Given' /\ \A r \in Request : Names(x[1], r)' => r = x[2]
    <3>1. PICK k \in MsgId, q \in Request : x = <<k, q>> /\ k = x[1] /\ q = x[2]
      BY <1>1
    <3>2. k <= lastId /\ \A r \in Request : Names(k, r) => r = q
      BY <3>1 DEF FlightOwned, Owned
    <3>3. k \in Given /\ \A r \in Request : Names(k, r)' => Names(k, r)
      BY <3>2, OldNames DEF Given
    <3> QED
      BY <1>3, <3>1, <3>2, <3>3
  <2>2. ASSUME NEW x \in todo, ServerExecute(x)
        PROVE  \A a \in answers' : a.msgId \in Given' /\ (a.ok => a.msgId \in Served')
    <3>1. PICK ok \in BOOLEAN :
             /\ \A a \in answers' :
                   a \in answers \/ (a.msgId = x[1] /\ a.answer = lastAnswer + 1 /\ a.ok = ok)
             /\ ok => executed' = [executed EXCEPT ![x[2]] = @ + 1]
      BY <2>2, Execution DEF SessionInv
    <3>2. x[2] \in Request
      BY <1>1
    <3>3. ok => x[1] \in Served'
      <4>1. ok => executed'[x[2]] = executed[x[2]] + 1
        BY <1>1, <3>1, <3>2
      <4>2. ok => executed'[x[2]] > 0
        BY <1>1, <3>2, <4>1
      <4> QED
        BY <2>1, <4>2 DEF Served
    <3>4. ASSUME NEW a \in answers' PROVE a.msgId \in Given' /\ (a.ok => a.msgId \in Served')
      <4>1. CASE a \in answers
        BY <1>3, <4>1 DEF ResultsTrue
      <4>2. CASE a \notin answers
        BY <2>1, <3>1, <3>3, <4>2
      <4> QED
        BY <4>1, <4>2
    <3> QED
      BY <3>4
  <2>3. CASE answers' \in SUBSET answers
    BY <1>3, <2>3 DEF ResultsTrue
  <2>4. CASE MainStep \/ PrivateStep
    BY <2>3, <2>4, ClientLeavesServer DEF serverVars
  <2> QED
    BY <2>2, <2>3, <2>4, AnswersNext DEF Next
<1>5. s2c' \in Seq(TrueReplies(Served, Given)')
  <2>0. PICK T : T = TrueReplies(Served', Given') /\ T = TrueReplies(Served, Given)'
    BY DEF TrueReplies
  <2>1. s2c \in Seq(T)
    BY <1>3, <2>0, RepliesGrow DEF ResultsTrue
  <2>2. CASE ServerStep
    <3>1. Others \in SUBSET T
      BY <2>0 DEF Others, TrueReplies
    <3>2. ASSUME NEW a \in answers \cup answers' PROVE Result(a) \in T
      <4>1. /\ a.msgId \in MsgId /\ a.answer \in Nat /\ a.ok \in BOOLEAN
            /\ a.msgId \in Given' /\ (a.ok => a.msgId \in Served')
        BY <1>1, <1>3, <1>4 DEF ResultsTrue
      <4>2. PICK y : y = Result(a)
        OBVIOUS
      <4>3. y \in Replies /\ y.type = "result" /\ y.msgId = a.msgId /\ y.ok = a.ok
        BY <4>1, <4>2 DEF Result, Replies
      <4> QED
        BY <2>0, <4>1, <4>2, <4>3 DEF TrueReplies
    <3>3. TypeOK /\ (Online => \A a \in answers \cup answers' : Result(a) \in T)
      BY <3>2 DEF SessionInv
    <3>4. s2c' \in Seq(T)
      BY <2>1, <2>2, <3>1, <3>3, ServerReplies, Zenon
    <3> QED
      BY <2>0, <3>4
  <2>3. CASE MainStep \/ PrivateStep
    <3>1. s2c' = s2c \/ s2c' = <<>> \/ (s2c # <<>> /\ s2c' = Tail(s2c))
      BY <2>3, ClientReplies
    <3>2. s2c' \in Seq(T)
      BY <2>1, <3>1, Queues
    <3> QED
      BY <2>0, <3>2
  <2> QED
    BY <2>0, <2>2, <2>3 DEF Next
<1>6. \A i \in DOMAIN haveReceived' : haveReceived'[i].ok => executed'[haveReceived'[i].request] > 0
  <2>1. haveReceived \in Seq([request : Request, ok : BOOLEAN])
    BY DEF SessionInv, TypeOK, SharedTypeOK
  <2>2. \A i \in DOMAIN haveReceived : haveReceived[i].ok => executed'[haveReceived[i].request] > 0
    <3>1. \A i \in DOMAIN haveReceived : haveReceived[i].request \in Request
      <4>1. \A i \in DOMAIN haveReceived : haveReceived[i] \in [request : Request, ok : BOOLEAN]
        BY <2>1, ElementsOf
      <4> QED
        BY <4>1
    <3> QED
      BY <1>1, <1>2, <3>1 DEF ResultsTrue
  <2>3. CASE UNCHANGED haveReceived
    BY <2>2, <2>3
  <2>4. CASE ProcessCallback
    <3>1. haveReceived # <<>> /\ haveReceived' = Tail(haveReceived)
      BY <2>4 DEF ProcessCallback
    <3>2. ASSUME NEW i \in DOMAIN haveReceived'
          PROVE  i + 1 \in DOMAIN haveReceived /\ haveReceived'[i] = haveReceived[i + 1]
      BY <2>1, <3>1
    <3> QED
      BY <2>2, <3>2
  <2>5. CASE HandleNewResult
    <3>1. PICK m \in MsgId : m = Message.msgId
      BY <2>5, MessageTypes DEF HandleNewResult, SessionInv
    <3>2. Message.ok => m \in Served'
      <4>1. s2c # <<>> /\ Message.type = "result"
        BY <2>5 DEF HandleNewResult, Is, Message
      <4> QED
        BY <1>3, <3>1, <4>1, FirstReply
    <3>3. PICK q \in Request \cup {None} :
             /\ q # None => Names(m, q)'
             /\ haveReceived' = IF q = None THEN haveReceived
                                ELSE Append(haveReceived, [request |-> q, ok |-> Message.ok])
      BY <2>5, <3>1, Answering
    <3>4. q # None /\ Message.ok => executed'[q] > 0
      BY <3>2, <3>3 DEF Served
    <3>5. ASSUME NEW i \in DOMAIN haveReceived'
          PROVE  \/ i \in DOMAIN haveReceived /\ haveReceived'[i] = haveReceived[i]
                 \/ q # None /\ haveReceived'[i] = [request |-> q, ok |-> Message.ok]
      <4>1. CASE i \in DOMAIN haveReceived
        BY <2>1, <3>3, <4>1
      <4>2. CASE i \notin DOMAIN haveReceived
        <5>1. q # None /\ i = Len(haveReceived) + 1
          BY <2>1, <3>3, <4>2
        <5> QED
          BY <2>1, <3>3, <5>1
      <4> QED
        BY <4>1, <4>2
    <3> QED
      BY <2>2, <3>4, <3>5
  <2>6. ServerStep => UNCHANGED haveReceived
    BY ServerLeavesClient DEF sharedVars
  <2>7. ~HandleFatal
    BY FirstReply DEF HandleFatal, Is, Message
  <2> QED
    BY <2>3, <2>4, <2>5, <2>6, <2>7 DEF Next, MainStep, SendRequest, CancelBegin, CancelToSend,
       CancelHaveSent, CheckDelayedRequests, PrivateStep, TryToSend, SendSingle, PutResent,
       CheckSentRequests, Connect, Drop, PingTimer, ClearOldContainer, HandleReceived,
       HandleUnknown, HandleAck, HandleDuplicate, HandleReset, HandleTooLow, HandleStates,
       HandleNewSession, HandleDetailed, HandlePong, sharedVars
<1> QED
  BY <1>4, <1>5, <1>6 DEF ResultsTrue

-----------------------------------------------------------------------------
(* The tokens after a step of the session's thread. *)

LEMMA PrivateNext ==
    ASSUME PrivateStep
    PROVE  /\ Next /\ UNCHANGED <<status, cancelling, delayed, srvSession, got, todo, answers, executed>>
           /\ \/ UNCHANGED <<session, losses>>
              \/ HandleReset /\ session' = session + 1 /\ losses' = losses + 1
           /\ \/ UNCHANGED <<haveReceived, receivedIds>>
              \/ HandleFatal \/ HandleNewResult
              \/ HandleReset /\ UNCHANGED haveReceived
<1>1. Next /\ UNCHANGED <<status, cancelling, delayed, srvSession, got, todo, answers, executed>>
  BY PrivateMain, ClientLeavesServer DEF Next, mainVars, serverVars
<1>2. ~ServerForget
  BY <1>1 DEF ServerForget
<1>3. \/ UNCHANGED <<session, losses>>
      \/ HandleReset /\ session' = session + 1 /\ losses' = losses + 1
  BY <1>1, <1>2, SessionNext
<1>4. \/ UNCHANGED <<haveReceived, receivedIds>>
      \/ HandleFatal \/ HandleNewResult
      \/ HandleReset /\ UNCHANGED haveReceived
  BY DEF PrivateStep, TryToSend, SendSingle, PutResent, CheckSentRequests, Connect, Drop,
     PingTimer, ClearOldContainer, HandleReceived, HandleUnknown, HandleAck, HandleDuplicate,
     HandleReset, HandleTooLow, HandleStates, HandleNewSession, HandleDetailed, HandlePong,
     sharedVars, serviceVars
<1> QED
  BY <1>1, <1>3, <1>4

LEMMA AheadPrivate ==
    ASSUME FlightInv, PrivateStep, NEW r \in Request, NEW k \in MsgId \cup {None},
           AheadToken(k, r)'
    PROVE  \/ AheadToken(k, r)
           \/ msgIdOf'[r] # msgIdOf[r] /\ k = msgIdOf'[r]
           \/ session' # session /\ srvSession = session /\ k \in got /\ Ahead(k, r)
<1> USE DEF FlightInv, SessionInv
<1>1. Next /\ UNCHANGED <<srvSession, got>>
  BY PrivateNext
<1>2. CASE Ahead(k, r)
  BY <1>1, <1>2 DEF AheadToken
<1>3. CASE ~Ahead(k, r)
  <2>1. msgIdOf[r] # k /\ (k # None => ~Moving(k, r))
    BY <1>3 DEF Ahead
  <2>2. CASE msgIdOf'[r] = k
    BY <2>1, <2>2
  <2>3. CASE k # None /\ Moving(k, r)'
    <3>1. SentNow(k, r)
      BY <1>1, <2>1, <2>3, MovingNext
    <3>2. msgIdOf'[r] = k
      BY <1>1, <2>3, <3>1, SentNowOwned
    <3> QED
      BY <2>1, <3>2
  <2> QED
    BY <2>2, <2>3 DEF AheadToken, Ahead
<1> QED
  BY <1>2, <1>3

\* A request gets a new id: its old one is not with the server, and is no
\* longer on its way.
LEMMA AheadMoves ==
    ASSUME FlightInv, PrivateStep, NEW r \in Request, msgIdOf'[r] # msgIdOf[r]
    PROVE  /\ TryToSend /\ msgIdOf'[r] \in MsgId \cup {None}
           /\ \E k \in MsgId \cup {None} : AheadToken(k, r) /\ ~AheadToken(k, r)'
<1> USE DEF FlightInv, SessionInv
<1>1. Next /\ UNCHANGED <<delayed, srvSession, got>> /\ got \in SUBSET MsgId /\ None \notin MsgId
  BY PrivateNext DEF TypeOK, ServerTypeOK, MsgId
<1>2. ~CheckDelayedRequests(r)
  BY <1>1 DEF CheckDelayedRequests
<1>3. TryToSend /\ r \in Sending /\ NeedsId(r) /\ msgIdOf'[r] = IdOf(r)
  BY <1>1, <1>2, IdsNext
<1>4. msgIdOf[r] \in MsgId \cup {None} /\ msgIdOf'[r] \in MsgId \cup {None}
  <2>1. TypeOK'
    BY <1>1, TypeStep
  <2> QED
    BY <2>1 DEF TypeOK, ObjectTypeOK
<1>5. PICK k \in MsgId \cup {None} : k = msgIdOf[r]
  BY <1>4
<1>6. k = None \/ ~started
  BY <1>3, <1>5 DEF NeedsId, ForceNewMsgId
<1>7. AheadToken(k, r)
  <2>1. ~(srvSession = session /\ k \in got)
    BY <1>1, <1>6 DEF SessionsInOrder
  <2> QED
    BY <1>5, <2>1 DEF AheadToken, Ahead
<1>8. k # None => ~Moving(k, r)
  <2>1. k # None => c2s = <<>> /\ single = None
    BY <1>6 DEF SessionsInOrder
  <2>2. c2s = <<>> /\ single = None => ~Moving(k, r)
    <3>1. c2s = <<>> => DOMAIN c2s = {}
      OBVIOUS
    <3> QED
      BY <3>1 DEF Moving, OnWay
  <2> QED
    BY <2>1, <2>2
<1>9. k # None => ~Moving(k, r)'
  <2>1. ~SentNow(k, r)
    BY <1>3, <1>5 DEF SentNow
  <2> QED
    BY <1>1, <1>8, <2>1, MovingNext
<1>10. ~AheadToken(k, r)'
  BY <1>5, <1>9 DEF AheadToken, Ahead
<1> QED
  BY <1>3, <1>4, <1>7, <1>10

LEMMA RefusedPrivate ==
    ASSUME FlightInv, ResultsTrue, PrivateStep, NEW m, NEW n, Refused(m, n)'
    PROVE  Refused(m, n) /\ ~HandleReset
<1> USE DEF FlightInv, SessionInv
<1>1. /\ UNCHANGED <<srvSession, answers>> /\ session \in Nat /\ srvSession \in Nat
      /\ srvSession <= session
      /\ UNCHANGED session \/ (HandleReset /\ session' = session + 1)
  BY PrivateNext DEF TypeOK, StateTypeOK, ServerTypeOK, SessionsInOrder
<1>2. CASE srvSession' = session' /\ \E a \in answers' : a.msgId = m /\ a.answer = n /\ ~a.ok
  <2>1. UNCHANGED session /\ srvSession = session
    BY <1>1, <1>2
  <2>2. ~HandleReset
    BY <1>1, <2>1 DEF HandleReset, ResetSession
  <2> QED
    BY <1>1, <1>2, <2>1, <2>2 DEF Refused
<1>3. ASSUME NEW i \in DOMAIN s2c', s2c'[i].type = "result", s2c'[i].msgId = m,
             s2c'[i].answer = n, ~s2c'[i].ok
      PROVE  Refused(m, n) /\ ~HandleReset
  <2>1. s2c' # <<>>
    BY <1>3
  <2>2. ~HandleReset
    BY <2>1 DEF HandleReset, ResetSession, Disconnect
  <2>3. s2c \in Seq(Replies)
    BY DEF TypeOK, NetTypeOK
  <2>4. \E j \in DOMAIN s2c : s2c[j] = s2c'[i]
    <3>1. CASE s2c' = s2c
      BY <1>3, <3>1
    <3>2. CASE s2c # <<>> /\ s2c' = Tail(s2c)
      <4>1. i + 1 \in DOMAIN s2c /\ s2c'[i] = s2c[i + 1]
        BY <1>3, <2>3, <3>2
      <4> QED
        BY <4>1
    <3> QED
      BY <2>1, <3>1, <3>2, ClientReplies
  <2> QED
    BY <1>3, <2>2, <2>4 DEF Refused
<1> QED
  BY <1>2, <1>3 DEF Refused

\* What is refused has an id that was given.
LEMMA RefusedGiven ==
    ASSUME ResultsTrue, NEW m, NEW n, Refused(m, n)
    PROVE  m \in Given
<1>1. CASE \E a \in answers : a.msgId = m /\ a.answer = n /\ ~a.ok
  BY <1>1 DEF ResultsTrue
<1>2. ASSUME NEW i \in DOMAIN s2c, s2c[i].type = "result", s2c[i].msgId = m
      PROVE  m \in Given
  <2>1. s2c[i] \in TrueReplies(Served, Given)
    BY <1>2, ElementsOf DEF ResultsTrue
  <2> QED
    BY <1>2, <2>1 DEF TrueReplies
<1> QED
  BY <1>1, <1>2 DEF Refused

\* An answer that is taken was not seen before, and is seen then.
LEMMA SeenPrivate ==
    ASSUME FlightInv, ResultsTrue, PrivateStep, "fatal" \notin Faults, IsFiniteSet(receivedIds),
           ~HandleReset
    PROVE  /\ \A n \in Nat : Seen(receivedIds, n) => Seen(receivedIds, n)'
           /\ HandleNewResult => /\ Message.answer \in Nat /\ ~Seen(receivedIds, Message.answer)
                                 /\ \A n \in Nat : n = Message.answer => Seen(receivedIds, n)'
<1>1. CASE HandleNewResult
  <2>1. s2c # <<>> /\ Message.type = "result"
    BY <1>1 DEF HandleNewResult, Is, Message
  <2>2. PICK id \in Nat : id = Message.answer
    BY <2>1, FirstReply
  <2>3. ~Seen(receivedIds, id) /\ receivedIds' = Largest(receivedIds \cup {id}, KeepReceived)
    BY <1>1, <2>2 DEF HandleNewResult, IsDuplicate, IsTooOld, Seen
  <2>4. receivedIds \in SUBSET Nat
    BY DEF FlightInv, SessionInv, TypeOK, ServiceTypeOK
  <2>5. ASSUME NEW n \in Nat, Seen(receivedIds, n) \/ n = id PROVE Seen(receivedIds, n)'
    <3>1. PICK S : S = Largest(receivedIds \cup {id}, KeepReceived)
      OBVIOUS
    <3>2. Seen(S, n)
      BY <2>3, <2>4, <2>5, <3>1, SeenStays
    <3> QED
      BY <2>3, <3>1, <3>2 DEF Seen
  <2> QED
    BY <2>2, <2>3, <2>5
<1>2. CASE ~HandleNewResult
  <2>1. ~HandleFatal
    BY FirstReply DEF HandleFatal, Is, Message
  <2>2. UNCHANGED receivedIds
    BY <1>2, <2>1, PrivateNext
  <2> QED
    BY <1>2, <2>2 DEF Seen
<1> QED
  BY <1>1, <1>2

LEMMA ErrorPrivate ==
    ASSUME FlightInv, ResultsTrue, PrivateStep, "fatal" \notin Faults, IsFiniteSet(receivedIds),
           NEW r \in Request, NEW n \in Nat, ErrorToken(n, r)'
    PROVE  ErrorToken(n, r)
<1>1. PICK m \in MsgId : Names(m, r)' /\ Refused(m, n)'
  BY DEF ErrorToken
<1>2. Refused(m, n) /\ ~HandleReset
  BY <1>1, RefusedPrivate
<1>3. Names(m, r)
  <2>1. m <= lastId
    BY <1>2, RefusedGiven DEF Given
  <2>2. Next
    BY PrivateNext
  <2> QED
    BY <1>1, <2>1, <2>2, OldNames DEF FlightInv
<1>4. ~Seen(receivedIds, n)
  <2>1. ~Seen(receivedIds, n)'
    BY DEF ErrorToken, Seen
  <2> QED
    BY <1>2, <2>1, SeenPrivate
<1> QED
  BY <1>2, <1>3, <1>4 DEF ErrorToken

LEMMA AnswerPrivate ==
    ASSUME FlightInv, ResultsTrue, PrivateStep, "fatal" \notin Faults, IsFiniteSet(receivedIds),
           NEW r \in Request, NEW i \in Nat, AnswerToken(i, r)'
    PROVE  \/ AnswerToken(i, r)
           \/ /\ HandleNewResult /\ i = Len(haveReceived) + 1
              /\ \E n \in Nat : ErrorToken(n, r) /\ ~ErrorToken(n, r)'
<1>1. i \in DOMAIN haveReceived' /\ haveReceived'[i].request = r /\ ~haveReceived'[i].ok
  BY DEF AnswerToken
<1>2. CASE UNCHANGED haveReceived
  BY <1>1, <1>2 DEF AnswerToken
<1>3. CASE HandleNewResult
  <2>1. s2c # <<>> /\ Message.type = "result"
    BY <1>3 DEF HandleNewResult, Is, Message
  <2>2. PICK m \in MsgId : m = Message.msgId /\ m <= lastId
    BY <2>1, FirstReply DEF Given
  <2>3. PICK q \in Request \cup {None} :
           /\ q # None => Names(m, q)'
           /\ haveReceived' = IF q = None THEN haveReceived
                              ELSE Append(haveReceived, [request |-> q, ok |-> Message.ok])
    BY <1>3, <2>2, Answering DEF FlightInv
  <2>4. haveReceived \in Seq([request : Request, ok : BOOLEAN])
    BY DEF FlightInv, SessionInv, TypeOK, SharedTypeOK
  <2>5. CASE i \in DOMAIN haveReceived
    <3>1. haveReceived'[i] = haveReceived[i]
      BY <2>3, <2>4, <2>5
    <3> QED
      BY <1>1, <2>5, <3>1 DEF AnswerToken
  <2>6. CASE i \notin DOMAIN haveReceived
    <3>1. q # None /\ i = Len(haveReceived) + 1
      BY <1>1, <2>3, <2>4, <2>6
    <3>2. haveReceived'[i] = [request |-> q, ok |-> Message.ok]
      BY <2>3, <2>4, <3>1
    <3>3. q = r /\ ~Message.ok
      BY <1>1, <3>2
    <3>4. PICK n \in Nat : n = Message.answer
      BY <2>1, FirstReply
    <3>5. Refused(m, n)
      BY <2>1, <2>2, <3>3, <3>4, FirstReply DEF Refused
    <3>6. Names(m, r)
      BY <2>2, <2>3, <3>1, <3>3, PrivateNext, OldNames DEF FlightInv
    <3>7. ~HandleReset
      BY <1>3 DEF HandleNewResult, HandleReset, Is, IsTooOld
    <3>8. ~Seen(receivedIds, n) /\ Seen(receivedIds, n)'
      BY <1>3, <3>4, <3>7, SeenPrivate
    <3>9. ErrorToken(n, r)
      BY <3>5, <3>6, <3>8 DEF ErrorToken
    <3>10. ~ErrorToken(n, r)'
      BY <3>8 DEF ErrorToken, Seen
    <3> QED
      BY <1>3, <3>1, <3>9, <3>10
  <2> QED
    BY <2>5, <2>6
<1>4. ~HandleFatal
  BY FirstReply DEF HandleFatal, Is, Message
<1> QED
  BY <1>2, <1>3, <1>4, PrivateNext

LEMMA BudgetPrivate ==
    ASSUME FlightInv, Budget, ResultsTrue, PrivateStep, "fatal" \notin Faults,
           IsFiniteSet(receivedIds)
    PROVE  Budget'
<1> USE DEF FlightInv, SessionInv
<1>1. /\ executed \in [Request -> Nat] /\ losses \in Nat /\ todo' \in SUBSET (MsgId \X Request)
      /\ UNCHANGED <<executed, todo, answers, delayed>>
  BY PrivateNext DEF TypeOK, ServerTypeOK, CountTypeOK
<1>2. ASSUME NEW r \in Request
      PROVE  IsFiniteSet(Tokens(r)') /\ executed'[r] + Cardinality(Tokens(r)') <= losses' + 1
  <2>1. /\ IsFiniteSet(Tokens(r)) /\ Cardinality(Tokens(r)) \in Nat /\ executed[r] \in Nat
        /\ executed[r] + Cardinality(Tokens(r)) <= losses + 1
    BY <1>1, FS_CardinalityType DEF Budget
  <2>2. \A k \in MsgId : TodoToken(k, r)' => TodoToken(k, r)
    BY <1>1 DEF TodoToken
  <2>3. \A n \in Nat : ErrorToken(n, r)' => ErrorToken(n, r)
    BY ErrorPrivate
  <2>4. /\ HandleReset => UNCHANGED <<msgIdOf, haveReceived>> /\ ~HandleNewResult
        /\ HandleNewResult => UNCHANGED msgIdOf
    BY DEF HandleReset, HandleNewResult, HandlerFrame, sharedVars, Is, IsTooOld
  <2>5. CASE HandleReset
    <3>1. UNCHANGED <<msgIdOf, haveReceived>> /\ losses' = losses + 1
      BY <2>4, <2>5 DEF HandleReset, ResetSession
    <3>2. \A k \in MsgId \cup {None} : AheadToken(k, r)' =>
             AheadToken(k, r) \/ (srvSession = session /\ k \in got /\ Ahead(k, r))
      BY <3>1, AheadPrivate
    <3>3. \A i \in Nat : AnswerToken(i, r)' => AnswerToken(i, r)
      BY <3>1 DEF AnswerToken
    <3>4. /\ IsFiniteSet(Tokens(r)') /\ Cardinality(Tokens(r)') \in Nat
          /\ Cardinality(Tokens(r)') <= Cardinality(Tokens(r)) + 1
      BY <1>1, <2>1, <2>2, <2>3, <3>2, <3>3, BudgetLose
    <3> QED
      BY <1>1, <2>1, <3>1, <3>4
  <2>6. ASSUME ~HandleReset
        PROVE  /\ UNCHANGED losses
               /\ \A k \in MsgId \cup {None} : AheadToken(k, r)' =>
                     AheadToken(k, r) \/ (msgIdOf'[r] # msgIdOf[r] /\ k = msgIdOf'[r])
    <3>1. UNCHANGED <<session, losses>>
      BY <2>6, PrivateNext
    <3> QED
      BY <3>1, AheadPrivate
  <2>7. ASSUME IsFiniteSet(Tokens(r)'), Cardinality(Tokens(r)') \in Nat, ~HandleReset,
               Cardinality(Tokens(r)') <= Cardinality(Tokens(r))
        PROVE  IsFiniteSet(Tokens(r)') /\ executed'[r] + Cardinality(Tokens(r)') <= losses' + 1
    BY <1>1, <2>1, <2>6, <2>7
  <2>8. CASE /\ ~HandleReset /\ msgIdOf'[r] = msgIdOf[r]
             /\ \A i \in Nat : AnswerToken(i, r)' => AnswerToken(i, r)
    <3>1. \A k \in MsgId \cup {None} : AheadToken(k, r)' => AheadToken(k, r)
      BY <2>6, <2>8
    <3>2. Tokens(r)' \in SUBSET ((Tokens(r) \ {}) \cup {})
      BY <1>1, <2>2, <2>3, <2>8, <3>1, TokensNext
    <3> QED
      BY <2>1, <2>7, <2>8, <3>2, CountKept
  <2>9. CASE ~HandleReset /\ msgIdOf'[r] # msgIdOf[r]
    <3>1. PICK k \in MsgId \cup {None} : AheadToken(k, r) /\ ~AheadToken(k, r)'
      BY <2>9, AheadMoves
    <3>2. PICK gone, new : gone = {<<"ahead", k>>} /\ new = {<<"ahead", msgIdOf'[r]>>}
      OBVIOUS
    <3>3. \A s, n : s # "ahead" => <<s, n>> \notin gone
      BY <3>2, KindsApart
    <3>4. \A l \in MsgId \cup {None} : AheadToken(l, r)' =>
             (AheadToken(l, r) /\ <<"ahead", l>> \notin gone) \/ <<"ahead", l>> \in new
      BY <2>6, <2>9, <3>1, <3>2
    <3>5. \A i \in Nat : AnswerToken(i, r)' => AnswerToken(i, r)
      BY <2>4, <2>9, AnswerPrivate
    <3>6. Tokens(r)' \in SUBSET ((Tokens(r) \ gone) \cup new)
      BY <1>1, <2>2, <2>3, <3>3, <3>4, <3>5, TokensNext
    <3>7. <<"ahead", k>> \in Tokens(r)
      BY <3>1, TokensHave
    <3>8. /\ IsFiniteSet(Tokens(r)') /\ Cardinality(Tokens(r)') \in Nat
          /\ Cardinality(Tokens(r)') <= Cardinality(Tokens(r))
      BY <2>1, <3>2, <3>6, <3>7, CountMoved
    <3> QED
      BY <2>7, <2>9, <3>8
  <2>10. ASSUME ~HandleReset, msgIdOf'[r] = msgIdOf[r], NEW j \in Nat, AnswerToken(j, r)', ~AnswerToken(j, r)
         PROVE  IsFiniteSet(Tokens(r)') /\ executed'[r] + Cardinality(Tokens(r)') <= losses' + 1
    <3>1. PICK n \in Nat : ErrorToken(n, r) /\ ~ErrorToken(n, r)'
      BY <2>10, AnswerPrivate
    <3>2. PICK gone, new : gone = {<<"error", n>>} /\ new = {<<"answer", Len(haveReceived) + 1>>}
      OBVIOUS
    <3>3. \A s, l : s # "error" => <<s, l>> \notin gone
      BY <3>2, KindsApart
    <3>4. \A k \in MsgId \cup {None} : AheadToken(k, r)' => AheadToken(k, r)
      BY <2>6, <2>10
    <3>5. \A l \in Nat : ErrorToken(l, r)' => ErrorToken(l, r) /\ <<"error", l>> \notin gone
      BY <2>3, <3>1, <3>2
    <3>6. \A i \in Nat : AnswerToken(i, r)' => AnswerToken(i, r) \/ <<"answer", i>> \in new
      BY <3>2, AnswerPrivate
    <3>7. Tokens(r)' \in SUBSET ((Tokens(r) \ gone) \cup new)
      BY <1>1, <2>2, <3>3, <3>4, <3>5, <3>6, TokensNext
    <3>8. <<"error", n>> \in Tokens(r)
      BY <3>1, TokensHave
    <3>9. /\ IsFiniteSet(Tokens(r)') /\ Cardinality(Tokens(r)') \in Nat
          /\ Cardinality(Tokens(r)') <= Cardinality(Tokens(r))
      BY <2>1, <3>2, <3>7, <3>8, CountMoved
    <3> QED
      BY <2>7, <2>10, <3>9
  <2> QED
    BY <2>5, <2>8, <2>9, <2>10
<1> QED
  BY <1>2 DEF Budget

-----------------------------------------------------------------------------
(* The invariant, and the promise. *)

DeliversInv == FlightInv /\ IsFiniteSet(receivedIds) /\ ResultsTrue /\ Budget

LEMMA InitDelivers == Init => DeliversInv
<1> SUFFICES ASSUME Init PROVE DeliversInv
  OBVIOUS
<1>0. SessionInv
  BY InitInv
<1> USE DEF Init
<1>1. \A i \in Nat : OnWay(i) = {}
  BY DEF OnWay
<1>2. \A k, r : ~Moving(k, r)
  BY <1>1 DEF Moving
<1>3. FlightInv
  <2>1. UnsentUnknown
    BY InitStrict DEF StrictInv
  <2>2. SessionsInOrder
    BY DEF SessionsInOrder
  <2>3. FlightOwned
    BY <1>2 DEF FlightOwned
  <2>4. IdsInOrder
    BY <1>1, <1>2 DEF IdsInOrder, InLine, LastIsNamed, GotBehind
  <2> QED
    BY <1>0, <2>1, <2>2, <2>3, <2>4 DEF FlightInv
<1>4. IsFiniteSet(receivedIds)
  BY FS_EmptySet
<1>5. ResultsTrue
  BY Queues DEF ResultsTrue
<1>6. Budget
  <2>1. ASSUME NEW r \in Request
        PROVE  IsFiniteSet(Tokens(r)) /\ executed[r] + Cardinality(Tokens(r)) <= losses + 1
    <3>1. /\ \A k : AheadToken(k, r) => k = None
          /\ \A k : ~TodoToken(k, r) /\ ~ErrorToken(k, r) /\ ~AnswerToken(k, r)
          /\ r \notin delayed
      BY <1>2 DEF AheadToken, Ahead, TodoToken, ErrorToken, Refused, AnswerToken
    <3>2. Tokens(r) \in SUBSET {<<"ahead", None>>}
      <4>1. ASSUME NEW x \in Tokens(r) PROVE x = <<"ahead", None>>
        <5>1. x = <<x[1], x[2]>>
          BY DEF Tokens
        <5>2. x[1] = "ahead" /\ x[2] = None
          BY <3>1 DEF Tokens
        <5> QED
          BY <5>1, <5>2
      <4> QED
        BY <4>1
    <3>3. IsFiniteSet({}) /\ Cardinality({}) = 0
      BY FS_EmptySet
    <3>4. Tokens(r) \in SUBSET ({} \cup {<<"ahead", None>>})
      BY <3>2
    <3>5. /\ IsFiniteSet(Tokens(r)) /\ Cardinality(Tokens(r)) \in Nat
          /\ Cardinality(Tokens(r)) <= Cardinality({}) + 1
      BY <3>3, <3>4, CountGrown
    <3>6. executed[r] = 0 /\ losses = 0
      OBVIOUS
    <3> QED
      BY <3>3, <3>5, <3>6
  <2> QED
    BY <2>1 DEF Budget
<1> QED
  BY <1>3, <1>4, <1>5, <1>6 DEF DeliversInv

LEMMA ReceivedFinite ==
    ASSUME FlightInv, ResultsTrue, IsFiniteSet(receivedIds), Next
    PROVE  IsFiniteSet(receivedIds')
<1>1. CASE UNCHANGED receivedIds
  BY <1>1
<1>2. CASE HandleNewResult
  <2>1. PICK S : S = receivedIds \cup {Message.answer}
    OBVIOUS
  <2>2. IsFiniteSet(S)
    BY <2>1, FS_AddElement
  <2>3. receivedIds' \in SUBSET S
    BY <1>2, <2>1 DEF HandleNewResult, Largest
  <2> QED
    BY <2>2, <2>3, FS_Subset
<1>3. CASE HandleReset
  BY <1>3, FS_EmptySet DEF HandleReset, ResetSession
<1>4. ~HandleFatal
  BY FirstReply DEF HandleFatal, Is, Message
<1>5. CASE MainStep
  BY <1>1, <1>5, MainFrame DEF FlightInv, SessionInv
<1>6. CASE ServerStep
  BY <1>1, <1>6, ServerLeavesClient DEF serviceVars
<1> QED
  BY <1>1, <1>2, <1>3, <1>4, <1>5, <1>6, PrivateNext DEF Next

LEMMA DeliversStep ==
    ASSUME DeliversInv, [Next]_vars, "fatal" \notin Faults
    PROVE  DeliversInv'
<1>1. CASE Next
  <2> USE DEF DeliversInv
  <2>1. FlightInv'
    <3> USE DEF FlightInv
    <3>1. SessionInv' /\ UnsentUnknown'
      BY <1>1, InvStep, UnsentStep DEF SessionInv
    <3>2. SessionsInOrder' /\ FlightOwned'
      BY <1>1, InOrderStep, FlightStep
    <3>3. IdsInOrder'
      BY <1>1, LineStep, GotStep DEF IdsInOrder
    <3> QED
      BY <3>1, <3>2, <3>3
  <2>2. IsFiniteSet(receivedIds)' /\ ResultsTrue'
    BY <1>1, ReceivedFinite, ResultsStep
  <2>3. Budget'
    BY <1>1, BudgetMain, BudgetPrivate, BudgetServer DEF Next
  <2> QED
    BY <2>1, <2>2, <2>3
<1>2. CASE UNCHANGED vars
  <2>1. SessionInv'
    BY <1>2, InvStep DEF DeliversInv, FlightInv
  <2> USE <1>2 DEF vars, mainVars, sharedVars, objectVars, trackVars, serviceVars, stateVars, netVars,
                   serverVars, countVars
  <2> USE DEF DeliversInv, FlightInv
  <2>2. UnsentUnknown' /\ SessionsInOrder'
    BY DEF UnsentUnknown, SessionsInOrder, Known, SentAs, Names, HasAnswer
  <2>3. /\ \A i : OnWay(i)' = OnWay(i)
        /\ \A k, r : Moving(k, r)' <=> Moving(k, r)
        /\ \A k, r : Names(k, r)' <=> Names(k, r)
        /\ \A k, r : Owned(k, r)' <=> Owned(k, r)
        /\ \A k, r : Ahead(k, r)' <=> Ahead(k, r)
    BY DEF OnWay, Moving, Names, Owned, Ahead
  <2>4. FlightOwned'
    BY <2>3 DEF FlightOwned
  <2>5. IdsInOrder'
    <3>1. InLine'
      BY <2>3 DEF IdsInOrder, InLine
    <3>2. LastIsNamed'
      BY <2>3 DEF IdsInOrder, LastIsNamed
    <3>3. GotBehind'
      BY <2>3 DEF IdsInOrder, GotBehind
    <3> QED
      BY <3>1, <3>2, <3>3 DEF IdsInOrder
  <2>6. IsFiniteSet(receivedIds)'
    OBVIOUS
  <2>7. ResultsTrue'
    <3>1. UNCHANGED <<Given, Served>>
      BY <2>3 DEF Given, Served
    <3> QED
      BY <3>1 DEF ResultsTrue, TrueReplies
  <2>8. Budget'
    <3>1. \A r \in Request : Tokens(r)' = Tokens(r)
      BY DEF Tokens, AheadToken, TodoToken, ErrorToken, AnswerToken, Refused, Seen, Ahead, Moving,
         OnWay, Names
    <3> QED
      BY <3>1 DEF Budget
  <2> QED
    BY <2>1, <2>2, <2>4, <2>5, <2>6, <2>7, <2>8
<1> QED
  BY <1>1, <1>2

\* Each step of the session is one of the promise, or none.
LEMMA DeliveryStep ==
    ASSUME DeliversInv, [Next]_vars, "fatal" \notin Faults
    PROVE  [Delivery!Next]_(Delivery!vars)
<1> USE DEF DeliversInv, FlightInv
<1> DEFINE told == [r \in Request |-> IF status[r] = "cancelling" THEN "cancelled" ELSE status[r]]
<1>1. /\ status \in [Request -> {"unsent", "pending", "cancelling", "cancelled", "done", "failed"}]
      /\ executed \in [Request -> Nat] /\ losses \in Nat
  BY DEF SessionInv, TypeOK, MainTypeOK, ServerTypeOK, CountTypeOK
<1>2. CASE UNCHANGED <<told, executed, losses>>
  BY <1>2 DEF Delivery!vars
<1>3. CASE UNCHANGED <<status, executed, losses>>
  BY <1>2, <1>3
<1>4. CASE told' = told /\ UNCHANGED executed /\ losses' = losses + 1
  BY <1>4 DEF Delivery!Next, Delivery!Lose
<1>5. ASSUME NEW r \in Request, NEW s, status' = [status EXCEPT ![r] = s]
      PROVE  told' = [told EXCEPT ![r] = IF s = "cancelling" THEN "cancelled" ELSE s]
  BY <1>1, <1>5
<1>6. CASE MainStep
  <2>1. UNCHANGED <<executed, losses>>
    BY <1>6, ClientLeavesServer DEF serverVars, MainStep, SendRequest, CancelBegin, CancelToSend,
       CancelHaveSent, ProcessCallback, CheckDelayedRequests, countVars
  <2>2. ASSUME NEW r \in Request, SendRequest(r) PROVE Delivery!Send(r)
    <3>1. status[r] = "unsent" /\ status' = [status EXCEPT ![r] = "pending"]
      BY <2>2 DEF SendRequest
    <3>2. told[r] = "unsent" /\ told' = [told EXCEPT ![r] = "pending"]
      BY <1>5, <3>1
    <3> QED
      BY <2>1, <3>2 DEF Delivery!Send
  <2>3. ASSUME NEW r \in Request, CancelBegin(r) PROVE Delivery!Cancel(r)
    <3>1. status[r] = "pending" /\ status' = [status EXCEPT ![r] = "cancelling"]
      BY <2>3 DEF CancelBegin
    <3>2. told[r] = "pending" /\ told' = [told EXCEPT ![r] = "cancelled"]
      BY <1>5, <3>1
    <3> QED
      BY <2>1, <3>2 DEF Delivery!Cancel
  <2>4. CASE CancelHaveSent
    <3>1. PICK r \in Request : r = cancelling.request
      BY <2>4 DEF CancelHaveSent, MainFree, SessionInv, TypeOK, MainTypeOK
    <3>2. status[r] = "cancelling"
      <4>1. cancelling.request # None
        BY <3>1 DEF Request
      <4> QED
        BY <3>1, <4>1 DEF SessionInv, CancelParts
    <3>3. status' = [status EXCEPT ![r] = "cancelled"]
      BY <2>4, <3>1 DEF CancelHaveSent
    <3>4. told' = told
      BY <1>1, <3>2, <3>3
    <3> QED
      BY <1>2, <2>1, <3>4
  <2>5. CASE ProcessCallback
    <3>1. PICK r \in Request : r = Head(haveReceived).request /\ (Head(haveReceived).ok => executed[r] > 0)
      <4>1. haveReceived # <<>> /\ haveReceived \in Seq([request : Request, ok : BOOLEAN])
        BY <2>5 DEF ProcessCallback, SessionInv, TypeOK, SharedTypeOK
      <4>2. 1 \in DOMAIN haveReceived /\ Head(haveReceived) = haveReceived[1]
        BY <4>1
      <4>3. haveReceived[1] \in [request : Request, ok : BOOLEAN]
        BY <4>1, <4>2, ElementsOf
      <4>4. haveReceived[1].ok => executed[haveReceived[1].request] > 0
        BY <4>2 DEF ResultsTrue
      <4> QED
        BY <4>2, <4>3, <4>4
    <3>2. \/ executed[r] > 0 /\ status[r] = "pending" /\ status' = [status EXCEPT ![r] = "done"]
          \/ status[r] = "pending" /\ status' = [status EXCEPT ![r] = "failed"]
          \/ UNCHANGED status
      BY <2>5, <3>1 DEF ProcessCallback
    <3>3. ASSUME executed[r] > 0, status[r] = "pending", status' = [status EXCEPT ![r] = "done"]
          PROVE  Delivery!Answer(r)
      <4>1. told[r] = "pending" /\ told' = [told EXCEPT ![r] = "done"]
        BY <1>5, <3>3
      <4> QED
        BY <2>1, <3>3, <4>1 DEF Delivery!Answer
    <3>4. ASSUME status[r] = "pending", status' = [status EXCEPT ![r] = "failed"]
          PROVE  Delivery!Fail(r)
      <4>1. told[r] = "pending" /\ told' = [told EXCEPT ![r] = "failed"]
        BY <1>5, <3>4
      <4> QED
        BY <2>1, <4>1 DEF Delivery!Fail
    <3> QED
      BY <1>3, <2>1, <3>2, <3>3, <3>4 DEF Delivery!Next
  <2>6. CASE CancelToSend \/ \E r \in Request : CheckDelayedRequests(r)
    <3>1. UNCHANGED status
      BY <2>6 DEF CancelToSend, CheckDelayedRequests
    <3> QED
      BY <1>3, <2>1, <3>1
  <2> QED
    BY <1>6, <2>2, <2>3, <2>4, <2>5, <2>6 DEF MainStep, Delivery!Next
<1>7. CASE PrivateStep
  <2>1. UNCHANGED <<status, executed>>
    BY <1>7, PrivateMain, ClientLeavesServer DEF mainVars, serverVars
  <2>2. losses' = losses \/ losses' = losses + 1
    <3>1. ServerForget => losses' = losses + 1
      BY DEF ServerForget
    <3> QED
      BY <1>7, <3>1, SessionNext DEF Next
  <2> QED
    BY <1>3, <1>4, <2>1, <2>2
<1>8. ASSUME NEW x \in todo, ServerExecute(x), executed' = [executed EXCEPT ![x[2]] = @ + 1]
      PROVE  Delivery!Execute(x[2])
  <2>1. /\ x \in MsgId \X Request /\ \A a \in answers : a.msgId # x[1]
        /\ UNCHANGED <<status, losses>>
    BY <1>8, Execution, ServerLeavesClient DEF SessionInv, ServerStep, mainVars
  <2>2. PICK k \in MsgId, r \in Request : x = <<k, r>> /\ k = x[1] /\ r = x[2]
    BY <2>1
  <2>3. executed[r] <= losses
    <3>1. <<"todo", k>> \in Tokens(r)
      <4>1. TodoToken(k, r)
        BY <2>1, <2>2 DEF TodoToken
      <4> QED
        BY <4>1, TokensHave
    <3>2. IsFiniteSet(Tokens(r)) /\ executed[r] + Cardinality(Tokens(r)) <= losses + 1
      BY DEF Budget
    <3>3. /\ Cardinality(Tokens(r)) \in Nat /\ Cardinality({}) \in Nat
          /\ Cardinality({}) + 1 <= Cardinality(Tokens(r))
      BY <3>1, <3>2, FS_EmptySet, CountUsed
    <3> QED
      BY <1>1, <3>2, <3>3
  <2>4. told[r] # "unsent" /\ told' = told
    <3>1. status[r] # "unsent"
      BY <2>2 DEF FlightOwned, Owned
    <3> QED
      BY <2>1, <3>1
  <2> QED
    BY <1>8, <2>1, <2>2, <2>3, <2>4 DEF Delivery!Execute
<1>9. CASE ServerStep
  <2>1. UNCHANGED status
    BY <1>9, ServerLeavesClient DEF mainVars
  <2>2. CASE ServerForget
    <3>1. losses' = losses + 1 /\ UNCHANGED executed
      BY <2>2 DEF ServerForget
    <3> QED
      BY <1>4, <2>1, <3>1
  <2>3. ASSUME NEW x \in todo, ServerExecute(x) PROVE [Delivery!Next]_(Delivery!vars)
    <3>1. x[2] \in Request /\ UNCHANGED losses
      BY <2>3, Execution DEF SessionInv, TypeOK, ServerTypeOK
    <3>2. UNCHANGED executed \/ executed' = [executed EXCEPT ![x[2]] = @ + 1]
      BY <2>3, Execution, Zenon DEF SessionInv
    <3>3. CASE UNCHANGED executed
      BY <1>3, <2>1, <3>1, <3>3
    <3>4. CASE executed' = [executed EXCEPT ![x[2]] = @ + 1]
      BY <1>8, <2>3, <3>1, <3>4 DEF Delivery!Next
    <3> QED
      BY <3>2, <3>3, <3>4
  <2>4. CASE ~ServerForget /\ \A x \in todo : ~ServerExecute(x)
    <3>1. UNCHANGED <<executed, losses>>
      BY <1>9, <2>4, ServerNext DEF ServerReceive
    <3> QED
      BY <1>3, <2>1, <3>1
  <2> QED
    BY <2>2, <2>3, <2>4
<1>10. CASE UNCHANGED vars
  BY <1>3, <1>10 DEF vars, mainVars, serverVars, countVars
<1> QED
  BY <1>6, <1>7, <1>9, <1>10 DEF Next

\* When no message is refused for good, the session keeps its promise, whatever
\* is lost, repeated, refused for now, answered by an error or sent again: the
\* server executes a request at most once more than an end lost the session,
\* and a callback is called at most once, with a result only of a request that
\* was executed.
THEOREM SessionDelivers ==
    ASSUME "fatal" \notin Faults
    PROVE  Spec => DeliversRequests
<1>1. Init => Delivery!Init
  BY DEF Init, Delivery!Init
<1>2. DeliversInv /\ [Next]_vars => DeliversInv'
  BY DeliversStep
<1>3. DeliversInv /\ [Next]_vars => [Delivery!Next]_(Delivery!vars)
  BY DeliveryStep
<1> QED
  BY <1>1, <1>2, <1>3, InitDelivers, PTL DEF Spec, DeliversRequests, Delivery!Spec
=============================================================================
