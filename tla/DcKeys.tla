------------------------------- MODULE DcKeys -------------------------------
(***************************************************************************)
(* Who makes the authorization keys of one data centre, and who may use    *)
(* them.  One details::Dcenter (mtproto_dcenter.cpp) is shared by all the  *)
(* sessions of the data centre; every SessionPrivate runs on a thread of   *)
(* its own, the Session objects and the Instance on the main thread.  A    *)
(* step of this module is one critical section of Dcenter::_mutex (or of   *)
(* SessionData::_ownerMutex), so a handler that takes the lock twice is    *)
(* two steps, `stage' saying where the thread is inside the handler.       *)
(*                                                                         *)
(* The server is external: it forgets keys, and answers the bind request.  *)
(***************************************************************************)
EXTENDS Naturals, FiniteSets

CONSTANTS
    Sessions,      \* the sessions of this data centre
    InitialType,   \* DcOptions::dcType of each of them at the start
    Stoppable,     \* those Instance may stop or kill: all but the main session
    MaxTemp,       \* bound: temporary keys the server will ever hand out
    MaxPerm,       \* bound: persistent keys, the first one included
    MaxFaults,     \* bound: faults of the network and of the server
    ForgetPerm,    \* whether the server may forget a persistent key
    CloseSilent    \* whether the server closes a connection nothing is sent on

NoKey == 0
DcType == {"Regular", "MediaCluster", "Cdn"}
TemporaryKeyType == {"Regular", "MediaCluster"}
CreatingKeyType == {"Persistent", "TemporaryRegular", "TemporaryMediaCluster"}

ASSUME InitialTypeAssumption == InitialType \in [Sessions -> DcType]
\* The sessions of a CDN data centre are all of that type.
IsCdn == \E s \in Sessions : InitialType[s] = "Cdn"
ASSUME CdnAssumption == IsCdn => \A s \in Sessions : InitialType[s] = "Cdn"
ASSUME StoppableAssumption == Stoppable \subseteq Sessions
ASSUME BoundsAssumption ==
    MaxTemp \in Nat /\ MaxPerm \in Nat /\ MaxFaults \in Nat
    /\ ForgetPerm \in BOOLEAN /\ CloseSilent \in BOOLEAN

VARIABLES
    \* Dcenter
    temporaryKey,    \* _temporaryKeys
    persistentKey,   \* _persistentKey
    creatingKey,     \* _creatingKeys, the creation locks
    \* Session, SessionData and their queues
    owner,           \* SessionData::_owner: "alive", "killed" (detached), "gone"
    myKeyCreation,   \* Session::_myKeyCreation
    keyChanged,      \* updateAuthKey calls queued to the session's thread
    keyDestroyed,    \* keyDestroyedOnServer(s, key) calls queued to the main thread
    restartQueued,   \* sessions with a restartNow call queued to their thread
    \* SessionPrivate
    private,         \* "running", "deleting" (deleteLater was called), "none"
    connection,      \* "none", "connecting" (test connections), "up"
    stage,           \* "idle", "apply", "acquire", "forget"
    readKey,         \* the key applyAuthKey was called with
    keyId,           \* _keyId
    encryptionKey,   \* _encryptionKey
    keyCreator,      \* _keyCreator: "none", "idle", "creating", "binding"
    bindKey,         \* BoundKeyCreator::bindPersistentKey
    bindMsg,         \* _bindMsgId and what the server answered to it
    realType,        \* _realDcType
    currentType,     \* _currentDcType
    optionsType,     \* DcOptions::dcType(_shiftedDcId)
    \* the server and the bounds
    tempCount, permCount, faults,
    serverTemp,      \* temporary keys the server still knows
    serverPerm,      \* persistent keys the server still knows
    boundTo,         \* the persistent key each temporary key is bound to
    keyHome          \* the kind of endpoint each temporary key was made at

dcVars == <<temporaryKey, persistentKey, creatingKey>>
sessionVars == <<owner, myKeyCreation>>
queueVars == <<keyChanged, keyDestroyed, restartQueued>>
privateVars == <<private, connection, stage, readKey, keyId, encryptionKey,
                 keyCreator, bindKey, bindMsg>>
typeVars == <<realType, currentType, optionsType>>
serverVars == <<tempCount, permCount, faults, serverTemp, serverPerm, boundTo, keyHome>>
vars == <<dcVars, sessionVars, queueVars, privateVars, typeVars, serverVars>>

\* SessionPrivate::_bindMsgId: unset, in flight, or answered (DcKeyBindState).
BindState == {"none", "sent", "Success", "DefinitelyDestroyed", "Failed"}

DcTypeOK ==
    /\ temporaryKey \in [TemporaryKeyType -> Nat]
    /\ persistentKey \in Nat
    /\ creatingKey \in [TemporaryKeyType -> BOOLEAN]
SessionTypeOK ==
    /\ owner \in [Sessions -> {"alive", "killed", "gone"}]
    /\ myKeyCreation \in [Sessions -> CreatingKeyType \cup {"None"}]
QueueTypeOK ==
    /\ keyChanged \in [Sessions -> Nat]
    /\ keyDestroyed \subseteq Sessions \X Nat
    /\ restartQueued \subseteq Sessions
ThreadTypeOK ==
    /\ private \in [Sessions -> {"running", "deleting", "none"}]
    /\ connection \in [Sessions -> {"none", "connecting", "up"}]
    /\ stage \in [Sessions -> {"idle", "apply", "acquire", "forget"}]
    /\ keyCreator \in [Sessions -> {"none", "idle", "creating", "binding"}]
    /\ bindMsg \in [Sessions -> BindState]
KeyTypeOK ==
    /\ readKey \in [Sessions -> Nat]
    /\ keyId \in [Sessions -> Nat]
    /\ encryptionKey \in [Sessions -> Nat]
    /\ bindKey \in [Sessions -> Nat]
KindTypeOK ==
    /\ realType \in [Sessions -> DcType]
    /\ currentType \in [Sessions -> DcType]
    /\ optionsType \in [Sessions -> DcType]
ServerTypeOK ==
    /\ tempCount \in Nat /\ permCount \in Nat /\ faults \in Nat
    /\ serverTemp \subseteq Nat /\ serverPerm \subseteq Nat
    /\ boundTo \in [1 .. MaxTemp -> Nat]
    /\ keyHome \in [1 .. MaxTemp -> TemporaryKeyType]
TypeOK ==
    /\ DcTypeOK /\ SessionTypeOK /\ QueueTypeOK /\ ThreadTypeOK
    /\ KeyTypeOK /\ KindTypeOK /\ ServerTypeOK

-----------------------------------------------------------------------------
(* Dcenter. *)

TemporaryKeyTypeByDcType(type) ==
    IF type = "MediaCluster" THEN "MediaCluster" ELSE "Regular"

\* IndexByType(CreatingKeyType): the lock and the key slot of a creation.
IndexByType(creation) ==
    IF creation = "TemporaryMediaCluster" THEN "MediaCluster" ELSE "Regular"

\* The lock Dcenter::acquireKeyCreation competes for: a media session without
\* a regular key makes that one first.
WantedIndex(type) ==
    IF TemporaryKeyTypeByDcType(type) = "MediaCluster" /\ temporaryKey["Regular"] # NoKey
    THEN "MediaCluster"
    ELSE "Regular"

\* Mutant: the compare-and-exchange of the creation lock is lost.
AcquireWithoutLock(type) ==
    IF temporaryKey[TemporaryKeyTypeByDcType(type)] # NoKey THEN "None"
    ELSE IF WantedIndex(type) = "MediaCluster" THEN "TemporaryMediaCluster"
    ELSE IF type # "Cdn" /\ persistentKey = NoKey THEN "Persistent"
    ELSE "TemporaryRegular"

\* Mutant: the early return for a key that exists is lost.
AcquireWithKey(type) ==
    IF creatingKey[WantedIndex(type)] THEN "None"
    ELSE IF WantedIndex(type) = "MediaCluster" THEN "TemporaryMediaCluster"
    ELSE IF type # "Cdn" /\ persistentKey = NoKey THEN "Persistent"
    ELSE "TemporaryRegular"

\* What Dcenter::acquireKeyCreation returns.
AcquireResult(type) ==
    IF \/ temporaryKey[TemporaryKeyTypeByDcType(type)] # NoKey
       \/ creatingKey[WantedIndex(type)]
    THEN "None"
    ELSE IF WantedIndex(type) = "MediaCluster" THEN "TemporaryMediaCluster"
    ELSE IF type # "Cdn" /\ persistentKey = NoKey THEN "Persistent"
    ELSE "TemporaryRegular"

\* Dcenter::acquireKeyCreation through Session and SessionData, in
\* SessionPrivate::tryAcquireKeyCreation: a detached session gets nothing.
Acquired(s, type) == IF owner[s] = "alive" THEN AcquireResult(type) ELSE "None"

TryAcquireKeyCreation(s, type) ==
    LET acquired == Acquired(s, type)
    IN  IF keyCreator[s] # "none" \/ acquired = "None"
        THEN UNCHANGED <<creatingKey, myKeyCreation, keyCreator>>
        ELSE /\ creatingKey' = [creatingKey EXCEPT ![IndexByType(acquired)] = TRUE]
             /\ myKeyCreation' = [myKeyCreation EXCEPT ![s] = acquired]
             /\ keyCreator' = [keyCreator EXCEPT ![s] = "idle"]

\* Mutant: the kind of the creation is taken for the type of the data centre.
CreationKindAsDcType(s, type) ==
    IF keyCreator[s] # "none" THEN currentType[s]
    ELSE IF Acquired(s, type) # "None" THEN Acquired(s, type)
    ELSE type

\* The type tryAcquireKeyCreation returns: a media session that got the regular
\* lock has to connect to a regular endpoint.
CreationDcType(s, type) ==
    IF keyCreator[s] # "none" THEN currentType[s]
    ELSE IF type = "MediaCluster" /\ Acquired(s, type) \in {"Persistent", "TemporaryRegular"}
    THEN "Regular"
    ELSE type

\* Mutant: the creator is dropped, its lock is not returned.
DropCreatorKeepLock(s) ==
    /\ keyCreator' = [keyCreator EXCEPT ![s] = "none"]
    /\ bindKey' = [bindKey EXCEPT ![s] = NoKey]
    /\ UNCHANGED <<creatingKey, myKeyCreation>>

\* SessionPrivate::releaseKeyCreationOnFail down to Dcenter.
ReleaseKeyCreationOnFail(s) ==
    /\ keyCreator' = [keyCreator EXCEPT ![s] = "none"]
    /\ bindKey' = [bindKey EXCEPT ![s] = NoKey]
    /\ IF keyCreator[s] # "none" /\ owner[s] = "alive"
       THEN /\ creatingKey' = [creatingKey EXCEPT ![IndexByType(myKeyCreation[s])] = FALSE]
            /\ myKeyCreation' = [myKeyCreation EXCEPT ![s] = "None"]
       ELSE UNCHANGED <<creatingKey, myKeyCreation>>

\* SessionData::getTemporaryKey(TemporaryKeyTypeByDcType(_currentDcType)).
CurrentTemporaryKey(s) ==
    IF owner[s] = "alive" THEN temporaryKey[TemporaryKeyTypeByDcType(currentType[s])] ELSE NoKey

\* Session::watchDcKeyChanges: every session with a private part is told.
NotifyKeyChanged ==
    keyChanged' = [s \in Sessions |->
        IF private[s] = "running" THEN keyChanged[s] + 1 ELSE keyChanged[s]]

\* The thread of s may take the next event of its queue.
Idle(s) == private[s] # "none" /\ stage[s] = "idle"

Fault == faults < MaxFaults /\ faults' = faults + 1
KeysUnchanged == UNCHANGED <<tempCount, permCount, serverTemp, serverPerm, boundTo, keyHome>>

-----------------------------------------------------------------------------
(* SessionPrivate: connecting. *)

\* restart(), doDisconnect() and destroyAllConnections(): an unbound creation is
\* stopped but its BoundKeyCreator, and so the creation lock, is kept.
Unstarted(s) == IF keyCreator[s] = "creating" THEN "idle" ELSE keyCreator[s]

Restart(s) ==
    /\ connection' = [connection EXCEPT ![s] = "none"]
    /\ keyCreator' = [keyCreator EXCEPT ![s] = Unstarted(s)]

\* destroyTemporaryKey() after releaseKeyCreationOnFail: the key itself is
\* forgotten under another lock, by ForgetKey.
DestroyTemporaryKey(s) ==
    /\ ReleaseKeyCreationOnFail(s)
    /\ connection' = [connection EXCEPT ![s] = "none"]
    /\ stage' = [stage EXCEPT ![s] = "forget"]

ConnectToServer(s) ==
    /\ Idle(s) /\ connection[s] = "none"
    /\ realType' = [realType EXCEPT ![s] = optionsType[s]]
    /\ IF realType[s] # optionsType[s] /\ keyCreator[s] # "none"
       THEN /\ DestroyTemporaryKey(s)
            /\ UNCHANGED <<currentType, bindMsg>>
       ELSE /\ currentType' = [currentType EXCEPT ![s] = CreationDcType(s, optionsType[s])]
            /\ TryAcquireKeyCreation(s, optionsType[s])
            /\ connection' = [connection EXCEPT ![s] = "connecting"]
            /\ bindMsg' = [bindMsg EXCEPT ![s] = "none"]
            /\ UNCHANGED <<stage, bindKey>>
    /\ UNCHANGED <<temporaryKey, persistentKey, owner, queueVars, private, readKey,
                   keyId, encryptionKey, optionsType, serverVars>>

\* onConnected / confirmBestConnection and checkAuthKey: the connection keeps a
\* key it already has, otherwise the key is read from the Dcenter.
Connected(s) ==
    /\ Idle(s) /\ connection[s] = "connecting"
    /\ connection' = [connection EXCEPT ![s] = "up"]
    /\ IF keyId[s] # NoKey
       THEN UNCHANGED <<readKey, stage>>
       ELSE /\ readKey' = [readKey EXCEPT ![s] = CurrentTemporaryKey(s)]
            /\ stage' = [stage EXCEPT ![s] = "apply"]
    /\ UNCHANGED <<dcVars, sessionVars, queueVars, private, keyId, encryptionKey,
                   keyCreator, bindKey, bindMsg, typeVars, serverVars>>

\* updateAuthKey(), queued by Session::watchDcKeyChanges.
UpdateAuthKey(s) ==
    /\ Idle(s) /\ keyChanged[s] > 0
    /\ keyChanged' = [keyChanged EXCEPT ![s] = @ - 1]
    /\ IF keyCreator[s] # "none" \/ connection[s] # "up"
       THEN UNCHANGED <<readKey, stage>>
       ELSE /\ readKey' = [readKey EXCEPT ![s] = CurrentTemporaryKey(s)]
            /\ stage' = [stage EXCEPT ![s] = "apply"]
    /\ UNCHANGED <<dcVars, sessionVars, keyDestroyed, restartQueued, private, connection,
                   keyId, encryptionKey, keyCreator, bindKey, bindMsg, typeVars, serverVars>>

\* The end of applyAuthKey without a key: start the creation, or wait.
StartCreation(s, creator) == IF creator = "idle" THEN "creating" ELSE creator

\* applyAuthKey(readKey), up to the second look at the Dcenter.
ApplyAuthKey(s) ==
    /\ stage[s] = "apply"
    /\ encryptionKey' = [encryptionKey EXCEPT ![s] = readKey[s]]
    /\ \/ /\ keyId[s] # NoKey /\ keyId[s] = readKey[s]
          /\ stage' = [stage EXCEPT ![s] = "idle"]
          /\ UNCHANGED <<keyId, connection, keyCreator>>
       \/ /\ keyId[s] # NoKey /\ keyId[s] # readKey[s]
          /\ keyId' = [keyId EXCEPT ![s] = NoKey]
          /\ Restart(s)
          /\ stage' = [stage EXCEPT ![s] = "idle"]
       \/ /\ keyId[s] = NoKey /\ readKey[s] # NoKey
          /\ keyId' = [keyId EXCEPT ![s] = readKey[s]]
          /\ stage' = [stage EXCEPT ![s] = "idle"]
          /\ UNCHANGED <<connection, keyCreator>>
       \/ /\ keyId[s] = NoKey /\ readKey[s] = NoKey
          /\ LET noMediaKeyWithExistingRegularKey ==
                     /\ currentType[s] = "MediaCluster"
                     /\ owner[s] = "alive"
                     /\ temporaryKey["Regular"] # NoKey
             IN  IF noMediaKeyWithExistingRegularKey
                 THEN /\ stage' = [stage EXCEPT ![s] = "acquire"]
                      /\ UNCHANGED keyCreator
                 ELSE /\ stage' = [stage EXCEPT ![s] = "idle"]
                      /\ keyCreator' = [keyCreator EXCEPT ![s] = StartCreation(s, @)]
          /\ UNCHANGED <<keyId, connection>>
    /\ readKey' = [readKey EXCEPT ![s] = NoKey]
    /\ UNCHANGED <<dcVars, sessionVars, queueVars, private, bindKey, bindMsg, typeVars, serverVars>>

\* applyAuthKey's tryAcquireKeyCreation: another session may have made or
\* dropped a key since ApplyAuthKey looked.
AcquireInApply(s) ==
    /\ stage[s] = "acquire"
    /\ stage' = [stage EXCEPT ![s] = "idle"]
    /\ LET acquired == Acquired(s, realType[s])
           got == keyCreator[s] # "none" \/ acquired # "None"
           changed == CreationDcType(s, realType[s]) # currentType[s]
       IN  /\ IF keyCreator[s] = "none" /\ got
              THEN /\ creatingKey' = [creatingKey EXCEPT ![IndexByType(acquired)] = TRUE]
                   /\ myKeyCreation' = [myKeyCreation EXCEPT ![s] = acquired]
              ELSE UNCHANGED <<creatingKey, myKeyCreation>>
           /\ IF got /\ changed
              THEN /\ connection' = [connection EXCEPT ![s] = "none"]
                   /\ keyCreator' = [keyCreator EXCEPT ![s] = "idle"]
              ELSE /\ keyCreator' = [keyCreator EXCEPT ![s] = IF got THEN "creating" ELSE @]
                   /\ UNCHANGED connection
    /\ UNCHANGED <<temporaryKey, persistentKey, owner, queueVars, private, readKey, keyId,
                   encryptionKey, bindKey, bindMsg, typeVars, serverVars>>

\* A connection is lost, times out or is restarted.
Disconnect(s) ==
    /\ Idle(s) /\ connection[s] # "none"
    /\ Fault
    /\ Restart(s)
    /\ KeysUnchanged
    /\ UNCHANGED <<dcVars, sessionVars, queueVars, private, stage, readKey, keyId,
                   encryptionKey, bindKey, bindMsg, typeVars>>

\* onDisconnected: the server gives up on a connection without a key.
ClosedSilent(s) ==
    /\ CloseSilent
    /\ Idle(s) /\ connection[s] = "up" /\ keyId[s] = NoKey /\ keyCreator[s] = "none"
    /\ Restart(s)
    /\ UNCHANGED <<dcVars, sessionVars, queueVars, private, stage, readKey, keyId,
                   encryptionKey, bindKey, bindMsg, typeVars, serverVars>>

\* restartNow(), queued by Session::restart.
RestartNow(s) ==
    /\ Idle(s) /\ s \in restartQueued
    /\ restartQueued' = restartQueued \ {s}
    /\ Restart(s)
    /\ UNCHANGED <<dcVars, sessionVars, keyChanged, keyDestroyed, private, stage, readKey,
                   keyId, encryptionKey, bindKey, bindMsg, typeVars, serverVars>>

-----------------------------------------------------------------------------
(* SessionPrivate: making a key and binding it. *)

\* The endpoint the session is connected to knows its temporary key.
KnownAtEndpoint(s) ==
    keyId[s] \in serverTemp /\ keyHome[keyId[s]] = TemporaryKeyTypeByDcType(currentType[s])

\* delegate.unboundReady with a result: the new temporary key becomes the
\* session's, and the binder gets the persistent key that came with it or the
\* one of the Dcenter.  A CDN key needs no binding.
KeyCreated(s) ==
    /\ Idle(s) /\ connection[s] = "up" /\ keyCreator[s] = "creating"
    /\ tempCount < MaxTemp
    /\ tempCount' = tempCount + 1
    /\ serverTemp' = serverTemp \cup {tempCount + 1}
    /\ keyHome' = [keyHome EXCEPT ![tempCount + 1] = TemporaryKeyTypeByDcType(currentType[s])]
    /\ LET temporary == tempCount + 1
           asksPersistent == myKeyCreation[s] = "Persistent"
           persistent == IF asksPersistent THEN permCount + 1
                         ELSE IF owner[s] = "alive" THEN persistentKey ELSE NoKey
           released == owner[s] = "alive" /\ persistentKey = NoKey
       IN  /\ IF asksPersistent
              THEN /\ permCount < MaxPerm
                   /\ permCount' = permCount + 1
                   /\ serverPerm' = serverPerm \cup {permCount + 1}
              ELSE UNCHANGED <<permCount, serverPerm>>
           /\ \/ /\ realType[s] # "Cdn" /\ persistent = NoKey
                 /\ ReleaseKeyCreationOnFail(s)
                 /\ connection' = [connection EXCEPT ![s] = "none"]
                 /\ UNCHANGED <<temporaryKey, keyChanged, keyId, encryptionKey>>
              \/ /\ realType[s] # "Cdn" /\ persistent # NoKey
                 /\ keyCreator' = [keyCreator EXCEPT ![s] = "binding"]
                 /\ bindKey' = [bindKey EXCEPT ![s] = persistent]
                 /\ keyId' = [keyId EXCEPT ![s] = temporary]
                 /\ encryptionKey' = [encryptionKey EXCEPT ![s] = temporary]
                 /\ UNCHANGED <<temporaryKey, creatingKey, myKeyCreation, keyChanged, connection>>
              \/ /\ realType[s] = "Cdn"
                 /\ keyCreator' = [keyCreator EXCEPT ![s] = "none"]
                 /\ keyId' = [keyId EXCEPT ![s] = temporary]
                 /\ encryptionKey' = [encryptionKey EXCEPT ![s] = temporary]
                 /\ myKeyCreation' = [myKeyCreation EXCEPT
                        ![s] = IF owner[s] = "alive" THEN "None" ELSE @]
                 /\ IF released
                    THEN /\ temporaryKey' = [temporaryKey EXCEPT !["Regular"] = temporary]
                         /\ creatingKey' = [creatingKey EXCEPT !["Regular"] = FALSE]
                         /\ NotifyKeyChanged
                         /\ UNCHANGED connection
                    ELSE /\ connection' = [connection EXCEPT ![s] = "none"]
                         /\ UNCHANGED <<temporaryKey, creatingKey, keyChanged>>
                 /\ UNCHANGED bindKey
    /\ UNCHANGED <<persistentKey, owner, keyDestroyed, restartQueued, private, stage, readKey,
                   bindMsg, typeVars, faults, boundTo>>

\* delegate.unboundReady with an error.  An unknown CDN public key leaves the
\* connection up, without a key, until the CDN config is loaded.
KeyCreationFailed(s) ==
    /\ Idle(s) /\ connection[s] = "up" /\ keyCreator[s] = "creating"
    /\ Fault
    /\ ReleaseKeyCreationOnFail(s)
    /\ \/ connection' = [connection EXCEPT ![s] = "none"]
       \/ realType[s] = "Cdn" /\ UNCHANGED connection
    /\ KeysUnchanged
    /\ UNCHANGED <<temporaryKey, persistentKey, owner, queueVars, private, stage, readKey,
                   keyId, encryptionKey, bindMsg, typeVars>>

\* tryToSend: a key that is not bound yet sends nothing but pings and the bind.
SendBind(s) ==
    /\ Idle(s) /\ connection[s] = "up" /\ keyCreator[s] = "binding"
    /\ bindMsg[s] = "none"
    /\ bindMsg' = [bindMsg EXCEPT ![s] = "sent"]
    /\ UNCHANGED <<dcVars, sessionVars, queueVars, private, connection, stage, readKey, keyId,
                   encryptionKey, keyCreator, bindKey, typeVars, serverVars>>

\* Mutant: the persistent key is not compared.
BindNotCompared(s) == owner[s] = "alive"

\* Dcenter::releaseKeyCreationOnDone: the persistent key used for the bind must
\* still be the one of the Dcenter, unless it was created for it.
BindStillValid(s) ==
    owner[s] = "alive" /\ (myKeyCreation[s] = "Persistent" \/ persistentKey = bindKey[s])

\* handleBindResponse and Session::releaseKeyCreationOnDone.
ReceiveBindSuccess(s) ==
    /\ Idle(s) /\ connection[s] = "up" /\ keyCreator[s] = "binding"
    /\ bindMsg[s] = "Success"
    /\ bindMsg' = [bindMsg EXCEPT ![s] = "none"]
    /\ keyCreator' = [keyCreator EXCEPT ![s] = "none"]
    /\ bindKey' = [bindKey EXCEPT ![s] = NoKey]
    /\ myKeyCreation' = [myKeyCreation EXCEPT ![s] = IF owner[s] = "alive" THEN "None" ELSE @]
    /\ LET index == IndexByType(myKeyCreation[s])
       IN  IF BindStillValid(s)
           THEN /\ persistentKey' = bindKey[s]
                /\ temporaryKey' = [temporaryKey EXCEPT ![index] = encryptionKey[s]]
                /\ creatingKey' = [creatingKey EXCEPT ![index] = FALSE]
                /\ NotifyKeyChanged
                /\ UNCHANGED <<connection, stage>>
           ELSE /\ connection' = [connection EXCEPT ![s] = "none"]
                /\ stage' = [stage EXCEPT ![s] = "forget"]
                /\ UNCHANGED <<dcVars, keyChanged>>
    /\ UNCHANGED <<owner, keyDestroyed, restartQueued, private, readKey, keyId, encryptionKey,
                   typeVars, serverVars>>

\* handleBindResponse: a persistent key older than kKeyOldEnoughForDestroy is
\* reported to the main thread (destroyOldEnoughPersistentKey); otherwise, and
\* on any other error, the bind is sent again.
ReceiveBindError(s) ==
    /\ Idle(s) /\ connection[s] = "up" /\ keyCreator[s] = "binding"
    /\ bindMsg[s] \in {"DefinitelyDestroyed", "Failed"}
    /\ bindMsg' = [bindMsg EXCEPT ![s] = "none"]
    /\ \/ /\ bindMsg[s] = "DefinitelyDestroyed"
          /\ keyDestroyed' = keyDestroyed \cup {<<s, bindKey[s]>>}
          /\ DestroyTemporaryKey(s)
          /\ UNCHANGED faults
       \/ /\ IF bindMsg[s] = "Failed" THEN UNCHANGED faults ELSE Fault
          /\ UNCHANGED <<keyDestroyed, creatingKey, myKeyCreation, keyCreator, bindKey,
                         connection, stage>>
    /\ KeysUnchanged
    /\ UNCHANGED <<temporaryKey, persistentKey, owner, keyChanged, restartQueued, private,
                   readKey, keyId, encryptionKey, typeVars>>

\* handleError(-404): the endpoint does not know the key.
KeyNotFound(s) ==
    /\ Idle(s) /\ connection[s] = "up" /\ keyId[s] # NoKey
    /\ ~KnownAtEndpoint(s)
    /\ DestroyTemporaryKey(s)
    /\ UNCHANGED <<temporaryKey, persistentKey, owner, queueVars, private, readKey, keyId,
                   encryptionKey, bindMsg, typeVars, serverVars>>

\* rpc_result with AUTH_KEY_PERM_EMPTY, to a request of a session that sends
\* its requests (it has a key and makes none).
PermanentKeyEmpty(s) ==
    /\ Idle(s) /\ connection[s] = "up" /\ keyId[s] # NoKey /\ keyCreator[s] = "none"
    /\ KnownAtEndpoint(s) /\ realType[s] # "Cdn" /\ boundTo[keyId[s]] \notin serverPerm
    /\ DestroyTemporaryKey(s)
    /\ UNCHANGED <<temporaryKey, persistentKey, owner, queueVars, private, readKey, keyId,
                   encryptionKey, bindMsg, typeVars, serverVars>>

\* destroyTemporaryKey(): Session::destroyTemporaryKey, Dcenter::destroyTemporaryKey,
\* applyAuthKey(nullptr) and restart().
ForgetKey(s) ==
    /\ stage[s] = "forget"
    /\ stage' = [stage EXCEPT ![s] = "idle"]
    /\ LET held == {t \in TemporaryKeyType : temporaryKey[t] = encryptionKey[s]}
       IN  IF owner[s] = "alive" /\ encryptionKey[s] # NoKey /\ held # {}
           THEN /\ temporaryKey' = [t \in TemporaryKeyType |->
                                        IF t \in held THEN NoKey ELSE temporaryKey[t]]
                /\ NotifyKeyChanged
           ELSE UNCHANGED <<temporaryKey, keyChanged>>
    /\ encryptionKey' = [encryptionKey EXCEPT ![s] = NoKey]
    /\ keyId' = [keyId EXCEPT ![s] = NoKey]
    /\ UNCHANGED <<persistentKey, creatingKey, sessionVars, keyDestroyed, restartQueued, private,
                   connection, readKey, keyCreator, bindKey, bindMsg, typeVars, serverVars>>

-----------------------------------------------------------------------------
(* The main thread. *)

\* Instance::Private::keyDestroyedOnServer and Dcenter::destroyConfirmedForgottenKey.
KeyDestroyedOnServer(s, key) ==
    /\ <<s, key>> \in keyDestroyed
    /\ keyDestroyed' = keyDestroyed \ {<<s, key>>}
    /\ IF persistentKey = key
       THEN /\ persistentKey' = NoKey
            /\ temporaryKey' = [t \in TemporaryKeyType |-> NoKey]
            /\ NotifyKeyChanged
       ELSE UNCHANGED <<persistentKey, temporaryKey, keyChanged>>
    /\ restartQueued' = IF private[s] = "running" THEN restartQueued \cup {s} ELSE restartQueued
    /\ UNCHANGED <<creatingKey, sessionVars, privateVars, typeVars, serverVars>>

\* Session::stop, Session::start (from needToResumeAndSend), Session::kill.
Stop(s) ==
    /\ s \in Stoppable
    /\ owner[s] = "alive" /\ private[s] = "running"
    /\ Fault
    /\ private' = [private EXCEPT ![s] = "deleting"]
    /\ KeysUnchanged
    /\ UNCHANGED <<dcVars, sessionVars, queueVars, connection, stage, readKey, keyId,
                   encryptionKey, keyCreator, bindKey, bindMsg, typeVars>>

Start(s) ==
    /\ owner[s] = "alive" /\ private[s] = "none"
    /\ private' = [private EXCEPT ![s] = "running"]
    /\ realType' = [realType EXCEPT ![s] = optionsType[s]]
    /\ currentType' = [currentType EXCEPT ![s] = optionsType[s]]
    /\ UNCHANGED <<dcVars, sessionVars, queueVars, connection, stage, readKey, keyId,
                   encryptionKey, keyCreator, bindKey, bindMsg, optionsType, serverVars>>

Kill(s) ==
    /\ s \in Stoppable
    /\ owner[s] = "alive"
    /\ Fault
    /\ owner' = [owner EXCEPT ![s] = "killed"]
    /\ private' = [private EXCEPT ![s] = IF @ = "running" THEN "deleting" ELSE @]
    /\ KeysUnchanged
    /\ UNCHANGED <<dcVars, myKeyCreation, queueVars, connection, stage, readKey, keyId,
                   encryptionKey, keyCreator, bindKey, bindMsg, typeVars>>

\* ~SessionPrivate, on the session's thread.
PrivateDestroyed(s) ==
    /\ private[s] = "deleting" /\ stage[s] = "idle"
    /\ private' = [private EXCEPT ![s] = "none"]
    /\ ReleaseKeyCreationOnFail(s)
    /\ connection' = [connection EXCEPT ![s] = "none"]
    /\ keyId' = [keyId EXCEPT ![s] = NoKey]
    /\ encryptionKey' = [encryptionKey EXCEPT ![s] = NoKey]
    /\ bindMsg' = [bindMsg EXCEPT ![s] = "none"]
    /\ keyChanged' = [keyChanged EXCEPT ![s] = 0]
    /\ restartQueued' = restartQueued \ {s}
    /\ UNCHANGED <<temporaryKey, persistentKey, owner, keyDestroyed, stage, readKey, typeVars,
                   serverVars>>

\* ~Session, from _sessionsToDestroy: it returns the lock its private part
\* could no longer return.
SessionDestroyed(s) ==
    /\ owner[s] = "killed"
    /\ owner' = [owner EXCEPT ![s] = "gone"]
    /\ IF myKeyCreation[s] # "None"
       THEN /\ creatingKey' = [creatingKey EXCEPT ![IndexByType(myKeyCreation[s])] = FALSE]
            /\ myKeyCreation' = [myKeyCreation EXCEPT ![s] = "None"]
       ELSE UNCHANGED <<creatingKey, myKeyCreation>>
    /\ UNCHANGED <<temporaryKey, persistentKey, queueVars, privateVars, typeVars, serverVars>>

\* A new config adds or removes the media-only endpoints of the data centre.
DcOptionsChanged(s) ==
    /\ InitialType[s] = "MediaCluster"
    /\ Fault
    /\ optionsType' = [optionsType EXCEPT
           ![s] = IF @ = "Regular" THEN "MediaCluster" ELSE "Regular"]
    /\ KeysUnchanged
    /\ UNCHANGED <<dcVars, sessionVars, queueVars, privateVars, realType, currentType>>

-----------------------------------------------------------------------------
(* The server. *)

ServeBind(s) ==
    /\ bindMsg[s] = "sent" /\ keyCreator[s] = "binding" /\ keyId[s] \in serverTemp
    /\ \/ /\ bindKey[s] \in serverPerm
          /\ boundTo' = [boundTo EXCEPT ![keyId[s]] = bindKey[s]]
          /\ bindMsg' = [bindMsg EXCEPT ![s] = "Success"]
          /\ UNCHANGED faults
       \/ /\ bindKey[s] \notin serverPerm
          /\ bindMsg' = [bindMsg EXCEPT ![s] = "DefinitelyDestroyed"]
          /\ UNCHANGED <<boundTo, faults>>
       \/ /\ Fault
          /\ bindMsg' = [bindMsg EXCEPT ![s] = "Failed"]
          /\ UNCHANGED boundTo
    /\ UNCHANGED <<dcVars, sessionVars, queueVars, private, connection, stage, readKey, keyId,
                   encryptionKey, keyCreator, bindKey, typeVars, tempCount, permCount,
                   serverTemp, serverPerm, keyHome>>

ServerForgets ==
    /\ Fault
    /\ \/ \E key \in serverTemp : serverTemp' = serverTemp \ {key} /\ UNCHANGED serverPerm
       \/ /\ ForgetPerm
          /\ \E key \in serverPerm : serverPerm' = serverPerm \ {key}
          /\ UNCHANGED serverTemp
    /\ UNCHANGED <<dcVars, sessionVars, queueVars, privateVars, typeVars, tempCount, permCount,
                   boundTo, keyHome>>

-----------------------------------------------------------------------------
\* A data centre whose persistent key was read from the storage, or a new one
\* (a CDN never gets one).
Init ==
    /\ persistentKey \in IF IsCdn THEN {NoKey} ELSE {NoKey, 1}
    /\ temporaryKey = [t \in TemporaryKeyType |-> NoKey]
    /\ creatingKey = [t \in TemporaryKeyType |-> FALSE]
    /\ owner = [s \in Sessions |-> "alive"]
    /\ myKeyCreation = [s \in Sessions |-> "None"]
    /\ keyChanged = [s \in Sessions |-> 0]
    /\ keyDestroyed = {}
    /\ restartQueued = {}
    /\ private = [s \in Sessions |-> "running"]
    /\ connection = [s \in Sessions |-> "none"]
    /\ stage = [s \in Sessions |-> "idle"]
    /\ readKey = [s \in Sessions |-> NoKey]
    /\ keyId = [s \in Sessions |-> NoKey]
    /\ encryptionKey = [s \in Sessions |-> NoKey]
    /\ keyCreator = [s \in Sessions |-> "none"]
    /\ bindKey = [s \in Sessions |-> NoKey]
    /\ bindMsg = [s \in Sessions |-> "none"]
    /\ realType = InitialType
    /\ currentType = InitialType
    /\ optionsType = InitialType
    /\ tempCount = 0 /\ permCount = persistentKey /\ faults = 0
    /\ serverTemp = {} /\ serverPerm = IF persistentKey = NoKey THEN {} ELSE {persistentKey}
    /\ boundTo = [k \in 1 .. MaxTemp |-> NoKey]
    /\ keyHome = [k \in 1 .. MaxTemp |-> "Regular"]

\* The steps of the session's own thread.
ThreadStep(s) ==
    \/ ConnectToServer(s) \/ Connected(s) \/ UpdateAuthKey(s) \/ ApplyAuthKey(s)
    \/ AcquireInApply(s) \/ RestartNow(s) \/ KeyCreated(s) \/ SendBind(s)
    \/ ReceiveBindSuccess(s) \/ ReceiveBindError(s) \/ KeyNotFound(s)
    \/ PermanentKeyEmpty(s) \/ ForgetKey(s) \/ PrivateDestroyed(s) \/ ClosedSilent(s)

MainStep(s) ==
    \/ \E key \in 1 .. MaxPerm : KeyDestroyedOnServer(s, key)
    \/ Start(s) \/ SessionDestroyed(s)

FaultStep(s) ==
    \/ Disconnect(s) \/ KeyCreationFailed(s) \/ Stop(s) \/ Kill(s) \/ DcOptionsChanged(s)

Next ==
    \/ \E s \in Sessions : ThreadStep(s) \/ MainStep(s) \/ FaultStep(s) \/ ServeBind(s)
    \/ ServerForgets

Spec == Init /\ [][Next]_vars

\* Threads, the main thread and the server keep working; faults end when
\* their bound is reached.
Fairness ==
    /\ \A s \in Sessions :
        /\ WF_vars(ConnectToServer(s)) /\ WF_vars(Connected(s)) /\ WF_vars(UpdateAuthKey(s))
        /\ WF_vars(ApplyAuthKey(s)) /\ WF_vars(AcquireInApply(s)) /\ WF_vars(RestartNow(s))
        /\ WF_vars(KeyCreated(s)) /\ WF_vars(SendBind(s)) /\ WF_vars(ReceiveBindSuccess(s))
        /\ WF_vars(ReceiveBindError(s)) /\ WF_vars(KeyNotFound(s))
        /\ WF_vars(PermanentKeyEmpty(s)) /\ WF_vars(ForgetKey(s)) /\ WF_vars(PrivateDestroyed(s))
        /\ WF_vars(ClosedSilent(s)) /\ WF_vars(MainStep(s)) /\ WF_vars(ServeBind(s))

FairSpec == Spec /\ Fairness

-----------------------------------------------------------------------------
(* Properties. *)

\* A key slot whose creation lock is taken is empty: what both Expects of
\* releaseKeyCreationOnDone and of releaseKeyCreationOnFail take for granted
\* (mtproto_dcenter.cpp:135-137, 159-160), although keys and locks are changed
\* by several threads.
LockedSlotIsEmpty == \A t \in TemporaryKeyType : creatingKey[t] => temporaryKey[t] = NoKey

\* A session that holds a creation has its lock, and no lock has two holders:
\* two sessions never make the same key at once.
HoldersHaveLock ==
    \A s \in Sessions : myKeyCreation[s] # "None" => creatingKey[IndexByType(myKeyCreation[s])]
NoTwoHolders ==
    \A s, u \in Sessions :
        /\ s # u /\ myKeyCreation[s] # "None" /\ myKeyCreation[u] # "None"
        => IndexByType(myKeyCreation[s]) # IndexByType(myKeyCreation[u])
ExclusiveCreation == HoldersHaveLock /\ NoTwoHolders

\* The key creator of the session's thread and the lock noted by the Session on
\* the other side of the owner mutex go together: the Expects of
\* Session::acquireKeyCreation and of its three releases (session.cpp:443-501),
\* a CDN session only ever holding the lock of its one temporary key.
CreatorMatchesLock ==
    \A s \in Sessions :
        /\ owner[s] = "alive" => (keyCreator[s] = "none" <=> myKeyCreation[s] = "None")
        /\ realType[s] = "Cdn" => myKeyCreation[s] \in {"None", "TemporaryRegular"}

\* The keys of a Dcenter belong together: a temporary key in it is one the
\* server bound to the persistent key in it, whatever other sessions destroyed
\* or created while it was being bound.  (CDN keys are not bound.)
KeysBelongTogether ==
    \A t \in TemporaryKeyType : temporaryKey[t] # NoKey =>
        \/ persistentKey # NoKey /\ boundTo[temporaryKey[t]] = persistentKey
        \/ IsCdn

\* BoundKeyCreator::start is called on an unstarted creator only
\* (mtproto_bound_key_creator.cpp:24), and one that binds has its key.
CreatorStartedOnce ==
    \A s \in Sessions :
        /\ stage[s] \in {"apply", "acquire"} => keyCreator[s] \in {"none", "idle"}
        /\ keyCreator[s] = "creating" => keyId[s] = NoKey /\ connection[s] = "up"
        /\ keyCreator[s] = "binding" => keyId[s] # NoKey /\ encryptionKey[s] = keyId[s]

\* All that the Expects around the creation of a key take for granted.
CreationsAreSafe ==
    LockedSlotIsEmpty /\ ExclusiveCreation /\ CreatorMatchesLock /\ CreatorStartedOnce

\* A temporary key is put only in an empty slot, under its lock, and the
\* persistent key is replaced only when there was none.
KeepsKeys ==
    /\ \A t \in TemporaryKeyType :
        temporaryKey'[t] \notin {temporaryKey[t], NoKey} => temporaryKey[t] = NoKey /\ creatingKey[t]
    /\ persistentKey' \notin {persistentKey, NoKey} => persistentKey = NoKey
KeysAreNeverOverwritten == [][KeepsKeys]_vars

\* Once the faults are over, every session that is not killed ends up with a
\* connection and a key the server accepts there.
Keyed(s) ==
    /\ Idle(s) /\ connection[s] = "up" /\ keyCreator[s] = "none" /\ keyId[s] # NoKey
    /\ KnownAtEndpoint(s)
    /\ realType[s] = "Cdn" \/ boundTo[keyId[s]] \in serverPerm
EverySessionGetsKey == \A s \in Sessions : <>[](owner[s] = "alive" => Keyed(s))
=============================================================================
