---------------------------- MODULE DcKeysProofs ----------------------------
(***************************************************************************)
(* The creation locks of a data centre are exclusive, whatever the number  *)
(* of its sessions, keys and faults.                                       *)
(***************************************************************************)
EXTENDS DcKeys, TLAPS

USE InitialTypeAssumption, BoundsAssumption DEF NoKey

LEMMA InitTypeOK == Init => TypeOK
  BY DEF Init, TypeOK, DcTypeOK, SessionTypeOK, QueueTypeOK, ThreadTypeOK, KeyTypeOK, KindTypeOK,
         ServerTypeOK, DcType, TemporaryKeyType, CreatingKeyType, BindState, IsCdn

\* What the acquisition of a creation lock returns.
LEMMA AcquireTypes ==
    ASSUME TypeOK, NEW s \in Sessions, NEW type \in DcType
    PROVE  /\ Acquired(s, type) \in CreatingKeyType \cup {"None"}
           /\ CreationDcType(s, type) \in DcType
           /\ \A c \in CreatingKeyType : IndexByType(c) \in TemporaryKeyType
  BY DEF TypeOK, KindTypeOK, Acquired, AcquireResult, CreationDcType, IndexByType,
         CreatingKeyType, TemporaryKeyType, DcType

\* What the operators the actions share do to the types.
LEMMA ReleaseStep ==
    ASSUME TypeOK, NEW s \in Sessions, ReleaseKeyCreationOnFail(s)
    PROVE  /\ creatingKey' \in [TemporaryKeyType -> BOOLEAN]
           /\ myKeyCreation' \in [Sessions -> CreatingKeyType \cup {"None"}]
           /\ keyCreator' \in [Sessions -> {"none", "idle", "creating", "binding"}]
           /\ bindKey' \in [Sessions -> Nat]
<1>1. keyCreator' \in [Sessions -> {"none", "idle", "creating", "binding"}]
  BY DEF TypeOK, ThreadTypeOK, ReleaseKeyCreationOnFail
<1>2. bindKey' \in [Sessions -> Nat]
  BY DEF TypeOK, KeyTypeOK, ReleaseKeyCreationOnFail
<1>3. CASE keyCreator[s] # "none" /\ owner[s] = "alive"
  <2>1. creatingKey' = [creatingKey EXCEPT ![IndexByType(myKeyCreation[s])] = FALSE]
    BY <1>3 DEF ReleaseKeyCreationOnFail
  <2>2. myKeyCreation' = [myKeyCreation EXCEPT ![s] = "None"]
    BY <1>3 DEF ReleaseKeyCreationOnFail
  <2> QED BY <1>1, <1>2, <2>1, <2>2 DEF TypeOK, DcTypeOK, SessionTypeOK
<1>4. CASE ~(keyCreator[s] # "none" /\ owner[s] = "alive")
  BY <1>1, <1>2, <1>4 DEF TypeOK, DcTypeOK, SessionTypeOK, ReleaseKeyCreationOnFail
<1> QED BY <1>3, <1>4

LEMMA AcquireStep ==
    ASSUME TypeOK, NEW s \in Sessions, NEW type \in DcType, TryAcquireKeyCreation(s, type)
    PROVE  /\ creatingKey' \in [TemporaryKeyType -> BOOLEAN]
           /\ myKeyCreation' \in [Sessions -> CreatingKeyType \cup {"None"}]
           /\ keyCreator' \in [Sessions -> {"none", "idle", "creating", "binding"}]
<1>1. CASE keyCreator[s] # "none" \/ Acquired(s, type) = "None"
  BY <1>1 DEF TypeOK, DcTypeOK, SessionTypeOK, ThreadTypeOK, TryAcquireKeyCreation
<1>2. CASE ~(keyCreator[s] # "none" \/ Acquired(s, type) = "None")
  <2>1. Acquired(s, type) \in CreatingKeyType \cup {"None"}
    BY AcquireTypes
  <2>2. /\ creatingKey' = [creatingKey EXCEPT ![IndexByType(Acquired(s, type))] = TRUE]
        /\ myKeyCreation' = [myKeyCreation EXCEPT ![s] = Acquired(s, type)]
        /\ keyCreator' = [keyCreator EXCEPT ![s] = "idle"]
    BY <1>2 DEF TryAcquireKeyCreation
  <2> QED BY <2>1, <2>2 DEF TypeOK, DcTypeOK, SessionTypeOK, ThreadTypeOK
<1> QED BY <1>1, <1>2

LEMMA RestartStep ==
    ASSUME TypeOK, NEW s \in Sessions, Restart(s)
    PROVE  /\ connection' \in [Sessions -> {"none", "connecting", "up"}]
           /\ keyCreator' \in [Sessions -> {"none", "idle", "creating", "binding"}]
  BY DEF TypeOK, ThreadTypeOK, Restart, Unstarted

LEMMA NotifyStep ==
    ASSUME TypeOK, NotifyKeyChanged
    PROVE  keyChanged' \in [Sessions -> Nat]
  BY DEF TypeOK, QueueTypeOK, NotifyKeyChanged

LEMMA CurrentKeyType ==
    ASSUME TypeOK, NEW s \in Sessions
    PROVE  CurrentTemporaryKey(s) \in Nat
  BY DEF TypeOK, DcTypeOK, CurrentTemporaryKey, TemporaryKeyTypeByDcType, TemporaryKeyType

\* The part of Dcenter.
LEMMA NextDcTypeOK == TypeOK /\ [Next]_vars => DcTypeOK'
<1> SUFFICES ASSUME TypeOK, [Next]_vars PROVE DcTypeOK'
  OBVIOUS
<1> USE DEF TypeOK, DcTypeOK
<1>1. ASSUME NEW s \in Sessions, ConnectToServer(s) PROVE DcTypeOK'
  BY <1>1, AcquireStep, ReleaseStep DEF ConnectToServer, DestroyTemporaryKey, KindTypeOK
<1>2. ASSUME NEW s \in Sessions, AcquireInApply(s) PROVE DcTypeOK'
  BY <1>2, AcquireTypes DEF AcquireInApply, IndexByType
<1>3. ASSUME NEW s \in Sessions, KeyCreated(s) PROVE DcTypeOK'
  <2>1. CASE realType[s] # "Cdn" /\ ReleaseKeyCreationOnFail(s) /\ UNCHANGED temporaryKey
    BY <1>3, <2>1, ReleaseStep DEF KeyCreated
  <2>2. CASE UNCHANGED <<temporaryKey, creatingKey>>
    BY <1>3, <2>2 DEF KeyCreated
  <2>3. CASE /\ temporaryKey' = [temporaryKey EXCEPT !["Regular"] = tempCount + 1]
             /\ creatingKey' = [creatingKey EXCEPT !["Regular"] = FALSE]
    <3>1. UNCHANGED persistentKey
      BY <1>3 DEF KeyCreated
    <3>2. tempCount + 1 \in Nat
      BY DEF ServerTypeOK
    <3> QED BY <2>3, <3>1, <3>2
  <2> QED BY <1>3, <2>1, <2>2, <2>3 DEF KeyCreated
<1>4. ASSUME NEW s \in Sessions, ReceiveBindSuccess(s) PROVE DcTypeOK'
  <2>1. CASE BindStillValid(s)
    <3>1. /\ persistentKey' = bindKey[s]
          /\ temporaryKey' = [temporaryKey EXCEPT ![IndexByType(myKeyCreation[s])] = encryptionKey[s]]
          /\ creatingKey' = [creatingKey EXCEPT ![IndexByType(myKeyCreation[s])] = FALSE]
      BY <1>4, <2>1 DEF ReceiveBindSuccess
    <3> QED BY <3>1 DEF KeyTypeOK
  <2>2. CASE ~BindStillValid(s)
    BY <1>4, <2>2 DEF ReceiveBindSuccess, dcVars
  <2> QED BY <2>1, <2>2
<1>5. ASSUME NEW s \in Sessions, ReceiveBindError(s) PROVE DcTypeOK'
  BY <1>5, ReleaseStep DEF ReceiveBindError, DestroyTemporaryKey
<1>6. ASSUME NEW s \in Sessions, KeyNotFound(s) PROVE DcTypeOK'
  BY <1>6, ReleaseStep DEF KeyNotFound, DestroyTemporaryKey
<1>7. ASSUME NEW s \in Sessions, PermanentKeyEmpty(s) PROVE DcTypeOK'
  BY <1>7, ReleaseStep DEF PermanentKeyEmpty, DestroyTemporaryKey
<1>8. ASSUME NEW s \in Sessions, ForgetKey(s) PROVE DcTypeOK'
  BY <1>8 DEF ForgetKey
<1>9. ASSUME NEW s \in Sessions, PrivateDestroyed(s) PROVE DcTypeOK'
  BY <1>9, ReleaseStep DEF PrivateDestroyed
<1>10. ASSUME NEW s \in Sessions, NEW key \in 1 .. MaxPerm, KeyDestroyedOnServer(s, key)
      PROVE  DcTypeOK'
  BY <1>10 DEF KeyDestroyedOnServer
<1>11. ASSUME NEW s \in Sessions, SessionDestroyed(s) PROVE DcTypeOK'
  BY <1>11 DEF SessionDestroyed, IndexByType, TemporaryKeyType
<1>12. ASSUME NEW s \in Sessions, KeyCreationFailed(s) PROVE DcTypeOK'
  BY <1>12, ReleaseStep DEF KeyCreationFailed
<1>13. ASSUME NEW s \in Sessions,
             Connected(s) \/ UpdateAuthKey(s) \/ ApplyAuthKey(s) \/ RestartNow(s) \/
              ClosedSilent(s) \/ SendBind(s) \/ Start(s) \/ Disconnect(s) \/
              Stop(s) \/ Kill(s) \/ DcOptionsChanged(s) \/ ServeBind(s)
      PROVE  DcTypeOK'
  BY <1>13 DEF dcVars, Connected, UpdateAuthKey, ApplyAuthKey, RestartNow, ClosedSilent, SendBind,
         Start, Disconnect, Stop, Kill, DcOptionsChanged, ServeBind
<1>14. CASE ServerForgets
  BY <1>14 DEF ServerForgets, dcVars
<1>15. CASE UNCHANGED vars
  BY <1>15 DEF vars, dcVars
<1> QED BY <1>1, <1>2, <1>3, <1>4, <1>5, <1>6, <1>7, <1>8, <1>9, <1>10, <1>11, <1>12, <1>13,
    <1>14, <1>15
  DEF Next, ThreadStep, MainStep, FaultStep

\* The part of Session.
LEMMA NextSessionTypeOK == TypeOK /\ [Next]_vars => SessionTypeOK'
<1> SUFFICES ASSUME TypeOK, [Next]_vars PROVE SessionTypeOK'
  OBVIOUS
<1> USE DEF TypeOK, SessionTypeOK
<1>1. ASSUME NEW s \in Sessions, ConnectToServer(s) PROVE SessionTypeOK'
  BY <1>1, AcquireStep, ReleaseStep DEF ConnectToServer, DestroyTemporaryKey, KindTypeOK
<1>2. ASSUME NEW s \in Sessions, AcquireInApply(s) PROVE SessionTypeOK'
  BY <1>2, AcquireTypes DEF AcquireInApply, KindTypeOK
<1>3. ASSUME NEW s \in Sessions, KeyCreated(s) PROVE SessionTypeOK'
  BY <1>3, ReleaseStep DEF KeyCreated
<1>4. ASSUME NEW s \in Sessions, ReceiveBindSuccess(s) PROVE SessionTypeOK'
  BY <1>4 DEF ReceiveBindSuccess
<1>5. ASSUME NEW s \in Sessions, ReceiveBindError(s) PROVE SessionTypeOK'
  BY <1>5, ReleaseStep DEF ReceiveBindError, DestroyTemporaryKey
<1>6. ASSUME NEW s \in Sessions, KeyNotFound(s) PROVE SessionTypeOK'
  BY <1>6, ReleaseStep DEF KeyNotFound, DestroyTemporaryKey
<1>7. ASSUME NEW s \in Sessions, PermanentKeyEmpty(s) PROVE SessionTypeOK'
  BY <1>7, ReleaseStep DEF PermanentKeyEmpty, DestroyTemporaryKey
<1>8. ASSUME NEW s \in Sessions, PrivateDestroyed(s) PROVE SessionTypeOK'
  BY <1>8, ReleaseStep DEF PrivateDestroyed
<1>9. ASSUME NEW s \in Sessions, Kill(s) PROVE SessionTypeOK'
  BY <1>9 DEF Kill
<1>10. ASSUME NEW s \in Sessions, SessionDestroyed(s) PROVE SessionTypeOK'
  BY <1>10 DEF SessionDestroyed
<1>11. ASSUME NEW s \in Sessions, KeyCreationFailed(s) PROVE SessionTypeOK'
  BY <1>11, ReleaseStep DEF KeyCreationFailed
<1>12. ASSUME NEW s \in Sessions,
             Connected(s) \/ UpdateAuthKey(s) \/ ApplyAuthKey(s) \/ RestartNow(s) \/
              ClosedSilent(s) \/ SendBind(s) \/ ForgetKey(s) \/ Start(s) \/
              Disconnect(s) \/ Stop(s) \/ DcOptionsChanged(s) \/ ServeBind(s)
      PROVE  SessionTypeOK'
  BY <1>12 DEF sessionVars, Connected, UpdateAuthKey, ApplyAuthKey, RestartNow, ClosedSilent, SendBind,
         ForgetKey, Start, Disconnect, Stop, DcOptionsChanged, ServeBind
<1>13. ASSUME NEW s \in Sessions, NEW key \in 1 .. MaxPerm, KeyDestroyedOnServer(s, key)
      PROVE  SessionTypeOK'
  BY <1>13 DEF KeyDestroyedOnServer, sessionVars
<1>14. CASE ServerForgets
  BY <1>14 DEF ServerForgets, sessionVars
<1>15. CASE UNCHANGED vars
  BY <1>15 DEF vars, sessionVars
<1> QED BY <1>1, <1>2, <1>3, <1>4, <1>5, <1>6, <1>7, <1>8, <1>9, <1>10, <1>11, <1>12, <1>13,
    <1>14, <1>15
  DEF Next, ThreadStep, MainStep, FaultStep

\* The part of the queues.
LEMMA NextQueueTypeOK == TypeOK /\ [Next]_vars => QueueTypeOK'
<1> SUFFICES ASSUME TypeOK, [Next]_vars PROVE QueueTypeOK'
  OBVIOUS
<1> USE DEF TypeOK, QueueTypeOK
<1>1. ASSUME NEW s \in Sessions, UpdateAuthKey(s) PROVE QueueTypeOK'
  BY <1>1 DEF UpdateAuthKey
<1>2. ASSUME NEW s \in Sessions, RestartNow(s) PROVE QueueTypeOK'
  BY <1>2 DEF RestartNow
<1>3. ASSUME NEW s \in Sessions, KeyCreated(s) PROVE QueueTypeOK'
  BY <1>3, NotifyStep DEF KeyCreated
<1>4. ASSUME NEW s \in Sessions, ReceiveBindSuccess(s) PROVE QueueTypeOK'
  BY <1>4, NotifyStep DEF ReceiveBindSuccess
<1>5. ASSUME NEW s \in Sessions, ReceiveBindError(s) PROVE QueueTypeOK'
  BY <1>5 DEF ReceiveBindError, DestroyTemporaryKey, KeyTypeOK
<1>6. ASSUME NEW s \in Sessions, ForgetKey(s) PROVE QueueTypeOK'
  BY <1>6, NotifyStep DEF ForgetKey
<1>7. ASSUME NEW s \in Sessions, PrivateDestroyed(s) PROVE QueueTypeOK'
  BY <1>7 DEF PrivateDestroyed
<1>8. ASSUME NEW s \in Sessions, NEW key \in 1 .. MaxPerm, KeyDestroyedOnServer(s, key)
      PROVE  QueueTypeOK'
  BY <1>8, NotifyStep DEF KeyDestroyedOnServer
<1>9. ASSUME NEW s \in Sessions,
             ConnectToServer(s) \/ Connected(s) \/ ApplyAuthKey(s) \/ AcquireInApply(s) \/
              ClosedSilent(s) \/ SendBind(s) \/ KeyNotFound(s) \/
              PermanentKeyEmpty(s) \/ Start(s) \/ SessionDestroyed(s) \/
              Disconnect(s) \/ KeyCreationFailed(s) \/ Stop(s) \/ Kill(s) \/
              DcOptionsChanged(s) \/ ServeBind(s)
      PROVE  QueueTypeOK'
  BY <1>9 DEF queueVars, ConnectToServer, Connected, ApplyAuthKey, AcquireInApply, ClosedSilent,
         SendBind, KeyNotFound, PermanentKeyEmpty, Start, SessionDestroyed, Disconnect,
         KeyCreationFailed, Stop, Kill, DcOptionsChanged, ServeBind
<1>10. CASE ServerForgets
  BY <1>10 DEF ServerForgets, queueVars
<1>11. CASE UNCHANGED vars
  BY <1>11 DEF vars, queueVars
<1> QED BY <1>1, <1>2, <1>3, <1>4, <1>5, <1>6, <1>7, <1>8, <1>9, <1>10, <1>11
  DEF Next, ThreadStep, MainStep, FaultStep

\* The part of the handlers of SessionPrivate.
LEMMA NextThreadTypeOK == TypeOK /\ [Next]_vars => ThreadTypeOK'
<1> SUFFICES ASSUME TypeOK, [Next]_vars PROVE ThreadTypeOK'
  OBVIOUS
<1> USE DEF TypeOK, ThreadTypeOK
<1>1. ASSUME NEW s \in Sessions, ConnectToServer(s) PROVE ThreadTypeOK'
  BY <1>1, AcquireStep, ReleaseStep DEF ConnectToServer, DestroyTemporaryKey, BindState, KindTypeOK
<1>2. ASSUME NEW s \in Sessions, Connected(s) PROVE ThreadTypeOK'
  BY <1>2 DEF Connected
<1>3. ASSUME NEW s \in Sessions, UpdateAuthKey(s) PROVE ThreadTypeOK'
  BY <1>3 DEF UpdateAuthKey
<1>4. ASSUME NEW s \in Sessions, ApplyAuthKey(s) PROVE ThreadTypeOK'
  BY <1>4, RestartStep DEF ApplyAuthKey, StartCreation
<1>5. ASSUME NEW s \in Sessions, AcquireInApply(s) PROVE ThreadTypeOK'
  BY <1>5 DEF AcquireInApply
<1>6. ASSUME NEW s \in Sessions, RestartNow(s) PROVE ThreadTypeOK'
  BY <1>6, RestartStep DEF RestartNow
<1>7. ASSUME NEW s \in Sessions, ClosedSilent(s) PROVE ThreadTypeOK'
  BY <1>7, RestartStep DEF ClosedSilent
<1>8. ASSUME NEW s \in Sessions, KeyCreated(s) PROVE ThreadTypeOK'
  BY <1>8, ReleaseStep DEF KeyCreated
<1>9. ASSUME NEW s \in Sessions, SendBind(s) PROVE ThreadTypeOK'
  BY <1>9 DEF SendBind, BindState
<1>10. ASSUME NEW s \in Sessions, ReceiveBindSuccess(s) PROVE ThreadTypeOK'
  BY <1>10 DEF ReceiveBindSuccess, BindState
<1>11. ASSUME NEW s \in Sessions, ReceiveBindError(s) PROVE ThreadTypeOK'
  BY <1>11, ReleaseStep DEF ReceiveBindError, DestroyTemporaryKey, BindState
<1>12. ASSUME NEW s \in Sessions, KeyNotFound(s) PROVE ThreadTypeOK'
  BY <1>12, ReleaseStep DEF KeyNotFound, DestroyTemporaryKey
<1>13. ASSUME NEW s \in Sessions, PermanentKeyEmpty(s) PROVE ThreadTypeOK'
  BY <1>13, ReleaseStep DEF PermanentKeyEmpty, DestroyTemporaryKey
<1>14. ASSUME NEW s \in Sessions, ForgetKey(s) PROVE ThreadTypeOK'
  BY <1>14 DEF ForgetKey
<1>15. ASSUME NEW s \in Sessions, PrivateDestroyed(s) PROVE ThreadTypeOK'
  BY <1>15, ReleaseStep DEF PrivateDestroyed, BindState
<1>16. ASSUME NEW s \in Sessions, Start(s) PROVE ThreadTypeOK'
  BY <1>16 DEF Start
<1>17. ASSUME NEW s \in Sessions, Stop(s) PROVE ThreadTypeOK'
  BY <1>17 DEF Stop
<1>18. ASSUME NEW s \in Sessions, Kill(s) PROVE ThreadTypeOK'
  BY <1>18 DEF Kill
<1>19. ASSUME NEW s \in Sessions, KeyCreationFailed(s) PROVE ThreadTypeOK'
  BY <1>19, ReleaseStep DEF KeyCreationFailed
<1>20. ASSUME NEW s \in Sessions, Disconnect(s) PROVE ThreadTypeOK'
  BY <1>20, RestartStep DEF Disconnect
<1>21. ASSUME NEW s \in Sessions, ServeBind(s) PROVE ThreadTypeOK'
  BY <1>21 DEF ServeBind, BindState
<1>22. ASSUME NEW s \in Sessions,
             SessionDestroyed(s) \/ DcOptionsChanged(s)
      PROVE  ThreadTypeOK'
  BY <1>22 DEF privateVars, SessionDestroyed, DcOptionsChanged
<1>23. ASSUME NEW s \in Sessions, NEW key \in 1 .. MaxPerm, KeyDestroyedOnServer(s, key)
      PROVE  ThreadTypeOK'
  BY <1>23 DEF KeyDestroyedOnServer, privateVars
<1>24. CASE ServerForgets
  BY <1>24 DEF ServerForgets, privateVars
<1>25. CASE UNCHANGED vars
  BY <1>25 DEF vars, privateVars
<1> QED BY <1>1, <1>2, <1>3, <1>4, <1>5, <1>6, <1>7, <1>8, <1>9, <1>10, <1>11, <1>12, <1>13,
    <1>14, <1>15, <1>16, <1>17, <1>18, <1>19, <1>20, <1>21, <1>22, <1>23, <1>24, <1>25
  DEF Next, ThreadStep, MainStep, FaultStep

\* The part of the keys of SessionPrivate.
LEMMA NextKeyTypeOK == TypeOK /\ [Next]_vars => KeyTypeOK'
<1> SUFFICES ASSUME TypeOK, [Next]_vars PROVE KeyTypeOK'
  OBVIOUS
<1> USE DEF TypeOK, KeyTypeOK
<1>1. ASSUME NEW s \in Sessions, ConnectToServer(s) PROVE KeyTypeOK'
  BY <1>1, ReleaseStep DEF ConnectToServer, DestroyTemporaryKey, KindTypeOK
<1>2. ASSUME NEW s \in Sessions, Connected(s) PROVE KeyTypeOK'
  BY <1>2, CurrentKeyType DEF Connected
<1>3. ASSUME NEW s \in Sessions, UpdateAuthKey(s) PROVE KeyTypeOK'
  BY <1>3, CurrentKeyType DEF UpdateAuthKey
<1>4. ASSUME NEW s \in Sessions, ApplyAuthKey(s) PROVE KeyTypeOK'
  BY <1>4 DEF ApplyAuthKey
<1>5. ASSUME NEW s \in Sessions, KeyCreated(s) PROVE KeyTypeOK'
  <2>1. keyId' \in [Sessions -> Nat] /\ encryptionKey' \in [Sessions -> Nat]
    <3>1. tempCount + 1 \in Nat
      BY DEF ServerTypeOK
    <3>2. \/ /\ keyId' = [keyId EXCEPT ![s] = tempCount + 1]
             /\ encryptionKey' = [encryptionKey EXCEPT ![s] = tempCount + 1]
          \/ UNCHANGED <<keyId, encryptionKey>>
      BY <1>5 DEF KeyCreated
    <3> QED BY <3>1, <3>2
  <2>2. bindKey' \in [Sessions -> Nat]
    <3>1. CASE ReleaseKeyCreationOnFail(s) \/ UNCHANGED bindKey
      BY <3>1, ReleaseStep
    <3>2. CASE \E key \in {permCount + 1, persistentKey, NoKey} :
                   bindKey' = [bindKey EXCEPT ![s] = key]
      BY <3>2 DEF ServerTypeOK, DcTypeOK
    <3> QED BY <1>5, <3>1, <3>2 DEF KeyCreated
  <2>3. UNCHANGED readKey
    BY <1>5 DEF KeyCreated
  <2> QED BY <2>1, <2>2, <2>3
<1>6. ASSUME NEW s \in Sessions, ReceiveBindSuccess(s) PROVE KeyTypeOK'
  BY <1>6 DEF ReceiveBindSuccess
<1>7. ASSUME NEW s \in Sessions, ReceiveBindError(s) PROVE KeyTypeOK'
  BY <1>7, ReleaseStep DEF ReceiveBindError, DestroyTemporaryKey
<1>8. ASSUME NEW s \in Sessions, KeyNotFound(s) PROVE KeyTypeOK'
  BY <1>8, ReleaseStep DEF KeyNotFound, DestroyTemporaryKey
<1>9. ASSUME NEW s \in Sessions, PermanentKeyEmpty(s) PROVE KeyTypeOK'
  BY <1>9, ReleaseStep DEF PermanentKeyEmpty, DestroyTemporaryKey
<1>10. ASSUME NEW s \in Sessions, ForgetKey(s) PROVE KeyTypeOK'
  BY <1>10 DEF ForgetKey
<1>11. ASSUME NEW s \in Sessions, PrivateDestroyed(s) PROVE KeyTypeOK'
  BY <1>11, ReleaseStep DEF PrivateDestroyed
<1>12. ASSUME NEW s \in Sessions, KeyCreationFailed(s) PROVE KeyTypeOK'
  BY <1>12, ReleaseStep DEF KeyCreationFailed
<1>13. ASSUME NEW s \in Sessions,
             AcquireInApply(s) \/ RestartNow(s) \/ ClosedSilent(s) \/ SendBind(s) \/ Start(s)
              \/ SessionDestroyed(s) \/ Disconnect(s) \/ Stop(s) \/ Kill(s) \/
              DcOptionsChanged(s) \/ ServeBind(s)
      PROVE  KeyTypeOK'
  BY <1>13 DEF privateVars, AcquireInApply, RestartNow, ClosedSilent, SendBind, Start,
         SessionDestroyed, Disconnect, Stop, Kill, DcOptionsChanged, ServeBind
<1>14. ASSUME NEW s \in Sessions, NEW key \in 1 .. MaxPerm, KeyDestroyedOnServer(s, key)
      PROVE  KeyTypeOK'
  BY <1>14 DEF KeyDestroyedOnServer, privateVars
<1>15. CASE ServerForgets
  BY <1>15 DEF ServerForgets, privateVars
<1>16. CASE UNCHANGED vars
  BY <1>16 DEF vars, privateVars
<1> QED BY <1>1, <1>2, <1>3, <1>4, <1>5, <1>6, <1>7, <1>8, <1>9, <1>10, <1>11, <1>12, <1>13,
    <1>14, <1>15, <1>16
  DEF Next, ThreadStep, MainStep, FaultStep

\* The part of the types of the data centre.
LEMMA NextKindTypeOK == TypeOK /\ [Next]_vars => KindTypeOK'
<1> SUFFICES ASSUME TypeOK, [Next]_vars PROVE KindTypeOK'
  OBVIOUS
<1> USE DEF TypeOK, KindTypeOK
<1>1. ASSUME NEW s \in Sessions, ConnectToServer(s) PROVE KindTypeOK'
  BY <1>1, AcquireTypes DEF ConnectToServer, DestroyTemporaryKey
<1>2. ASSUME NEW s \in Sessions, Start(s) PROVE KindTypeOK'
  BY <1>2 DEF Start
<1>3. ASSUME NEW s \in Sessions, DcOptionsChanged(s) PROVE KindTypeOK'
  BY <1>3 DEF DcOptionsChanged, DcType
<1>4. ASSUME NEW s \in Sessions,
             Connected(s) \/ UpdateAuthKey(s) \/ ApplyAuthKey(s) \/ AcquireInApply(s) \/
              RestartNow(s) \/ ClosedSilent(s) \/ KeyCreated(s) \/ SendBind(s)
              \/ ReceiveBindSuccess(s) \/ ReceiveBindError(s) \/ KeyNotFound(s)
              \/ PermanentKeyEmpty(s) \/ ForgetKey(s) \/ PrivateDestroyed(s) \/
              SessionDestroyed(s) \/ Disconnect(s) \/ KeyCreationFailed(s) \/
              Stop(s) \/ Kill(s) \/ ServeBind(s)
      PROVE  KindTypeOK'
  BY <1>4 DEF typeVars, Connected, UpdateAuthKey, ApplyAuthKey, AcquireInApply, RestartNow,
         ClosedSilent, KeyCreated, SendBind, ReceiveBindSuccess, ReceiveBindError,
         KeyNotFound, PermanentKeyEmpty, ForgetKey, PrivateDestroyed, SessionDestroyed,
         Disconnect, KeyCreationFailed, Stop, Kill, ServeBind
<1>5. ASSUME NEW s \in Sessions, NEW key \in 1 .. MaxPerm, KeyDestroyedOnServer(s, key)
      PROVE  KindTypeOK'
  BY <1>5 DEF KeyDestroyedOnServer, typeVars
<1>6. CASE ServerForgets
  BY <1>6 DEF ServerForgets, typeVars
<1>7. CASE UNCHANGED vars
  BY <1>7 DEF vars, typeVars
<1> QED BY <1>1, <1>2, <1>3, <1>4, <1>5, <1>6, <1>7
  DEF Next, ThreadStep, MainStep, FaultStep

\* The part of the server.
LEMMA NextServerTypeOK == TypeOK /\ [Next]_vars => ServerTypeOK'
<1> SUFFICES ASSUME TypeOK, [Next]_vars PROVE ServerTypeOK'
  OBVIOUS
<1> USE DEF TypeOK, ServerTypeOK
<1>1. ASSUME NEW s \in Sessions, KeyCreated(s) PROVE ServerTypeOK'
  <2>1. /\ tempCount' \in Nat /\ permCount' \in Nat /\ faults' \in Nat
        /\ serverTemp' \subseteq Nat /\ serverPerm' \subseteq Nat
        /\ UNCHANGED boundTo
    <3>1. tempCount' = tempCount + 1 /\ serverTemp' = serverTemp \cup {tempCount + 1}
      BY <1>1 DEF KeyCreated
    <3>2. UNCHANGED <<faults, boundTo>>
      BY <1>1 DEF KeyCreated
    <3>3. \/ permCount' = permCount + 1 /\ serverPerm' = serverPerm \cup {permCount + 1}
          \/ UNCHANGED <<permCount, serverPerm>>
      BY <1>1 DEF KeyCreated
    <3>4. tempCount + 1 \in Nat /\ permCount + 1 \in Nat
      OBVIOUS
    <3> HIDE DEF TypeOK
    <3>5. serverTemp \cup {tempCount + 1} \subseteq Nat /\ serverPerm \cup {permCount + 1} \subseteq Nat
      BY <3>4 DEF TypeOK
    <3> QED BY <3>1, <3>2, <3>3, <3>4, <3>5 DEF TypeOK
  <2>2. TemporaryKeyTypeByDcType(currentType[s]) \in TemporaryKeyType
    BY DEF TemporaryKeyTypeByDcType, TemporaryKeyType
  <2>3. keyHome' \in [1 .. MaxTemp -> TemporaryKeyType]
    BY <1>1, <2>2 DEF KeyCreated
  <2> QED BY <2>1, <2>3
<1>2. ASSUME NEW s \in Sessions, ServeBind(s) PROVE ServerTypeOK'
  <2>1. boundTo' \in [1 .. MaxTemp -> Nat]
    BY <1>2 DEF ServeBind, KeyTypeOK
  <2>2. faults' \in Nat /\ UNCHANGED <<tempCount, permCount, serverTemp, serverPerm, keyHome>>
    BY <1>2 DEF ServeBind, Fault
  <2> QED BY <2>1, <2>2
<1>3. CASE ServerForgets
  <2>1. serverTemp' \subseteq Nat /\ serverPerm' \subseteq Nat
    BY <1>3 DEF ServerForgets
  <2>2. UNCHANGED <<tempCount, permCount, boundTo, keyHome>> /\ faults' \in Nat
    BY <1>3 DEF ServerForgets, Fault
  <2> QED BY <2>1, <2>2
<1>4. ASSUME NEW s \in Sessions, Disconnect(s) PROVE ServerTypeOK'
  BY <1>4 DEF Disconnect, Fault, KeysUnchanged
<1>5. ASSUME NEW s \in Sessions, KeyCreationFailed(s) PROVE ServerTypeOK'
  BY <1>5 DEF KeyCreationFailed, Fault, KeysUnchanged
<1>6. ASSUME NEW s \in Sessions, Stop(s) PROVE ServerTypeOK'
  BY <1>6 DEF Stop, Fault, KeysUnchanged
<1>7. ASSUME NEW s \in Sessions, Kill(s) PROVE ServerTypeOK'
  BY <1>7 DEF Kill, Fault, KeysUnchanged
<1>8. ASSUME NEW s \in Sessions, DcOptionsChanged(s) PROVE ServerTypeOK'
  BY <1>8 DEF DcOptionsChanged, Fault, KeysUnchanged
<1>9. ASSUME NEW s \in Sessions, ReceiveBindError(s) PROVE ServerTypeOK'
  BY <1>9 DEF ReceiveBindError, DestroyTemporaryKey, Fault, KeysUnchanged
<1>10. ASSUME NEW s \in Sessions,
             ConnectToServer(s) \/ Connected(s) \/ UpdateAuthKey(s) \/ ApplyAuthKey(s) \/
              AcquireInApply(s) \/ RestartNow(s) \/ ClosedSilent(s) \/
              SendBind(s) \/ ReceiveBindSuccess(s) \/ KeyNotFound(s) \/
              PermanentKeyEmpty(s) \/ ForgetKey(s) \/ PrivateDestroyed(s) \/
              Start(s) \/ SessionDestroyed(s)
      PROVE  ServerTypeOK'
  BY <1>10 DEF serverVars, ConnectToServer, Connected, UpdateAuthKey, ApplyAuthKey, AcquireInApply,
         RestartNow, ClosedSilent, SendBind, ReceiveBindSuccess, KeyNotFound,
         PermanentKeyEmpty, ForgetKey, PrivateDestroyed, Start, SessionDestroyed
<1>11. ASSUME NEW s \in Sessions, NEW key \in 1 .. MaxPerm, KeyDestroyedOnServer(s, key)
      PROVE  ServerTypeOK'
  BY <1>11 DEF KeyDestroyedOnServer, serverVars
<1>12. CASE UNCHANGED vars
  BY <1>12 DEF vars, serverVars
<1> QED BY <1>1, <1>2, <1>3, <1>4, <1>5, <1>6, <1>7, <1>8, <1>9, <1>10, <1>11, <1>12
  DEF Next, ThreadStep, MainStep, FaultStep

\* The variables keep their types, in every data centre.
THEOREM TypeCorrect == Spec => []TypeOK
<1>1. TypeOK /\ [Next]_vars => TypeOK'
  BY NextDcTypeOK, NextSessionTypeOK, NextQueueTypeOK, NextThreadTypeOK, NextKeyTypeOK,
     NextKindTypeOK, NextServerTypeOK DEF TypeOK
<1> QED BY <1>1, InitTypeOK, PTL DEF Spec

-----------------------------------------------------------------------------
(* The creation locks. *)

\* A data centre is a CDN for all its sessions, or for none of them.
CdnTypes ==
    \A s \in Sessions : (realType[s] = "Cdn" <=> IsCdn) /\ (optionsType[s] = "Cdn" <=> IsCdn)

\* A persistent key is only being made while there is none, and what is being
\* bound is a key.
PersistentHolders == \A s \in Sessions : myKeyCreation[s] = "Persistent" => persistentKey = NoKey
BindersHaveKey == \A s \in Sessions : keyCreator[s] = "binding" => bindKey[s] # NoKey

LockParts ==
    /\ LockedSlotIsEmpty /\ HoldersHaveLock /\ NoTwoHolders /\ CreatorMatchesLock
    /\ PersistentHolders /\ BindersHaveKey
LockInv == TypeOK /\ CdnTypes /\ LockParts

LEMMA InitLockInv == Init => LockInv
<1> SUFFICES ASSUME Init PROVE LockInv
  OBVIOUS
<1>1. CdnTypes
  BY CdnAssumption DEF Init, CdnTypes, IsCdn
<1>2. LockParts
  BY DEF Init, LockParts, LockedSlotIsEmpty, HoldersHaveLock, NoTwoHolders, CreatorMatchesLock,
         PersistentHolders, BindersHaveKey
<1> QED BY <1>1, <1>2, InitTypeOK DEF LockInv

LEMMA NextCdnTypes == TypeOK /\ CdnTypes /\ [Next]_vars => CdnTypes'
<1> SUFFICES ASSUME TypeOK, CdnTypes, [Next]_vars PROVE CdnTypes'
  OBVIOUS
<1> USE DEF TypeOK, KindTypeOK, CdnTypes
<1>1. ASSUME NEW s \in Sessions, ConnectToServer(s) PROVE CdnTypes'
  <2>1. realType' = [realType EXCEPT ![s] = optionsType[s]] /\ UNCHANGED optionsType
    BY <1>1 DEF ConnectToServer
  <2> QED BY <2>1
<1>2. ASSUME NEW s \in Sessions, Start(s) PROVE CdnTypes'
  BY <1>2 DEF Start
<1>3. ASSUME NEW s \in Sessions, DcOptionsChanged(s) PROVE CdnTypes'
  <2>1. ~IsCdn
    BY <1>3, CdnAssumption DEF DcOptionsChanged
  <2> QED BY <1>3, <2>1 DEF DcOptionsChanged
<1>4. ASSUME UNCHANGED typeVars PROVE CdnTypes'
  BY <1>4 DEF typeVars
<1>5. ASSUME NEW s \in Sessions, ThreadStep(s), ~ConnectToServer(s) PROVE UNCHANGED typeVars
  BY <1>5 DEF ThreadStep, Connected, UpdateAuthKey, ApplyAuthKey, AcquireInApply, RestartNow,
              KeyCreated, SendBind, ReceiveBindSuccess, ReceiveBindError, KeyNotFound,
              PermanentKeyEmpty, ForgetKey, PrivateDestroyed, ClosedSilent
<1>6. ASSUME NEW s \in Sessions, MainStep(s) \/ FaultStep(s) \/ ServeBind(s),
             ~Start(s), ~DcOptionsChanged(s)
      PROVE  UNCHANGED typeVars
  BY <1>6 DEF MainStep, FaultStep, ServeBind, KeyDestroyedOnServer, SessionDestroyed, Disconnect,
              KeyCreationFailed, Stop, Kill
<1>7. ServerForgets \/ UNCHANGED vars => UNCHANGED typeVars
  BY DEF ServerForgets, vars
<1> QED BY <1>1, <1>2, <1>3, <1>4, <1>5, <1>6, <1>7 DEF Next

\* A step that leaves the locks and their holders alone, and may empty slots.
Quiet ==
    /\ UNCHANGED <<creatingKey, myKeyCreation>>
    /\ \A u \in Sessions : owner'[u] = "alive" => owner[u] = "alive"
    /\ \A t \in TemporaryKeyType : temporaryKey'[t] \in {temporaryKey[t], NoKey}
    /\ persistentKey' \in {persistentKey, NoKey}
    /\ \A u \in Sessions :
        /\ keyCreator'[u] = "none" <=> keyCreator[u] = "none"
        /\ keyCreator'[u] = "binding" => bindKey'[u] # NoKey

LEMMA QuietStep == LockInv /\ CdnTypes' /\ Quiet => LockParts'
  BY DEF LockInv, LockParts, CdnTypes, Quiet, LockedSlotIsEmpty, HoldersHaveLock, NoTwoHolders,
         CreatorMatchesLock, PersistentHolders, BindersHaveKey

\* A step that only touches the creator and the lock of s.
OthersKeep(s) ==
    /\ \A u \in Sessions \ {s} :
        keyCreator'[u] = keyCreator[u] /\ bindKey'[u] = bindKey[u] /\ owner'[u] = owner[u]
    /\ keyCreator'[s] = "binding" => bindKey'[s] # NoKey

\* s takes the lock Dcenter::acquireKeyCreation gives it.
LEMMA TakeStep ==
    ASSUME LockInv, CdnTypes', NEW s \in Sessions, NEW type \in DcType, type = "Cdn" <=> IsCdn,
           Acquired(s, type) # "None", OthersKeep(s), owner' = owner,
           UNCHANGED <<temporaryKey, persistentKey>>,
           creatingKey' = [creatingKey EXCEPT ![IndexByType(Acquired(s, type))] = TRUE],
           myKeyCreation' = [myKeyCreation EXCEPT ![s] = Acquired(s, type)],
           keyCreator'[s] # "none"
    PROVE  LockParts'
<1> DEFINE acquired == Acquired(s, type)
           index == IndexByType(acquired)
<1>1. /\ index \in TemporaryKeyType /\ temporaryKey[index] = NoKey /\ creatingKey[index] = FALSE
      /\ acquired = "Persistent" => persistentKey = NoKey
      /\ type = "Cdn" => acquired = "TemporaryRegular"
  BY DEF LockInv, TypeOK, DcTypeOK, Acquired, AcquireResult, WantedIndex, IndexByType,
         TemporaryKeyType, TemporaryKeyTypeByDcType
<1>2. /\ myKeyCreation'[s] = acquired
      /\ \A u \in Sessions \ {s} : myKeyCreation'[u] = myKeyCreation[u]
      /\ creatingKey'[index] = TRUE
      /\ \A t \in TemporaryKeyType \ {index} : creatingKey'[t] = creatingKey[t]
  BY <1>1 DEF LockInv, TypeOK, DcTypeOK, SessionTypeOK
<1>3. \A u \in Sessions : myKeyCreation[u] # "None" => IndexByType(myKeyCreation[u]) # index
  BY <1>1 DEF LockInv, LockParts, HoldersHaveLock
<1>4. \A c : IndexByType(c) \in TemporaryKeyType
  BY DEF IndexByType, TemporaryKeyType
<1> HIDE DEF acquired, index
<1>5. LockedSlotIsEmpty' /\ HoldersHaveLock'
  BY <1>1, <1>2, <1>4 DEF LockInv, LockParts, LockedSlotIsEmpty, HoldersHaveLock, index
<1>6. NoTwoHolders'
  BY <1>2, <1>3 DEF LockInv, LockParts, NoTwoHolders, index
<1>7. CreatorMatchesLock'
  BY <1>1, <1>2 DEF LockInv, LockParts, CreatorMatchesLock, CdnTypes, OthersKeep, acquired
<1>8. PersistentHolders' /\ BindersHaveKey'
  BY <1>1, <1>2 DEF LockInv, LockParts, PersistentHolders, BindersHaveKey, OthersKeep
<1> QED BY <1>5, <1>6, <1>7, <1>8 DEF LockParts

\* s gives up its creation: it returns the lock, perhaps with a key, or it
\* leaves the lock behind.
LEMMA ReturnStep ==
    ASSUME LockInv, CdnTypes', NEW s \in Sessions, OthersKeep(s), myKeyCreation[s] # "None",
           myKeyCreation' = [myKeyCreation EXCEPT ![s] = "None"],
           owner'[s] = "alive" => keyCreator'[s] = "none",
           \/ /\ creatingKey' = [creatingKey EXCEPT ![IndexByType(myKeyCreation[s])] = FALSE]
              /\ \A t \in TemporaryKeyType \ {IndexByType(myKeyCreation[s])} :
                    temporaryKey'[t] = temporaryKey[t]
           \/ UNCHANGED <<creatingKey, temporaryKey>>,
           \/ persistentKey' = persistentKey
           \/ \A u \in Sessions \ {s} : myKeyCreation[u] # "Persistent"
    PROVE  LockParts'
<1> DEFINE index == IndexByType(myKeyCreation[s])
<1>1. index \in TemporaryKeyType
  BY DEF IndexByType, TemporaryKeyType
<1>2. /\ myKeyCreation'[s] = "None"
      /\ \A u \in Sessions \ {s} : myKeyCreation'[u] = myKeyCreation[u]
      /\ \A t \in TemporaryKeyType \ {index} :
            creatingKey'[t] = creatingKey[t] /\ temporaryKey'[t] = temporaryKey[t]
      /\ creatingKey'[index] => temporaryKey'[index] = temporaryKey[index] /\ creatingKey[index]
  BY <1>1 DEF LockInv, TypeOK, DcTypeOK, SessionTypeOK
<1>3. \A u \in Sessions \ {s} : myKeyCreation[u] # "None" => IndexByType(myKeyCreation[u]) # index
  BY DEF LockInv, LockParts, NoTwoHolders
<1>4. \A c : IndexByType(c) \in TemporaryKeyType
  BY DEF IndexByType, TemporaryKeyType
<1> HIDE DEF index
<1>5. LockedSlotIsEmpty' /\ HoldersHaveLock'
  BY <1>2, <1>3, <1>4 DEF LockInv, LockParts, LockedSlotIsEmpty, HoldersHaveLock
<1>6. NoTwoHolders'
  BY <1>2 DEF LockInv, LockParts, NoTwoHolders
<1>7. CreatorMatchesLock'
  BY <1>2 DEF LockInv, LockParts, CreatorMatchesLock, CdnTypes, OthersKeep
<1>8. PersistentHolders' /\ BindersHaveKey'
  BY <1>2 DEF LockInv, LockParts, PersistentHolders, BindersHaveKey, OthersKeep
<1> QED BY <1>5, <1>6, <1>7, <1>8 DEF LockParts

LEMMA ReleaseLocks ==
    ASSUME LockInv, CdnTypes', NEW s \in Sessions, ReleaseKeyCreationOnFail(s), 
           UNCHANGED <<temporaryKey, persistentKey, owner>>
    PROVE  LockParts'
<1>1. OthersKeep(s) /\ keyCreator'[s] = "none"
  BY DEF LockInv, TypeOK, ThreadTypeOK, KeyTypeOK, ReleaseKeyCreationOnFail, OthersKeep
<1>2. CASE keyCreator[s] # "none" /\ owner[s] = "alive"
  <2>1. myKeyCreation[s] # "None"
    BY <1>2 DEF LockInv, LockParts, CreatorMatchesLock
  <2>2. /\ creatingKey' = [creatingKey EXCEPT ![IndexByType(myKeyCreation[s])] = FALSE]
        /\ myKeyCreation' = [myKeyCreation EXCEPT ![s] = "None"]
    BY <1>2 DEF ReleaseKeyCreationOnFail
  <2> QED BY <1>1, <2>1, <2>2, ReturnStep
<1>3. CASE keyCreator[s] = "none"
  <2>1. Quiet
    BY <1>1, <1>3 DEF ReleaseKeyCreationOnFail, Quiet, LockInv, LockParts, BindersHaveKey, OthersKeep
  <2> QED BY <2>1, QuietStep
<1>4. CASE owner[s] # "alive"
  <2>1. UNCHANGED <<creatingKey, myKeyCreation>>
    BY <1>4 DEF ReleaseKeyCreationOnFail
  <2> QED BY <1>1, <1>4, <2>1 DEF LockInv, LockParts, LockedSlotIsEmpty, HoldersHaveLock,
         NoTwoHolders, CreatorMatchesLock, PersistentHolders, BindersHaveKey, CdnTypes, OthersKeep
<1> QED BY <1>2, <1>3, <1>4

\* The steps of the session's thread, one by one.
LEMMA ThreadStepLocks ==
    ASSUME LockInv, CdnTypes', NEW s \in Sessions, ThreadStep(s)
    PROVE  LockParts'
<1> USE DEF LockInv
<1>1. CASE ConnectToServer(s)
  <2>1. CASE realType[s] # optionsType[s] /\ keyCreator[s] # "none"
    BY <1>1, <2>1, ReleaseLocks DEF ConnectToServer, DestroyTemporaryKey
  <2>2. CASE ~(realType[s] # optionsType[s] /\ keyCreator[s] # "none")
    <3>1. /\ TryAcquireKeyCreation(s, optionsType[s])
          /\ UNCHANGED <<temporaryKey, persistentKey, owner, bindKey>>
      BY <1>1, <2>2 DEF ConnectToServer
    <3>2. CASE keyCreator[s] # "none" \/ Acquired(s, optionsType[s]) = "None"
      <4>1. Quiet
        BY <3>1, <3>2 DEF TryAcquireKeyCreation, Quiet, LockParts, BindersHaveKey
      <4> QED BY <4>1, QuietStep
    <3>3. CASE ~(keyCreator[s] # "none" \/ Acquired(s, optionsType[s]) = "None")
      <4>1. /\ creatingKey' = [creatingKey EXCEPT ![IndexByType(Acquired(s, optionsType[s]))] = TRUE]
            /\ myKeyCreation' = [myKeyCreation EXCEPT ![s] = Acquired(s, optionsType[s])]
            /\ keyCreator' = [keyCreator EXCEPT ![s] = "idle"]
        BY <3>1, <3>3 DEF TryAcquireKeyCreation
      <4>2. optionsType[s] \in DcType /\ (optionsType[s] = "Cdn" <=> IsCdn)
        BY DEF TypeOK, KindTypeOK, CdnTypes
      <4>3. OthersKeep(s) /\ keyCreator'[s] # "none"
        BY <3>1, <4>1 DEF OthersKeep, TypeOK, ThreadTypeOK
      <4> QED BY <3>1, <3>3, <4>1, <4>2, <4>3, TakeStep
    <3> QED BY <3>2, <3>3
  <2> QED BY <2>1, <2>2
<1>2. CASE AcquireInApply(s)
  <2> DEFINE acquired == Acquired(s, realType[s])
  <2>1. UNCHANGED <<temporaryKey, persistentKey, owner, bindKey>>
    BY <1>2 DEF AcquireInApply
  <2>2. CASE keyCreator[s] = "none" /\ acquired # "None"
    <3>1. /\ creatingKey' = [creatingKey EXCEPT ![IndexByType(acquired)] = TRUE]
          /\ myKeyCreation' = [myKeyCreation EXCEPT ![s] = acquired]
          /\ \/ keyCreator' = [keyCreator EXCEPT ![s] = "idle"]
             \/ keyCreator' = [keyCreator EXCEPT ![s] = "creating"]
      BY <1>2, <2>2 DEF AcquireInApply
    <3>2. realType[s] \in DcType /\ (realType[s] = "Cdn" <=> IsCdn)
      BY DEF TypeOK, KindTypeOK, CdnTypes
    <3>3. OthersKeep(s) /\ keyCreator'[s] # "none"
      BY <2>1, <3>1 DEF OthersKeep, TypeOK, ThreadTypeOK
    <3> QED BY <2>1, <2>2, <3>1, <3>2, <3>3, TakeStep
  <2>3. CASE ~(keyCreator[s] = "none" /\ acquired # "None")
    <3>1. UNCHANGED <<creatingKey, myKeyCreation>>
      BY <1>2, <2>3 DEF AcquireInApply
    <3>2. \/ keyCreator[s] # "none" /\ keyCreator' = [keyCreator EXCEPT ![s] = "idle"]
          \/ keyCreator[s] # "none" /\ keyCreator' = [keyCreator EXCEPT ![s] = "creating"]
          \/ UNCHANGED keyCreator
      BY <1>2, <2>3 DEF AcquireInApply, TypeOK, ThreadTypeOK
    <3>3. Quiet
      BY <2>1, <3>1, <3>2 DEF Quiet, LockParts, BindersHaveKey, TypeOK, ThreadTypeOK
    <3> QED BY <3>3, QuietStep
  <2> QED BY <2>2, <2>3
<1>3. CASE KeyCreated(s)
  <2>1. CASE ReleaseKeyCreationOnFail(s) /\ UNCHANGED temporaryKey
    BY <1>3, <2>1, ReleaseLocks DEF KeyCreated
  <2>2. CASE realType[s] # "Cdn" /\ ~ReleaseKeyCreationOnFail(s)
    <3>1. /\ UNCHANGED <<temporaryKey, persistentKey, owner, creatingKey, myKeyCreation>>
          /\ keyCreator[s] = "creating" /\ keyCreator' = [keyCreator EXCEPT ![s] = "binding"]
          /\ \E key : key # NoKey /\ bindKey' = [bindKey EXCEPT ![s] = key]
      BY <1>3, <2>2 DEF KeyCreated
    <3>2. Quiet
      BY <3>1 DEF Quiet, LockParts, BindersHaveKey, TypeOK, ThreadTypeOK, KeyTypeOK
    <3> QED BY <3>2, QuietStep
  <2>3. CASE realType[s] = "Cdn"
    <3>1. /\ keyCreator[s] = "creating" /\ keyCreator' = [keyCreator EXCEPT ![s] = "none"]
          /\ UNCHANGED <<owner, persistentKey, bindKey>>
          /\ myKeyCreation' = [myKeyCreation EXCEPT ![s] = IF owner[s] = "alive" THEN "None" ELSE @]
          /\ \/ /\ owner[s] = "alive"
                /\ temporaryKey' = [temporaryKey EXCEPT !["Regular"] = tempCount + 1]
                /\ creatingKey' = [creatingKey EXCEPT !["Regular"] = FALSE]
             \/ UNCHANGED <<temporaryKey, creatingKey>>
      BY <1>3, <2>3 DEF KeyCreated
    <3>2. OthersKeep(s) /\ keyCreator'[s] = "none"
      BY <3>1 DEF OthersKeep, TypeOK, ThreadTypeOK
    <3>3. CASE owner[s] = "alive"
      <4>1. myKeyCreation[s] = "TemporaryRegular"
        BY <2>3, <3>1, <3>3 DEF LockParts, CreatorMatchesLock
      <4>2. IndexByType(myKeyCreation[s]) = "Regular"
        BY <4>1 DEF IndexByType
      <4>3. \A t \in TemporaryKeyType \ {"Regular"} : temporaryKey'[t] = temporaryKey[t]
        BY <3>1 DEF TypeOK, DcTypeOK
      <4> QED BY <3>1, <3>2, <3>3, <4>1, <4>2, <4>3, ReturnStep
    <3>4. CASE owner[s] # "alive"
      <4>1. UNCHANGED <<temporaryKey, creatingKey, myKeyCreation>>
        BY <3>1, <3>4 DEF TypeOK, SessionTypeOK
      <4> QED BY <3>1, <3>2, <3>4, <4>1 DEF LockParts, LockedSlotIsEmpty, HoldersHaveLock,
           NoTwoHolders, CreatorMatchesLock, PersistentHolders, BindersHaveKey, CdnTypes, OthersKeep
    <3> QED BY <3>3, <3>4
  <2> QED BY <1>3, <2>1, <2>2, <2>3 DEF KeyCreated
<1>4. CASE ReceiveBindSuccess(s)
  <2>1. /\ keyCreator[s] = "binding" /\ keyCreator' = [keyCreator EXCEPT ![s] = "none"]
        /\ bindKey' = [bindKey EXCEPT ![s] = NoKey] /\ UNCHANGED owner
        /\ myKeyCreation' = [myKeyCreation EXCEPT ![s] = IF owner[s] = "alive" THEN "None" ELSE @]
    BY <1>4 DEF ReceiveBindSuccess
  <2>2. OthersKeep(s) /\ keyCreator'[s] = "none"
    BY <2>1 DEF OthersKeep, TypeOK, ThreadTypeOK, KeyTypeOK
  <2>3. CASE BindStillValid(s)
    <3> DEFINE index == IndexByType(myKeyCreation[s])
    <3>1. /\ owner[s] = "alive" /\ myKeyCreation[s] # "None"
          /\ temporaryKey' = [temporaryKey EXCEPT ![index] = encryptionKey[s]]
          /\ creatingKey' = [creatingKey EXCEPT ![index] = FALSE]
          /\ persistentKey' = bindKey[s] /\ bindKey[s] # NoKey
          /\ myKeyCreation[s] = "Persistent" \/ persistentKey = bindKey[s]
      BY <1>4, <2>1, <2>3 DEF ReceiveBindSuccess, BindStillValid, LockParts, CreatorMatchesLock,
                              BindersHaveKey
    <3>2. \A u \in Sessions \ {s} : myKeyCreation[u] # "Persistent" \/ persistentKey' = persistentKey
      BY <3>1 DEF LockParts, NoTwoHolders, IndexByType
    <3>3. \A t \in TemporaryKeyType \ {index} : temporaryKey'[t] = temporaryKey[t]
      BY <3>1 DEF TypeOK, DcTypeOK
    <3>4. myKeyCreation' = [myKeyCreation EXCEPT ![s] = "None"]
      BY <2>1, <3>1
    <3> HIDE DEF index
    <3> QED BY <2>2, <3>1, <3>2, <3>3, <3>4, ReturnStep DEF index
  <2>4. CASE ~BindStillValid(s)
    <3>1. UNCHANGED dcVars
      BY <1>4, <2>4 DEF ReceiveBindSuccess
    <3>2. CASE owner[s] = "alive"
      <4>1. myKeyCreation[s] # "None" /\ myKeyCreation' = [myKeyCreation EXCEPT ![s] = "None"]
        BY <2>1, <3>2 DEF LockParts, CreatorMatchesLock
      <4> QED BY <2>2, <3>1, <4>1, ReturnStep DEF dcVars
    <3>3. CASE owner[s] # "alive"
      <4>1. UNCHANGED myKeyCreation
        BY <2>1, <3>3 DEF TypeOK, SessionTypeOK
      <4> QED BY <2>1, <2>2, <3>1, <3>3, <4>1 DEF dcVars, LockParts, LockedSlotIsEmpty,
           HoldersHaveLock, NoTwoHolders, CreatorMatchesLock, PersistentHolders, BindersHaveKey,
           CdnTypes, OthersKeep
    <3> QED BY <3>2, <3>3
  <2> QED BY <2>3, <2>4
<1>5. CASE ReceiveBindError(s)
  <2>1. CASE ReleaseKeyCreationOnFail(s)
    BY <1>5, <2>1, ReleaseLocks DEF ReceiveBindError
  <2>2. CASE UNCHANGED <<creatingKey, myKeyCreation, keyCreator, bindKey>>
    <3>1. Quiet
      BY <1>5, <2>2 DEF ReceiveBindError, Quiet, LockParts, BindersHaveKey
    <3> QED BY <3>1, QuietStep
  <2> QED BY <1>5, <2>1, <2>2 DEF ReceiveBindError, DestroyTemporaryKey
<1>6. CASE KeyNotFound(s) \/ PermanentKeyEmpty(s) \/ PrivateDestroyed(s)
  BY <1>6, ReleaseLocks DEF KeyNotFound, PermanentKeyEmpty, PrivateDestroyed, DestroyTemporaryKey
<1>7. CASE Connected(s) \/ UpdateAuthKey(s) \/ SendBind(s)
  <2>1. Quiet
    BY <1>7 DEF Connected, UpdateAuthKey, SendBind, Quiet, dcVars, sessionVars, LockParts,
                BindersHaveKey
  <2> QED BY <2>1, QuietStep
<1>8. CASE ApplyAuthKey(s) \/ RestartNow(s) \/ ClosedSilent(s)
  <2>1. /\ UNCHANGED <<dcVars, sessionVars, bindKey>>
        /\ \/ UNCHANGED keyCreator
           \/ keyCreator' = [keyCreator EXCEPT ![s] = Unstarted(s)]
           \/ keyCreator' = [keyCreator EXCEPT ![s] = StartCreation(s, @)]
    BY <1>8 DEF ApplyAuthKey, RestartNow, ClosedSilent, Restart
  <2>2. Quiet
    BY <2>1 DEF Quiet, dcVars, sessionVars, Unstarted, StartCreation, LockParts, BindersHaveKey,
                TypeOK, ThreadTypeOK
  <2> QED BY <2>2, QuietStep
<1>9. CASE ForgetKey(s)
  <2>1. /\ UNCHANGED <<persistentKey, creatingKey, sessionVars, keyCreator, bindKey>>
        /\ \A t \in TemporaryKeyType : temporaryKey'[t] \in {temporaryKey[t], NoKey}
    BY <1>9 DEF ForgetKey
  <2>2. Quiet
    BY <2>1 DEF Quiet, sessionVars, LockParts, BindersHaveKey
  <2> QED BY <2>2, QuietStep
<1> QED BY <1>1, <1>2, <1>3, <1>4, <1>5, <1>6, <1>7, <1>8, <1>9 DEF ThreadStep

\* The steps of the main thread, of the network and of the server.
LEMMA OtherStepLocks ==
    ASSUME LockInv, CdnTypes', NEW s \in Sessions, MainStep(s) \/ FaultStep(s) \/ ServeBind(s)
    PROVE  LockParts'
<1> USE DEF LockInv
<1>1. CASE SessionDestroyed(s)
  <2>1. /\ owner' = [owner EXCEPT ![s] = "gone"]
        /\ UNCHANGED <<temporaryKey, persistentKey, keyCreator, bindKey>>
    BY <1>1 DEF SessionDestroyed, privateVars
  <2>2. OthersKeep(s) /\ owner'[s] # "alive"
    BY <2>1 DEF OthersKeep, TypeOK, SessionTypeOK, LockParts, BindersHaveKey
  <2>3. CASE myKeyCreation[s] # "None"
    BY <1>1, <2>1, <2>2, <2>3, ReturnStep DEF SessionDestroyed
  <2>4. CASE myKeyCreation[s] = "None"
    <3>1. Quiet
      BY <1>1, <2>1, <2>2, <2>4 DEF SessionDestroyed, Quiet, LockParts, BindersHaveKey, OthersKeep
    <3> QED BY <3>1, QuietStep
  <2> QED BY <2>3, <2>4
<1>2. CASE KeyCreationFailed(s)
  BY <1>2, ReleaseLocks DEF KeyCreationFailed
<1>3. ASSUME NEW key, KeyDestroyedOnServer(s, key) PROVE LockParts'
  <2>1. Quiet
    BY <1>3 DEF KeyDestroyedOnServer, Quiet, sessionVars, privateVars, LockParts, BindersHaveKey
  <2> QED BY <2>1, QuietStep
<1>4. CASE Start(s) \/ Stop(s) \/ Kill(s) \/ DcOptionsChanged(s) \/ ServeBind(s)
  <2>1. Quiet
    BY <1>4 DEF Start, Stop, Kill, DcOptionsChanged, ServeBind, Quiet, dcVars, sessionVars,
                privateVars, LockParts, BindersHaveKey, TypeOK, SessionTypeOK
  <2> QED BY <2>1, QuietStep
<1>5. CASE Disconnect(s)
  <2>1. /\ UNCHANGED <<dcVars, sessionVars, bindKey>>
        /\ keyCreator' = [keyCreator EXCEPT ![s] = Unstarted(s)]
    BY <1>5 DEF Disconnect, Restart
  <2>2. Quiet
    BY <2>1 DEF Quiet, dcVars, sessionVars, Unstarted, LockParts, BindersHaveKey,
                TypeOK, ThreadTypeOK
  <2> QED BY <2>2, QuietStep
<1> QED BY <1>1, <1>2, <1>3, <1>4, <1>5 DEF MainStep, FaultStep

LEMMA NextLockInv == LockInv /\ [Next]_vars => LockInv'
<1> SUFFICES ASSUME LockInv, [Next]_vars PROVE LockInv'
  OBVIOUS
<1>1. TypeOK'
  BY NextDcTypeOK, NextSessionTypeOK, NextQueueTypeOK, NextThreadTypeOK, NextKeyTypeOK,
     NextKindTypeOK, NextServerTypeOK DEF TypeOK, LockInv
<1>2. CdnTypes'
  BY NextCdnTypes DEF LockInv
<1>3. CASE ServerForgets \/ UNCHANGED vars
  <2>1. Quiet
    BY <1>3 DEF ServerForgets, vars, Quiet, dcVars, sessionVars, privateVars, LockInv, LockParts,
                BindersHaveKey
  <2> QED BY <1>1, <1>2, <2>1, QuietStep DEF LockInv
<1>4. ASSUME NEW s \in Sessions, ThreadStep(s) PROVE LockInv'
  BY <1>1, <1>2, <1>4, ThreadStepLocks DEF LockInv
<1>5. ASSUME NEW s \in Sessions, MainStep(s) \/ FaultStep(s) \/ ServeBind(s) PROVE LockInv'
  BY <1>1, <1>2, <1>5, OtherStepLocks DEF LockInv
<1> QED BY <1>3, <1>4, <1>5 DEF Next

LEMMA AlwaysLockInv == Spec => []LockInv
BY InitLockInv, NextLockInv, PTL DEF Spec

\* No two sessions ever make the same key of a data centre at once.
THEOREM CreationIsExclusive == Spec => []ExclusiveCreation
<1>1. LockInv => ExclusiveCreation
  BY DEF LockInv, LockParts, ExclusiveCreation
<1> QED BY <1>1, AlwaysLockInv, PTL

\* A slot whose key is being made is empty.
THEOREM LockedSlotsAreEmpty == Spec => []LockedSlotIsEmpty
<1>1. LockInv => LockedSlotIsEmpty
  BY DEF LockInv, LockParts
<1> QED BY <1>1, AlwaysLockInv, PTL

\* The creator of the thread and the lock noted by the Session go together.
THEOREM CreatorsMatchLocks == Spec => []CreatorMatchesLock
<1>1. LockInv => CreatorMatchesLock
  BY DEF LockInv, LockParts
<1> QED BY <1>1, AlwaysLockInv, PTL

LEMMA StepNeverOverwrites ==
    ASSUME LockInv, NEW s \in Sessions, ThreadStep(s) \/ MainStep(s) \/ FaultStep(s) \/ ServeBind(s)
    PROVE  KeepsKeys
<1> USE DEF LockInv
<1>1. CASE KeyCreated(s)
  <2>1. UNCHANGED persistentKey
    BY <1>1 DEF KeyCreated
  <2>2. CASE UNCHANGED temporaryKey
    BY <2>1, <2>2 DEF KeepsKeys
  <2>3. CASE ~UNCHANGED temporaryKey
    <3>1. /\ realType[s] = "Cdn" /\ keyCreator[s] = "creating" /\ owner[s] = "alive"
          /\ temporaryKey' = [temporaryKey EXCEPT !["Regular"] = tempCount + 1]
      BY <1>1, <2>3 DEF KeyCreated
    <3>2. myKeyCreation[s] = "TemporaryRegular"
      BY <3>1 DEF LockParts, CreatorMatchesLock
    <3>3. creatingKey["Regular"] /\ temporaryKey["Regular"] = NoKey
      BY <3>2 DEF LockParts, HoldersHaveLock, LockedSlotIsEmpty, IndexByType, TemporaryKeyType
    <3> QED BY <2>1, <3>1, <3>3 DEF KeepsKeys, TypeOK, DcTypeOK
  <2> QED BY <2>2, <2>3
<1>2. CASE ReceiveBindSuccess(s)
  <2>1. CASE BindStillValid(s)
    <3> DEFINE index == IndexByType(myKeyCreation[s])
    <3>1. /\ owner[s] = "alive" /\ myKeyCreation[s] # "None"
          /\ temporaryKey' = [temporaryKey EXCEPT ![index] = encryptionKey[s]]
          /\ persistentKey' = bindKey[s]
          /\ myKeyCreation[s] = "Persistent" \/ persistentKey = bindKey[s]
      BY <1>2, <2>1 DEF ReceiveBindSuccess, BindStillValid, LockParts, CreatorMatchesLock
    <3>2. creatingKey[index] /\ index \in TemporaryKeyType
      BY <3>1 DEF LockParts, HoldersHaveLock, IndexByType, TemporaryKeyType
    <3>3. temporaryKey[index] = NoKey
      BY <3>2 DEF LockParts, LockedSlotIsEmpty
    <3>4. persistentKey' # persistentKey => persistentKey = NoKey
      BY <3>1 DEF LockParts, PersistentHolders
    <3> HIDE DEF index
    <3> QED BY <3>1, <3>2, <3>3, <3>4 DEF KeepsKeys, TypeOK, DcTypeOK
  <2>2. CASE ~BindStillValid(s)
    BY <1>2, <2>2 DEF ReceiveBindSuccess, dcVars, KeepsKeys
  <2> QED BY <2>1, <2>2
<1>3. CASE ForgetKey(s)
  BY <1>3 DEF ForgetKey, KeepsKeys
<1>4. ASSUME NEW key, KeyDestroyedOnServer(s, key) PROVE KeepsKeys
  BY <1>4 DEF KeyDestroyedOnServer, KeepsKeys
<1>5. CASE UNCHANGED <<temporaryKey, persistentKey>>
  BY <1>5 DEF KeepsKeys
<1>6. ASSUME ThreadStep(s), ~KeyCreated(s), ~ReceiveBindSuccess(s), ~ForgetKey(s)
      PROVE  UNCHANGED <<temporaryKey, persistentKey>>
  BY <1>6 DEF ThreadStep, ConnectToServer, Connected, UpdateAuthKey, ApplyAuthKey, AcquireInApply,
              RestartNow, SendBind, ReceiveBindError, KeyNotFound, PermanentKeyEmpty,
              PrivateDestroyed, ClosedSilent, dcVars
<1>7. ASSUME MainStep(s) \/ FaultStep(s) \/ ServeBind(s),
             ~\E key \in 1 .. MaxPerm : KeyDestroyedOnServer(s, key)
      PROVE  UNCHANGED <<temporaryKey, persistentKey>>
  BY <1>7 DEF MainStep, FaultStep, ServeBind, Start, SessionDestroyed, Disconnect,
              KeyCreationFailed, Stop, Kill, DcOptionsChanged, dcVars
<1> QED BY <1>1, <1>2, <1>3, <1>4, <1>5, <1>6, <1>7

\* Keys only go into empty slots, under their lock.
THEOREM KeysNeverOverwritten == Spec => KeysAreNeverOverwritten
<1>1. LockInv /\ [Next]_vars => KeepsKeys \/ UNCHANGED vars
  <2> SUFFICES ASSUME LockInv, Next PROVE KeepsKeys
    OBVIOUS
  <2>1. CASE ServerForgets
    BY <2>1 DEF ServerForgets, dcVars, KeepsKeys
  <2> QED BY <2>1, StepNeverOverwrites DEF Next
<1> QED BY <1>1, AlwaysLockInv, PTL DEF Spec, KeysAreNeverOverwritten

-----------------------------------------------------------------------------
(***************************************************************************)
(* The keys of a data centre belong together: every temporary key it holds *)
(* was bound to its persistent key, whatever the sessions did meanwhile.   *)
(***************************************************************************)

\* What holds of the thread of one session: between two steps of a handler its
\* creator is at rest, and a creation goes with the connection it began on.
ThreadParts ==
    \A s \in Sessions :
        /\ stage[s] \in {"apply", "acquire"} =>
                keyCreator[s] \in {"none", "idle"} /\ connection[s] = "up"
        /\ stage[s] = "acquire" => keyId[s] = NoKey
        /\ stage[s] = "forget" => keyCreator[s] = "none"
        /\ keyCreator[s] = "creating" => keyId[s] = NoKey /\ connection[s] = "up"
        /\ keyCreator[s] = "binding" => keyId[s] # NoKey /\ encryptionKey[s] = keyId[s]
        /\ connection[s] # "none" /\ keyCreator[s] # "binding" => bindMsg[s] = "none"

\* The keys handed out are numbered; one that is being bound is not in use yet,
\* and is being bound by one session.
KeyParts ==
    /\ tempCount <= MaxTemp
    /\ \A t \in TemporaryKeyType : temporaryKey[t] <= tempCount
    /\ \A s \in Sessions : keyCreator[s] = "binding" =>
        /\ keyId[s] \in 1 .. tempCount
        /\ \A t \in TemporaryKeyType : temporaryKey[t] # keyId[s]
        /\ \A u \in Sessions \ {s} : keyCreator[u] = "binding" => keyId[u] # keyId[s]
        /\ bindMsg[s] = "Success" => boundTo[keyId[s]] = bindKey[s]

BindInv == LockInv /\ ThreadParts /\ KeyParts /\ KeysBelongTogether

\* Only the variables of the thread of s change.
OnlyThread(s) ==
    \A u \in Sessions \ {s} :
        /\ stage'[u] = stage[u] /\ keyCreator'[u] = keyCreator[u] /\ keyId'[u] = keyId[u]
        /\ connection'[u] = connection[u] /\ encryptionKey'[u] = encryptionKey[u]
        /\ bindMsg'[u] = bindMsg[u] /\ bindKey'[u] = bindKey[u]

\* The thread of s itself after the step.
ThreadAfter(s) ==
    /\ stage'[s] \in {"apply", "acquire"} =>
            keyCreator'[s] \in {"none", "idle"} /\ connection'[s] = "up"
    /\ stage'[s] = "acquire" => keyId'[s] = NoKey
    /\ stage'[s] = "forget" => keyCreator'[s] = "none"
    /\ keyCreator'[s] = "creating" => keyId'[s] = NoKey /\ connection'[s] = "up"
    /\ keyCreator'[s] = "binding" => keyId'[s] # NoKey /\ encryptionKey'[s] = keyId'[s]
    /\ connection'[s] # "none" /\ keyCreator'[s] # "binding" => bindMsg'[s] = "none"

LEMMA NumbersAreKeys ==
    /\ \A n \in Nat : n + 1 # NoKey /\ NoKey <= n
    /\ \A n \in Nat : \A k \in 1 .. n : k # NoKey
  BY DEF NoKey

LEMMA ReleasedThread ==
    ASSUME TypeOK, NEW s \in Sessions, ReleaseKeyCreationOnFail(s)
    PROVE  /\ keyCreator' = [keyCreator EXCEPT ![s] = "none"]
           /\ bindKey' = [bindKey EXCEPT ![s] = NoKey]
           /\ keyCreator'[s] = "none"
  BY DEF TypeOK, ThreadTypeOK, ReleaseKeyCreationOnFail

\* Every step of the thread of s, and of the main thread and the faults about s,
\* changes one thread and leaves it as ThreadParts says.
LEMMA OneThread ==
    ASSUME TypeOK, ThreadParts, NEW s \in Sessions,
           ThreadStep(s) \/ MainStep(s) \/ FaultStep(s) \/ ServeBind(s)
    PROVE  OnlyThread(s) /\ ThreadAfter(s)
<1> USE DEF TypeOK, ThreadTypeOK, KeyTypeOK, ThreadParts, OnlyThread, ThreadAfter
<1>1. CASE ConnectToServer(s)
  <2>1. CASE realType[s] # optionsType[s] /\ keyCreator[s] # "none"
    BY <1>1, <2>1, ReleasedThread DEF ConnectToServer, DestroyTemporaryKey, Idle
  <2>2. CASE ~(realType[s] # optionsType[s] /\ keyCreator[s] # "none")
    <3>1. \/ UNCHANGED keyCreator
          \/ keyCreator[s] = "none" /\ keyCreator' = [keyCreator EXCEPT ![s] = "idle"]
      BY <1>1, <2>2 DEF ConnectToServer, TryAcquireKeyCreation
    <3>2. /\ connection[s] = "none" /\ stage[s] = "idle"
          /\ connection' = [connection EXCEPT ![s] = "connecting"]
          /\ bindMsg' = [bindMsg EXCEPT ![s] = "none"]
          /\ UNCHANGED <<stage, keyId, encryptionKey, bindKey>>
      BY <1>1, <2>2 DEF ConnectToServer, Idle
    <3> QED BY <3>1, <3>2
  <2> QED BY <2>1, <2>2
<1>2. CASE Connected(s) \/ UpdateAuthKey(s) \/ SendBind(s)
  BY <1>2 DEF Connected, UpdateAuthKey, SendBind, Idle
<1>3. CASE ApplyAuthKey(s)
  BY <1>3 DEF ApplyAuthKey, Restart, Unstarted, StartCreation
<1>4. CASE AcquireInApply(s)
  <2>1. /\ stage[s] = "acquire" /\ stage' = [stage EXCEPT ![s] = "idle"]
        /\ UNCHANGED <<keyId, encryptionKey, bindMsg, bindKey>>
    BY <1>4 DEF AcquireInApply
  <2>2. \/ /\ connection' = [connection EXCEPT ![s] = "none"]
           /\ keyCreator' = [keyCreator EXCEPT ![s] = "idle"]
        \/ /\ keyCreator' = [keyCreator EXCEPT ![s] = "creating"]
           /\ UNCHANGED connection
        \/ UNCHANGED <<connection, keyCreator>>
    BY <1>4 DEF AcquireInApply
  <2> QED BY <2>1, <2>2
<1>5. CASE RestartNow(s) \/ ClosedSilent(s) \/ Disconnect(s)
  BY <1>5 DEF RestartNow, ClosedSilent, Disconnect, Restart, Unstarted, Idle
<1>6. CASE KeyCreated(s)
  <2>1. /\ stage[s] = "idle" /\ connection[s] = "up" /\ keyCreator[s] = "creating"
        /\ UNCHANGED <<stage, bindMsg>>
    BY <1>6 DEF KeyCreated, Idle
  <2>2. CASE ReleaseKeyCreationOnFail(s) /\ connection' = [connection EXCEPT ![s] = "none"]
               /\ UNCHANGED <<keyId, encryptionKey>>
    BY <2>1, <2>2, ReleasedThread
  <2>3. CASE /\ keyId' = [keyId EXCEPT ![s] = tempCount + 1]
             /\ encryptionKey' = [encryptionKey EXCEPT ![s] = tempCount + 1]
             /\ keyCreator' = [keyCreator EXCEPT ![s] = "none"]
             /\ UNCHANGED bindKey
             /\ \/ UNCHANGED connection
                \/ connection' = [connection EXCEPT ![s] = "none"]
    BY <2>1, <2>3
  <2>4. CASE /\ keyId' = [keyId EXCEPT ![s] = tempCount + 1]
             /\ encryptionKey' = [encryptionKey EXCEPT ![s] = tempCount + 1]
             /\ keyCreator' = [keyCreator EXCEPT ![s] = "binding"]
             /\ \E key : bindKey' = [bindKey EXCEPT ![s] = key]
             /\ UNCHANGED connection
    <3>1. tempCount + 1 # NoKey
      <4>1. tempCount \in Nat
        BY DEF ServerTypeOK
      <4> QED BY <4>1, NumbersAreKeys
    <3> QED BY <2>1, <2>4, <3>1
  <2> QED BY <1>6, <2>2, <2>3, <2>4 DEF KeyCreated
<1>7. CASE KeyCreationFailed(s)
  <2>1. /\ stage[s] = "idle" /\ keyCreator[s] = "creating"
        /\ ReleaseKeyCreationOnFail(s)
        /\ UNCHANGED <<stage, bindMsg, keyId, encryptionKey>>
        /\ \/ UNCHANGED connection
           \/ connection' = [connection EXCEPT ![s] = "none"]
    BY <1>7 DEF KeyCreationFailed, Idle
  <2> QED BY <2>1, ReleasedThread
<1>8. CASE ReceiveBindSuccess(s)
  BY <1>8 DEF ReceiveBindSuccess, Idle
<1>9. CASE ReceiveBindError(s)
  BY <1>9, ReleasedThread DEF ReceiveBindError, DestroyTemporaryKey, Idle
<1>10. CASE KeyNotFound(s) \/ PermanentKeyEmpty(s)
  BY <1>10, ReleasedThread DEF KeyNotFound, PermanentKeyEmpty, DestroyTemporaryKey, Idle
<1>11. CASE ForgetKey(s)
  BY <1>11 DEF ForgetKey
<1>12. CASE PrivateDestroyed(s)
  BY <1>12, ReleasedThread DEF PrivateDestroyed
<1>13. CASE ServeBind(s)
  BY <1>13 DEF ServeBind
<1>14. CASE MainStep(s) \/ Stop(s) \/ Kill(s) \/ DcOptionsChanged(s)
  <2>1. UNCHANGED <<connection, stage, keyId, encryptionKey, keyCreator, bindKey, bindMsg>>
    BY <1>14 DEF MainStep, KeyDestroyedOnServer, Start, SessionDestroyed, Stop, Kill,
                 DcOptionsChanged, privateVars
  <2> QED BY <2>1
<1> QED BY <1>1, <1>2, <1>3, <1>4, <1>5, <1>6, <1>7, <1>8, <1>9, <1>10, <1>11, <1>12, <1>13,
           <1>14 DEF ThreadStep, FaultStep

LEMMA NextThreadParts ==
    ASSUME TypeOK, ThreadParts, [Next]_vars
    PROVE  ThreadParts'
<1>1. CASE ServerForgets \/ UNCHANGED vars
  BY <1>1 DEF ServerForgets, vars, privateVars, ThreadParts
<1>2. ASSUME NEW s \in Sessions, ThreadStep(s) \/ MainStep(s) \/ FaultStep(s) \/ ServeBind(s)
      PROVE  ThreadParts'
  <2>1. OnlyThread(s) /\ ThreadAfter(s)
    BY <1>2, OneThread
  <2> QED BY <2>1 DEF ThreadParts, OnlyThread, ThreadAfter
<1> QED BY <1>1, <1>2 DEF Next

-----------------------------------------------------------------------------
(* The keys. *)

BindParts == KeyParts /\ KeysBelongTogether

\* A step that binds nothing: no key is made, bound or put in a slot.
BindsNothing ==
    /\ UNCHANGED <<tempCount, boundTo>>
    /\ \/ persistentKey' = persistentKey
          /\ \A t \in TemporaryKeyType : temporaryKey'[t] \in {temporaryKey[t], NoKey}
       \/ \A t \in TemporaryKeyType : temporaryKey'[t] = NoKey
    /\ \A u \in Sessions : keyCreator'[u] = "binding" =>
        /\ keyCreator[u] = "binding" /\ keyId'[u] = keyId[u] /\ bindKey'[u] = bindKey[u]
        /\ bindMsg'[u] = "Success" => bindMsg[u] = "Success"

LEMMA BindsNothingStep == TypeOK /\ BindParts /\ BindsNothing => BindParts'
<1> SUFFICES ASSUME TypeOK, BindParts, BindsNothing PROVE BindParts'
  OBVIOUS
<1>1. tempCount \in Nat /\ tempCount' = tempCount /\ boundTo' = boundTo
  BY DEF TypeOK, ServerTypeOK, BindsNothing
<1>2. \A t \in TemporaryKeyType : temporaryKey'[t] \in {temporaryKey[t], NoKey}
  BY DEF BindsNothing
<1>3. KeyParts'
  <2>1. \A t \in TemporaryKeyType : temporaryKey'[t] <= tempCount'
    <3>1. \A t \in TemporaryKeyType : temporaryKey[t] <= tempCount
      BY DEF BindParts, KeyParts
    <3>2. NoKey <= tempCount
      BY <1>1, NumbersAreKeys
    <3> QED BY <1>1, <1>2, <3>1, <3>2
  <2>2. \A s \in Sessions : keyCreator'[s] = "binding" => keyId[s] \in 1 .. tempCount
    BY <1>1 DEF BindParts, KeyParts, BindsNothing
  <2>3. \A s \in Sessions : keyCreator'[s] = "binding" => keyId'[s] # NoKey
    BY <1>1, <2>2, NumbersAreKeys DEF BindsNothing
  <2>4. \A s \in Sessions, t \in TemporaryKeyType :
            keyCreator'[s] = "binding" => temporaryKey'[t] # keyId'[s]
    BY <1>2, <2>3 DEF BindParts, KeyParts, BindsNothing
  <2>5. \A s \in Sessions : keyCreator'[s] = "binding" =>
            /\ keyId'[s] \in 1 .. tempCount'
            /\ \A u \in Sessions \ {s} : keyCreator'[u] = "binding" => keyId'[u] # keyId'[s]
            /\ bindMsg'[s] = "Success" => boundTo'[keyId'[s]] = bindKey'[s]
    BY <1>1 DEF BindParts, KeyParts, BindsNothing
  <2> QED BY <1>1, <2>1, <2>4, <2>5 DEF BindParts, KeyParts
<1>4. KeysBelongTogether'
  BY <1>1, <1>2 DEF BindParts, KeysBelongTogether, BindsNothing, IsCdn
<1> QED BY <1>3, <1>4 DEF BindParts

\* A new temporary key, numbered after all the others.
LEMMA CreateBinds ==
    ASSUME LockInv, CdnTypes', ThreadParts, BindParts, NEW s \in Sessions, KeyCreated(s)
    PROVE  BindParts'
<1> DEFINE temporary == tempCount + 1
<1>1. /\ tempCount \in Nat /\ tempCount < MaxTemp /\ tempCount' = temporary
      /\ UNCHANGED <<boundTo, persistentKey>> /\ MaxTemp \in Nat
  BY BoundsAssumption DEF LockInv, TypeOK, ServerTypeOK, KeyCreated
<1>2. tempCount' <= MaxTemp /\ temporary \in 1 .. tempCount' /\ 1 .. tempCount \subseteq 1 .. tempCount'
  BY <1>1
<1>3. OnlyThread(s)
  BY OneThread DEF LockInv, ThreadStep
<1>4. \A u \in Sessions : keyCreator[u] = "binding" => keyId[u] # temporary
  BY <1>1 DEF BindParts, KeyParts
<1>5. \A t \in TemporaryKeyType : temporaryKey[t] # temporary /\ temporaryKey[t] <= tempCount'
  <2>1. \A t \in TemporaryKeyType : temporaryKey[t] \in Nat /\ temporaryKey[t] <= tempCount
    BY DEF LockInv, TypeOK, DcTypeOK, BindParts, KeyParts
  <2> QED BY <1>1, <2>1
<1>6. CASE keyCreator'[s] = "none" /\ UNCHANGED temporaryKey
  <2>1. \A u \in Sessions : keyCreator'[u] = "binding" =>
            u # s /\ keyCreator[u] = "binding" /\ keyId'[u] = keyId[u] /\ bindKey'[u] = bindKey[u]
            /\ bindMsg'[u] = bindMsg[u]
    BY <1>6, <1>3 DEF OnlyThread
  <2>2. KeyParts'
    BY <1>1, <1>2, <1>5, <1>6, <2>1 DEF BindParts, KeyParts
  <2> QED BY <1>1, <1>6, <2>2 DEF BindParts, KeysBelongTogether, IsCdn
<1>7. CASE realType[s] # "Cdn" /\ keyCreator'[s] = "binding"
  <2>1. /\ keyId'[s] = temporary /\ UNCHANGED temporaryKey
        /\ keyCreator[s] = "creating" /\ connection[s] = "up" /\ bindMsg'[s] = bindMsg[s]
    BY <1>7, ReleasedThread DEF KeyCreated, LockInv, TypeOK, ThreadTypeOK, KeyTypeOK
  <2>2. bindMsg'[s] # "Success"
    BY <2>1 DEF ThreadParts
  <2>3. \A u \in Sessions \ {s} : keyCreator'[u] = "binding" =>
            keyCreator[u] = "binding" /\ keyId'[u] = keyId[u] /\ bindKey'[u] = bindKey[u]
            /\ bindMsg'[u] = bindMsg[u]
    BY <1>3 DEF OnlyThread
  <2>4. KeyParts'
    <3> HIDE DEF temporary
    <3>1. tempCount' <= MaxTemp /\ \A t \in TemporaryKeyType : temporaryKey'[t] <= tempCount'
      BY <1>2, <1>5, <2>1
    <3>2. ASSUME NEW u \in Sessions, keyCreator'[u] = "binding"
          PROVE  keyId'[u] \in 1 .. tempCount' /\ \A t \in TemporaryKeyType : temporaryKey'[t] # keyId'[u]
      BY <1>2, <1>5, <2>1, <2>3, <3>2 DEF BindParts, KeyParts
    <3>3. ASSUME NEW u \in Sessions, NEW v \in Sessions \ {u},
                 keyCreator'[u] = "binding", keyCreator'[v] = "binding"
          PROVE  keyId'[v] # keyId'[u]
      BY <1>4, <2>1, <2>3, <3>3 DEF BindParts, KeyParts
    <3>4. ASSUME NEW u \in Sessions, keyCreator'[u] = "binding", bindMsg'[u] = "Success"
          PROVE  boundTo'[keyId'[u]] = bindKey'[u]
      BY <1>1, <2>2, <2>3, <3>4 DEF BindParts, KeyParts
    <3> QED BY <3>1, <3>2, <3>3, <3>4 DEF KeyParts
  <2> QED BY <1>1, <2>1, <2>4 DEF BindParts, KeysBelongTogether, IsCdn
<1>8. CASE realType[s] = "Cdn" /\ keyCreator'[s] = "none"
           /\ temporaryKey' = [temporaryKey EXCEPT !["Regular"] = temporary]
  <2>1. \A u \in Sessions : keyCreator'[u] = "binding" =>
            u # s /\ keyCreator[u] = "binding" /\ keyId'[u] = keyId[u] /\ bindKey'[u] = bindKey[u]
            /\ bindMsg'[u] = bindMsg[u]
    BY <1>8, <1>3 DEF OnlyThread
  <2>2. \A t \in TemporaryKeyType : temporaryKey'[t] \in {temporaryKey[t], temporary}
    BY <1>8 DEF LockInv, TypeOK, DcTypeOK
  <2>3. temporary <= tempCount'
    BY <1>1
  <2>4. KeyParts'
    <3> HIDE DEF temporary
    <3>1. \A t \in TemporaryKeyType : temporaryKey'[t] <= tempCount'
      BY <1>5, <2>2, <2>3
    <3>2. \A u \in Sessions, t \in TemporaryKeyType :
              keyCreator'[u] = "binding" => temporaryKey'[t] # keyId'[u]
      BY <1>4, <2>1, <2>2 DEF BindParts, KeyParts
    <3> QED BY <1>1, <1>2, <2>1, <3>1, <3>2 DEF BindParts, KeyParts
  <2>5. IsCdn
    BY <1>8 DEF LockInv, CdnTypes
  <2> QED BY <2>4, <2>5 DEF BindParts, KeysBelongTogether, IsCdn
<1> QED
  <2>1. CASE ReleaseKeyCreationOnFail(s) /\ UNCHANGED temporaryKey
    BY <1>6, <2>1, ReleasedThread DEF LockInv
  <2>2. CASE realType[s] # "Cdn" /\ keyCreator' = [keyCreator EXCEPT ![s] = "binding"]
    BY <1>7, <2>2 DEF LockInv, TypeOK, ThreadTypeOK
  <2>3. CASE /\ realType[s] = "Cdn" /\ keyCreator' = [keyCreator EXCEPT ![s] = "none"]
             /\ \/ UNCHANGED temporaryKey
                \/ temporaryKey' = [temporaryKey EXCEPT !["Regular"] = temporary]
    BY <1>6, <1>8, <2>3 DEF LockInv, TypeOK, ThreadTypeOK
  <2> QED BY <2>1, <2>2, <2>3 DEF KeyCreated

\* The server binds the key of s, which nobody uses yet.
LEMMA ServeBinds ==
    ASSUME LockInv, ThreadParts, BindParts, NEW s \in Sessions, ServeBind(s)
    PROVE  BindParts'
<1>1. /\ keyCreator[s] = "binding"
      /\ UNCHANGED <<tempCount, temporaryKey, persistentKey, keyCreator, keyId, bindKey>>
      /\ \/ /\ boundTo' = [boundTo EXCEPT ![keyId[s]] = bindKey[s]]
            /\ bindMsg' = [bindMsg EXCEPT ![s] = "Success"]
         \/ /\ UNCHANGED boundTo
            /\ \/ bindMsg' = [bindMsg EXCEPT ![s] = "DefinitelyDestroyed"]
               \/ bindMsg' = [bindMsg EXCEPT ![s] = "Failed"]
  BY DEF ServeBind, dcVars, sessionVars
<1>2. keyId[s] \in 1 .. MaxTemp
  <2>1. keyId[s] \in 1 .. tempCount /\ tempCount <= MaxTemp /\ tempCount \in Nat /\ MaxTemp \in Nat
    BY <1>1, BoundsAssumption DEF BindParts, KeyParts, LockInv, TypeOK, ServerTypeOK
  <2> QED BY <2>1
<1>3. /\ \A k \in 1 .. MaxTemp : k # keyId[s] => boundTo'[k] = boundTo[k]
      /\ bindMsg'[s] = "Success" => boundTo'[keyId[s]] = bindKey[s]
      /\ \A u \in Sessions \ {s} : bindMsg'[u] = bindMsg[u]
  <2>1. boundTo \in [1 .. MaxTemp -> Nat] /\ bindMsg \in [Sessions -> BindState]
    BY DEF LockInv, TypeOK, ServerTypeOK, ThreadTypeOK
  <2>2. CASE boundTo' = [boundTo EXCEPT ![keyId[s]] = bindKey[s]]
             /\ bindMsg' = [bindMsg EXCEPT ![s] = "Success"]
    BY <1>2, <2>1, <2>2
  <2>3. CASE UNCHANGED boundTo /\ (\/ bindMsg' = [bindMsg EXCEPT ![s] = "DefinitelyDestroyed"]
                                   \/ bindMsg' = [bindMsg EXCEPT ![s] = "Failed"])
    BY <2>1, <2>3
  <2> QED BY <1>1, <2>2, <2>3
<1>4. KeyParts'
  <2>1. \A u \in Sessions : keyCreator[u] = "binding" => keyId[u] \in 1 .. MaxTemp
    <3>1. tempCount <= MaxTemp /\ tempCount \in Nat /\ MaxTemp \in Nat
      BY BoundsAssumption DEF BindParts, KeyParts, LockInv, TypeOK, ServerTypeOK
    <3>2. 1 .. tempCount \subseteq 1 .. MaxTemp
      BY <3>1
    <3> QED BY <3>2 DEF BindParts, KeyParts
  <2> QED BY <1>1, <1>3, <2>1 DEF BindParts, KeyParts
<1>5. KeysBelongTogether'
  <2>1. \A t \in TemporaryKeyType : temporaryKey[t] # keyId[s]
    BY <1>1 DEF BindParts, KeyParts
  <2>2. \A t \in TemporaryKeyType : temporaryKey[t] # NoKey => temporaryKey[t] \in 1 .. MaxTemp
    <3>1. tempCount <= MaxTemp /\ tempCount \in Nat /\ MaxTemp \in Nat
      BY BoundsAssumption DEF BindParts, KeyParts, LockInv, TypeOK, ServerTypeOK
    <3>2. \A t \in TemporaryKeyType : temporaryKey[t] \in Nat /\ temporaryKey[t] <= tempCount
      BY DEF BindParts, KeyParts, LockInv, TypeOK, DcTypeOK
    <3> QED BY <3>1, <3>2 DEF NoKey
  <2> QED BY <1>1, <1>3, <2>1, <2>2 DEF BindParts, KeysBelongTogether, IsCdn
<1> QED BY <1>4, <1>5 DEF BindParts

\* The bound key of s goes into its slot, if the persistent key it is bound to
\* still is the one of the data centre.
LEMMA BoundBinds ==
    ASSUME LockInv, ThreadParts, BindParts, NEW s \in Sessions, ReceiveBindSuccess(s)
    PROVE  BindParts'
<1>1. /\ keyCreator[s] = "binding" /\ bindMsg[s] = "Success"
      /\ UNCHANGED <<tempCount, boundTo, keyId>>
      /\ \A u \in Sessions : keyCreator'[u] = "binding" =>
            u # s /\ keyCreator[u] = "binding" /\ bindKey'[u] = bindKey[u] /\ bindMsg'[u] = bindMsg[u]
  BY DEF ReceiveBindSuccess, serverVars, LockInv, TypeOK, ThreadTypeOK, KeyTypeOK
<1>2. CASE ~BindStillValid(s)
  <2>1. UNCHANGED <<temporaryKey, persistentKey>>
    BY <1>2 DEF ReceiveBindSuccess, dcVars
  <2>2. BindsNothing
    BY <1>1, <2>1 DEF BindsNothing
  <2> QED BY <2>2, BindsNothingStep DEF LockInv
<1>3. CASE BindStillValid(s)
  <2>1. /\ owner[s] = "alive" /\ persistentKey' = bindKey[s] /\ bindKey[s] # NoKey
        /\ temporaryKey' = [temporaryKey EXCEPT ![IndexByType(myKeyCreation[s])] = encryptionKey[s]]
        /\ myKeyCreation[s] = "Persistent" \/ persistentKey = bindKey[s]
    BY <1>1, <1>3 DEF ReceiveBindSuccess, BindStillValid, LockInv, LockParts, BindersHaveKey
  <2>2. encryptionKey[s] = keyId[s] /\ boundTo[keyId[s]] = bindKey[s]
    BY <1>1 DEF ThreadParts, BindParts, KeyParts
  <2>3. \A t \in TemporaryKeyType : temporaryKey'[t] \in {temporaryKey[t], keyId[s]}
    BY <2>1, <2>2 DEF LockInv, TypeOK, DcTypeOK
  <2>4. KeyParts'
    <3>1. keyId[s] <= tempCount
      <4>1. keyId[s] \in 1 .. tempCount /\ tempCount \in Nat
        BY <1>1 DEF BindParts, KeyParts, LockInv, TypeOK, ServerTypeOK
      <4> QED BY <4>1
    <3>2. \A t \in TemporaryKeyType : temporaryKey'[t] <= tempCount
      BY <2>3, <3>1 DEF BindParts, KeyParts
    <3>3. \A u \in Sessions, t \in TemporaryKeyType :
              keyCreator'[u] = "binding" => temporaryKey'[t] # keyId[u]
      BY <1>1, <2>3 DEF BindParts, KeyParts
    <3> QED BY <1>1, <3>2, <3>3 DEF BindParts, KeyParts
  <2>5. KeysBelongTogether'
    <3>1. ASSUME NEW t \in TemporaryKeyType, temporaryKey[t] # NoKey, ~IsCdn
          PROVE  boundTo[temporaryKey[t]] = bindKey[s]
      <4>1. persistentKey # NoKey /\ boundTo[temporaryKey[t]] = persistentKey
        BY <3>1 DEF BindParts, KeysBelongTogether
      <4>2. myKeyCreation[s] # "Persistent"
        BY <4>1 DEF LockInv, LockParts, PersistentHolders
      <4> QED BY <2>1, <4>1, <4>2
    <3> QED BY <1>1, <2>1, <2>2, <2>3, <3>1 DEF KeysBelongTogether, IsCdn
  <2> QED BY <2>4, <2>5 DEF BindParts
<1> QED BY <1>2, <1>3

LEMMA NextBindParts ==
    ASSUME LockInv, CdnTypes', ThreadParts, BindParts, [Next]_vars
    PROVE  BindParts'
<1> USE DEF LockInv
<1>1. CASE ServerForgets \/ UNCHANGED vars
  <2>1. BindsNothing
    BY <1>1 DEF ServerForgets, vars, dcVars, privateVars, serverVars, BindsNothing
  <2> QED BY <2>1, BindsNothingStep
<1>2. ASSUME NEW s \in Sessions, ThreadStep(s), ~KeyCreated(s), ~ReceiveBindSuccess(s)
      PROVE  BindParts'
  <2>1. OnlyThread(s)
    BY <1>2, OneThread
  <2>2. UNCHANGED <<tempCount, boundTo>>
    BY <1>2 DEF ThreadStep, ConnectToServer, Connected, UpdateAuthKey, ApplyAuthKey, AcquireInApply,
         RestartNow, SendBind, ReceiveBindError, KeyNotFound, PermanentKeyEmpty, ForgetKey,
         PrivateDestroyed, ClosedSilent, serverVars, KeysUnchanged
  <2>3. persistentKey' = persistentKey
        /\ \A t \in TemporaryKeyType : temporaryKey'[t] \in {temporaryKey[t], NoKey}
    BY <1>2 DEF ThreadStep, ConnectToServer, Connected, UpdateAuthKey, ApplyAuthKey, AcquireInApply,
         RestartNow, SendBind, ReceiveBindError, KeyNotFound, PermanentKeyEmpty, ForgetKey,
         PrivateDestroyed, ClosedSilent, dcVars
  <2>4. keyCreator'[s] = "binding" =>
            /\ keyCreator[s] = "binding" /\ keyId'[s] = keyId[s] /\ bindKey'[s] = bindKey[s]
            /\ bindMsg'[s] = "Success" => bindMsg[s] = "Success"
    <3> USE DEF TypeOK, ThreadTypeOK, KeyTypeOK, ThreadParts
    <3>1. CASE Connected(s) \/ UpdateAuthKey(s) \/ SendBind(s)
      BY <3>1 DEF Connected, UpdateAuthKey, SendBind
    <3>2. CASE ConnectToServer(s)
      BY <3>2, ReleasedThread DEF ConnectToServer, DestroyTemporaryKey, TryAcquireKeyCreation
    <3>3. CASE ApplyAuthKey(s) \/ AcquireInApply(s)
      BY <3>3 DEF ApplyAuthKey, AcquireInApply, Restart, Unstarted, StartCreation
    <3>4. CASE RestartNow(s) \/ ClosedSilent(s)
      BY <3>4 DEF RestartNow, ClosedSilent, Restart, Unstarted
    <3>5. CASE KeyNotFound(s) \/ PermanentKeyEmpty(s) \/ PrivateDestroyed(s) \/ ReceiveBindError(s)
      BY <3>5, ReleasedThread DEF KeyNotFound, PermanentKeyEmpty, PrivateDestroyed,
                                  ReceiveBindError, DestroyTemporaryKey
    <3>6. CASE ForgetKey(s)
      BY <3>6 DEF ForgetKey
    <3> QED BY <1>2, <3>1, <3>2, <3>3, <3>4, <3>5, <3>6 DEF ThreadStep
  <2>5. BindsNothing
    BY <2>1, <2>2, <2>3, <2>4 DEF BindsNothing, OnlyThread
  <2> QED BY <2>5, BindsNothingStep
<1>3. ASSUME NEW s \in Sessions, MainStep(s) \/ FaultStep(s) PROVE BindParts'
  <2>1. OnlyThread(s)
    BY <1>3, OneThread
  <2>2. UNCHANGED <<tempCount, boundTo>>
    BY <1>3 DEF MainStep, FaultStep, KeyDestroyedOnServer, Start, SessionDestroyed, Disconnect,
         KeyCreationFailed, Stop, Kill, DcOptionsChanged, KeysUnchanged, serverVars
  <2>3. \/ UNCHANGED <<temporaryKey, persistentKey>>
        \/ \A t \in TemporaryKeyType : temporaryKey'[t] = NoKey
    BY <1>3 DEF MainStep, FaultStep, KeyDestroyedOnServer, Start, SessionDestroyed, Disconnect,
         KeyCreationFailed, Stop, Kill, DcOptionsChanged, dcVars
  <2>4. keyCreator'[s] = "binding" =>
            /\ keyCreator[s] = "binding" /\ keyId'[s] = keyId[s] /\ bindKey'[s] = bindKey[s]
            /\ bindMsg'[s] = "Success" => bindMsg[s] = "Success"
    <3> USE DEF TypeOK, ThreadTypeOK, KeyTypeOK
    <3>1. CASE KeyCreationFailed(s)
      BY <3>1, ReleasedThread DEF KeyCreationFailed
    <3>2. CASE Disconnect(s)
      BY <3>2 DEF Disconnect, Restart, Unstarted
    <3>3. CASE MainStep(s) \/ Stop(s) \/ Kill(s) \/ DcOptionsChanged(s)
      BY <3>3 DEF MainStep, KeyDestroyedOnServer, Start, SessionDestroyed, Stop, Kill,
                  DcOptionsChanged, privateVars
    <3> QED BY <1>3, <3>1, <3>2, <3>3 DEF FaultStep
  <2>5. BindsNothing
    BY <2>1, <2>2, <2>3, <2>4 DEF BindsNothing, OnlyThread
  <2> QED BY <2>5, BindsNothingStep
<1>4. ASSUME NEW s \in Sessions, KeyCreated(s) PROVE BindParts'
  BY <1>4, CreateBinds
<1>5. ASSUME NEW s \in Sessions, ReceiveBindSuccess(s) PROVE BindParts'
  BY <1>5, BoundBinds
<1>6. ASSUME NEW s \in Sessions, ServeBind(s) PROVE BindParts'
  BY <1>6, ServeBinds
<1> QED BY <1>1, <1>2, <1>3, <1>4, <1>5, <1>6 DEF Next

LEMMA AlwaysBindInv == Spec => []BindInv
<1>1. Init => BindInv
  <2> SUFFICES ASSUME Init PROVE BindInv
    OBVIOUS
  <2>1. ThreadParts
    BY DEF Init, ThreadParts
  <2>2. KeyParts
    <3>1. tempCount <= MaxTemp /\ \A t \in TemporaryKeyType : temporaryKey[t] <= tempCount
      BY BoundsAssumption DEF Init, NoKey
    <3>2. \A s \in Sessions : keyCreator[s] # "binding"
      BY DEF Init
    <3> QED BY <3>1, <3>2 DEF KeyParts
  <2>3. KeysBelongTogether
    BY DEF Init, KeysBelongTogether
  <2> QED BY <2>1, <2>2, <2>3, InitLockInv DEF BindInv
<1>2. BindInv /\ [Next]_vars => BindInv'
  <2> SUFFICES ASSUME BindInv, [Next]_vars PROVE BindInv'
    OBVIOUS
  <2>1. LockInv'
    BY NextLockInv DEF BindInv
  <2>2. ThreadParts'
    BY NextThreadParts DEF BindInv, LockInv
  <2>3. BindParts'
    BY <2>1, NextBindParts DEF BindInv, BindParts, LockInv
  <2> QED BY <2>1, <2>2, <2>3 DEF BindInv, BindParts
<1> QED BY <1>1, <1>2, PTL DEF Spec

\* A temporary key in use is bound to the persistent key in use.
THEOREM KeysAlwaysBelongTogether == Spec => []KeysBelongTogether
<1>1. BindInv => KeysBelongTogether
  BY DEF BindInv
<1> QED BY <1>1, AlwaysBindInv, PTL

\* A creator is started once, and one that binds has its key.
THEOREM CreatorsStartOnce == Spec => []CreatorStartedOnce
<1>1. BindInv => CreatorStartedOnce
  BY DEF BindInv, ThreadParts, CreatorStartedOnce
<1> QED BY <1>1, AlwaysBindInv, PTL

\* Keys are created as the Expects around it take for granted.
THEOREM CreationsAlwaysSafe == Spec => []CreationsAreSafe
<1>1. LockedSlotIsEmpty /\ ExclusiveCreation /\ CreatorMatchesLock /\ CreatorStartedOnce
      => CreationsAreSafe
  BY DEF CreationsAreSafe
<1> QED
  BY <1>1, LockedSlotsAreEmpty, CreationIsExclusive, CreatorsMatchLocks, CreatorsStartOnce, PTL

=============================================================================
