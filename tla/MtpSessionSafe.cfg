CONSTANTS
    MaxRequest = 2
    MaxMsgId = 8
    MaxEvents = 3
    Faults = {"drop", "forget", "repeat", "error", "cancel", "seqno", "low", "old"}
    KeepAcked = 9
    KeepReceived = 1
    ContainerSize = 2
    MainSession = FALSE
SPECIFICATION Spec
INVARIANTS TypeOK EveryRequestHasOnePlace SessionMapsAgree
PROPERTY DeliversRequests
CHECK_DEADLOCK FALSE
