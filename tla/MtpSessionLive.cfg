CONSTANTS
    MaxRequest = 1
    MaxMsgId = 10
    MaxEvents = 2
    Faults = {"drop", "forget", "repeat", "cancel", "detailed", "error", "fatal"}
    KeepAcked = 10
    KeepReceived = 10
    ContainerSize = 2
    MainSession = TRUE
SPECIFICATION FairSpec
PROPERTIES EveryRequestEnds
CHECK_DEADLOCK FALSE
