CONSTANTS
    Dc = {1, 2}
    FirstMain = 1
    Targets <- MainAndGuest
    MaxUser = 3
    MaxExports = 1
    MaxFaults = 2
    Faults = {"later", "fatal", "exportFail", "importFail", "migrate", "unauthorized", "timeout", "notInited", "cancel"}
SPECIFICATION FairSpec
INVARIANTS TypeOK EveryRequestHasItsPlace
PROPERTIES EveryRequestAnswered
CHECK_DEADLOCK FALSE
