CONSTANTS
    t1 = t1
    t2 = t2
    Task = {t1, t2}
    Priority <- FirstUrgent
    Parts = 2
    StartWaited = 3
    MaxWaited = 4
    MaxSessions = 2
    AddSuccesses = 1
    RemoveTimeouts = 1
    MaxRemoves = 2
    MaxFaults = 2
    Faults = {"slow", "restart", "redirect", "nohash", "reupload", "token", "reference", "fatal", "cancel"}
SPECIFICATION FairSpec
INVARIANTS TypeOK AssertsHold RequestsAccounted
PROPERTIES EveryDownloadEnds
CHECK_DEADLOCK FALSE
