CONSTANTS
    s1 = s1
    s2 = s2
    Sessions = {s1, s2}
    InitialType <- RegularAndMedia
    Stoppable = {s2}
    MaxTemp = 4
    MaxPerm = 2
    MaxFaults = 1
    ForgetPerm = TRUE
    CloseSilent = TRUE
SPECIFICATION Spec
CHECK_DEADLOCK FALSE
INVARIANTS
    TypeOK
    CreationsAreSafe
    KeysBelongTogether
PROPERTY KeysAreNeverOverwritten
