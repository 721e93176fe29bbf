CONSTANTS
    s1 = s1
    s2 = s2
    Sessions = {s1, s2}
    InitialType <- TwoCdn
    Stoppable = {s2}
    MaxTemp = 5
    MaxPerm = 0
    MaxFaults = 2
    ForgetPerm = FALSE
    CloseSilent = TRUE
CHECK_DEADLOCK FALSE
SPECIFICATION FairSpec
PROPERTY EverySessionGetsKey
