CONSTANTS
    s1 = s1
    s2 = s2
    Sessions = {s1, s2}
    InitialType <- TwoRegular
    Stoppable = {s2}
    MaxTemp = 5
    MaxPerm = 4
    MaxFaults = 2
    ForgetPerm = FALSE
    CloseSilent = TRUE
CHECK_DEADLOCK FALSE
SPECIFICATION FairSpec
PROPERTY EverySessionGetsKey
