CONSTANTS
    Kinds = {"account", "channel"}
    Sources = {"push", "result", "affected"}
    Counts = {1, 2}
    MaxPts = 4
    MaxFaults = 1
SPECIFICATION FairSpec
INVARIANTS TypeOK LogIsApplied GapIsHandled
PROPERTIES GoodNeverGoesBack GapCloses
CHECK_DEADLOCK FALSE
