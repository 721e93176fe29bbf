CONSTANTS
    h1 = h1
    h2 = h2
    History = {h1, h2}
    Opened = {h1}
    MaxTill = 2
    MaxMade = 2
    MaxAsked = 1
    MaxGhost = 1
    Types = {"History", "Send", "Delete"}
SPECIFICATION FairSpec
INVARIANTS TypeOK AssertsHold NothingForgotten ReadAsToldAtRest
PROPERTIES EverythingEnds
CHECK_DEADLOCK FALSE
