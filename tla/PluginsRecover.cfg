CONSTANTS
    p1 = p1
    p2 = p2
    Plugins = {p1, p2}
    MaxDepth = 2
SPECIFICATION FairSpec
INVARIANTS TypeOK CrasherIsBlamed DisabledStaysOff FilesAreInOrder
PROPERTY ComesToRest
