SPECIFICATION FairSpec
CONSTANTS
    p1 = p1
    p2 = p2
    p3 = p3
    x = x
    y = y
    NoLock = NoLock
    NoCall = NoCall
    Clients = {p1, p2}
    Mortals = {p1}
    Ids = {x, y}
    Types <- MCTypes
    Menu <- MCMenu
    Cap = 2
    MaxCalls = 2
INVARIANTS
    TypeOK
    CapIsKept
PROPERTIES
    QueueIsAppendOnly
    CallsEnd
CHECK_DEADLOCK FALSE
