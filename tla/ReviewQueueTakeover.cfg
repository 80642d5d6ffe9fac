SPECIFICATION Spec
CONSTANTS
    p1 = p1
    p2 = p2
    p3 = p3
    x = x
    y = y
    NoLock = NoLock
    NoCall = NoCall
    Clients = {p1, p2, p3}
    Mortals = {p1}
    Ids = {x, y}
    Types <- MCTypes
    Menu <- MCMenu
    Cap = 2
    MaxCalls = 1
PROPERTIES
    QueueIsAppendOnly
CHECK_DEADLOCK FALSE
