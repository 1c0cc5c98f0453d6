SPECIFICATION Spec
CONSTANTS
    p1 = p1
    p2 = p2
    p3 = p3
    p4 = p4
    e1 = e1
    e2 = e2
    None = None
    Paths = {p1, p2, p3, p4}
    CPaths = {e1}
    cacheSize = 3
PROPERTY EvictsLeastRecentlyUsed
