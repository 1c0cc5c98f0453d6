SPECIFICATION MCSpec
CONSTANTS
    NoConn = NoConn
    Callers = {t1, t2}
    Conns = {k1, k2, k3, k4}
    capacity = 1
    Peers = {p1, p2}
    None = None
    MaxAuthTries = 2
    Listings <- MCListings
    MaxFilelist = 2
INVARIANT Exclusive
INVARIANT NoLeakNoReuse
INVARIANT PooledIsClean
INVARIANT DeadIsDiscarded
INVARIANT AnswersAreHonest
PROPERTY CallsReturn
PROPERTY ServerKeepsUp
CHECK_DEADLOCK FALSE
