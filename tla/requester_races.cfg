SPECIFICATION Spec
CONSTANTS
    c1 = c1
    c2 = c2
    c3 = c3
    w1 = w1
    w2 = w2
    f = f
    Locker0 = Locker0
    None = None
    Clients = {c1, c2}
    Workers = {w1, w2}
    Keys = {f}
    CacheOf <- OneKeyCache
    QueueSize = 1
    Results = {"err", "nil"}
    MaxClears = 0
    Timeouts = TRUE
    MayStop = TRUE
SYMMETRY Symmetry
INVARIANT TypeOK
INVARIANT PendingHasOwner
INVARIANT NoLostWakeup
INVARIANT ErrorsAreFresh
CHECK_DEADLOCK FALSE
