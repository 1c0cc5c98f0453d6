SPECIFICATION Spec
CONSTANTS
    w1 = w1
    w2 = w2
    Workers = {w1, w2}
    Drive <- MCDrive
    Paths <- MCPaths
    Faults = {"iv", "list", "name", "read", "stat"}
    cacheSize = 1
    PlainSize <- MCPlainSize
    HeaderLen = 18
    None = None
SYMMETRY Symmetry
INVARIANT CacheIsTruthful
INVARIANT AnswersAreTrue
INVARIANT FailuresHaveReason
