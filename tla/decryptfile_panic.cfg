SPECIFICATION Spec
CONSTANTS
    plainBS = 2
    IVLen = 2
    AuthTagLen = 1
    HeaderLen = 2
    MAX_KERNEL_WRITE = 2
    Readers = {r1}
    Arrays = {a1, a2, a3, a4}
    Files <- MCFiles
    MaxSize = 6
INVARIANT NeverPanics
CHECK_DEADLOCK FALSE
