SPECIFICATION MCSpec
CONSTANTS
    plainBS = 2
    IVLen = 2
    AuthTagLen = 1
    HeaderLen = 2
    MAX_KERNEL_WRITE = 2
    Readers = {r1, r2}
    Arrays = {a1, a2, a3, a4, a5}
    Files <- MCFiles
    MaxSize = 6
    wr1 = wr1
    wr2 = wr2
    Writers = {wr1, wr2}
    Plaintexts <- MCPlaintexts
    FirstBlockNos = {7}
    MaxCalls = 2
    NumCPU = 4
    encryptMaxSplit = 2
    ParallelFrom = 3
    prefetchN = 5
    CBlocks = {b1, b2, b3, b4, b5, b6}
    NoBlock = NoBlock
SYMMETRY MCSymmetry
INVARIANT PutsFit
INVARIANT NoSharedArray
INVARIANT ResultIsPlaintext
INVARIANT OnlyAuthenticData
INVARIANT NoncesAreFresh
INVARIANT PrefetcherIsReleased
INVARIANT WrittenReadsBack
CHECK_DEADLOCK FALSE
