SPECIFICATION Spec
CONSTANTS
    plainBS = 4
    IVLen = 2
    AuthTagLen = 1
    HeaderLen = 3
    MaxOffset = 16
    MaxLength = 20
    BlockSize = 3
    Bytes = {0, 1, 2, 3, 4, 5}
    Dot = 4
    Slash = 5
    IVs = {0, 1}
    NameMax = 5
    HashLen = 5
    longNames = TRUE
    raw64 = FALSE
    MaxLen = 6
    masterkey = masterkey
    Zero = Zero
    IVBitLens = {96, 128}
    emeEncrypt <- MCencrypt
    emeDecrypt <- MCdecrypt
INVARIANT SizesMatchLayout
INVARIANT WriteIsOverlay
INVARIANT JointRangesCover
INVARIANT NameRoundTrip
INVARIANT OnlyLegalNames
INVARIANT OneCanonicalName
INVARIANT StoredNamesFit
INVARIANT KeysLiveAsLongAsCiphers
CHECK_DEADLOCK FALSE
