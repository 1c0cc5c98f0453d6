----------------------------- MODULE ContentEnc -----------------------------
(***************************************************************************)
(* Package contentenc: the layout of an encrypted file, a header followed  *)
(* by blocks of nonce, ciphertext and tag, and the arithmetic that         *)
(* translates sizes and byte ranges between plaintext and ciphertext.      *)
(* Sizes are natural numbers: the code's uint64 is far from its limits for *)
(* any file a server can hold in memory.                                   *)
(***************************************************************************)
EXTENDS Naturals, Sequences

CONSTANTS
    plainBS,        \* plaintext block size (DefaultBS, 4096)
    IVLen,          \* nonce in front of each block (16)
    AuthTagLen,     \* tag behind each block (16)
    HeaderLen       \* version and file ID in front of the file (18)

ASSUME LayoutAssumption ==
    /\ plainBS \in Nat \ {0}
    /\ IVLen \in Nat \ {0}
    /\ AuthTagLen \in Nat \ {0}
    /\ HeaderLen \in Nat \ {0}

cipherBS == plainBS + IVLen + AuthTagLen

BlockOverhead == cipherBS - plainBS

MinUint64(x, y) == IF x < y THEN x ELSE y

-----------------------------------------------------------------------------
PlainOffToBlockNo(plainOffset) == plainOffset \div plainBS

\* panics for an offset inside the header; no caller passes one
CipherOffToBlockNo(cipherOffset) == (cipherOffset - HeaderLen) \div cipherBS

BlockNoToCipherOff(blockNo) == HeaderLen + blockNo * cipherBS

BlockNoToPlainOff(blockNo) == blockNo * plainBS

\* Mutation of CipherSizeToPlainSize: block count of the byte behind the file
Mut_CipherSizeToPlainSize(cipherSize) ==
    LET blockCount == CipherOffToBlockNo(cipherSize) + 1
        overhead   == BlockOverhead * blockCount + HeaderLen
    IN  IF cipherSize <= HeaderLen \/ overhead > cipherSize
        THEN 0
        ELSE cipherSize - overhead

\* 0 for an empty file, a bare header, and sizes no intact file has
CipherSizeToPlainSize(cipherSize) ==
    LET blockCount == CipherOffToBlockNo(cipherSize - 1) + 1
        overhead   == BlockOverhead * blockCount + HeaderLen
    IN  IF cipherSize <= HeaderLen \/ overhead > cipherSize
        THEN 0
        ELSE cipherSize - overhead

PlainSizeToCipherSize(plainSize) ==
    LET blockCount == PlainOffToBlockNo(plainSize - 1) + 1
    IN  IF plainSize = 0
        THEN 0
        ELSE plainSize + BlockOverhead * blockCount + HeaderLen

-----------------------------------------------------------------------------
\* the IntraBlock at the start of a plaintext range
PlainBlock(offset, length) ==
    LET blockNo == PlainOffToBlockNo(offset)
        skip    == offset - BlockNoToPlainOff(blockNo)
    IN  [BlockNo |-> blockNo, Skip |-> skip,
         Length |-> MinUint64(length, plainBS - skip)]

\* the same for a ciphertext range
CipherBlock(offset, length) ==
    LET blockNo == CipherOffToBlockNo(offset)
        skip    == offset - BlockNoToCipherOff(blockNo)
    IN  [BlockNo |-> blockNo, Skip |-> skip,
         Length |-> MinUint64(length, cipherBS - skip)]

\* The loops keep offset + length, the end of the range.
ExplodePlainRange(offset, length) ==
    LET end == offset + length
        from[o \in 0..end] ==
            IF o = end
            THEN <<>>
            ELSE <<PlainBlock(o, end - o)>> \o from[o + PlainBlock(o, end - o).Length]
    IN  from[offset]

ExplodeCipherRange(offset, length) ==
    LET end == offset + length
        from[o \in 0..end] ==
            IF o = end
            THEN <<>>
            ELSE <<CipherBlock(o, end - o)>> \o from[o + CipherBlock(o, end - o).Length]
    IN  from[offset]

\* Mutation of JointCiphertextRange: the last block is left out
Mut_JointCiphertextRange(blocks) ==
    LET offset     == BlockNoToCipherOff(blocks[1].BlockNo)
        offsetLast == BlockNoToCipherOff(blocks[Len(blocks)].BlockNo)
    IN  [offset |-> offset, length |-> offsetLast - offset]

\* the complete ciphertext blocks behind a sequence of IntraBlocks
JointCiphertextRange(blocks) ==
    LET offset     == BlockNoToCipherOff(blocks[1].BlockNo)
        offsetLast == BlockNoToCipherOff(blocks[Len(blocks)].BlockNo)
    IN  [offset |-> offset, length |-> offsetLast + cipherBS - offset]

\* the complete plaintext blocks
JointPlaintextRange(blocks) ==
    LET offset     == BlockNoToPlainOff(blocks[1].BlockNo)
        offsetLast == BlockNoToPlainOff(blocks[Len(blocks)].BlockNo)
    IN  [offset |-> offset, length |-> offsetLast + plainBS - offset]

-----------------------------------------------------------------------------
\* Mutation of MergeBlocks: the block ends where the new data end
Mut_MergeBlocks(oldData, newData, offset) ==
    IF oldData = <<>> /\ offset = 0
    THEN newData
    ELSE [i \in 1..(offset + Len(newData)) |->
             IF i > offset THEN newData[i - offset]
             ELSE IF i <= Len(oldData) THEN oldData[i]
             ELSE 0]

\* newData over oldData at offset; a block is a sequence of bytes, and what neither
\* covers is zero
MergeBlocks(oldData, newData, offset) ==
    LET newLen == offset + Len(newData)
        outLen == IF Len(oldData) < newLen THEN newLen ELSE Len(oldData)
    IN  IF oldData = <<>> /\ offset = 0
        THEN newData
        ELSE [i \in 1..outLen |->
                 IF i > offset /\ i <= newLen THEN newData[i - offset]
                 ELSE IF i <= Len(oldData) THEN oldData[i]
                 ELSE 0]

====
