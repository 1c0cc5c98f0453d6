------------------------------ MODULE MCFormats ------------------------------
(***************************************************************************)
(* The formats of gocryptfs against reference definitions: the layout of   *)
(* files for every byte range (offset, length), and file names for every   *)
(* sequence of up to MaxLen bytes over a small alphabet under each IV.     *)
(* The stand-in for EME adds the IV to every byte and reverses their order. *)
(* Beside them, for all parameters, the keys of a CryptoCore.              *)
(***************************************************************************)
EXTENDS ContentEnc, NameTransform, CryptoCore, FiniteSetsExt

CONSTANTS MaxOffset, MaxLength, Bytes, MaxLen, IVs

VARIABLES offset, length, bytes, iv, b64, loose

N == Cardinality(Bytes)

MCencrypt(v, s) == Reverse([i \in 1..Len(s) |-> (s[i] + v) % N])

MCdecrypt(v, s) == Reverse([i \in 1..Len(s) |-> (s[i] + (N - v)) % N])

\* the bytes are 0 to N - 1, the IVs and every pad length among them
ASSUME AlphabetAssumption ==
    IsFiniteSet(Bytes) /\ Bytes = 0..(N - 1) /\ IVs \subseteq Bytes /\ BlockSize < N

\* ranges, names and keys have nothing to do with each other: one grows at a time
Init ==
    /\ CoreInit
    /\ offset \in 0..MaxOffset /\ length = 0
    /\ bytes = <<>> /\ iv \in IVs /\ b64 \in BOOLEAN /\ loose \in {0, 1}

Lengthen ==
    /\ bytes = <<>> /\ core = NoCore
    /\ length < MaxLength
    /\ length' = length + 1
    /\ UNCHANGED <<offset, bytes, iv, b64, loose, coreVars>>

Extend ==
    /\ offset = 0 /\ length = 0 /\ core = NoCore
    /\ Len(bytes) < MaxLen
    /\ \E b \in Bytes : bytes' = Append(bytes, b)
    /\ UNCHANGED <<offset, length, iv, b64, loose, coreVars>>

UseKeys ==
    /\ offset = 0 /\ length = 0 /\ bytes = <<>>
    /\ CoreNext
    /\ UNCHANGED <<offset, length, bytes, iv, b64, loose>>

Next == Lengthen \/ Extend \/ UseKeys

Spec == Init /\ [][Next]_<<offset, length, bytes, iv, b64, loose, coreVars>>

-----------------------------------------------------------------------------
\* [first, first + n)
Span(first, n) == {b \in first..(first + n) : b < first + n}

\* where the bytes of an intact file go: plaintext byte b lies in the ciphertext
\* behind the header, the blocks before its own, and its block's nonce
CipherPosition(b) ==
    HeaderLen + (b \div plainBS) * cipherBS + IVLen + (b % plainBS)

\* The size that PlainSizeToCipherSize gives is where the last byte and its tag end,
\* and CipherSizeToPlainSize, which Stat and ReadFile answer with, inverts it.
SizesMatchLayout ==
    /\ CipherSizeToPlainSize(PlainSizeToCipherSize(length)) = length
    /\ length > 0 =>
          PlainSizeToCipherSize(length) = CipherPosition(length - 1) + 1 + AuthTagLen

\* The joint ranges of the blocks of a range contain every byte of the range with
\* its block's tag: decryptFile reads nothing short of what it decrypts. And both
\* ways to cut a file agree: ExplodeCipherRange of the joint ciphertext range gives
\* the blocks of ExplodePlainRange, each of them whole.
JointRangesCover ==
    length > 0 =>
        LET blocks == ExplodePlainRange(offset, length)
            c == JointCiphertextRange(blocks)
            p == JointPlaintextRange(blocks)
            whole == ExplodeCipherRange(c.offset, c.length)
        IN
        /\ \A b \in Span(offset, length) :
              /\ b \in Span(p.offset, p.length)
              /\ CipherPosition(b) \in Span(c.offset, c.length)
              /\ CipherPosition(b) + AuthTagLen \in Span(c.offset, c.length)
        /\ whole = [i \in DOMAIN blocks |->
                       [BlockNo |-> blocks[i].BlockNo, Skip |-> 0, Length |-> cipherBS]]

\* a file of n bytes before a write, what is written, and block no of the file
Old(n) == [i \in 1..n |-> 2 * i]
New == [i \in 1..length |-> 2 * (offset + i) + 1]
BlockOf(file, no) == SubSeq(file, no * plainBS + 1, MinUint64((no + 1) * plainBS, Len(file)))

\* A write of a range to a file of any size, block by block as ExplodePlainRange
\* cuts it and MergeBlocks merges it: every byte of these blocks is the new one
\* in the range, else the old one, else zero; nothing of the file is cut off; and
\* the blocks are what EncryptBlocks expects, full but for the last.
WriteIsOverlay ==
    \A n \in 0..MaxLength :
        LET blocks == ExplodePlainRange(offset, length)
            size   == IF n < offset + length THEN offset + length ELSE n
            Merged(ib) ==
                LET done == BlockNoToPlainOff(ib.BlockNo) + ib.Skip - offset
                IN  MergeBlocks(BlockOf(Old(n), ib.BlockNo), SubSeq(New, done + 1, done + ib.Length), ib.Skip)
            Expected(b) ==
                IF b > offset /\ b <= offset + length THEN New[b - offset]
                ELSE IF b <= n THEN Old(n)[b]
                ELSE 0
        IN
        \A i \in DOMAIN blocks :
            LET m     == Merged(blocks[i])
                start == BlockNoToPlainOff(blocks[i].BlockNo)
            IN
            /\ Len(m) = MinUint64(plainBS, size - start)
            /\ \A j \in DOMAIN m : m[j] = Expected(start + j)
            /\ i < Len(blocks) => Len(m) = plainBS

-----------------------------------------------------------------------------
Legal(name) ==
    /\ name # <<>>
    /\ Range(name) \cap {0, Slash} = {}
    /\ name \notin {<<Dot>>, <<Dot, Dot>>}

\* A name that a file can have is restored by DecryptName from what EncryptName
\* makes of it, whatever its length and even if it ends in padding-like bytes.
NameRoundTrip ==
    Legal(bytes) => DecryptName(EncryptName(bytes, iv), iv) = Ok(bytes)

\* a name as it may be found in a remote directory
Stored == [EncodeToString(bytes) EXCEPT !.b64 = b64, !.loose = loose]

\* Any bytes at all as a ciphertext name: DecryptName fails or returns a legal
\* name, never an empty one, a path, or a way out of the directory.
OnlyLegalNames ==
    LET r == DecryptName(Stored, iv)
    IN  ~ r.err => b64 /\ Legal(r.bytes)

\* A stored name that decrypts at all is, but for what base64 decoding ignores, what
\* EncryptName makes of the name it shows up as.  So of the names that EncryptName
\* writes no two of a directory show up as one; other stored names can, and then
\* differ in line breaks or loose bits alone, and findInDir takes the first.
OneCanonicalName ==
    LET r == DecryptName(Stored, iv)
    IN  ~ r.err => EncryptName(r.bytes, iv) = EncodeToString(DecodeString(Stored).bytes)

\* Every legal name up to NameMax bytes is stored under a name that fits into
\* NameMax as well, though encryption makes it longer, and whose NameType says
\* how to get it back: by DecryptName, or from the file "hash.name", with which
\* the stored name is never confused.
StoredNamesFit ==
    Legal(bytes) =>
        LET r == EncryptAndHashName(bytes, iv) IN
        /\ r.err <=> Len(bytes) > NameMax
        /\ ~ r.err =>
              /\ NameLen(r.name) <= NameMax
              /\ \/ NameType(r.name) = "LongNameNone" /\ DecryptName(r.name, iv) = Ok(bytes)
                 \/ NameType(r.name) = "LongNameContent" /\ r.name = HashLongName(EncryptName(bytes, iv))

====
