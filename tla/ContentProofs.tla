---------------------------- MODULE ContentProofs ----------------------------
(***************************************************************************)
(* Proofs about package contentenc at work, for any number of goroutines,  *)
(* any files and any sizes of blocks and pools: what decryptFile returns,  *)
(* which arrays it shares, and the nonces of EncryptBlocks.                *)
(***************************************************************************)
EXTENDS DecryptFile, EncryptBlocks, Integers, FiniteSetTheorems, TLAPS

TypeOK ==
    /\ pc \in [Readers -> {"idle", "decrypt", "write"}]
    /\ file \in [Readers -> Files \cup {NoFile}]
    /\ next \in [Readers -> Nat]
    /\ pBuf \in [Readers -> Arrays \cup {nil}]
    /\ pBlock \in [Readers -> Arrays \cup {nil}]
    /\ out \in [Readers -> Arrays \cup {nil}]
    /\ heap = [a \in Arrays |-> heap[a]]
    /\ PReqPool \subseteq Arrays
    /\ pBlockPool \subseteq Arrays

\* the arrays of one reader or of the caller it has returned to
Mine(r) == {pBuf[r], pBlock[r], out[r]} \ {nil}

OneOwner ==
    /\ PReqPool \cap pBlockPool = {}
    /\ \A r \in Readers : Mine(r) \cap (PReqPool \cup pBlockPool) = {}
    /\ \A r, s \in Readers : r # s => Mine(r) \cap Mine(s) = {}

\* A reader holds what it needs where it is.
Holding(r) ==
    /\ pc[r] = "idle" => pBuf[r] = nil /\ next[r] = 0
    /\ pc[r] # "idle" => pBuf[r] # nil /\ out[r] = nil /\ pBuf[r] # pBlock[r]
    /\ pc[r] = "write" <=> pBlock[r] # nil

\* the plaintext length of the first n blocks
PlainLen(f, n) == IF n < BlockCount(f) THEN n * plainBS ELSE CipherSizeToPlainSize(f.size)

\* What is in pBuf and in pBlock is the plaintext so far, and the next piece, of a
\* file all of whose blocks so far did open; pBuf is as large as the pool's arrays,
\* or has been grown.
Buffers(r) ==
    LET f == file[r]
        n == next[r]
    IN
    /\ pc[r] # "idle" =>
          /\ f \in Files /\ readFileID(f)
          /\ n <= BlockCount(f)
          /\ \A no \in 0..(n - 1) : Opens(f, no)
          /\ heap[pBuf[r]].data = Pieces(f, n)
          /\ heap[pBuf[r]].len = PlainLen(f, n)
          /\ heap[pBuf[r]].cap \in Nat
          /\ heap[pBuf[r]].cap >= pReqSize
          /\ heap[pBuf[r]].len <= heap[pBuf[r]].cap
    /\ pc[r] = "write" =>
          /\ n < BlockCount(f) /\ Opens(f, n)
          /\ heap[pBlock[r]].data = <<Piece(f, n)>>
          /\ heap[pBlock[r]].len = Piece(f, n).len
          /\ heap[pBlock[r]].cap = plainBS

\* What a caller has is the plaintext of a file all of whose blocks did open.
Answered(r) ==
    LET f == file[r]
        n == BlockCount(f)
    IN  out[r] # nil =>
            /\ f \in Files /\ readFileID(f)
            /\ \A no \in 0..(n - 1) : Opens(f, no)
            /\ heap[out[r]].data = Pieces(f, n)
            /\ heap[out[r]].len = CipherSizeToPlainSize(f.size)

ReaderOK(r) == Holding(r) /\ Buffers(r) /\ Answered(r)

IInv ==
    /\ TypeOK
    /\ OneOwner
    /\ \A r \in Readers : ReaderOK(r)
    /\ PutsFit

-----------------------------------------------------------------------------
\* Quotient and remainder are what they are known by.
LEMMA DivMod ==
    ASSUME NEW a \in Nat, NEW b \in Nat \ {0}
    PROVE  /\ a \div b \in Nat /\ a % b \in 0..(b - 1)
           /\ a = b * (a \div b) + (a % b)
OBVIOUS

LEMMA CipherBSFacts ==
    /\ cipherBS \in Nat \ {0} /\ BlockOverhead = IVLen + AuthTagLen
    /\ BlockOverhead \in Nat /\ cipherBS = plainBS + BlockOverhead
    /\ plainBS \in Nat \ {0} /\ HeaderLen \in Nat
BY LayoutAssumption DEF cipherBS, BlockOverhead

\* The blocks of a file: all of the full size but for the last.
LEMMA BlockFacts ==
    ASSUME NEW f \in Files, readFileID(f), NEW k \in Nat, k < BlockCount(f)
    PROVE  /\ BlockCount(f) \in Nat \ {0}
           /\ k < BlockCount(f) - 1 => CipherLen(f, k) = cipherBS
           /\ k = BlockCount(f) - 1 =>
                 /\ CipherLen(f, k) \in 1..cipherBS
                 /\ f.size = HeaderLen + k * cipherBS + CipherLen(f, k)
<1> DEFINE q == (f.size - 1 - HeaderLen) \div cipherBS
           m == (f.size - 1 - HeaderLen) % cipherBS
<1>1. f.size \in Nat /\ f.size > HeaderLen
  BY FilesAssumption DEF readFileID
<1>2. f.size - 1 - HeaderLen \in Nat
  BY <1>1, CipherBSFacts
<1>3. q \in Nat /\ m \in 0..(cipherBS - 1) /\ f.size - 1 - HeaderLen = cipherBS * q + m
  BY <1>2, DivMod, CipherBSFacts
<1>4. BlockCount(f) = q + 1
  BY DEF BlockCount, CipherOffToBlockNo
<1>5. CipherLen(f, k) = MinUint64(cipherBS, f.size - (HeaderLen + k * cipherBS))
  BY DEF CipherLen, BlockNoToCipherOff
<1> HIDE DEF q, m
<1>6. k <= q
  BY <1>3, <1>4
<1>7. f.size - (HeaderLen + k * cipherBS) = (q - k) * cipherBS + m + 1
  <2>1. cipherBS * q = q * cipherBS /\ q * cipherBS \in Nat /\ k * cipherBS \in Nat
    BY <1>3, CipherBSFacts
  <2>2. (q - k) * cipherBS = q * cipherBS - k * cipherBS
    BY <1>3, CipherBSFacts
  <2>3. ASSUME NEW x \in Int, NEW y \in Int, f.size - 1 - HeaderLen = x + m
        PROVE  f.size - (HeaderLen + y) = (x - y) + m + 1
    <3>1. f.size \in Int /\ HeaderLen \in Int /\ m \in Int
      BY <1>1, <1>3, CipherBSFacts
    <3> QED
      BY <2>3, <3>1
  <2>4. f.size - 1 - HeaderLen = q * cipherBS + m
    BY <1>3, <2>1
  <2>5. q * cipherBS \in Int /\ k * cipherBS \in Int
    BY <2>1
  <2>6. f.size - (HeaderLen + k * cipherBS) = (q * cipherBS - k * cipherBS) + m + 1
    BY <2>3, <2>4, <2>5
  <2> QED
    BY <2>2, <2>6
<1>8. CASE k < q
  <2>1. (q - k) * cipherBS >= cipherBS /\ (q - k) * cipherBS \in Nat
    BY <1>3, <1>8, CipherBSFacts
  <2> QED
    BY <1>3, <1>4, <1>5, <1>7, <1>8, <2>1, CipherBSFacts DEF MinUint64
<1>9. CASE k = q
  <2>1. f.size - (HeaderLen + k * cipherBS) = m + 1
    BY <1>3, <1>7, <1>9, CipherBSFacts
  <2>2. CipherLen(f, k) = m + 1
    BY <1>3, <1>5, <2>1, CipherBSFacts DEF MinUint64
  <2>3. k * cipherBS \in Nat
    BY CipherBSFacts
  <2> QED
    BY <1>1, <1>3, <1>4, <1>9, <2>1, <2>2, <2>3, CipherBSFacts
<1> QED
  BY <1>3, <1>6, <1>8, <1>9

\* A block that opens adds its plaintext to that of the blocks before it.
LEMMA PieceFacts ==
    ASSUME NEW f \in Files, readFileID(f), NEW k \in Nat, k < BlockCount(f), Opens(f, k)
    PROVE  /\ BlockCount(f) \in Nat \ {0}
           /\ Piece(f, k).len \in 1..plainBS
           /\ k < BlockCount(f) - 1 => Piece(f, k).len = plainBS
           /\ PlainLen(f, k) = k * plainBS
           /\ PlainLen(f, k + 1) = PlainLen(f, k) + Piece(f, k).len
<1> DEFINE c == CipherLen(f, k)
           n == BlockCount(f)
<1>1. /\ n \in Nat \ {0}
      /\ k < n - 1 => c = cipherBS
      /\ k = n - 1 => c \in 1..cipherBS /\ f.size = HeaderLen + k * cipherBS + c
  BY BlockFacts
<1>2. c > BlockOverhead
  <2>1. CASE f.kinds[k + 1] = "zeros" /\ c = cipherBS
    BY <2>1, CipherBSFacts
  <2>2. CASE f.kinds[k + 1] = "own"
    <3>1. k \in 0..(Len(f.kinds) - 1)
      BY <1>1, FilesAssumption DEF readFileID
    <3> QED
      BY <2>2, <3>1, FilesAssumption
  <2> QED
    BY <2>1, <2>2 DEF Opens
<1>3. Piece(f, k).len = c - BlockOverhead
  BY DEF Piece
<1>4. PlainLen(f, k) = k * plainBS
  BY DEF PlainLen
<1> HIDE DEF c, n
<1>5. CASE k < n - 1
  <2>1. PlainLen(f, k + 1) = (k + 1) * plainBS
    BY <1>1, <1>5 DEF PlainLen, n
  <2>2. (k + 1) * plainBS = k * plainBS + plainBS /\ k * plainBS \in Nat
    BY CipherBSFacts
  <2> QED
    BY <1>1, <1>3, <1>4, <1>5, <2>1, <2>2, CipherBSFacts DEF n
<1>6. CASE k = n - 1
  <2>1. PlainLen(f, k + 1) = CipherSizeToPlainSize(f.size)
    BY <1>1, <1>6 DEF PlainLen, n
  <2>2. CipherOffToBlockNo(f.size - 1) + 1 = k + 1
    BY <1>1, <1>6 DEF n, BlockCount
  <2>3. /\ BlockOverhead * (k + 1) = k * BlockOverhead + BlockOverhead
        /\ k * cipherBS = k * plainBS + k * BlockOverhead
        /\ k * plainBS \in Nat /\ k * BlockOverhead \in Nat
    BY CipherBSFacts
  <2>4. /\ f.size - (BlockOverhead * (k + 1) + HeaderLen) = k * plainBS + (c - BlockOverhead)
        /\ ~ (f.size <= HeaderLen) /\ ~ (BlockOverhead * (k + 1) + HeaderLen > f.size)
    BY <1>1, <1>2, <1>6, <2>3, CipherBSFacts
  <2>5. CipherSizeToPlainSize(f.size) = k * plainBS + (c - BlockOverhead)
    BY <2>2, <2>4 DEF CipherSizeToPlainSize
  <2> QED
    BY <1>1, <1>2, <1>3, <1>4, <1>6, <2>1, <2>5, CipherBSFacts DEF n
<1> QED
  BY <1>1, <1>5, <1>6 DEF n

-----------------------------------------------------------------------------
\* What a reader's step leaves alone of another reader.
Still(s) ==
    /\ pc'[s] = pc[s] /\ file'[s] = file[s] /\ next'[s] = next[s]
    /\ pBuf'[s] = pBuf[s] /\ pBlock'[s] = pBlock[s] /\ out'[s] = out[s]

Others(r) == \A s \in Readers \ {r} : Still(s)

LEMMA StillOK ==
    ASSUME NEW s \in Readers, ReaderOK(s), Still(s), \A x \in Mine(s) : heap'[x] = heap[x]
    PROVE  ReaderOK(s)'
<1>1. Holding(s)'
  BY DEF ReaderOK, Holding, Still
<1>2. pc[s] # "idle" => heap'[pBuf[s]] = heap[pBuf[s]]
  BY DEF ReaderOK, Holding, Mine
<1>3. pc[s] = "write" => heap'[pBlock[s]] = heap[pBlock[s]]
  BY DEF ReaderOK, Holding, Mine
<1>4. out[s] # nil => heap'[out[s]] = heap[out[s]]
  BY DEF Mine
<1>5. Buffers(s)'
  BY <1>2, <1>3 DEF ReaderOK, Buffers, Still
<1>6. Answered(s)'
  BY <1>4 DEF ReaderOK, Answered, Still
<1> QED
  BY <1>1, <1>5, <1>6 DEF ReaderOK

\* It is enough to look at the reader that takes the step.
LEMMA OneReader ==
    ASSUME IInv, NEW r \in Readers, Others(r),
           \A s \in Readers \ {r} : \A x \in Mine(s) : heap'[x] = heap[x],
           TypeOK', OneOwner', ReaderOK(r)', PutsFit'
    PROVE  IInv'
<1>1. ASSUME NEW s \in Readers PROVE ReaderOK(s)'
  BY StillOK DEF IInv, Others
<1> QED
  BY <1>1 DEF IInv

\* What the garbage collector leaves: the arrays that somebody refers to.
LEMMA LiveFacts ==
    ASSUME NEW h, heap' = Live(h)
    PROVE  /\ heap' = [a \in Arrays |-> heap'[a]]
           /\ \A r \in Readers : \A a \in Arrays :
                 a \in {pBuf'[r], pBlock'[r], out'[r]} => heap'[a] = h[a]
<1>1. heap' = [a \in Arrays |-> heap'[a]]
  BY DEF Live
<1>2. ASSUME NEW r \in Readers, NEW a \in Arrays, a \in {pBuf'[r], pBlock'[r], out'[r]}
      PROVE  heap'[a] = h[a]
  <2>1. a \in UNION {{pBuf'[q], pBlock'[q], out'[q]} : q \in Readers}
    BY <1>2, Zenon
  <2>2. a # nil
    BY ArraysAssumption
  <2>3. a \in Owned'
    BY <2>1, <2>2, Zenon DEF Owned
  <2> QED
    BY <2>3 DEF Live
<1> QED
  BY <1>1, <1>2

\* An array that is new or from a pool belongs to no reader.
LEMMA FreshFacts ==
    ASSUME NEW a \in Fresh
    PROVE  a \in Arrays /\ a \notin PReqPool /\ a \notin pBlockPool /\ \A s \in Readers : a \notin Mine(s)
<1>1. a \in Arrays \ (Owned \cup Pooled)
  BY DEF Fresh
<1>2. ASSUME NEW s \in Readers, NEW x \in Mine(s) PROVE x \in Owned
  <2>1. x \in {pBuf[s], pBlock[s], out[s]} /\ x \notin {nil}
    BY DEF Mine
  <2>2. x \in UNION {{pBuf[q], pBlock[q], out[q]} : q \in Readers}
    BY <2>1, Zenon
  <2> QED
    BY <2>1, <2>2, Zenon DEF Owned
<1> QED
  BY <1>1, <1>2 DEF Pooled

\* Ownership moves only between the reader, the pools and what nobody had.
LEMMA OwnersMove ==
    ASSUME IInv, NEW r \in Readers, Others(r),
           PReqPool' \cap pBlockPool' = {},
           \A x \in Mine(r)' : /\ x \notin PReqPool' /\ x \notin pBlockPool'
                               /\ \A s \in Readers \ {r} : x \notin Mine(s),
           PReqPool' \cup pBlockPool' \subseteq PReqPool \cup pBlockPool \cup Mine(r)
    PROVE  OneOwner'
<1>1. ASSUME NEW s \in Readers \ {r} PROVE Mine(s)' = Mine(s)
  BY DEF Others, Still, Mine
<1>2. ASSUME NEW s \in Readers PROVE Mine(s)' \cap (PReqPool' \cup pBlockPool') = {}
  <2>1. CASE s = r
    BY <2>1
  <2>2. CASE s # r
    BY <1>1, <2>2 DEF IInv, OneOwner
  <2> QED
    BY <2>1, <2>2
<1>3. ASSUME NEW s \in Readers, NEW t \in Readers, s # t PROVE Mine(s)' \cap Mine(t)' = {}
  <2>1. CASE s = r
    BY <1>1, <1>3, <2>1
  <2>2. CASE t = r
    BY <1>1, <1>3, <2>2
  <2>3. CASE s # r /\ t # r
    BY <1>1, <1>3, <2>3 DEF IInv, OneOwner
  <2> QED
    BY <2>1, <2>2, <2>3
<1> QED
  BY <1>2, <1>3 DEF OneOwner

\* The other readers' arrays are as they were if the step wrote to none of them.
LEMMA OthersKept ==
    ASSUME IInv, NEW r \in Readers, Others(r), NEW h, heap' = Live(h),
           \A s \in Readers \ {r} : \A x \in Mine(s) : h[x] = heap[x]
    PROVE  \A s \in Readers \ {r} : \A x \in Mine(s) : heap'[x] = heap[x]
<1> SUFFICES ASSUME NEW s \in Readers \ {r}, NEW x \in Mine(s) PROVE heap'[x] = heap[x]
  OBVIOUS
<1>1. x \in Arrays /\ x \in {pBuf'[s], pBlock'[s], out'[s]}
  BY DEF IInv, TypeOK, Mine, Others, Still
<1> QED
  BY <1>1, LiveFacts

\* The step of a reader r that ends with the arrays of h that are still in use.
LEMMA StepOK ==
    ASSUME IInv, NEW r \in Readers, Others(r), NEW h, heap' = Live(h),
           \A s \in Readers \ {r} : \A x \in Mine(s) : h[x] = heap[x],
           TypeOK',
           PReqPool' \cap pBlockPool' = {},
           \A x \in Mine(r)' : /\ x \notin PReqPool' /\ x \notin pBlockPool'
                               /\ \A s \in Readers \ {r} : x \notin Mine(s),
           PReqPool' \cup pBlockPool' \subseteq PReqPool \cup pBlockPool \cup Mine(r),
           ReaderOK(r)', PutsFit'
    PROVE  IInv'
<1>1. OneOwner'
  BY OwnersMove
<1>2. \A s \in Readers \ {r} : \A x \in Mine(s) : heap'[x] = heap[x]
  BY OthersKept
<1> QED
  BY <1>1, <1>2, OneReader

\* decryptFile ends with an error and leaves nothing behind.
LEMMA FailOK ==
    ASSUME IInv, NEW r \in Readers, Fail(r), out'[r] = nil,
           out' = [out EXCEPT ![r] = nil], heap' = Live(heap),
           UNCHANGED <<PReqPool, pBlockPool, panicked>>
    PROVE  IInv'
<1>1. TypeOK'
  BY LiveFacts DEF Fail, IInv, TypeOK
<1>2. Others(r)
  BY DEF Others, Still, Fail, IInv, TypeOK
<1>3. pc'[r] = "idle" /\ next'[r] = 0 /\ pBuf'[r] = nil /\ pBlock'[r] = nil
  BY DEF Fail, IInv, TypeOK
<1>4. Mine(r)' = {}
  BY <1>3 DEF Mine
<1>5. ReaderOK(r)'
  BY <1>3 DEF ReaderOK, Holding, Buffers, Answered
<1>6. PutsFit' /\ PReqPool' \cap pBlockPool' = {}
  BY DEF IInv, PutsFit, OneOwner
<1> QED
  BY <1>1, <1>2, <1>4, <1>5, <1>6, StepOK

LEMMA BadHeaderOK ==
    ASSUME IInv, NEW r \in Readers, NEW f \in Files, BadHeader(r, f)
    PROVE  IInv'
<1>1. out' = [out EXCEPT ![r] = nil] /\ out'[r] = nil
  BY DEF BadHeader, Begin, IInv, TypeOK
<1> QED
  BY <1>1, FailOK DEF BadHeader

LEMMA BlockFailsOK ==
    ASSUME IInv, NEW r \in Readers, BlockFails(r)
    PROVE  IInv'
<1>1. out[r] = nil
  BY DEF BlockFails, IInv, ReaderOK, Holding
<1>2. out' = [out EXCEPT ![r] = nil] /\ out'[r] = nil
  BY <1>1 DEF BlockFails, IInv, TypeOK
<1> QED
  BY <1>2, FailOK DEF BlockFails

LEMMA IndexPanicsOK ==
    ASSUME IInv, NEW r \in Readers, NEW f \in Files, IndexPanics(r, f)
    PROVE  IInv'
<1> USE DEF IndexPanics, Begin
<1>1. TypeOK'
  BY DEF IInv, TypeOK
<1>2. Others(r)
  BY DEF Others, Still, IInv, TypeOK
<1>3. pc'[r] = "idle" /\ next'[r] = 0 /\ pBuf'[r] = nil /\ pBlock'[r] = nil /\ out'[r] = nil
  BY DEF IInv, TypeOK, ReaderOK, Holding
<1>4. Mine(r)' = {}
  BY <1>3 DEF Mine
<1>5. ReaderOK(r)'
  BY <1>3 DEF ReaderOK, Holding, Buffers, Answered
<1>6. PutsFit' /\ PReqPool' \cap pBlockPool' = {}
  BY DEF IInv, PutsFit, OneOwner
<1>7. OneOwner'
  BY <1>2, <1>4, <1>6, OwnersMove
<1> QED
  BY <1>1, <1>2, <1>5, <1>6, <1>7, OneReader

\* A garbage collection of pooled arrays.
LEMMA CollectOK ==
    ASSUME IInv, NEW a \in Arrays, Collect(a)
    PROVE  IInv'
<1> USE DEF Collect
<1>1. TypeOK'
  BY LiveFacts DEF IInv, TypeOK
<1>2. ASSUME NEW s \in Readers PROVE Mine(s)' = Mine(s)
  BY DEF Mine
<1>3. OneOwner'
  BY <1>2 DEF IInv, OneOwner
<1>4. ASSUME NEW s \in Readers PROVE ReaderOK(s)'
  <2>1. ASSUME NEW x \in Mine(s) PROVE heap'[x] = heap[x]
    <3>1. x \in Arrays /\ x \in {pBuf'[s], pBlock'[s], out'[s]}
      BY DEF IInv, TypeOK, Mine
    <3> QED
      BY <3>1, LiveFacts
  <2> QED
    BY <2>1, StillOK DEF Still, IInv
<1> QED
  BY <1>1, <1>3, <1>4 DEF IInv, PutsFit

-----------------------------------------------------------------------------
LEMMA CountFacts ==
    ASSUME NEW f \in Files, readFileID(f)
    PROVE  BlockCount(f) \in Nat \ {0}
<1>1. f.size - 1 - HeaderLen \in Nat
  BY FilesAssumption, CipherBSFacts DEF readFileID
<1>2. (f.size - 1 - HeaderLen) \div cipherBS \in Nat
  BY <1>1, DivMod, CipherBSFacts
<1> QED
  BY <1>2 DEF BlockCount, CipherOffToBlockNo

LEMMA PReqSizeFacts == pReqSize \in Nat
BY BoundsAssumption, CipherBSFacts DEF pReqSize

LEMMA NoPieces == ASSUME NEW f PROVE Pieces(f, 0) = <<>>
<1>1. 1..0 = {}
  OBVIOUS
<1>2. Pieces(f, 0) = [i \in {} |-> Piece(f, i - 1)]
  BY <1>1 DEF Pieces
<1> QED
  BY <1>2

LEMMA OneMore ==
    ASSUME NEW S, NEW x \in Seq(S), NEW e \in S
    PROVE  x \o <<e>> = [i \in 1..(Len(x) + 1) |-> IF i <= Len(x) THEN x[i] ELSE e]
<1>1. <<e>> \in Seq(S) /\ Len(<<e>>) = 1 /\ <<e>>[1] = e
  OBVIOUS
<1>2. x \o <<e>> = Append(x, e)
  OBVIOUS
<1>3. Append(x, e) \in Seq(S) /\ Len(Append(x, e)) = Len(x) + 1
  OBVIOUS
<1>4. \A i \in 1..(Len(x) + 1) : Append(x, e)[i] = IF i <= Len(x) THEN x[i] ELSE e
  OBVIOUS
<1>5. ASSUME NEW z \in Seq(S), NEW m \in Nat, Len(z) = m
      PROVE  z = [i \in 1..m |-> z[i]]
  BY <1>5
<1>6. Append(x, e) = [i \in 1..(Len(x) + 1) |-> Append(x, e)[i]]
  <2>1. Len(x) + 1 \in Nat
    OBVIOUS
  <2> QED
    BY <1>3, <1>5, <2>1, Zenon
<1> QED
  BY <1>2, <1>4, <1>6

\* One more piece in the buffer.
LEMMA MorePieces ==
    ASSUME NEW f, NEW n \in Nat
    PROVE  Pieces(f, n) \o <<Piece(f, n)>> = Pieces(f, n + 1)
<1> DEFINE x == Pieces(f, n)
           e == Piece(f, n)
           S == {Piece(f, i) : i \in 0..n}
<1>1. \A i \in 0..n : Piece(f, i) \in S
  OBVIOUS
<1>2. x = [i \in 1..n |-> Piece(f, i - 1)]
  BY DEF Pieces
<1>3. x \in [1..n -> S] /\ e \in S
  <2> HIDE DEF S
  <2> QED
    BY <1>1, <1>2
<1> HIDE DEF x, e, S
<1>4. x \in Seq(S) /\ Len(x) = n
  BY <1>3
<1>5. x \o <<e>> = [i \in 1..(n + 1) |-> IF i <= n THEN x[i] ELSE e]
  BY <1>3, <1>4, OneMore
<1>6. ASSUME NEW i \in 1..(n + 1) PROVE (IF i <= n THEN x[i] ELSE e) = Piece(f, i - 1)
  <2>1. CASE i <= n
    BY <1>2, <2>1
  <2>2. CASE ~ (i <= n)
    <3>1. i - 1 = n
      BY <2>2
    <3> QED
      BY <2>2, <3>1 DEF e
  <2> QED
    BY <2>1, <2>2
<1>7. x \o <<e>> = [i \in 1..(n + 1) |-> Piece(f, i - 1)]
  BY <1>5, <1>6
<1> QED
  BY <1>7 DEF Pieces, x, e

\* DecryptBlocks begins, with an empty buffer of its own.
LEMMA StartBlocksOK ==
    ASSUME IInv, NEW r \in Readers, NEW f \in Files, StartBlocks(r, f)
    PROVE  IInv'
<1> USE DEF StartBlocks, Begin
<1> PICK a \in PReqPool \cup Fresh :
          /\ pBuf' = [pBuf EXCEPT ![r] = a]
          /\ PReqPool' = PReqPool \ {a}
          /\ heap' = Live([heap EXCEPT ![a] = Slice(<<>>, 0, pReqSize)])
  OBVIOUS
<1> DEFINE h == [heap EXCEPT ![a] = Slice(<<>>, 0, pReqSize)]
<1>1. a \in Arrays /\ a \notin pBlockPool /\ \A s \in Readers : a \notin Mine(s)
  BY FreshFacts DEF IInv, TypeOK, OneOwner
<1>2. TypeOK'
  BY <1>1, LiveFacts DEF IInv, TypeOK
<1>3. Others(r)
  BY DEF Others, Still, IInv, TypeOK
<1>4. /\ pc'[r] = "decrypt" /\ file'[r] = f /\ next'[r] = 0
      /\ pBuf'[r] = a /\ pBlock'[r] = nil /\ out'[r] = nil
  BY DEF IInv, TypeOK, ReaderOK, Holding
<1>5. h[a] = Slice(<<>>, 0, pReqSize) /\ \A x : x # a => h[x] = heap[x]
  BY <1>1 DEF IInv, TypeOK
<1> HIDE DEF h
<1>6. heap'[a] = Slice(<<>>, 0, pReqSize)
  <2>1. heap' = Live(h)
    BY DEF h
  <2> HIDE DEF StartBlocks, Begin
  <2>2. heap'[a] = h[a]
    BY <1>1, <1>4, <2>1, LiveFacts
  <2> QED
    BY <1>5, <2>2
<1>7. a # nil
  BY <1>1, ArraysAssumption
<1>8. Mine(r)' = {a}
  BY <1>4, <1>7 DEF Mine
<1>9. ReaderOK(r)'
  <2>1. Holding(r)'
    BY <1>4, <1>7 DEF Holding
  <2>2. PlainLen(f, 0) = 0 /\ 0 <= BlockCount(f)
    BY CountFacts, CipherBSFacts DEF PlainLen
  <2>3. /\ heap'[a].data = Pieces(f, 0) /\ heap'[a].len = 0 /\ heap'[a].cap = pReqSize
    BY <1>6, NoPieces DEF Slice
  <2>4. \A no \in 0..(next'[r] - 1) : Opens(f, no)
    BY <1>4
  <2>5. Buffers(r)'
    BY <1>4, <2>2, <2>3, <2>4, PReqSizeFacts DEF Buffers
  <2>6. Answered(r)'
    BY <1>4 DEF Answered
  <2> QED
    BY <2>1, <2>5, <2>6 DEF ReaderOK
<1>10. PutsFit' /\ PReqPool' \cap pBlockPool' = {} /\ PReqPool' \cup pBlockPool' \subseteq PReqPool \cup pBlockPool
  BY DEF IInv, PutsFit, OneOwner
<1>11. heap' = Live(h) /\ \A s \in Readers \ {r} : \A x \in Mine(s) : h[x] = heap[x]
  BY <1>1, <1>5 DEF h
<1>12. \A x \in Mine(r)' : /\ x \notin PReqPool' /\ x \notin pBlockPool'
                           /\ \A s \in Readers \ {r} : x \notin Mine(s)
  BY <1>1, <1>8
<1> HIDE DEF StartBlocks, Begin
<1> QED
  BY <1>2, <1>3, <1>9, <1>10, <1>11, <1>12, StepOK

\* A block has been opened into an array that nobody else has.
LEMMA DecryptBlockOK ==
    ASSUME IInv, NEW r \in Readers, DecryptBlock(r)
    PROVE  IInv'
<1> DEFINE f == file[r]
           n == next[r]
           p == Piece(f, n)
<1>1. /\ panicked = "no" /\ pc[r] = "decrypt" /\ n < BlockCount(f) /\ Opens(f, n)
      /\ pc' = [pc EXCEPT ![r] = "write"]
      /\ UNCHANGED <<file, next, pBuf, out, PReqPool, panicked>>
  BY DEF DecryptBlock
<1>2. PICK a \in Fresh \cup pBlockPool :
          /\ pBlock' = [pBlock EXCEPT ![r] = a]
          /\ pBlockPool' = pBlockPool \ {a}
          /\ heap' = Live([heap EXCEPT ![a] = Slice(<<p>>, p.len, plainBS)])
  BY DEF DecryptBlock
<1> DEFINE h == [heap EXCEPT ![a] = Slice(<<p>>, p.len, plainBS)]
<1>3. a \in Arrays /\ a \notin PReqPool /\ a # nil /\ \A s \in Readers : a \notin Mine(s)
  BY FreshFacts, ArraysAssumption DEF IInv, TypeOK, OneOwner
<1>4. TypeOK'
  BY <1>1, <1>2, <1>3, LiveFacts DEF IInv, TypeOK
<1>5. Others(r)
  BY <1>1, <1>2 DEF Others, Still, IInv, TypeOK
<1>6. /\ pBuf[r] # nil /\ out[r] = nil /\ pBuf[r] # a
      /\ pBuf[r] \in Arrays /\ Buffers(r)
  BY <1>1, <1>3 DEF IInv, TypeOK, ReaderOK, Holding, Mine
<1>7. /\ pc'[r] = "write" /\ file'[r] = f /\ next'[r] = n
      /\ pBuf'[r] = pBuf[r] /\ pBlock'[r] = a /\ out'[r] = nil
  BY <1>1, <1>2, <1>6 DEF IInv, TypeOK
<1>8. h[a] = Slice(<<p>>, p.len, plainBS) /\ \A x : x # a => h[x] = heap[x]
  BY <1>3 DEF IInv, TypeOK
<1>9. heap' = Live(h)
  BY <1>2
<1> HIDE DEF h, p, f, n
<1>10. heap'[a] = Slice(<<p>>, p.len, plainBS) /\ heap'[pBuf[r]] = heap[pBuf[r]]
  <2>1. heap'[a] = h[a] /\ heap'[pBuf[r]] = h[pBuf[r]]
    BY <1>3, <1>6, <1>7, <1>9, LiveFacts
  <2> QED
    BY <1>6, <1>8, <2>1
<1>11. ReaderOK(r)'
  <2>1. Holding(r)'
    BY <1>3, <1>6, <1>7 DEF Holding
  <2>2. heap'[a].data = <<p>> /\ heap'[a].len = p.len /\ heap'[a].cap = plainBS
    BY <1>10 DEF Slice
  <2>3. Buffers(r)'
    BY <1>1, <1>6, <1>7, <1>10, <2>2 DEF Buffers, f, n, p
  <2>4. Answered(r)'
    BY <1>7 DEF Answered
  <2> QED
    BY <2>1, <2>3, <2>4 DEF ReaderOK
<1>12. /\ PutsFit' /\ PReqPool' \cap pBlockPool' = {}
       /\ PReqPool' \cup pBlockPool' \subseteq PReqPool \cup pBlockPool
  BY <1>1, <1>2 DEF IInv, PutsFit, OneOwner
<1>13. \A s \in Readers \ {r} : \A x \in Mine(s) : h[x] = heap[x]
  BY <1>3, <1>8
<1>14. ASSUME NEW x \in Mine(r)'
       PROVE  /\ x \notin PReqPool' /\ x \notin pBlockPool'
              /\ \A s \in Readers \ {r} : x \notin Mine(s)
  <2>1. x = a \/ x = pBuf[r]
    BY <1>7 DEF Mine
  <2>2. CASE x = a
    BY <1>1, <1>2, <1>3, <2>2
  <2>3. CASE x = pBuf[r]
    <3>1. x \in Mine(r)
      BY <1>6, <2>3 DEF Mine
    <3> QED
      BY <1>1, <1>2, <3>1 DEF IInv, OneOwner
  <2> QED
    BY <2>1, <2>2, <2>3
<1> QED
  BY <1>4, <1>5, <1>9, <1>11, <1>12, <1>13, <1>14, StepOK

\* The caller is given a buffer that has been grown.
LEMMA ReturnGrownOK ==
    ASSUME IInv, NEW r \in Readers, ReturnGrown(r)
    PROVE  IInv'
<1> USE DEF ReturnGrown, AllDecrypted, Succeed
<1>1. TypeOK'
  BY DEF IInv, TypeOK
<1>2. Others(r)
  BY DEF Others, Still, IInv, TypeOK
<1>3. pBuf[r] # nil /\ pBlock[r] = nil /\ Buffers(r) /\ out[r] = nil
  BY DEF IInv, ReaderOK, Holding
<1>4. /\ pc'[r] = "idle" /\ next'[r] = 0 /\ file'[r] = file[r]
      /\ pBuf'[r] = nil /\ pBlock'[r] = nil /\ out'[r] = pBuf[r]
  BY <1>3 DEF IInv, TypeOK
<1>5. Mine(r)' = Mine(r)
  BY <1>3, <1>4 DEF Mine
<1>6. ReaderOK(r)'
  <2>1. Holding(r)' /\ Buffers(r)'
    BY <1>4 DEF Holding, Buffers
  <2>2. PlainLen(file[r], BlockCount(file[r])) = CipherSizeToPlainSize(file[r].size)
    <3>1. BlockCount(file[r]) \in Nat
      BY <1>3, CountFacts DEF Buffers
    <3> QED
      BY <3>1 DEF PlainLen
  <2>3. Answered(r)'
    BY <1>3, <1>4, <2>2 DEF Buffers, Answered
  <2> QED
    BY <2>1, <2>3 DEF ReaderOK
<1>7. PutsFit' /\ PReqPool' \cap pBlockPool' = {}
  BY DEF IInv, PutsFit, OneOwner
<1>8. OneOwner'
  <2>1. \A x \in Mine(r)' : /\ x \notin PReqPool' /\ x \notin pBlockPool'
                            /\ \A s \in Readers \ {r} : x \notin Mine(s)
    BY <1>5 DEF IInv, OneOwner
  <2> HIDE DEF ReturnGrown
  <2>2. PReqPool' \cup pBlockPool' = PReqPool \cup pBlockPool
    BY DEF ReturnGrown
  <2> QED
    BY <1>2, <1>7, <2>1, <2>2, OwnersMove
<1> QED
  BY <1>1, <1>2, <1>6, <1>7, <1>8, OneReader

\* The caller is given a copy, and the buffer goes back to its pool.
LEMMA ReturnCopyOK ==
    ASSUME IInv, NEW r \in Readers, ReturnCopy(r)
    PROVE  IInv'
<1> DEFINE f == file[r]
           d == heap[pBuf[r]].data
           l == CipherSizeToPlainSize(f.size)
<1>1. /\ panicked = "no" /\ pc[r] = "decrypt" /\ next[r] = BlockCount(f)
      /\ heap[pBuf[r]].cap <= pReqSize
      /\ PReqPool' = PReqPool \cup {pBuf[r]}
      /\ panicked' = IF heap[pBuf[r]].cap = pReqSize THEN "no" ELSE "put"
      /\ UNCHANGED <<file, pBlock, pBlockPool>>
  BY DEF ReturnCopy, AllDecrypted
<1>2. PICK a \in Fresh : Succeed(r, a) /\ heap' = Live([heap EXCEPT ![a] = Slice(d, l, l)])
  BY DEF ReturnCopy
<1> DEFINE h == [heap EXCEPT ![a] = Slice(d, l, l)]
<1>3. /\ a \in Arrays /\ a # nil /\ a \notin PReqPool /\ a \notin pBlockPool
      /\ \A s \in Readers : a \notin Mine(s)
  BY FreshFacts, ArraysAssumption
<1>4. /\ pBuf[r] # nil /\ pBlock[r] = nil /\ out[r] = nil /\ Buffers(r)
      /\ pBuf[r] \in Arrays
  BY <1>1 DEF IInv, TypeOK, ReaderOK, Holding
<1>5. pBuf[r] \in Mine(r) /\ pBuf[r] # a
  BY <1>3, <1>4 DEF Mine
<1>6. TypeOK'
  BY <1>1, <1>2, <1>3, <1>4, LiveFacts DEF IInv, TypeOK, Succeed
<1>7. Others(r)
  BY <1>1, <1>2 DEF Others, Still, IInv, TypeOK, Succeed
<1>8. /\ pc'[r] = "idle" /\ next'[r] = 0 /\ file'[r] = f
      /\ pBuf'[r] = nil /\ pBlock'[r] = nil /\ out'[r] = a
  BY <1>1, <1>2, <1>4 DEF IInv, TypeOK, Succeed
<1>9. h[a] = Slice(d, l, l) /\ \A x : x # a => h[x] = heap[x]
  BY <1>3 DEF IInv, TypeOK
<1>10. heap' = Live(h)
  BY <1>2
<1> HIDE DEF h, l, d, f
<1>11. heap'[a].data = d /\ heap'[a].len = l
  <2>1. heap'[a] = h[a]
    BY <1>3, <1>8, <1>10, LiveFacts
  <2> QED
    BY <1>9, <2>1 DEF Slice
<1>12. ReaderOK(r)'
  <2>1. Holding(r)' /\ Buffers(r)'
    BY <1>8 DEF Holding, Buffers
  <2>2. /\ f \in Files /\ readFileID(f) /\ d = Pieces(f, BlockCount(f))
        /\ \A no \in 0..(BlockCount(f) - 1) : Opens(f, no)
    BY <1>1, <1>4 DEF Buffers, f, d
  <2>3. Answered(r)'
    BY <1>8, <1>11, <2>2 DEF Answered, l
  <2> QED
    BY <2>1, <2>3 DEF ReaderOK
<1>13. PutsFit'
  <2>1. heap[pBuf[r]].cap \in Nat /\ heap[pBuf[r]].cap >= pReqSize
    BY <1>1, <1>4 DEF Buffers
  <2> QED
    BY <1>1, <2>1, PReqSizeFacts DEF PutsFit
<1>14. Mine(r)' = {a}
  BY <1>3, <1>8 DEF Mine
<1>15. /\ PReqPool' \cap pBlockPool' = {}
       /\ PReqPool' \cup pBlockPool' \subseteq PReqPool \cup pBlockPool \cup Mine(r)
  BY <1>1, <1>5 DEF IInv, OneOwner
<1>16. \A x \in Mine(r)' : /\ x \notin PReqPool' /\ x \notin pBlockPool'
                           /\ \A s \in Readers \ {r} : x \notin Mine(s)
  BY <1>1, <1>3, <1>5, <1>14
<1>17. \A s \in Readers \ {r} : \A x \in Mine(s) : h[x] = heap[x]
  BY <1>3, <1>9
<1> QED
  BY <1>6, <1>7, <1>10, <1>12, <1>13, <1>15, <1>16, <1>17, StepOK

\* The piece has been appended, in the array b, and pBlock is back in its pool.
LEMMA AppendOK ==
    ASSUME IInv, NEW r \in Readers, panicked = "no", pc[r] = "write", PutBlock(r),
           UNCHANGED <<file, out, PReqPool>>,
           NEW b, b = pBuf[r] \/ b \in Fresh,
           NEW c \in Nat, c >= pReqSize, heap[pBuf[r]].len + heap[pBlock[r]].len <= c,
           pBuf' = [pBuf EXCEPT ![r] = b],
           heap' = Live([heap EXCEPT ![b] =
                       Slice(heap[pBuf[r]].data \o heap[pBlock[r]].data,
                             heap[pBuf[r]].len + heap[pBlock[r]].len, c)])
    PROVE  IInv'
<1> DEFINE f == file[r]
           n == next[r]
           d == heap[pBuf[r]].data \o heap[pBlock[r]].data
           m == heap[pBuf[r]].len + heap[pBlock[r]].len
           h == [heap EXCEPT ![b] = Slice(d, m, c)]
           v == pBlock[r]
<1>1. /\ pBuf[r] # nil /\ v # nil /\ out[r] = nil /\ pBuf[r] # v /\ Buffers(r)
      /\ pBuf[r] \in Arrays /\ v \in Arrays
  BY DEF IInv, TypeOK, ReaderOK, Holding
<1>2. pBuf[r] \in Mine(r) /\ v \in Mine(r)
  BY <1>1 DEF Mine
<1>3. /\ b \in Arrays /\ b # nil /\ b # v /\ b \notin PReqPool /\ b \notin pBlockPool
      /\ \A s \in Readers \ {r} : b \notin Mine(s)
  <2>1. CASE b = pBuf[r]
    BY <1>1, <1>2, <2>1 DEF IInv, OneOwner
  <2>2. CASE b \in Fresh
    BY <1>2, <2>2, FreshFacts, ArraysAssumption
  <2> QED
    BY <2>1, <2>2
<1>4. n \in Nat /\ f \in Files /\ readFileID(f) /\ n < BlockCount(f) /\ Opens(f, n)
  BY <1>1 DEF Buffers, IInv, TypeOK
<1>5. /\ pBlockPool' = pBlockPool \cup {v} /\ panicked' = "no"
      /\ pBlock' = [pBlock EXCEPT ![r] = nil] /\ next' = [next EXCEPT ![r] = n + 1]
      /\ pc' = [pc EXCEPT ![r] = "decrypt"]
  BY <1>1 DEF PutBlock, Buffers, IInv, TypeOK
<1>6. d = Pieces(f, n + 1) /\ m = PlainLen(f, n + 1)
  <2>1. d = Pieces(f, n) \o <<Piece(f, n)>>
    BY <1>1 DEF Buffers
  <2>2. m = PlainLen(f, n) + Piece(f, n).len
    BY <1>1 DEF Buffers
  <2> QED
    BY <1>4, <2>1, <2>2, MorePieces, PieceFacts
<1>7. heap' = Live(h) /\ m <= c
  OBVIOUS
<1>8. h[b] = Slice(d, m, c) /\ \A x : x # b => h[x] = heap[x]
  BY <1>3 DEF IInv, TypeOK
<1> HIDE DEF h, d, m, f, n, v
<1>9. TypeOK'
  <2>1. heap' = [a \in Arrays |-> heap'[a]]
    BY <1>7, LiveFacts
  <2>2. next' \in [Readers -> Nat] /\ n + 1 \in Nat
    BY <1>4, <1>5 DEF IInv, TypeOK
  <2>3. /\ pc' \in [Readers -> {"idle", "decrypt", "write"}]
        /\ pBlock' \in [Readers -> Arrays \cup {nil}]
        /\ pBuf' \in [Readers -> Arrays \cup {nil}]
    BY <1>3, <1>5 DEF IInv, TypeOK
  <2>4. PReqPool' \subseteq Arrays /\ pBlockPool' \subseteq Arrays
    BY <1>1, <1>5 DEF IInv, TypeOK
  <2> QED
    BY <2>1, <2>2, <2>3, <2>4 DEF IInv, TypeOK
<1>10. Others(r)
  BY <1>5 DEF Others, Still, IInv, TypeOK
<1>11. /\ pc'[r] = "decrypt" /\ file'[r] = f /\ next'[r] = n + 1
       /\ pBuf'[r] = b /\ pBlock'[r] = nil /\ out'[r] = nil
  <2>1. pc'[r] = "decrypt" /\ next'[r] = n + 1 /\ pBlock'[r] = nil
    BY <1>5 DEF IInv, TypeOK
  <2>2. file'[r] = f /\ pBuf'[r] = b /\ out'[r] = nil
    BY <1>1 DEF IInv, TypeOK, f
  <2> QED
    BY <2>1, <2>2
<1>12. heap'[b].data = d /\ heap'[b].len = m /\ heap'[b].cap = c
  <2>1. heap'[b] = h[b]
    BY <1>3, <1>7, <1>11, LiveFacts
  <2> QED
    BY <1>8, <2>1 DEF Slice
<1>13. ReaderOK(r)'
  <2>1. Holding(r)' /\ Answered(r)'
    BY <1>3, <1>11 DEF Holding, Answered
  <2>2. \A no \in 0..(n - 1) : Opens(f, no)
    BY <1>1 DEF Buffers, f, n
  <2>3. \A no \in 0..((n + 1) - 1) : Opens(f, no)
    <3>1. \A no \in 0..((n + 1) - 1) : no \in 0..(n - 1) \/ no = n
      BY <1>4
    <3> QED
      BY <1>4, <2>2, <3>1
  <2>4. n + 1 <= BlockCount(f)
    BY <1>4, CountFacts
  <2>5. Buffers(r)'
    BY <1>4, <1>6, <1>7, <1>11, <1>12, <2>3, <2>4 DEF Buffers
  <2> QED
    BY <2>1, <2>5 DEF ReaderOK
<1>14. PutsFit'
  BY <1>5 DEF PutsFit
<1>15. Mine(r)' = {b}
  BY <1>3, <1>11 DEF Mine
<1>16. /\ PReqPool' \cap pBlockPool' = {}
       /\ PReqPool' \cup pBlockPool' \subseteq PReqPool \cup pBlockPool \cup Mine(r)
  BY <1>2, <1>5 DEF IInv, OneOwner
<1>17. \A x \in Mine(r)' : /\ x \notin PReqPool' /\ x \notin pBlockPool'
                           /\ \A s \in Readers \ {r} : x \notin Mine(s)
  BY <1>3, <1>5, <1>15
<1>18. \A s \in Readers \ {r} : \A x \in Mine(s) : h[x] = heap[x]
  BY <1>3, <1>8
<1> QED
  BY <1>7, <1>9, <1>10, <1>13, <1>14, <1>16, <1>17, <1>18, StepOK

\* bytes.Buffer.Write, with and without growing.
LEMMA WriteOK ==
    ASSUME IInv, NEW r \in Readers, Write(r)
    PROVE  IInv'
<1> DEFINE old == heap[pBuf[r]]
           add == heap[pBlock[r]]
<1>1. panicked = "no" /\ pc[r] = "write" /\ PutBlock(r) /\ UNCHANGED <<file, out, PReqPool>>
  BY DEF Write
<1>2. Buffers(r) /\ next[r] \in Nat
  BY DEF IInv, TypeOK, ReaderOK
<1>3. old.cap \in Nat /\ old.cap >= pReqSize /\ old.len <= old.cap
  BY <1>1, <1>2 DEF Buffers
<1>4. old.len \in Nat /\ add.len \in Nat
  <2>1. /\ next[r] < BlockCount(file[r]) /\ file[r] \in Files /\ readFileID(file[r])
        /\ Opens(file[r], next[r])
        /\ old.len = PlainLen(file[r], next[r]) /\ add.len = Piece(file[r], next[r]).len
    BY <1>1, <1>2 DEF Buffers
  <2>2. /\ PlainLen(file[r], next[r]) = next[r] * plainBS
        /\ Piece(file[r], next[r]).len \in 1..plainBS
    BY <1>2, <2>1, PieceFacts
  <2> QED
    BY <1>2, <2>1, <2>2, CipherBSFacts
<1>5. CASE old.len + add.len <= old.cap
  <2>1. UNCHANGED pBuf
    BY <1>5 DEF Write
  <2>2. heap' = Live([heap EXCEPT ![pBuf[r]] =
                      Slice(old.data \o add.data, old.len + add.len, old.cap)])
    BY <1>5 DEF Write
  <2>3. pBuf' = [pBuf EXCEPT ![r] = pBuf[r]]
    BY <2>1 DEF IInv, TypeOK
  <2> QED
    BY <1>1, <1>3, <1>5, <2>2, <2>3, AppendOK
<1>6. CASE ~ (old.len + add.len <= old.cap)
  <2>1. PICK a \in Fresh :
            /\ pBuf' = [pBuf EXCEPT ![r] = a]
            /\ heap' = Live([heap EXCEPT ![a] =
                       Slice(old.data \o add.data, old.len + add.len, 2 * old.cap + add.len)])
    BY <1>6 DEF Write
  <2>2. /\ 2 * old.cap + add.len \in Nat /\ 2 * old.cap + add.len >= pReqSize
        /\ old.len + add.len <= 2 * old.cap + add.len
    <3>1. ASSUME NEW i \in Nat, NEW j \in Nat, NEW k \in Nat, NEW q \in Nat, i >= q, j <= i
          PROVE  2 * i + k \in Nat /\ 2 * i + k >= q /\ j + k <= 2 * i + k
      BY <3>1
    <3> HIDE DEF old, add
    <3> QED
      BY <1>3, <1>4, <3>1, PReqSizeFacts
  <2> QED
    BY <1>1, <2>1, <2>2, AppendOK
<1> QED
  BY <1>5, <1>6

-----------------------------------------------------------------------------
LEMMA InitIInv == Init => IInv
<1> SUFFICES ASSUME Init PROVE IInv
  OBVIOUS
<1>1. TypeOK
  BY DEF Init, TypeOK
<1>2. \A r \in Readers : Mine(r) = {}
  BY DEF Init, Mine
<1>3. OneOwner
  BY <1>2 DEF Init, OneOwner
<1>4. \A r \in Readers : ReaderOK(r)
  BY DEF Init, ReaderOK, Holding, Buffers, Answered
<1> QED
  BY <1>1, <1>3, <1>4 DEF Init, IInv, PutsFit

LEMMA NextIInv == IInv /\ [Next]_vars => IInv'
<1> SUFFICES ASSUME IInv, [Next]_vars PROVE IInv'
  OBVIOUS
<1>1. ASSUME NEW r \in Readers, Step(r) PROVE IInv'
  <2>1. ASSUME NEW f \in Files, BadHeader(r, f) \/ IndexPanics(r, f) \/ StartBlocks(r, f)
        PROVE  IInv'
    BY <2>1, BadHeaderOK, IndexPanicsOK, StartBlocksOK
  <2>2. CASE DecryptBlock(r)
    BY <2>2, DecryptBlockOK
  <2>3. CASE BlockFails(r)
    BY <2>3, BlockFailsOK
  <2>4. CASE Write(r)
    BY <2>4, WriteOK
  <2>5. CASE ReturnGrown(r)
    BY <2>5, ReturnGrownOK
  <2>6. CASE ReturnCopy(r)
    BY <2>6, ReturnCopyOK
  <2> QED
    BY <1>1, <2>1, <2>2, <2>3, <2>4, <2>5, <2>6 DEF Step
<1>2. ASSUME NEW a \in Arrays, Collect(a) PROVE IInv'
  BY <1>2, CollectOK
<1>3. CASE UNCHANGED vars
  <2>1. \A r \in Readers : Mine(r)' = Mine(r)
    BY <1>3 DEF vars, Mine
  <2>2. OneOwner' /\ TypeOK' /\ PutsFit'
    BY <1>3, <2>1 DEF IInv, OneOwner, TypeOK, PutsFit, vars
  <2>3. ASSUME NEW s \in Readers PROVE ReaderOK(s)'
    BY <1>3, StillOK DEF IInv, Still, vars
  <2> QED
    BY <2>2, <2>3 DEF IInv
<1> QED
  BY <1>1, <1>2, <1>3 DEF Next

\* The inductive invariant holds in every reachable state of decryptFile's readers.
THEOREM Invariance == Spec => []IInv
BY InitIInv, NextIInv, PTL DEF Spec

\* bPool.Put never panics: whatever grew is not offered to the pool (bpool.go).
THEOREM PutsAlwaysFit == Spec => []PutsFit
<1>1. IInv => PutsFit
  BY DEF IInv
<1> QED
  BY <1>1, Invariance, PTL

\* No array is in the hands of two readers, or of a reader or a caller and of a
\* pool (FileTree.decryptFile, ContentEnc.DecryptBlocks).
THEOREM ArraysAreNotShared == Spec => []NoSharedArray
<1>1. IInv => NoSharedArray
  <2> SUFFICES ASSUME IInv PROVE NoSharedArray
    OBVIOUS
  <2>1. nil \notin PReqPool \cup pBlockPool
    BY ArraysAssumption DEF IInv, TypeOK
  <2>2. \A r \in Readers : {pBuf[r], pBlock[r], out[r]} \subseteq Mine(r) \cup {nil}
    BY DEF Mine
  <2>3. ASSUME NEW r \in Readers
        PROVE  {pBuf[r], pBlock[r], out[r]} \cap (PReqPool \cup pBlockPool) = {}
    BY <2>1, <2>2 DEF IInv, OneOwner
  <2>4. ASSUME NEW r \in Readers, NEW s \in Readers, r # s
        PROVE  {pBuf[r], pBlock[r], out[r]} \cap {pBuf[s], pBlock[s], out[s]} \subseteq {nil}
    BY <2>2, <2>4 DEF IInv, OneOwner
  <2> QED
    BY <2>3, <2>4 DEF NoSharedArray, IInv, OneOwner
<1> QED
  BY <1>1, Invariance, PTL

\* What decryptFile has returned is the whole plaintext of its file, and stays so.
THEOREM ResultsArePlaintext == Spec => []ResultIsPlaintext
<1>1. IInv => ResultIsPlaintext
  <2> SUFFICES ASSUME IInv, NEW r \in Readers, out[r] # nil
               PROVE  /\ heap[out[r]].data = Pieces(file[r], BlockCount(file[r]))
                      /\ heap[out[r]].len = CipherSizeToPlainSize(file[r].size)
                      /\ heap[out[r]].len = (BlockCount(file[r]) - 1) * plainBS
                                             + heap[out[r]].data[BlockCount(file[r])].len
                      /\ \A i \in 1..(BlockCount(file[r]) - 1) : heap[out[r]].data[i].len = plainBS
    BY DEF ResultIsPlaintext
  <2> DEFINE f == file[r]
             n == BlockCount(f)
             d == heap[out[r]].data
  <2>1. /\ f \in Files /\ readFileID(f) /\ \A no \in 0..(n - 1) : Opens(f, no)
        /\ d = Pieces(f, n) /\ heap[out[r]].len = CipherSizeToPlainSize(f.size)
    BY DEF IInv, ReaderOK, Answered
  <2>2. n \in Nat \ {0}
    BY <2>1, CountFacts
  <2>3. \A i \in 1..n : d[i] = Piece(f, i - 1)
    BY <2>1 DEF Pieces
  <2> HIDE DEF f, n, d
  <2>4. ASSUME NEW i \in 1..(n - 1) PROVE d[i].len = plainBS
    <3>1. i - 1 \in Nat /\ i - 1 < n - 1 /\ i - 1 < n /\ i - 1 \in 0..(n - 1) /\ i \in 1..n
      BY <2>2
    <3>2. Piece(f, i - 1).len = plainBS
      BY <2>1, <3>1, PieceFacts DEF n
    <3> QED
      BY <2>3, <3>1, <3>2
  <2>5. CipherSizeToPlainSize(f.size) = (n - 1) * plainBS + d[n].len
    <3>1. n - 1 \in Nat /\ n - 1 < n /\ n - 1 \in 0..(n - 1) /\ n \in 1..n /\ (n - 1) + 1 = n
      BY <2>2
    <3>2. /\ PlainLen(f, n - 1) = (n - 1) * plainBS
          /\ PlainLen(f, (n - 1) + 1) = PlainLen(f, n - 1) + Piece(f, n - 1).len
      BY <2>1, <3>1, PieceFacts DEF n
    <3>3. PlainLen(f, n) = CipherSizeToPlainSize(f.size)
      BY <2>2 DEF PlainLen, n
    <3> QED
      BY <2>3, <3>1, <3>2, <3>3
  <2> QED
    BY <2>1, <2>4, <2>5 DEF f, n, d
<1> QED
  BY <1>1, Invariance, PTL

\* No data of a damaged, moved or shortened block reaches a caller.
THEOREM DataIsAuthentic == Spec => []OnlyAuthenticData
<1>1. IInv => OnlyAuthenticData
  <2> SUFFICES ASSUME IInv, NEW r \in Readers, out[r] # nil
               PROVE  /\ file[r].header = [version |-> CurrentVersion, id |-> "random"]
                      /\ \A i \in DOMAIN file[r].kinds :
                            \/ file[r].kinds[i] = "own"
                            \/ file[r].kinds[i] = "zeros" /\ CipherLen(file[r], i - 1) = cipherBS
    BY DEF OnlyAuthenticData
  <2> DEFINE f == file[r]
             n == BlockCount(f)
  <2>1. f \in Files /\ readFileID(f) /\ \A no \in 0..(n - 1) : Opens(f, no)
    BY DEF IInv, ReaderOK, Answered
  <2> HIDE DEF f, n
  <2>2. /\ f.size > HeaderLen /\ f.header \in [version : Nat, id : {"random", "zeros"}]
        /\ f.header.version = CurrentVersion /\ f.header.id # "zeros"
        /\ f.kinds \in Seq({"own", "zeros", "alien"})
    BY <2>1, FilesAssumption DEF readFileID, ParseHeader
  <2>3. Len(f.kinds) = n
    BY <2>1, <2>2, FilesAssumption DEF n
  <2>4. f.header = [version |-> CurrentVersion, id |-> "random"]
    BY <2>2
  <2>5. ASSUME NEW i \in DOMAIN f.kinds
        PROVE  \/ f.kinds[i] = "own"
               \/ f.kinds[i] = "zeros" /\ CipherLen(f, i - 1) = cipherBS
    <3>1. i \in 1..n
      BY <2>2, <2>3
    <3>2. n \in Nat /\ i - 1 \in 0..(n - 1) /\ (i - 1) + 1 = i
      BY <2>1, <3>1, CountFacts DEF n
    <3>3. Opens(f, i - 1)
      BY <2>1, <3>2
    <3> QED
      BY <3>2, <3>3 DEF Opens
  <2> QED
    BY <2>4, <2>5 DEF f
<1> QED
  BY <1>1, Invariance, PTL

-----------------------------------------------------------------------------
(***************************************************************************)
(* EncryptBlocks.                                                          *)
(***************************************************************************)

\* The buffer has the random bytes after lo that were fetched; the nonces are made
\* of others, each of its own.
NoncesUpTo(lo) ==
    /\ buf = (lo + 1)..drawn
    /\ \A i \in DOMAIN nonces :
          /\ nonces[i] \subseteq 1..lo
          /\ Cardinality(nonces[i]) = IVLen
          /\ \A j \in DOMAIN nonces : i # j => nonces[i] \cap nonces[j] = {}

NonceInv ==
    /\ drawn \in Nat
    /\ nonces \in Seq(SUBSET Nat)
    /\ \E lo \in 0..drawn : NoncesUpTo(lo)

\* The mutex is held between Drain and Refill, and no goroutine is left behind.
LockInv ==
    /\ gpc \in [Goroutines -> {"none", "nonce", "refill", "seal", "done"}]
    /\ epc \in [Writers -> {"idle", "encrypt", "put"}]
    /\ randLock \in Goroutines \cup {NoBlock}
    /\ \A g \in Goroutines : gpc[g] = "refill" <=> randLock = g
    /\ \A w \in Writers : epc[w] # "encrypt" => Joined(w)

SealedBlocks == [call : Nat, i : Nat, len : Nat, no : Nat]

BlockTypeOK ==
    /\ calls \in Nat
    /\ args \in [Writers -> [call : Nat, plain : Seq(1..plainBS), first : Nat]]
    /\ ciphertextBlocks \in [Writers -> Seq(CBlocks \cup {NoBlock})]
    /\ written \in [Writers -> Seq(SealedBlocks \cup {NoBlock})]
    /\ at \in [Goroutines -> Nat]
    /\ cBlockPool \subseteq CBlocks
    /\ cHeap \in [CBlocks -> SealedBlocks \cup {NoBlock}]

\* An array has one holder: a position of one call, or the pool.
OneHolder ==
    /\ \A w, x \in Writers : \A k \in DOMAIN ciphertextBlocks[w], l \in DOMAIN ciphertextBlocks[x] :
          ciphertextBlocks[w][k] = ciphertextBlocks[x][l] /\ ciphertextBlocks[w][k] # NoBlock
              => w = x /\ k = l
    /\ \A w \in Writers : \A k \in DOMAIN ciphertextBlocks[w] : ciphertextBlocks[w][k] \notin cBlockPool

PlainBlocks(w) == Len(args[w].plain)

\* block k (from 1) of the call of w, as it is to be sealed
Right(w, k) ==
    [call |-> args[w].call, i |-> k - 1, len |-> args[w].plain[k], no |-> args[w].first + (k - 1)]

\* some goroutine of the call is past block k
Passed(w, k) ==
    \E i \in 0..(Split(PlainBlocks(w)) - 1) :
        Low(PlainBlocks(w), i) < k /\ k <= at[<<w, i>>]

\* block k is not yet back in the pool
Kept(w, k) == k > Len(written[w]) \/ (epc[w] = "put" /\ k = Len(written[w]))

\* where the goroutines of a call are
GroupOK(w) ==
    \A i \in 0..(encryptMaxSplit - 1) :
        /\ i >= Split(PlainBlocks(w)) => gpc[<<w, i>>] = "none"
        /\ i < Split(PlainBlocks(w)) =>
              /\ gpc[<<w, i>>] # "none"
              /\ gpc[<<w, i>>] = "done" => at[<<w, i>>] = High(PlainBlocks(w), i)
              /\ gpc[<<w, i>>] # "done" => at[<<w, i>>] < High(PlainBlocks(w), i)

InHand(w, k) ==
    /\ ciphertextBlocks[w][k] \in CBlocks
    /\ cHeap[ciphertextBlocks[w][k]] = Right(w, k)

\* A call in progress: the blocks that its goroutines are past are sealed, until
\* they are written and put back.
CallOK(w) ==
    epc[w] # "idle" =>
        /\ args[w].plain \in Plaintexts
        /\ Len(ciphertextBlocks[w]) = PlainBlocks(w)
        /\ epc[w] = "encrypt" => Len(written[w]) < PlainBlocks(w)
        /\ epc[w] = "put" => Len(written[w]) \in 1..PlainBlocks(w)
        /\ GroupOK(w)
        /\ \A k \in 1..PlainBlocks(w) : Kept(w, k) /\ Passed(w, k) => InHand(w, k)

\* What has been written so far, and all of it in the end.
OutOK(w) ==
    /\ \A k \in 1..Len(written[w]) : written[w][k] = Right(w, k)
    /\ epc[w] = "idle" => Len(written[w]) = PlainBlocks(w)

BlockInv ==
    /\ BlockTypeOK
    /\ OneHolder
    /\ \A w \in Writers : CallOK(w) /\ OutOK(w)
    /\ ~ putPanic

-----------------------------------------------------------------------------
\* What is read first from a run of bytes that is long enough.
LEMMA FirstBytesFacts ==
    ASSUME NEW lo \in Nat, NEW hi \in Nat, lo + IVLen <= hi
    PROVE  /\ FirstBytes((lo + 1)..hi) = (lo + 1)..(lo + IVLen)
           /\ Cardinality((lo + 1)..(lo + IVLen)) = IVLen
<1> DEFINE b == (lo + 1)..hi
           t == (lo + 1)..(lo + IVLen)
           First(s) == s \in kSubset(IVLen, b) /\ \A x \in s, y \in b \ s : x < y
<1>1. IVLen \in Nat \ {0}
  BY LayoutAssumption
<1>2. IsFiniteSet(t) /\ Cardinality(t) = IVLen
  <2>1. lo + 1 \in Int /\ lo + IVLen \in Int
    BY <1>1
  <2>2. IsFiniteSet(t) /\ Cardinality(t) = IF lo + 1 > lo + IVLen THEN 0 ELSE (lo + IVLen) - (lo + 1) + 1
    BY <2>1, FS_Interval
  <2> QED
    BY <1>1, <2>2
<1>3. IsFiniteSet(b)
  BY FS_Interval
<1>4. First(t)
  <2>1. t \in SUBSET b /\ \A x \in t, y \in b \ t : x < y
    BY <1>1
  <2> QED
    BY <1>2, <2>1 DEF kSubset
<1>5. ASSUME NEW s, First(s) PROVE s = t
  <2>1. s \in SUBSET b /\ Cardinality(s) = IVLen /\ \A x \in s, y \in b \ s : x < y
    BY <1>5 DEF kSubset
  <2>2. IsFiniteSet(s)
    BY <1>3, <2>1, FS_Subset
  <2>3. s \subseteq t \/ t \subseteq s
    <3> SUFFICES ASSUME NEW x \in s, x \notin t, NEW y \in t, y \notin s PROVE FALSE
      OBVIOUS
    <3>1. x \in b /\ y \in b
      BY <1>1, <2>1
    <3>2. x < y
      BY <2>1, <3>1
    <3> QED
      BY <1>1, <3>1, <3>2
  <2> HIDE DEF t, b
  <2>4. CASE s \subseteq t
    BY <1>2, <2>1, <2>4, FS_Subset
  <2>5. CASE t \subseteq s
    BY <1>2, <2>1, <2>2, <2>5, FS_Subset
  <2> QED
    BY <2>3, <2>4, <2>5
<1>6. FirstBytes(b) = CHOOSE s : First(s)
  BY Zenon DEF FirstBytes
<1> HIDE DEF First
<1>7. First(CHOOSE s : First(s))
  BY <1>4, Zenon
<1> QED
  BY <1>2, <1>5, <1>6, <1>7

\* A nonce of the next IVLen bytes has nothing in common with the earlier ones.
LEMMA NewNonce ==
    ASSUME NonceInv, NEW lo \in Nat, NEW hi \in Nat, lo + IVLen <= hi,
           \A i \in DOMAIN nonces : nonces[i] \subseteq 1..lo,
           nonces' = Append(nonces, FirstBytes((lo + 1)..hi)), drawn' = hi,
           buf' = ((lo + 1)..hi) \ FirstBytes((lo + 1)..hi)
    PROVE  NonceInv'
<1> DEFINE new == (lo + 1)..(lo + IVLen)
           m == Len(nonces)
<1>1. IVLen \in Nat \ {0} /\ nonces \in Seq(SUBSET Nat) /\ m \in Nat
  BY LayoutAssumption DEF NonceInv
<1>2. nonces' = Append(nonces, new) /\ Cardinality(new) = IVLen /\ buf' = ((lo + 1)..hi) \ new
  BY FirstBytesFacts
<1>3. new \in SUBSET Nat /\ new \subseteq 1..(lo + IVLen) /\ \A x \in new : x > lo
  BY <1>1
<1>4. buf' = ((lo + IVLen) + 1)..hi
  <2>1. \A x : x \in ((lo + 1)..hi) \ new <=> x \in ((lo + IVLen) + 1)..hi
    BY <1>1
  <2> QED
    BY <1>2, <2>1
<1> HIDE DEF new
<1>5. /\ nonces' \in Seq(SUBSET Nat) /\ DOMAIN nonces' = 1..(m + 1) /\ DOMAIN nonces = 1..m
      /\ \A i \in 1..m : nonces'[i] = nonces[i]
      /\ nonces'[m + 1] = new
  <2>1. ASSUME NEW x \in SUBSET Nat
        PROVE  /\ Append(nonces, x) \in Seq(SUBSET Nat) /\ Len(Append(nonces, x)) = m + 1
               /\ \A i \in 1..m : Append(nonces, x)[i] = nonces[i]
               /\ Append(nonces, x)[m + 1] = x
    BY <1>1
  <2>2. DOMAIN nonces = 1..m
    BY <1>1
  <2>3. nonces' \in Seq(SUBSET Nat) /\ Len(nonces') = m + 1
    BY <1>2, <1>3, <2>1
  <2>4. DOMAIN nonces' = 1..(m + 1)
    BY <2>3
  <2> QED
    BY <1>2, <1>3, <2>1, <2>2, <2>3, <2>4
<1> HIDE DEF m
<1>6. ASSUME NEW i \in 1..(m + 1)
      PROVE  nonces'[i] \subseteq 1..(lo + IVLen) /\ Cardinality(nonces'[i]) = IVLen
  <2>1. CASE i \in 1..m
    <3>1. nonces'[i] \subseteq 1..lo /\ Cardinality(nonces'[i]) = IVLen
      BY <1>5, <2>1 DEF NonceInv, NoncesUpTo
    <3>2. 1..lo \subseteq 1..(lo + IVLen)
      BY <1>1
    <3> QED
      BY <3>1, <3>2
  <2>2. CASE i = m + 1
    BY <1>2, <1>3, <1>5, <2>2
  <2>3. i \in 1..m \/ i = m + 1
    BY <1>1
  <2> QED
    BY <2>1, <2>2, <2>3
<1>7. \A i \in 1..m : nonces[i] \cap new = {}
  <2>1. \A i \in 1..m : \A x \in nonces[i] : x \in 1..lo
    BY <1>5
  <2> QED
    BY <1>3, <2>1
<1>8. ASSUME NEW i \in 1..(m + 1), NEW j \in 1..(m + 1), i # j
      PROVE  nonces'[i] \cap nonces'[j] = {}
  <2>1. (i \in 1..m \/ i = m + 1) /\ (j \in 1..m \/ j = m + 1)
    BY <1>1
  <2>2. CASE i \in 1..m /\ j \in 1..m
    <3>1. nonces[i] \cap nonces[j] = {}
      BY <1>5, <1>8, <2>2 DEF NonceInv, NoncesUpTo
    <3> QED
      BY <1>5, <2>2, <3>1
  <2>3. CASE i = m + 1 /\ j \in 1..m
    BY <1>5, <1>7, <2>3
  <2>4. CASE j = m + 1 /\ i \in 1..m
    BY <1>5, <1>7, <2>4
  <2> QED
    BY <1>8, <2>1, <2>2, <2>3, <2>4
<1>9. NoncesUpTo(lo + IVLen)'
  BY <1>4, <1>5, <1>6, <1>8 DEF NoncesUpTo
<1>10. lo + IVLen \in 0..drawn'
  BY <1>1
<1> QED
  BY <1>5, <1>9, <1>10 DEF NonceInv

LEMMA EncryptInitInv == EncryptInit => NonceInv /\ LockInv
<1> SUFFICES ASSUME EncryptInit PROVE NonceInv /\ LockInv
  OBVIOUS
<1>1. NonceInv
  <2>1. drawn = 0 /\ nonces = <<>> /\ buf = {}
    BY DEF EncryptInit
  <2>2. NoncesUpTo(0)
    BY <2>1 DEF NoncesUpTo
  <2>3. 0 \in 0..drawn
    BY <2>1
  <2> QED
    BY <2>1, <2>2, <2>3 DEF NonceInv
<1>2. LockInv
  BY NoBlockAssumption DEF EncryptInit, LockInv, Joined
<1> QED
  BY <1>1, <1>2

LEMMA NextNonceInv == NonceInv /\ [EncryptNext]_encryptVars => NonceInv'
<1> SUFFICES ASSUME NonceInv, [EncryptNext]_encryptVars PROVE NonceInv'
  OBVIOUS
<1> PICK lo \in 0..drawn : NoncesUpTo(lo)
  BY DEF NonceInv
<1>1. lo \in Nat /\ drawn \in Nat /\ lo <= drawn /\ IVLen \in Nat \ {0} /\ prefetchN \in Nat /\ IVLen <= prefetchN
  BY LayoutAssumption, PrefetchAssumption DEF NonceInv
<1>2. CASE UNCHANGED <<buf, drawn, nonces>>
  BY <1>2 DEF NonceInv, NoncesUpTo
<1>3. ASSUME NEW g \in Goroutines, ReadNonce(g) PROVE NonceInv'
  <2>1. buf = (lo + 1)..drawn /\ Cardinality(buf) >= IVLen
    BY <1>3 DEF ReadNonce, NoncesUpTo
  <2>2. Cardinality((lo + 1)..drawn) = IF lo + 1 > drawn THEN 0 ELSE drawn - (lo + 1) + 1
    BY <1>1, FS_Interval
  <2>3. lo + IVLen <= drawn
    BY <1>1, <2>1, <2>2
  <2>4. /\ nonces' = Append(nonces, FirstBytes((lo + 1)..drawn)) /\ drawn' = drawn
        /\ buf' = ((lo + 1)..drawn) \ FirstBytes((lo + 1)..drawn)
    BY <1>3, <2>1 DEF ReadNonce, HandOut
  <2>5. \A i \in DOMAIN nonces : nonces[i] \subseteq 1..lo
    BY DEF NoncesUpTo
  <2> QED
    BY <1>1, <2>3, <2>4, <2>5, NewNonce
<1>4. ASSUME NEW g \in Goroutines, Refill(g) PROVE NonceInv'
  <2> DEFINE hi == drawn + prefetchN
  <2>1. /\ nonces' = Append(nonces, FirstBytes((drawn + 1)..hi)) /\ drawn' = hi
        /\ buf' = ((drawn + 1)..hi) \ FirstBytes((drawn + 1)..hi)
    BY <1>4 DEF Refill, HandOut
  <2>2. hi \in Nat /\ drawn + IVLen <= hi
    BY <1>1
  <2>3. \A i \in DOMAIN nonces : nonces[i] \subseteq 1..drawn
    <3>1. 1..lo \subseteq 1..drawn
      BY <1>1
    <3> QED
      BY <3>1 DEF NoncesUpTo
  <2> HIDE DEF hi
  <2> QED
    BY <1>1, <2>1, <2>2, <2>3, NewNonce
<1>5. ASSUME NEW g \in Goroutines, Drain(g) PROVE NonceInv'
  <2>1. buf' = {} /\ drawn' = drawn /\ nonces' = nonces
    BY <1>5 DEF Drain
  <2> PICK all : all = drawn
    OBVIOUS
  <2>2. NoncesUpTo(all)'
    <3>1. (all + 1)..drawn = {} /\ 1..lo \subseteq 1..all
      BY <1>1
    <3> QED
      BY <2>1, <3>1 DEF NoncesUpTo
  <2>3. all \in 0..drawn'
    BY <1>1, <2>1
  <2> QED
    BY <2>1, <2>2, <2>3 DEF NonceInv
<1>6. ASSUME EncryptNext,
             \A g \in Goroutines : ~ ReadNonce(g) /\ ~ Refill(g) /\ ~ Drain(g)
      PROVE  UNCHANGED <<buf, drawn, nonces>>
  BY <1>6 DEF EncryptNext, StartEncrypt, WriteBlock, PutCBlock, Seal, randVars
<1>7. CASE UNCHANGED encryptVars
  BY <1>2, <1>7 DEF encryptVars
<1> QED
  BY <1>2, <1>3, <1>4, <1>5, <1>6, <1>7

\* No random byte is in two nonces, and no nonce is short (randPrefetcher.read).
THEOREM NoncesAreAlwaysFresh == EncryptSpec => []NoncesAreFresh
<1>1. NonceInv => NoncesAreFresh
  BY DEF NonceInv, NoncesUpTo, NoncesAreFresh
<1> QED
  BY <1>1, EncryptInitInv, NextNonceInv, PTL DEF EncryptSpec

LEMMA NextLockInv == LockInv /\ [EncryptNext]_encryptVars => LockInv'
<1> SUFFICES ASSUME LockInv, [EncryptNext]_encryptVars PROVE LockInv'
  OBVIOUS
<1>1. ASSUME NEW w \in Writers, NEW p \in Plaintexts, NEW first \in FirstBlockNos,
             StartEncrypt(w, p, first)
      PROVE  LockInv'
  <2>1. \A g \in Goroutines : g[1] = w => gpc[g] # "refill" /\ randLock # g
    BY <1>1 DEF StartEncrypt, LockInv, Joined
  <2>2. /\ randLock' = randLock /\ epc' = [epc EXCEPT ![w] = "encrypt"]
        /\ gpc' = [g \in Goroutines |->
                 IF g[1] # w THEN gpc[g] ELSE IF g[2] < Split(Len(p)) THEN "nonce" ELSE "none"]
    BY <1>1 DEF StartEncrypt, randVars
  <2>3. \A g \in Goroutines : gpc'[g] = "refill" <=> randLock' = g
    BY <2>1, <2>2 DEF LockInv
  <2>4. ASSUME NEW x \in Writers, epc'[x] # "encrypt" PROVE Joined(x)'
    BY <2>2, <2>4 DEF LockInv, Joined
  <2>5. gpc' \in [Goroutines -> {"none", "nonce", "refill", "seal", "done"}]
    BY <2>2 DEF LockInv
  <2> QED
    BY <2>2, <2>3, <2>4, <2>5 DEF LockInv
<1>2. ASSUME NEW w \in Writers, WriteBlock(w) \/ PutCBlock(w) PROVE LockInv'
  <2>1. Joined(w) /\ gpc' = gpc /\ randLock' = randLock
    BY <1>2 DEF WriteBlock, PutCBlock, LockInv, randVars
  <2>2. epc' \in [Writers -> {"idle", "encrypt", "put"}] /\ \A x \in Writers : x # w => epc'[x] = epc[x]
    BY <1>2 DEF WriteBlock, PutCBlock, LockInv
  <2>3. ASSUME NEW x \in Writers, epc'[x] # "encrypt" PROVE Joined(x)'
    BY <2>1, <2>2, <2>3 DEF LockInv, Joined
  <2> QED
    BY <2>1, <2>2, <2>3 DEF LockInv
<1>3. ASSUME NEW g \in Goroutines, gpc[g] \in {"nonce", "refill", "seal"}, epc' = epc,
             NEW v \in {"nonce", "refill", "seal", "done"}, gpc' = [gpc EXCEPT ![g] = v],
             randLock' \in Goroutines \cup {NoBlock},
             \A o \in Goroutines : gpc'[o] = "refill" <=> randLock' = o
      PROVE  LockInv'
  <2>1. ASSUME NEW x \in Writers, epc'[x] # "encrypt" PROVE Joined(x)'
    <3>1. Joined(x)
      BY <1>3, <2>1 DEF LockInv
    <3>2. g[1] # x
      BY <1>3, <3>1 DEF Joined
    <3> QED
      BY <1>3, <3>1, <3>2 DEF Joined, LockInv
  <2> QED
    BY <1>3, <2>1 DEF LockInv
<1>4. ASSUME NEW g \in Goroutines, ReadNonce(g) PROVE LockInv'
  <2>1. /\ gpc[g] = "nonce" /\ gpc' = [gpc EXCEPT ![g] = "seal"] /\ epc' = epc
        /\ randLock' = randLock
    BY <1>4 DEF ReadNonce, HandOut
  <2>2. \A o \in Goroutines : gpc'[o] = "refill" <=> randLock' = o
    BY <2>1 DEF LockInv
  <2> QED
    BY <1>3, <2>1, <2>2 DEF LockInv
<1>5. ASSUME NEW g \in Goroutines, Drain(g) PROVE LockInv'
  <2>1. /\ gpc[g] = "nonce" /\ gpc' = [gpc EXCEPT ![g] = "refill"] /\ epc' = epc
        /\ randLock = NoBlock /\ randLock' = g
    BY <1>5 DEF Drain
  <2>2. \A o \in Goroutines : gpc'[o] = "refill" <=> randLock' = o
    BY <2>1, NoBlockAssumption DEF LockInv
  <2> QED
    BY <1>3, <2>1, <2>2
<1>6. ASSUME NEW g \in Goroutines, Refill(g) PROVE LockInv'
  <2>1. /\ gpc[g] = "refill" /\ gpc' = [gpc EXCEPT ![g] = "seal"] /\ epc' = epc
        /\ randLock' = NoBlock
    BY <1>6 DEF Refill, HandOut
  <2>2. \A o \in Goroutines : gpc'[o] = "refill" <=> randLock' = o
    BY <2>1, NoBlockAssumption DEF LockInv
  <2> QED
    BY <1>3, <2>1, <2>2
<1>7. ASSUME NEW g \in Goroutines, Seal(g) PROVE LockInv'
  <2>1. PICK v \in {"nonce", "done"} : gpc' = [gpc EXCEPT ![g] = v]
    BY <1>7 DEF Seal
  <2>2. gpc[g] = "seal" /\ epc' = epc /\ randLock' = randLock
    BY <1>7 DEF Seal, randVars
  <2>3. \A o \in Goroutines : gpc'[o] = "refill" <=> randLock' = o
    BY <2>1, <2>2 DEF LockInv
  <2> QED
    BY <1>3, <2>1, <2>2, <2>3 DEF LockInv
<1>8. CASE UNCHANGED encryptVars
  BY <1>8 DEF encryptVars, LockInv, Joined
<1> QED
  BY <1>1, <1>2, <1>4, <1>5, <1>6, <1>7, <1>8 DEF EncryptNext

\* Whoever holds the prefetcher's mutex is about to release it (randPrefetcher.read).
THEOREM PrefetcherIsAlwaysReleased == EncryptSpec => []PrefetcherIsReleased
<1>1. LockInv => PrefetcherIsReleased
  BY DEF LockInv, PrefetcherIsReleased
<1> QED
  BY <1>1, EncryptInitInv, NextLockInv, PTL DEF EncryptSpec

-----------------------------------------------------------------------------
\* How EncryptBlocks splits up n blocks: every goroutine has one or more ...
LEMMA SplitFacts ==
    ASSUME NEW n \in Nat \ {0}
    PROVE  /\ Split(n) \in 1..encryptMaxSplit
           /\ n \div Split(n) \in Nat \ {0} /\ Split(n) * (n \div Split(n)) <= n
<1> DEFINE s == Split(n)
           q == n \div s
           m == n % s
<1>1. s \in 1..encryptMaxSplit /\ s <= n
  BY SplitAssumption DEF Split, MinUint64
<1> HIDE DEF s
<1>2. q \in Nat /\ m \in 0..(s - 1) /\ n = s * q + m
  <2>1. s \in Nat \ {0}
    BY <1>1, SplitAssumption
  <2> QED
    BY <2>1, DivMod
<1> HIDE DEF q, m
<1>3. s \in Nat \ {0} /\ s * q \in Nat
  BY <1>1, <1>2, SplitAssumption
<1>4. s * q <= n
  BY <1>2, <1>3
<1>5. q # 0
  <2> SUFFICES ASSUME q = 0 PROVE FALSE
    OBVIOUS
  <2>1. s * q = 0
    BY <1>3
  <2> QED
    BY <1>1, <1>2, <1>3, <2>1
<1> QED
  BY <1>1, <1>2, <1>4, <1>5 DEF s, q

\* ... of the call's own ...
LEMMA RangeFacts ==
    ASSUME NEW n \in Nat \ {0}, NEW i \in 0..(Split(n) - 1)
    PROVE  Low(n, i) \in Nat /\ High(n, i) \in Nat /\ Low(n, i) < High(n, i) /\ High(n, i) <= n
<1> DEFINE s == Split(n)
           q == n \div s
<1>1. s \in Nat \ {0} /\ q \in Nat \ {0} /\ s * q <= n
  BY SplitFacts, SplitAssumption
<1>2. Low(n, i) = i * q /\ High(n, i) = IF i = s - 1 THEN n ELSE (i + 1) * q
  BY DEF Low, High
<1> HIDE DEF s, q
<1>3. i \in 0..(s - 1)
  BY DEF s
<1>4. i \in Nat /\ i * q \in Nat /\ (i + 1) * q = i * q + q /\ s * q \in Nat
  BY <1>1, <1>3
<1>5. (i + 1) * q <= s * q
  <2>1. i + 1 \in Nat /\ i + 1 <= s
    BY <1>1, <1>3
  <2> QED
    BY <1>1, <2>1
<1> QED
  BY <1>1, <1>2, <1>4, <1>5

\* ... and all of them are done when all goroutines are.
LEMMA CoverFacts ==
    ASSUME NEW n \in Nat \ {0}, NEW k \in 1..n
    PROVE  \E i \in 0..(Split(n) - 1) : Low(n, i) < k /\ k <= High(n, i)
<1> DEFINE s == Split(n)
           q == n \div s
           j == (k - 1) \div q
           m == (k - 1) % q
<1>1. s \in Nat \ {0} /\ q \in Nat \ {0}
  BY SplitFacts, SplitAssumption
<1>2. \A i : Low(n, i) = i * q /\ High(n, i) = IF i = s - 1 THEN n ELSE (i + 1) * q
  BY DEF Low, High
<1> HIDE DEF s, q
<1>3. j \in Nat /\ m \in 0..(q - 1) /\ k - 1 = q * j + m
  <2>1. k - 1 \in Nat
    OBVIOUS
  <2> QED
    BY <1>1, <2>1, DivMod
<1> HIDE DEF j, m
<1>4. q * j = j * q /\ j * q \in Nat /\ (j + 1) * q = j * q + q
  BY <1>1, <1>3
<1>5. CASE j < s - 1
  <2>1. j \in 0..(s - 1) /\ j # s - 1
    BY <1>1, <1>3, <1>5
  <2>2. Low(n, j) < k /\ k <= High(n, j)
    BY <1>1, <1>2, <1>3, <1>4, <2>1
  <2> QED
    BY <2>1, <2>2 DEF s
<1>6. CASE ~ (j < s - 1)
  <2>1. s - 1 \in 0..(s - 1) /\ s - 1 \in Nat /\ s - 1 <= j
    BY <1>1, <1>3, <1>6
  <2>2. (s - 1) * q <= j * q /\ (s - 1) * q \in Nat
    BY <1>1, <1>3, <2>1
  <2>3. Low(n, s - 1) = (s - 1) * q /\ High(n, s - 1) = n
    BY <1>2
  <2>4. Low(n, s - 1) < k /\ k <= High(n, s - 1)
    BY <1>1, <1>3, <1>4, <2>2, <2>3
  <2> QED
    BY <2>1, <2>4 DEF s
<1> QED
  BY <1>5, <1>6

-----------------------------------------------------------------------------
LEMMA PlainFacts ==
    ASSUME NEW w \in Writers, args[w].plain \in Plaintexts
    PROVE  PlainBlocks(w) \in Nat \ {0} /\ Split(PlainBlocks(w)) \in 1..encryptMaxSplit
<1>1. args[w].plain \in Seq(1..plainBS) /\ args[w].plain # <<>>
  BY PlaintextsAssumption
<1>2. PlainBlocks(w) \in Nat \ {0}
  BY <1>1 DEF PlainBlocks
<1> QED
  BY <1>2, SplitFacts

LEMMA GoroutineFacts ==
    /\ \A g \in Goroutines : g = <<g[1], g[2]>> /\ g[1] \in Writers /\ g[2] \in 0..(encryptMaxSplit - 1)
    /\ \A w \in Writers : \A i \in 0..(encryptMaxSplit - 1) : <<w, i>> \in Goroutines
BY DEF Goroutines

\* Nothing of the call of x has changed but for where its goroutines are on their way
\* to the next block.
Same(x) ==
    /\ epc'[x] = epc[x] /\ args'[x] = args[x] /\ written'[x] = written[x]
    /\ ciphertextBlocks'[x] = ciphertextBlocks[x]
    /\ \A i \in 0..(encryptMaxSplit - 1) :
          /\ at'[<<x, i>>] = at[<<x, i>>]
          /\ gpc'[<<x, i>>] = "none" <=> gpc[<<x, i>>] = "none"
          /\ gpc'[<<x, i>>] = "done" <=> gpc[<<x, i>>] = "done"
    /\ \A k \in DOMAIN ciphertextBlocks[x] :
          ciphertextBlocks[x][k] \in CBlocks =>
              cHeap'[ciphertextBlocks[x][k]] = cHeap[ciphertextBlocks[x][k]]

LEMMA SameOK ==
    ASSUME BlockTypeOK, NEW x \in Writers, CallOK(x), OutOK(x), Same(x)
    PROVE  CallOK(x)' /\ OutOK(x)'
<1>1. OutOK(x)'
  BY DEF Same, OutOK, PlainBlocks, Right
<1>2. ASSUME epc'[x] # "idle" PROVE CallOK(x)'
  <2>1. /\ epc[x] # "idle" /\ args[x].plain \in Plaintexts
        /\ Len(ciphertextBlocks[x]) = PlainBlocks(x) /\ GroupOK(x)
        /\ epc[x] = "encrypt" => Len(written[x]) < PlainBlocks(x)
        /\ epc[x] = "put" => Len(written[x]) \in 1..PlainBlocks(x)
    BY <1>2 DEF CallOK, Same
  <2>2. PlainBlocks(x) \in Nat \ {0} /\ Split(PlainBlocks(x)) \in 1..encryptMaxSplit
    BY <2>1, PlainFacts
  <2>3. PlainBlocks(x)' = PlainBlocks(x)
    BY DEF Same, PlainBlocks
  <2>4. GroupOK(x)'
    BY <2>1, <2>3 DEF GroupOK, Same
  <2>5. ASSUME NEW k \in 1..PlainBlocks(x), Kept(x, k)', Passed(x, k)' PROVE InHand(x, k)'
    <3>1. Kept(x, k)
      BY <2>5 DEF Kept, Same
    <3>2. PICK i \in 0..(Split(PlainBlocks(x)) - 1) : Low(PlainBlocks(x), i) < k /\ k <= at'[<<x, i>>]
      BY <2>3, <2>5 DEF Passed
    <3>3. i \in 0..(encryptMaxSplit - 1)
      BY <2>2, SplitAssumption
    <3>4. Passed(x, k)
      BY <3>2, <3>3 DEF Passed, Same
    <3>5. InHand(x, k)
      BY <2>1, <3>1, <3>4 DEF CallOK
    <3>6. k \in DOMAIN ciphertextBlocks[x]
      BY <2>1 DEF BlockTypeOK
    <3> QED
      BY <3>5, <3>6 DEF InHand, Same, Right
  <2> QED
    BY <2>1, <2>3, <2>4, <2>5 DEF CallOK, Same
<1> QED
  BY <1>1, <1>2 DEF CallOK

LEMMA EncryptInitBlockInv == EncryptInit => BlockInv
<1> SUFFICES ASSUME EncryptInit PROVE BlockInv
  OBVIOUS
<1>1. BlockTypeOK
  BY DEF EncryptInit, BlockTypeOK, NoArgs
<1>2. OneHolder
  BY DEF EncryptInit, OneHolder
<1>3. \A w \in Writers : CallOK(w) /\ OutOK(w)
  BY DEF EncryptInit, CallOK, OutOK, PlainBlocks, NoArgs
<1> QED
  BY <1>1, <1>2, <1>3 DEF BlockInv, EncryptInit

\* randPrefetcher.read is no business of the blocks.
LEMMA NonceBlockInv ==
    ASSUME BlockInv, LockInv, NEW g \in Goroutines, gpc[g] \in {"nonce", "refill"},
           NEW v \in {"refill", "seal"}, gpc' = [gpc EXCEPT ![g] = v],
           UNCHANGED <<calls, epc, args, written, at, blockVars>>
    PROVE  BlockInv'
<1>1. BlockTypeOK' /\ OneHolder'
  BY DEF BlockInv, BlockTypeOK, OneHolder, blockVars
<1>2. ASSUME NEW x \in Writers PROVE Same(x)
  <2>1. ASSUME NEW i \in 0..(encryptMaxSplit - 1)
        PROVE  /\ gpc'[<<x, i>>] = "none" <=> gpc[<<x, i>>] = "none"
               /\ gpc'[<<x, i>>] = "done" <=> gpc[<<x, i>>] = "done"
    <3>1. <<x, i>> \in Goroutines
      BY GoroutineFacts
    <3> QED
      BY <3>1 DEF LockInv
  <2> QED
    BY <2>1 DEF Same, blockVars
<1>3. ASSUME NEW x \in Writers PROVE CallOK(x)' /\ OutOK(x)'
  BY <1>2, SameOK DEF BlockInv
<1> QED
  BY <1>1, <1>3 DEF BlockInv, blockVars

LEMMA StartBlockInv ==
    ASSUME BlockInv, LockInv, NEW w \in Writers, NEW p \in Plaintexts,
           NEW first \in FirstBlockNos, StartEncrypt(w, p, first)
    PROVE  BlockInv'
<1> DEFINE n == Len(p)
           new == [i \in 1..n |-> NoBlock]
           a == [call |-> calls + 1, plain |-> p, first |-> first]
<1>1. /\ epc[w] = "idle" /\ calls' = calls + 1 /\ ~ putPanic
      /\ epc' = [epc EXCEPT ![w] = "encrypt"] /\ args' = [args EXCEPT ![w] = a]
      /\ ciphertextBlocks' = [ciphertextBlocks EXCEPT ![w] = new]
      /\ written' = [written EXCEPT ![w] = <<>>]
      /\ gpc' = [g \in Goroutines |->
                   IF g[1] # w THEN gpc[g] ELSE IF g[2] < Split(n) THEN "nonce" ELSE "none"]
      /\ at' = [g \in Goroutines |->
                   IF g[1] = w /\ g[2] < Split(n) THEN Low(n, g[2]) ELSE at[g]]
      /\ UNCHANGED <<cBlockPool, cHeap, putPanic>>
  BY DEF StartEncrypt
<1>2. p \in Seq(1..plainBS) /\ first \in Nat /\ n \in Nat \ {0}
  BY PlaintextsAssumption
<1>3. new \in Seq(CBlocks \cup {NoBlock}) /\ Len(new) = n /\ DOMAIN new = 1..n
      /\ \A k \in 1..n : new[k] = NoBlock
  BY <1>2
<1>4. a \in [call : Nat, plain : Seq(1..plainBS), first : Nat] /\ a.plain = p
  BY <1>2 DEF BlockInv, BlockTypeOK
<1> HIDE DEF new, a, n
<1>5. \A i \in 0..(Split(n) - 1) : Low(n, i) \in Nat /\ Low(n, i) < High(n, i)
  BY <1>2, RangeFacts
<1> DEFINE s == Split(n)
<1>5a. s \in Nat \ {0} /\ encryptMaxSplit \in Nat /\ s <= encryptMaxSplit
  <2>1. s \in 1..encryptMaxSplit
    BY <1>2, SplitFacts
  <2> QED
    BY <2>1, SplitAssumption
<1> HIDE DEF s
<1>6. BlockTypeOK'
  <2>1. at' \in [Goroutines -> Nat]
    <3>1. ASSUME NEW g \in Goroutines, g[2] < Split(n) PROVE Low(n, g[2]) \in Nat
      <4>1. g[2] \in 0..(encryptMaxSplit - 1)
        BY GoroutineFacts
      <4>2. g[2] \in 0..(s - 1)
        BY <1>5a, <3>1, <4>1 DEF s
      <4> QED
        BY <1>5, <4>2 DEF s
    <3> QED
      BY <1>1, <3>1 DEF BlockInv, BlockTypeOK
  <2>2. /\ ciphertextBlocks' \in [Writers -> Seq(CBlocks \cup {NoBlock})]
        /\ args' \in [Writers -> [call : Nat, plain : Seq(1..plainBS), first : Nat]]
    BY <1>1, <1>3, <1>4 DEF BlockInv, BlockTypeOK
  <2>3. written' \in [Writers -> Seq(SealedBlocks \cup {NoBlock})]
    BY <1>1 DEF BlockInv, BlockTypeOK
  <2>4. calls' \in Nat /\ cBlockPool' \subseteq CBlocks /\ cHeap' \in [CBlocks -> SealedBlocks \cup {NoBlock}]
    BY <1>1 DEF BlockInv, BlockTypeOK
  <2> QED
    BY <2>1, <2>2, <2>3, <2>4 DEF BlockTypeOK
<1>7. ciphertextBlocks'[w] = new /\ \A x \in Writers : x # w => ciphertextBlocks'[x] = ciphertextBlocks[x]
  BY <1>1 DEF BlockInv, BlockTypeOK
<1>8. OneHolder'
  <2>1. NoBlock \notin cBlockPool
    BY NoBlockAssumption DEF BlockInv, BlockTypeOK
  <2> QED
    BY <1>1, <1>3, <1>7, <2>1 DEF OneHolder, BlockInv
<1>9. ASSUME NEW x \in Writers, x # w PROVE CallOK(x)' /\ OutOK(x)'
  <2>1. ASSUME NEW i \in 0..(encryptMaxSplit - 1)
        PROVE  gpc'[<<x, i>>] = gpc[<<x, i>>] /\ at'[<<x, i>>] = at[<<x, i>>]
    <3>1. <<x, i>> \in Goroutines /\ <<x, i>>[1] # w
      BY <1>9, GoroutineFacts
    <3> QED
      BY <1>1, <3>1
  <2>2. Same(x)
    BY <1>1, <1>9, <2>1 DEF Same, BlockInv, BlockTypeOK, LockInv
  <2> QED
    BY <2>2, SameOK DEF BlockInv
<1>10. CallOK(w)' /\ OutOK(w)'
  <2>1. epc'[w] = "encrypt" /\ args'[w] = a /\ written'[w] = <<>>
    BY <1>1 DEF BlockInv, BlockTypeOK, LockInv
  <2>2. PlainBlocks(w)' = n
    BY <1>4, <2>1 DEF PlainBlocks, n
  <2>3. ASSUME NEW i \in 0..(encryptMaxSplit - 1)
        PROVE  /\ i < Split(n) => gpc'[<<w, i>>] = "nonce" /\ at'[<<w, i>>] = Low(n, i)
               /\ i >= Split(n) => gpc'[<<w, i>>] = "none"
    <3>1. <<w, i>> \in Goroutines /\ <<w, i>>[1] = w /\ <<w, i>>[2] = i
      BY GoroutineFacts
    <3>2. Split(n) \in Nat
      BY <1>2, SplitFacts
    <3> QED
      BY <1>1, <3>1, <3>2
  <2>4. GroupOK(w)'
    <3>1. ASSUME NEW i \in 0..(encryptMaxSplit - 1), i < s
          PROVE  gpc'[<<w, i>>] = "nonce" /\ at'[<<w, i>>] < High(n, i)
      <4>1. i \in 0..(s - 1)
        BY <1>5a, <3>1
      <4> QED
        BY <1>5, <2>3, <3>1, <4>1 DEF s
    <3> QED
      BY <2>2, <2>3, <3>1 DEF GroupOK, s
  <2>5. ASSUME NEW k \in 1..n, Passed(w, k)' PROVE FALSE
    <3>1. PICK i \in 0..(Split(n) - 1) : Low(n, i) < k /\ k <= at'[<<w, i>>]
      BY <2>2, <2>5 DEF Passed
    <3>2. i \in 0..(encryptMaxSplit - 1) /\ i < s
      <4>1. i \in 0..(s - 1)
        BY DEF s
      <4> QED
        BY <1>5a, <4>1
    <3>3. at'[<<w, i>>] = Low(n, i)
      BY <2>3, <3>2 DEF s
    <3> QED
      BY <1>2, <1>5, <3>1, <3>3
  <2>6. Len(written'[w]) = 0
    BY <2>1
  <2>7. CallOK(w)'
    BY <1>2, <1>3, <1>4, <1>7, <2>1, <2>2, <2>4, <2>5, <2>6 DEF CallOK
  <2>8. OutOK(w)'
    BY <2>1, <2>6 DEF OutOK
  <2> QED
    BY <2>7, <2>8
<1> QED
  BY <1>1, <1>6, <1>8, <1>9, <1>10 DEF BlockInv

\* cBlockPool.Get returns an array that no call holds.
LEMMA GetCBlockFacts ==
    ASSUME BlockInv, NEW a \in GetCBlock
    PROVE  /\ a \in CBlocks
           /\ \A x \in Writers : \A k \in DOMAIN ciphertextBlocks[x] : ciphertextBlocks[x][k] # a
<1>1. CASE a \in cBlockPool
  BY <1>1 DEF BlockInv, BlockTypeOK, OneHolder
<1>2. CASE a \in CBlocks \ CHeld
  <2>1. a # NoBlock
    BY <1>2, NoBlockAssumption
  <2>2. ASSUME NEW x \in Writers, NEW k \in DOMAIN ciphertextBlocks[x], ciphertextBlocks[x][k] = a
        PROVE  FALSE
    <3>1. a \in Range(ciphertextBlocks[x])
      BY <2>2, Zenon DEF Range
    <3>2. a \in UNION {Range(ciphertextBlocks[w]) : w \in Writers}
      BY <3>1, Zenon
    <3> QED
      BY <1>2, <2>1, <3>2, Zenon DEF CHeld
  <2> QED
    BY <1>2, <2>2
<1> QED
  BY <1>1, <1>2 DEF GetCBlock

LEMMA FunctionIsSeq ==
    ASSUME NEW S, NEW n \in Nat, NEW z \in [1..n -> S]
    PROVE  z \in Seq(S) /\ Len(z) = n
OBVIOUS

LEMMA SealBlockInv ==
    ASSUME BlockInv, LockInv, NEW g \in Goroutines, Seal(g)
    PROVE  BlockInv'
<1> DEFINE w == g[1]
           i == g[2]
           k == at[g] + 1
           n == PlainBlocks(w)
           old == ciphertextBlocks[w]
<1>1. w \in Writers /\ i \in 0..(encryptMaxSplit - 1) /\ g = <<w, i>>
  BY GoroutineFacts
<1>2. /\ ~ putPanic /\ gpc[g] = "seal"
      /\ at' = [at EXCEPT ![g] = k]
      /\ gpc' = [gpc EXCEPT ![g] = IF k < High(n, i) THEN "nonce" ELSE "done"]
      /\ UNCHANGED <<calls, epc, args, written, putPanic>>
  BY DEF Seal, PlainBlocks
<1>3. PICK a \in GetCBlock :
          /\ cBlockPool' = cBlockPool \ {a}
          /\ cHeap' = [cHeap EXCEPT ![a] = Sealed(g)]
          /\ ciphertextBlocks' = [ciphertextBlocks EXCEPT ![w][k] = a]
  BY DEF Seal
<1>4. /\ a \in CBlocks /\ a # NoBlock
      /\ \A x \in Writers : \A l \in DOMAIN ciphertextBlocks[x] : ciphertextBlocks[x][l] # a
  BY GetCBlockFacts, NoBlockAssumption
<1>5. epc[w] = "encrypt"
  BY <1>1, <1>2 DEF LockInv, Joined
<1>6. /\ args[w].plain \in Plaintexts /\ Len(old) = n /\ GroupOK(w) /\ Len(written[w]) < n
      /\ \A l \in 1..n : Kept(w, l) /\ Passed(w, l) => InHand(w, l)
  BY <1>1, <1>5 DEF BlockInv, CallOK
<1>7. n \in Nat \ {0} /\ Split(n) \in 1..encryptMaxSplit
  BY <1>1, <1>6, PlainFacts
<1>8. i < Split(n) /\ at[g] < High(n, i) /\ at[g] \in Nat
  <2>1. ~ (i >= Split(n))
    BY <1>1, <1>2, <1>6 DEF GroupOK
  <2>2. i < Split(n)
    <3>1. i \in Int /\ Split(n) \in Int
      BY <1>1, <1>7
    <3> HIDE DEF i, n
    <3> QED
      BY <2>1, <3>1
  <2>3. at[<<w, i>>] < High(n, i)
    BY <1>1, <1>2, <1>6, <2>2 DEF GroupOK
  <2>4. at[g] \in Nat
    BY DEF BlockInv, BlockTypeOK
  <2> QED
    BY <1>1, <2>2, <2>3, <2>4
<1>9. High(n, i) \in Nat /\ High(n, i) <= n
  <2>1. i \in 0..(Split(n) - 1)
    BY <1>1, <1>7, <1>8, SplitAssumption
  <2> QED
    BY <1>7, <2>1, RangeFacts
<1>10. k \in 1..n /\ k <= High(n, i)
  BY <1>7, <1>8, <1>9
<1>11. old \in Seq(CBlocks \cup {NoBlock}) /\ DOMAIN old = 1..n
  BY <1>1, <1>6 DEF BlockInv, BlockTypeOK
<1> HIDE DEF w, i, k, n, old
<1>12. /\ ciphertextBlocks'[w] = [old EXCEPT ![k] = a]
       /\ \A x \in Writers : x # w => ciphertextBlocks'[x] = ciphertextBlocks[x]
  BY <1>1, <1>3 DEF BlockInv, BlockTypeOK, old
<1>13. [old EXCEPT ![k] = a] \in Seq(CBlocks \cup {NoBlock}) /\ Len([old EXCEPT ![k] = a]) = n
  <2>1. old \in [1..n -> CBlocks \cup {NoBlock}]
    BY <1>6, <1>7, <1>11 DEF old
  <2>2. [old EXCEPT ![k] = a] \in [1..n -> CBlocks \cup {NoBlock}]
    BY <1>4, <1>10, <2>1
  <2> QED
    BY <1>7, <2>2, FunctionIsSeq
<1>14. Sealed(g) = Right(w, k) /\ Sealed(g) \in SealedBlocks
  <2>1. at[g] = k - 1
    BY <1>8 DEF k
  <2>2. args[w].plain \in Seq(1..plainBS) /\ Len(args[w].plain) = n /\ args[w].call \in Nat /\ args[w].first \in Nat
    BY <1>1 DEF BlockInv, BlockTypeOK, PlainBlocks, n
  <2>3. args[w].plain[k] \in Nat
    BY <1>10, <2>2, CipherBSFacts
  <2>4. Sealed(g) = [call |-> args[w].call, i |-> at[g], len |-> args[w].plain[k], no |-> args[w].first + at[g]]
    BY DEF Sealed, w, k
  <2>5. args[w].first + at[g] \in Nat
    BY <1>8, <2>2
  <2> QED
    BY <1>8, <2>1, <2>2, <2>3, <2>4, <2>5 DEF Right, SealedBlocks
<1>15. /\ cHeap'[a] = Right(w, k) /\ \A b \in CBlocks : b # a => cHeap'[b] = cHeap[b]
       /\ cHeap' \in [CBlocks -> SealedBlocks \cup {NoBlock}]
  BY <1>3, <1>4, <1>14 DEF BlockInv, BlockTypeOK
<1>16. BlockTypeOK'
  <2>1. ciphertextBlocks' \in [Writers -> Seq(CBlocks \cup {NoBlock})]
    <3>1. \A x \in Writers : ciphertextBlocks'[x] \in Seq(CBlocks \cup {NoBlock})
      BY <1>12, <1>13 DEF BlockInv, BlockTypeOK
    <3>2. ciphertextBlocks' = [x \in Writers |-> ciphertextBlocks'[x]]
      BY <1>3 DEF BlockInv, BlockTypeOK
    <3> QED
      BY <3>1, <3>2
  <2>2. at' \in [Goroutines -> Nat]
    BY <1>2, <1>10 DEF BlockInv, BlockTypeOK
  <2> QED
    BY <1>2, <1>3, <1>15, <2>1, <2>2 DEF BlockInv, BlockTypeOK
<1>17. OneHolder'
  <2>1. DOMAIN ciphertextBlocks'[w] = 1..n /\ ciphertextBlocks'[w][k] = a
        /\ \A l \in 1..n : l # k => ciphertextBlocks'[w][l] = old[l]
    BY <1>10, <1>11, <1>12
  <2>2. ASSUME NEW x \in Writers, NEW l \in DOMAIN ciphertextBlocks'[x]
        PROVE  \/ x = w /\ l = k /\ ciphertextBlocks'[x][l] = a
               \/ /\ ciphertextBlocks'[x][l] = ciphertextBlocks[x][l]
                  /\ l \in DOMAIN ciphertextBlocks[x] /\ ciphertextBlocks'[x][l] # a
    BY <1>4, <1>11, <1>12, <2>1 DEF old
  <2>3. ASSUME NEW x \in Writers, NEW y \in Writers,
               NEW l \in DOMAIN ciphertextBlocks'[x], NEW m \in DOMAIN ciphertextBlocks'[y],
               ciphertextBlocks'[x][l] = ciphertextBlocks'[y][m], ciphertextBlocks'[x][l] # NoBlock
        PROVE  x = y /\ l = m
    BY <2>2, <2>3 DEF BlockInv, OneHolder
  <2>4. ASSUME NEW x \in Writers, NEW l \in DOMAIN ciphertextBlocks'[x]
        PROVE  ciphertextBlocks'[x][l] \notin cBlockPool'
    BY <1>3, <2>2 DEF BlockInv, OneHolder
  <2> QED
    BY <2>3, <2>4 DEF OneHolder
<1>18. ASSUME NEW x \in Writers, x # w PROVE CallOK(x)' /\ OutOK(x)'
  <2>1. ASSUME NEW j \in 0..(encryptMaxSplit - 1)
        PROVE  gpc'[<<x, j>>] = gpc[<<x, j>>] /\ at'[<<x, j>>] = at[<<x, j>>]
    <3>1. <<x, j>> \in Goroutines /\ <<x, j>> # g
      BY <1>1, <1>18, GoroutineFacts
    <3> QED
      BY <1>2, <3>1 DEF LockInv, BlockInv, BlockTypeOK
  <2>2. Same(x)
    BY <1>2, <1>4, <1>12, <1>15, <1>18, <2>1 DEF Same
  <2> QED
    BY <2>2, SameOK DEF BlockInv
<1>19. PlainBlocks(w)' = n
  BY <1>2 DEF PlainBlocks, n
<1>20. GroupOK(w)'
  <2>1. ASSUME NEW j \in 0..(encryptMaxSplit - 1), j # i
        PROVE  gpc'[<<w, j>>] = gpc[<<w, j>>] /\ at'[<<w, j>>] = at[<<w, j>>]
    <3>1. <<w, j>> \in Goroutines /\ <<w, j>> # g
      BY <1>1, <2>1, GoroutineFacts
    <3> QED
      BY <1>2, <3>1 DEF LockInv, BlockInv, BlockTypeOK
  <2>2. /\ gpc'[<<w, i>>] = IF k < High(n, i) THEN "nonce" ELSE "done"
        /\ at'[<<w, i>>] = k
    BY <1>1, <1>2 DEF LockInv, BlockInv, BlockTypeOK
  <2>3. ~ (i >= Split(n)) /\ i < Split(n) /\ (~ (k < High(n, i)) => k = High(n, i))
    BY <1>1, <1>7, <1>8, <1>9, <1>10, SplitAssumption
  <2>4. ASSUME NEW j \in 0..(encryptMaxSplit - 1)
        PROVE  /\ j >= Split(n) => gpc'[<<w, j>>] = "none"
               /\ j < Split(n) =>
                     /\ gpc'[<<w, j>>] # "none"
                     /\ gpc'[<<w, j>>] = "done" => at'[<<w, j>>] = High(n, j)
                     /\ gpc'[<<w, j>>] # "done" => at'[<<w, j>>] < High(n, j)
    <3>1. CASE j = i
      BY <2>2, <2>3, <3>1
    <3>2. CASE j # i
      BY <1>6, <2>1, <3>2 DEF GroupOK, n
    <3> QED
      BY <3>1, <3>2
  <2> QED
    BY <1>19, <2>4 DEF GroupOK
<1>21. ASSUME NEW l \in 1..n, Kept(w, l)', Passed(w, l)' PROVE InHand(w, l)'
  <2>1. Kept(w, l)
    BY <1>2, <1>21 DEF Kept
  <2>2. CASE l = k
    <3>1. ciphertextBlocks'[w][l] = a
      BY <1>10, <1>11, <1>12, <2>2
    <3> QED
      BY <1>2, <1>4, <1>15, <2>2, <3>1 DEF InHand, Right
  <2>3. CASE l # k
    <3>1. PICK j \in 0..(Split(n) - 1) : Low(n, j) < l /\ l <= at'[<<w, j>>]
      BY <1>19, <1>21 DEF Passed
    <3>2. j \in 0..(encryptMaxSplit - 1)
      BY <1>7, SplitAssumption
    <3>3. l <= at[<<w, j>>]
      <4>1. <<w, j>> \in Goroutines
        BY <1>1, <3>2, GoroutineFacts
      <4>2. CASE <<w, j>> = g
        <5>1. at'[g] = k
          BY <1>2 DEF BlockInv, BlockTypeOK
        <5>2. k = at[g] + 1
          BY DEF k
        <5> QED
          BY <1>8, <1>10, <2>3, <3>1, <4>2, <5>1, <5>2
      <4>3. CASE <<w, j>> # g
        BY <1>2, <3>1, <4>1, <4>3 DEF BlockInv, BlockTypeOK
      <4> QED
        BY <4>2, <4>3
    <3>4. InHand(w, l)
      BY <1>6, <2>1, <3>1, <3>3 DEF Passed, n
    <3>5. ciphertextBlocks'[w][l] = old[l] /\ old[l] # a
      BY <1>1, <1>4, <1>11, <1>12, <2>3 DEF old
    <3> QED
      BY <1>2, <1>15, <3>4, <3>5 DEF InHand, Right, old
  <2> QED
    BY <2>2, <2>3
<1>22. CallOK(w)'
  BY <1>2, <1>5, <1>6, <1>12, <1>13, <1>19, <1>20, <1>21 DEF CallOK
<1>23. OutOK(w)'
  <2>1. OutOK(w)
    BY <1>1 DEF BlockInv
  <2> QED
    BY <1>2, <2>1 DEF OutOK, PlainBlocks, Right
<1> QED
  BY <1>2, <1>16, <1>17, <1>18, <1>22, <1>23 DEF BlockInv

\* After wg.Wait() all blocks are sealed.
LEMMA AllPassed ==
    ASSUME NEW w \in Writers, Joined(w), GroupOK(w), args[w].plain \in Plaintexts,
           NEW k \in 1..PlainBlocks(w)
    PROVE  Passed(w, k)
<1> DEFINE n == PlainBlocks(w)
<1>1. n \in Nat \ {0} /\ Split(n) \in 1..encryptMaxSplit
  BY PlainFacts
<1>2. PICK i \in 0..(Split(n) - 1) : Low(n, i) < k /\ k <= High(n, i)
  BY <1>1, CoverFacts
<1>3. i \in 0..(encryptMaxSplit - 1) /\ i < Split(n)
  <2> HIDE DEF n
  <2> QED
    BY <1>1, SplitAssumption
<1>4. <<w, i>> \in Goroutines /\ <<w, i>>[1] = w
  BY <1>3, GoroutineFacts
<1>5. gpc[<<w, i>>] = "done"
  BY <1>3, <1>4 DEF GroupOK, Joined
<1>6. at[<<w, i>>] = High(n, i)
  BY <1>3, <1>5 DEF GroupOK
<1> QED
  BY <1>2, <1>6 DEF Passed

\* The concatenation loop touches one call only.
LEMMA LoopSame ==
    ASSUME NEW w \in Writers, NEW x \in Writers, x # w, BlockInv, LockInv,
           UNCHANGED <<args, gpc, at>>,
           epc'[x] = epc[x], written'[x] = written[x], ciphertextBlocks'[x] = ciphertextBlocks[x],
           \A k \in DOMAIN ciphertextBlocks[x] :
              ciphertextBlocks[x][k] \in CBlocks =>
                  cHeap'[ciphertextBlocks[x][k]] = cHeap[ciphertextBlocks[x][k]]
    PROVE  CallOK(x)' /\ OutOK(x)'
<1>1. Same(x)
  BY DEF Same
<1> QED
  BY <1>1, SameOK DEF BlockInv

LEMMA WriteBlockInv ==
    ASSUME BlockInv, LockInv, NEW w \in Writers, WriteBlock(w)
    PROVE  BlockInv'
<1> DEFINE n == PlainBlocks(w)
           l == Len(written[w])
           b == IF Current(w) = NoBlock THEN NoBlock ELSE cHeap[Current(w)]
<1>1. /\ epc[w] = "encrypt" /\ Joined(w)
      /\ epc' = [epc EXCEPT ![w] = "put"]
      /\ written' = [written EXCEPT ![w] = Append(written[w], b)]
      /\ UNCHANGED <<calls, args, gpc, at, ciphertextBlocks, cBlockPool, cHeap, putPanic>>
  BY DEF WriteBlock, blockVars
<1>2. /\ args[w].plain \in Plaintexts /\ Len(ciphertextBlocks[w]) = n /\ GroupOK(w) /\ l < n
      /\ \A k \in 1..n : Kept(w, k) /\ Passed(w, k) => InHand(w, k)
  BY <1>1 DEF BlockInv, CallOK
<1>3. n \in Nat \ {0}
  BY <1>2, PlainFacts
<1>4. written[w] \in Seq(SealedBlocks \cup {NoBlock}) /\ l \in Nat
  BY DEF BlockInv, BlockTypeOK
<1>5. l + 1 \in 1..n
  BY <1>2, <1>3, <1>4
<1>6. InHand(w, l + 1)
  <2>1. Kept(w, l + 1)
    BY <1>4 DEF Kept
  <2>2. Passed(w, l + 1)
    BY <1>1, <1>2, <1>5, AllPassed
  <2> QED
    BY <1>2, <1>5, <2>1, <2>2
<1>7. b = Right(w, l + 1) /\ b \in SealedBlocks \cup {NoBlock}
  <2>1. Current(w) \in CBlocks /\ cHeap[Current(w)] = Right(w, l + 1)
    BY <1>6 DEF InHand, Current
  <2> QED
    BY <2>1, NoBlockAssumption DEF BlockInv, BlockTypeOK
<1> HIDE DEF b
<1>8. /\ Append(written[w], b) \in Seq(SealedBlocks \cup {NoBlock})
      /\ Len(Append(written[w], b)) = l + 1
      /\ Append(written[w], b)[l + 1] = b
      /\ \A k \in 1..l : Append(written[w], b)[k] = written[w][k]
  BY <1>4, <1>7
<1>9. written'[w] = Append(written[w], b) /\ epc'[w] = "put"
  BY <1>1 DEF BlockInv, BlockTypeOK, LockInv
<1>10. BlockTypeOK' /\ OneHolder'
  <2>1. written' \in [Writers -> Seq(SealedBlocks \cup {NoBlock})]
    BY <1>1, <1>8 DEF BlockInv, BlockTypeOK
  <2> QED
    BY <1>1, <2>1 DEF BlockInv, BlockTypeOK, OneHolder
<1>11. ASSUME NEW x \in Writers, x # w PROVE CallOK(x)' /\ OutOK(x)'
  <2>1. epc'[x] = epc[x] /\ written'[x] = written[x]
    BY <1>1, <1>11 DEF BlockInv, BlockTypeOK, LockInv
  <2> QED
    BY <1>1, <1>11, <2>1, LoopSame
<1>12. Len(written'[w]) = l + 1 /\ PlainBlocks(w)' = n
  BY <1>1, <1>8, <1>9 DEF PlainBlocks
<1>13. OutOK(w)'
  <2>1. ASSUME NEW k \in 1..(l + 1) PROVE written'[w][k] = Right(w, k)
    <3>1. CASE k = l + 1
      BY <1>7, <1>8, <1>9, <3>1
    <3>2. CASE k \in 1..l
      <4>1. written[w][k] = Right(w, k)
        BY <3>2 DEF BlockInv, OutOK
      <4> QED
        BY <1>8, <1>9, <3>2, <4>1
    <3>3. k = l + 1 \/ k \in 1..l
      BY <1>4
    <3> QED
      BY <3>1, <3>2, <3>3
  <2> QED
    BY <1>1, <1>9, <1>12, <2>1 DEF OutOK, Right
<1>14. CallOK(w)'
  <2>1. ASSUME NEW k \in 1..n, Kept(w, k)', Passed(w, k)' PROVE InHand(w, k)'
    <3>1. k > l
      BY <1>4, <1>9, <1>12, <2>1 DEF Kept
    <3>2. Kept(w, k) /\ Passed(w, k)
      BY <1>1, <2>1, <3>1 DEF Kept, Passed, PlainBlocks
    <3>3. InHand(w, k)
      BY <1>2, <3>2
    <3> QED
      BY <1>1, <3>3 DEF InHand, Right
  <2>2. GroupOK(w)'
    BY <1>1, <1>2, <1>12 DEF GroupOK
  <2> QED
    BY <1>1, <1>2, <1>5, <1>9, <1>12, <2>1, <2>2 DEF CallOK
<1> QED
  BY <1>1, <1>10, <1>11, <1>13, <1>14 DEF BlockInv

LEMMA PutBlockInv ==
    ASSUME BlockInv, LockInv, NEW w \in Writers, PutCBlock(w)
    PROVE  BlockInv'
<1> DEFINE n == PlainBlocks(w)
           l == Len(written[w])
           old == ciphertextBlocks[w]
           v == old[l]
           new == [old EXCEPT ![l] = NoBlock]
<1>1. /\ epc[w] = "put" /\ putPanic' = (v = NoBlock)
      /\ cBlockPool' = cBlockPool \cup ({v} \ {NoBlock})
      /\ ciphertextBlocks' = [ciphertextBlocks EXCEPT ![w][l] = NoBlock]
      /\ epc' = [epc EXCEPT ![w] = IF l < n THEN "encrypt" ELSE "idle"]
      /\ cHeap' = [a \in CBlocks |-> IF a = v THEN NoBlock ELSE cHeap[a]]
      /\ UNCHANGED <<calls, args, written, gpc, at>>
  BY DEF PutCBlock, PlainBlocks
<1>2. /\ args[w].plain \in Plaintexts /\ Len(old) = n /\ GroupOK(w) /\ l \in 1..n
      /\ \A k \in 1..n : Kept(w, k) /\ Passed(w, k) => InHand(w, k)
  BY <1>1 DEF BlockInv, CallOK
<1>3. n \in Nat \ {0} /\ Joined(w)
  BY <1>1, <1>2, PlainFacts DEF LockInv
<1>4. old \in Seq(CBlocks \cup {NoBlock}) /\ DOMAIN old = 1..n /\ old \in [1..n -> CBlocks \cup {NoBlock}]
  <2>1. old \in Seq(CBlocks \cup {NoBlock}) /\ Len(old) = n
    BY <1>2 DEF BlockInv, BlockTypeOK
  <2> HIDE DEF old, n
  <2> QED
    BY <2>1
<1>5. v \in CBlocks /\ v # NoBlock
  <2>1. Passed(w, l)
    BY <1>2, <1>3, AllPassed
  <2>2. InHand(w, l)
    BY <1>1, <1>2, <2>1 DEF Kept
  <2> QED
    BY <2>2, NoBlockAssumption DEF InHand
<1>6. /\ ciphertextBlocks'[w] = new
      /\ \A x \in Writers : x # w => ciphertextBlocks'[x] = ciphertextBlocks[x]
  BY <1>1 DEF BlockInv, BlockTypeOK
<1> HIDE DEF n, l, old, v
<1>7. new \in Seq(CBlocks \cup {NoBlock}) /\ Len(new) = n
  <2>1. new \in [1..n -> CBlocks \cup {NoBlock}]
    BY <1>2, <1>4
  <2> HIDE DEF new
  <2> QED
    BY <1>3, <2>1, FunctionIsSeq
<1>8. DOMAIN new = 1..n /\ new[l] = NoBlock /\ \A k \in 1..n : k # l => new[k] = old[k]
  BY <1>2, <1>4
<1> HIDE DEF new
<1>9. \A x \in Writers : \A k \in DOMAIN ciphertextBlocks[x] :
          ciphertextBlocks[x][k] = v => x = w /\ k = l
  BY <1>2, <1>4, <1>5 DEF BlockInv, OneHolder, old, v
<1>10. BlockTypeOK'
  <2>1. ciphertextBlocks' \in [Writers -> Seq(CBlocks \cup {NoBlock})]
    <3>1. \A x \in Writers : ciphertextBlocks'[x] \in Seq(CBlocks \cup {NoBlock})
      BY <1>6, <1>7 DEF BlockInv, BlockTypeOK
    <3>2. ciphertextBlocks' = [x \in Writers |-> ciphertextBlocks'[x]]
      BY <1>1 DEF BlockInv, BlockTypeOK
    <3> QED
      BY <3>1, <3>2
  <2>2. cHeap' \in [CBlocks -> SealedBlocks \cup {NoBlock}] /\ cBlockPool' \subseteq CBlocks
    BY <1>1, <1>5 DEF BlockInv, BlockTypeOK
  <2> QED
    BY <1>1, <2>1, <2>2 DEF BlockInv, BlockTypeOK
<1>11. OneHolder'
  <2>1. ASSUME NEW x \in Writers, NEW k \in DOMAIN ciphertextBlocks'[x]
        PROVE  \/ ciphertextBlocks'[x][k] = NoBlock
               \/ /\ ciphertextBlocks'[x][k] = ciphertextBlocks[x][k]
                  /\ k \in DOMAIN ciphertextBlocks[x] /\ ciphertextBlocks'[x][k] # v
    BY <1>4, <1>6, <1>8, <1>9 DEF old
  <2>2. ASSUME NEW x \in Writers, NEW y \in Writers,
               NEW k \in DOMAIN ciphertextBlocks'[x], NEW m \in DOMAIN ciphertextBlocks'[y],
               ciphertextBlocks'[x][k] = ciphertextBlocks'[y][m], ciphertextBlocks'[x][k] # NoBlock
        PROVE  x = y /\ k = m
    BY <2>1, <2>2 DEF BlockInv, OneHolder
  <2>3. ASSUME NEW x \in Writers, NEW k \in DOMAIN ciphertextBlocks'[x]
        PROVE  ciphertextBlocks'[x][k] \notin cBlockPool'
    <3>1. NoBlock \notin cBlockPool'
      BY <1>10, NoBlockAssumption DEF BlockTypeOK
    <3> QED
      BY <1>1, <2>1, <3>1 DEF BlockInv, OneHolder
  <2> QED
    BY <2>2, <2>3 DEF OneHolder
<1>12. ASSUME NEW x \in Writers, x # w PROVE CallOK(x)' /\ OutOK(x)'
  <2>1. epc'[x] = epc[x] /\ written'[x] = written[x] /\ ciphertextBlocks'[x] = ciphertextBlocks[x]
    BY <1>1, <1>6, <1>12 DEF LockInv
  <2>2. ASSUME NEW k \in DOMAIN ciphertextBlocks[x], ciphertextBlocks[x][k] \in CBlocks
        PROVE  cHeap'[ciphertextBlocks[x][k]] = cHeap[ciphertextBlocks[x][k]]
    BY <1>1, <1>9, <1>12, <2>2
  <2> QED
    BY <1>1, <1>12, <2>1, <2>2, LoopSame
<1>13. PlainBlocks(w)' = n /\ epc'[w] = (IF l < n THEN "encrypt" ELSE "idle") /\ Len(written'[w]) = l
  BY <1>1 DEF PlainBlocks, LockInv, n, l
<1>14. OutOK(w)'
  <2>1. \A k \in 1..l : written[w][k] = Right(w, k)
    BY DEF BlockInv, OutOK, l
  <2>2. l \in Nat /\ n \in Nat /\ (~ (l < n) => l = n)
    BY <1>2, <1>3
  <2> QED
    BY <1>1, <1>13, <2>1, <2>2 DEF OutOK, Right
<1>15. CallOK(w)'
  <2>1. ASSUME NEW k \in 1..n, Kept(w, k)', Passed(w, k)' PROVE InHand(w, k)'
    <3>1. k > l /\ k # l
      BY <1>2, <1>13, <2>1 DEF Kept
    <3>2. Kept(w, k) /\ Passed(w, k)
      BY <1>1, <2>1, <3>1 DEF Kept, Passed, PlainBlocks, l
    <3>3. InHand(w, k)
      BY <1>2, <3>2
    <3>4. ciphertextBlocks'[w][k] = old[k] /\ old[k] # v
      BY <1>4, <1>6, <1>8, <1>9, <3>1 DEF old
    <3> QED
      BY <1>1, <3>3, <3>4 DEF InHand, Right, old
  <2>2. GroupOK(w)'
    BY <1>1, <1>2, <1>13 DEF GroupOK, n
  <2> QED
    BY <1>1, <1>2, <1>6, <1>7, <1>13, <2>1, <2>2 DEF CallOK
<1> QED
  BY <1>1, <1>5, <1>10, <1>11, <1>12, <1>14, <1>15 DEF BlockInv

LEMMA NextBlockInv == BlockInv /\ LockInv /\ [EncryptNext]_encryptVars => BlockInv'
<1> SUFFICES ASSUME BlockInv, LockInv, [EncryptNext]_encryptVars PROVE BlockInv'
  OBVIOUS
<1>1. ASSUME NEW w \in Writers, NEW p \in Plaintexts, NEW first \in FirstBlockNos,
             StartEncrypt(w, p, first)
      PROVE  BlockInv'
  BY <1>1, StartBlockInv
<1>2. ASSUME NEW w \in Writers, WriteBlock(w) \/ PutCBlock(w) PROVE BlockInv'
  BY <1>2, WriteBlockInv, PutBlockInv
<1>3. ASSUME NEW g \in Goroutines, ReadNonce(g) PROVE BlockInv'
  BY <1>3, NonceBlockInv DEF ReadNonce, HandOut
<1>4. ASSUME NEW g \in Goroutines, Drain(g) PROVE BlockInv'
  BY <1>4, NonceBlockInv DEF Drain
<1>5. ASSUME NEW g \in Goroutines, Refill(g) PROVE BlockInv'
  BY <1>5, NonceBlockInv DEF Refill, HandOut
<1>6. ASSUME NEW g \in Goroutines, Seal(g) PROVE BlockInv'
  BY <1>6, SealBlockInv
<1>7. CASE UNCHANGED encryptVars
  <2>1. BlockTypeOK' /\ OneHolder' /\ ~ putPanic'
    BY <1>7 DEF encryptVars, BlockInv, BlockTypeOK, OneHolder
  <2>2. ASSUME NEW x \in Writers PROVE CallOK(x)' /\ OutOK(x)'
    <3>1. Same(x)
      BY <1>7 DEF Same, encryptVars
    <3> QED
      BY <3>1, SameOK DEF BlockInv
  <2> QED
    BY <2>1, <2>2 DEF BlockInv
<1> QED
  BY <1>1, <1>2, <1>3, <1>4, <1>5, <1>6, <1>7 DEF EncryptNext

\* EncryptBlocks returns the blocks of its call, complete, in order and sealed with
\* their own numbers, and gives back to cBlockPool nothing but blocks.
THEOREM WrittenAlwaysReadsBack == EncryptSpec => []WrittenReadsBack
<1>1. BlockInv => WrittenReadsBack
  <2> SUFFICES ASSUME BlockInv, NEW w \in Writers, epc[w] = "idle"
               PROVE  /\ Len(written[w]) = Len(args[w].plain)
                      /\ \A i \in DOMAIN written[w] :
                            /\ written[w][i].call = args[w].call
                            /\ written[w][i].i = i - 1
                            /\ written[w][i].len = args[w].plain[i]
                            /\ written[w][i].no = args[w].first + (i - 1)
    BY DEF WrittenReadsBack, BlockInv
  <2>1. Len(written[w]) = Len(args[w].plain)
    BY DEF BlockInv, OutOK, PlainBlocks
  <2>2. \A i \in DOMAIN written[w] : written[w][i] = Right(w, i)
    BY DEF BlockInv, OutOK, BlockTypeOK
  <2>3. ASSUME NEW i \in DOMAIN written[w]
        PROVE  /\ Right(w, i).call = args[w].call /\ Right(w, i).i = i - 1
               /\ Right(w, i).len = args[w].plain[i] /\ Right(w, i).no = args[w].first + (i - 1)
    BY DEF Right
  <2> QED
    BY <2>1, <2>2, <2>3
<1>2. EncryptInit => LockInv /\ BlockInv
  BY EncryptInitInv, EncryptInitBlockInv
<1> QED
  BY <1>1, <1>2, NextLockInv, NextBlockInv, PTL DEF EncryptSpec

====
