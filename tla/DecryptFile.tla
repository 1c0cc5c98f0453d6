----------------------------- MODULE DecryptFile -----------------------------
(***************************************************************************)
(* FileTree.decryptFile and ContentEnc.DecryptBlocks: the way from the     *)
(* bytes of an encrypted file to its plaintext, run by several readers at  *)
(* once that share the two buffer pools of ContentEnc.                     *)
(*                                                                         *)
(* A file is its size, its header, and the kind of each of its blocks:     *)
(*   "own"    sealed by EncryptBlock for this file ID and block number     *)
(*   "zeros"  nothing but zero bytes (a hole, or the end of one)           *)
(*   "alien"  anything else: damaged, cut off, or sealed for another place *)
(* A piece of plaintext is known by the file and block it comes from and   *)
(* its length. Byte slices are objects of a heap, so that it can be seen   *)
(* who else holds the array behind a slice.                                *)
(***************************************************************************)
EXTENDS ContentEnc, FiniteSets, SequencesExt

CONSTANTS
    Readers,            \* goroutines inside decryptFile
    Files,              \* the encrypted files they may be given
    Arrays,             \* identities for heap-allocated byte arrays
    MAX_KERNEL_WRITE    \* what pReqSize is derived from

ASSUME BoundsAssumption ==
    MAX_KERNEL_WRITE \in Nat /\ MAX_KERNEL_WRITE % plainBS = 0

VARIABLES
    pc,         \* reader -> "idle", "decrypt" or "write"
    file,       \* reader -> the file of its call
    next,       \* reader -> number of blocks that are written to pBuf
    pBuf,       \* reader -> array behind the bytes.Buffer pBuf, or nil
    pBlock,     \* reader -> array behind pBlock, or nil
    out,        \* reader -> array behind the slice its last call returned,
                \* nil before and after an error
    heap,       \* array -> [data, len, cap]: pieces in it, slice length, capacity
    PReqPool,   \* arrays in ContentEnc.PReqPool
    pBlockPool, \* arrays in ContentEnc.pBlockPool
    panicked    \* "no", or why a goroutine panicked and the process is gone

vars == <<pc, file, next, pBuf, pBlock, out, heap, PReqPool, pBlockPool,
          panicked>>

nil == "nil"

ASSUME ArraysAssumption == nil \notin Arrays

NoFile == [size |-> 0, header |-> [version |-> 0, id |-> "zeros"], kinds |-> <<>>]

pReqSize == MAX_KERNEL_WRITE + plainBS

CurrentVersion == 2

\* ParseHeader returns no error
ParseHeader(h) == h.version = CurrentVersion /\ h.id # "zeros"

\* nor does readFileID: a bare header or less is io.EOF
readFileID(f) == f.size > HeaderLen /\ ParseHeader(f.header)

-----------------------------------------------------------------------------
\* Blocks of a file, numbered from 0 as in the code.

CipherLen(f, no) == MinUint64(cipherBS, f.size - BlockNoToCipherOff(no))

BlockCount(f) == CipherOffToBlockNo(f.size - 1) + 1

\* a file has the kind of each of its blocks; EncryptBlock seals no empty plaintext,
\* so that an "own" block is longer than its overhead
ASSUME FilesAssumption ==
    \A f \in Files :
        /\ f.size \in Nat
        /\ f.header \in [version : Nat, id : {"random", "zeros"}]
        /\ f.kinds \in Seq({"own", "zeros", "alien"})
        /\ f.size > HeaderLen => Len(f.kinds) = BlockCount(f)
        /\ \A no \in 0..(Len(f.kinds) - 1) :
              f.kinds[no + 1] = "own" => CipherLen(f, no) > BlockOverhead

\* Mutation of Opens: a run of zeros counts as a hole whatever its length
Mut_Opens(f, no) ==
    \/ f.kinds[no + 1] = "zeros"
    \/ /\ CipherLen(f, no) >= IVLen
       /\ f.kinds[no + 1] = "own"

\* Does DecryptBlock return plaintext? Only a full block of zeros is a hole. A
\* shorter one is too short or has a zero nonce, and Open accepts no alien block.
Opens(f, no) ==
    \/ f.kinds[no + 1] = "zeros" /\ CipherLen(f, no) = cipherBS
    \/ /\ CipherLen(f, no) >= IVLen
       /\ f.kinds[no + 1] = "own"

Piece(f, no) == [file |-> f, no |-> no, len |-> CipherLen(f, no) - BlockOverhead]

-----------------------------------------------------------------------------
Owned == (UNION {{pBuf[r], pBlock[r], out[r]} : r \in Readers}) \ {nil}

Pooled == PReqPool \cup pBlockPool

\* what make([]byte, n) returns: which of the unused identities makes no difference
Fresh ==
    LET free == Arrays \ (Owned \cup Pooled)
    IN  IF free = {} THEN {} ELSE {CHOOSE a \in free : TRUE}

Slice(data, len, cap) == [data |-> data, len |-> len, cap |-> cap]

NoSlice == Slice(<<>>, 0, 0)

\* The heap h after a step. What is left in a pooled array is never read, as its
\* next user starts at [:0], and nothing is left of an array without a reference.
Live(h) ==
    [a \in Arrays |->
        IF a \in Owned' THEN h[a]
        ELSE IF a \in Pooled' THEN Slice(<<>>, 0, h[a].cap)
        ELSE NoSlice]

Init ==
    /\ pc = [r \in Readers |-> "idle"]
    /\ file = [r \in Readers |-> NoFile]
    /\ next = [r \in Readers |-> 0]
    /\ pBuf = [r \in Readers |-> nil]
    /\ pBlock = [r \in Readers |-> nil]
    /\ out = [r \in Readers |-> nil]
    /\ heap = [a \in Arrays |-> NoSlice]
    /\ PReqPool = {}
    /\ pBlockPool = {}
    /\ panicked = "no"

\* decryptFile gives up with an error; arrays it holds are left to the collector
Fail(r) ==
    /\ pc' = [pc EXCEPT ![r] = "idle"]
    /\ file' = [file EXCEPT ![r] = NoFile]
    /\ next' = [next EXCEPT ![r] = 0]
    /\ pBuf' = [pBuf EXCEPT ![r] = nil]
    /\ pBlock' = [pBlock EXCEPT ![r] = nil]

\* The caller is done with its last result and calls decryptFile.
Begin(r) ==
    /\ panicked = "no"
    /\ pc[r] = "idle"
    /\ out' = [out EXCEPT ![r] = nil]

\* decryptFile returns the error of readFileID
BadHeader(r, f) ==
    /\ Begin(r)
    /\ ~ readFileID(f)
    /\ Fail(r)
    /\ UNCHANGED <<PReqPool, pBlockPool, panicked>>
    /\ heap' = Live(heap)

\* blocks[0] of the empty slice that ExplodePlainRange(0, 0) returns
IndexPanics(r, f) ==
    /\ Begin(r)
    /\ readFileID(f)
    /\ ExplodePlainRange(0, CipherSizeToPlainSize(f.size)) = <<>>
    /\ panicked' = "index"
    /\ UNCHANGED <<pc, file, next, pBuf, pBlock, heap, PReqPool, pBlockPool>>

\* DecryptBlocks of everything behind alignedOffset: PReqPool.Get takes a pooled
\* array, or a new one where this P's share of the sync.Pool is empty
StartBlocks(r, f) ==
    /\ Begin(r)
    /\ readFileID(f)
    /\ ExplodePlainRange(0, CipherSizeToPlainSize(f.size)) # <<>>
    /\ pc' = [pc EXCEPT ![r] = "decrypt"]
    /\ file' = [file EXCEPT ![r] = f]
    /\ UNCHANGED <<next, pBlock, pBlockPool, panicked>>
    /\ \E a \in PReqPool \cup Fresh :
          /\ pBuf' = [pBuf EXCEPT ![r] = a]
          /\ PReqPool' = PReqPool \ {a}
          /\ heap' = Live([heap EXCEPT ![a] = Slice(<<>>, 0, pReqSize)])

\* one DecryptBlock: a hole is made fresh, plaintext goes to a pooled array
DecryptBlock(r) ==
    /\ panicked = "no"
    /\ pc[r] = "decrypt" /\ next[r] < BlockCount(file[r])
    /\ Opens(file[r], next[r])
    /\ pc' = [pc EXCEPT ![r] = "write"]
    /\ UNCHANGED <<file, next, pBuf, out, PReqPool, panicked>>
    /\ \E a \in Fresh \cup (IF file[r].kinds[next[r] + 1] = "own" THEN pBlockPool ELSE {}) :
          LET p == Piece(file[r], next[r]) IN
          /\ pBlock' = [pBlock EXCEPT ![r] = a]
          /\ pBlockPool' = pBlockPool \ {a}
          /\ heap' = Live([heap EXCEPT ![a] = Slice(<<p>>, p.len, plainBS)])

\* DecryptBlock returns an error: the loop breaks (forceDecode is FALSE)
BlockFails(r) ==
    /\ panicked = "no"
    /\ pc[r] = "decrypt" /\ next[r] < BlockCount(file[r])
    /\ ~ Opens(file[r], next[r])
    /\ Fail(r)
    /\ UNCHANGED <<out, PReqPool, pBlockPool, panicked>>
    /\ heap' = Live(heap)

\* pBlockPool.Put(pBlock), on to the next block
PutBlock(r) ==
    /\ pBlockPool' = pBlockPool \cup {pBlock[r]}
    /\ panicked' = IF heap[pBlock[r]].cap = plainBS THEN "no" ELSE "put"
    /\ pBlock' = [pBlock EXCEPT ![r] = nil]
    /\ next' = [next EXCEPT ![r] = @ + 1]
    /\ pc' = [pc EXCEPT ![r] = "decrypt"]

\* Mutation of Write: pBuf is not grown, what does not fit is dropped
Mut_Write(r) ==
    /\ panicked = "no"
    /\ pc[r] = "write"
    /\ PutBlock(r)
    /\ UNCHANGED <<file, pBuf, out, PReqPool>>
    /\ LET old == heap[pBuf[r]]
           add == heap[pBlock[r]]
           n   == old.len + add.len
       IN  heap' = Live([heap EXCEPT ![pBuf[r]] =
                            IF n > old.cap THEN old ELSE Slice(old.data \o add.data, n, old.cap)])

\* pBuf.Write(pBlock), which moves to an array of twice the capacity plus the
\* piece when the piece does not fit, and Put
Write(r) ==
    /\ panicked = "no"
    /\ pc[r] = "write"
    /\ PutBlock(r)
    /\ UNCHANGED <<file, out, PReqPool>>
    /\ LET old  == heap[pBuf[r]]
           add  == heap[pBlock[r]]
           data == old.data \o add.data
           n    == old.len + add.len
       IN  IF n <= old.cap
           THEN /\ UNCHANGED pBuf
                /\ heap' = Live([heap EXCEPT ![pBuf[r]] = Slice(data, n, old.cap)])
           ELSE \E a \in Fresh :
                /\ pBuf' = [pBuf EXCEPT ![r] = a]
                /\ heap' = Live([heap EXCEPT ![a] = Slice(data, n, 2 * old.cap + add.len)])

\* decryptFile returns a slice of array a
Succeed(r, a) ==
    /\ pc' = [pc EXCEPT ![r] = "idle"]
    /\ next' = [next EXCEPT ![r] = 0]
    /\ out' = [out EXCEPT ![r] = a]
    /\ pBuf' = [pBuf EXCEPT ![r] = nil]

AllDecrypted(r) ==
    /\ panicked = "no"
    /\ pc[r] = "decrypt"
    /\ next[r] = BlockCount(file[r])

\* a buffer that was grown is of no use to the pool: the caller may have it
ReturnGrown(r) ==
    /\ AllDecrypted(r)
    /\ heap[pBuf[r]].cap > pReqSize
    /\ Succeed(r, pBuf[r])
    /\ UNCHANGED <<file, pBlock, heap, PReqPool, pBlockPool, panicked>>

\* Mutation of ReturnCopy: the pooled array itself is returned
Mut_ReturnCopy(r) ==
    /\ AllDecrypted(r)
    /\ heap[pBuf[r]].cap <= pReqSize
    /\ Succeed(r, pBuf[r])
    /\ PReqPool' = PReqPool \cup {pBuf[r]}
    /\ UNCHANGED <<file, pBlock, heap, pBlockPool, panicked>>

\* Mutation of ReturnCopy: grown buffers are copied and put back, too
Mut_ReturnCopy2(r) ==
    /\ AllDecrypted(r)
    /\ PReqPool' = PReqPool \cup {pBuf[r]}
    /\ panicked' = IF heap[pBuf[r]].cap = pReqSize THEN "no" ELSE "put"
    /\ UNCHANGED <<file, pBlock, pBlockPool>>
    /\ \E a \in Fresh :
          LET plainLength == CipherSizeToPlainSize(file[r].size) IN
          /\ Succeed(r, a)
          /\ heap' = Live([heap EXCEPT ![a] =
                               Slice(heap[pBuf[r]].data, plainLength, plainLength)])

\* the plaintext is copied to an array of plainLength bytes, and the buffer goes
\* back to PReqPool
ReturnCopy(r) ==
    /\ AllDecrypted(r)
    /\ heap[pBuf[r]].cap <= pReqSize
    /\ PReqPool' = PReqPool \cup {pBuf[r]}
    /\ panicked' = IF heap[pBuf[r]].cap = pReqSize THEN "no" ELSE "put"
    /\ UNCHANGED <<file, pBlock, pBlockPool>>
    /\ \E a \in Fresh :
          LET plainLength == CipherSizeToPlainSize(file[r].size) IN
          /\ Succeed(r, a)
          /\ heap' = Live([heap EXCEPT ![a] =
                               Slice(heap[pBuf[r]].data, plainLength, plainLength)])

\* a garbage collection takes an array out of its sync.Pool
Collect(a) ==
    /\ panicked = "no"
    /\ a \in Pooled
    /\ PReqPool' = PReqPool \ {a}
    /\ pBlockPool' = pBlockPool \ {a}
    /\ UNCHANGED <<pc, file, next, pBuf, pBlock, out, panicked>>
    /\ heap' = Live(heap)

Step(r) ==
    \/ \E f \in Files : BadHeader(r, f) \/ IndexPanics(r, f) \/ StartBlocks(r, f)
    \/ DecryptBlock(r) \/ BlockFails(r) \/ Write(r)
    \/ ReturnGrown(r) \/ ReturnCopy(r)

Next == (\E r \in Readers : Step(r)) \/ (\E a \in Arrays : Collect(a))

Spec == Init /\ [][Next]_vars

-----------------------------------------------------------------------------
\* No array of a wrong capacity is offered to a pool: bPool.Put would panic, as
\* would it for a buffer that bytes.Buffer had to grow.
PutsFit == panicked # "put"

\* One owner per array: what a reader works on, what a caller was given and what
\* lies in a pool never share an array (decryptFile copies before PReqPool.Put).
NoSharedArray ==
    /\ PReqPool \cap pBlockPool = {}
    /\ \A r \in Readers :
          {pBuf[r], pBlock[r], out[r]} \cap (PReqPool \cup pBlockPool) = {}
    /\ \A r, s \in Readers :
          r # s => {pBuf[r], pBlock[r], out[r]} \cap {pBuf[s], pBlock[s], out[s]} \subseteq {nil}

\* the first n pieces of a file's plaintext
Pieces(f, n) == [i \in 1..n |-> Piece(f, i - 1)]

\* The slice a caller holds is the plaintext of its file, block by block and in
\* order, as long as CipherSizeToPlainSize promises in a listing, and made of full
\* blocks and a last one, with nothing cut off and nothing padded; and it stays so
\* while other readers run.
ResultIsPlaintext ==
    \A r \in Readers :
        out[r] # nil =>
            LET h == heap[out[r]]
                n == BlockCount(file[r])
            IN
            /\ h.data = Pieces(file[r], n)
            /\ h.len = CipherSizeToPlainSize(file[r].size)
            /\ h.len = (n - 1) * plainBS + h.data[n].len
            /\ \A i \in 1..(n - 1) : h.data[i].len = plainBS

\* decryptFile returns data only if every block authenticates for its place in
\* its file or is a complete hole; no damaged block reaches a client.
OnlyAuthenticData ==
    \A r \in Readers :
        out[r] # nil =>
            LET f == file[r] IN
            /\ f.header = [version |-> CurrentVersion, id |-> "random"]
            /\ \A i \in DOMAIN f.kinds :
                  \/ f.kinds[i] = "own"
                  \/ f.kinds[i] = "zeros" /\ CipherLen(f, i - 1) = cipherBS

\* An encrypted file is turned into plaintext or an error, never a panic:
\* readFileID is to report "practically empty" files.
NeverPanics == panicked = "no"

====
