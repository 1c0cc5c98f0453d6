---------------------------- MODULE EncryptBlocks ----------------------------
(***************************************************************************)
(* ContentEnc.EncryptBlocks: the way from plaintext blocks to the bytes    *)
(* that are written, by one goroutine or, for a large write, by several,   *)
(* with the nonces that package cryptocore prefetches.                     *)
(*                                                                         *)
(* Random bytes are numbered in the order the system hands them out, a     *)
(* nonce is a set of them.  A sealed block is known by what went into it:  *)
(* call and position of the plaintext, its length, and the block number of *)
(* the associated data.                                                    *)
(***************************************************************************)
EXTENDS ContentEnc, FiniteSets, SequencesExt, FiniteSetsExt

CONSTANTS
    Writers,            \* goroutines that call EncryptBlocks
    Plaintexts,         \* what they pass: the lengths of the plaintext blocks
    FirstBlockNos,      \* and the number of the first one
    MaxCalls,           \* bound on the number of calls
    NumCPU,             \* runtime.NumCPU()
    encryptMaxSplit,    \* at most so many goroutines per call (2)
    ParallelFrom,       \* from so many blocks on (32)
    prefetchN,          \* random bytes fetched at a time (512)
    CBlocks,            \* identities for arrays of cipherBS bytes
    NoBlock             \* nil

\* log.Panicf("randPrefetcher could not satisfy read")
ASSUME PrefetchAssumption == prefetchN \in Nat /\ IVLen <= prefetchN

\* there is a CPU, and a call is only split up if every goroutine gets a block
ASSUME SplitAssumption ==
    /\ NumCPU \in Nat \ {0} /\ encryptMaxSplit \in Nat \ {0}
    /\ ParallelFrom \in Nat /\ ParallelFrom >= encryptMaxSplit

\* EncryptBlocks is given blocks that are full, but for the last, and not empty
ASSUME PlaintextsAssumption ==
    /\ \A p \in Plaintexts :
          /\ p \in Seq(1..plainBS) /\ p # <<>>
          /\ \A i \in DOMAIN p : i < Len(p) => p[i] = plainBS
    /\ FirstBlockNos \subseteq Nat

VARIABLES
    calls,          \* number of calls so far
    epc,            \* writer -> "idle", "encrypt" or "put"
    args,           \* writer -> the arguments of its call
    ciphertextBlocks, \* writer -> the arrays behind ciphertextBlocks
    written,        \* writer -> the sealed blocks in its buffer out
    gpc,            \* goroutine -> "none", "nonce", "refill", "seal" or "done"
    at,             \* goroutine -> index i of the next block of the call, from 0
    cBlockPool,     \* arrays in ContentEnc.cBlockPool
    cHeap,          \* array -> the sealed block in it
    randLock,       \* holder of randPrefetcher's mutex, or NoBlock
    buf,            \* the prefetched bytes that are left
    drawn,          \* number of random bytes that were fetched from the system
    nonces,         \* history: the nonces that were handed out
    putPanic        \* cBlockPool.Put was given something else than such an array

encryptVars == <<calls, epc, args, ciphertextBlocks, written, gpc, at, cBlockPool,
                 cHeap, randLock, buf, drawn, nonces, putPanic>>

Goroutines == Writers \X (0..(encryptMaxSplit - 1))

ASSUME NoBlockAssumption == NoBlock \notin CBlocks /\ NoBlock \notin Goroutines

NoArgs == [call |-> 0, plain |-> <<>>, first |-> 0]

\* how many goroutines encrypt n blocks, and which blocks goroutine i has
Split(n) == IF n >= ParallelFrom THEN MinUint64(NumCPU, encryptMaxSplit) ELSE 1

Low(n, i) == i * (n \div Split(n))

High(n, i) == IF i = Split(n) - 1 THEN n ELSE (i + 1) * (n \div Split(n))

EncryptInit ==
    /\ calls = 0
    /\ epc = [w \in Writers |-> "idle"]
    /\ args = [w \in Writers |-> NoArgs]
    /\ ciphertextBlocks = [w \in Writers |-> <<>>]
    /\ written = [w \in Writers |-> <<>>]
    /\ gpc = [g \in Goroutines |-> "none"]
    /\ at = [g \in Goroutines |-> 0]
    /\ cBlockPool = {}
    /\ cHeap = [a \in CBlocks |-> NoBlock]
    /\ randLock = NoBlock
    /\ buf = {}
    /\ drawn = 0
    /\ nonces = <<>>
    /\ putPanic = FALSE

randVars == <<randLock, buf, drawn, nonces>>
blockVars == <<ciphertextBlocks, cBlockPool, cHeap, putPanic>>

-----------------------------------------------------------------------------
\* EncryptBlocks is called and starts its goroutines, or does their work itself
StartEncrypt(w, p, first) ==
    LET n == Len(p) IN
    /\ ~ putPanic
    /\ epc[w] = "idle" /\ calls < MaxCalls
    /\ calls' = calls + 1
    /\ epc' = [epc EXCEPT ![w] = "encrypt"]
    /\ args' = [args EXCEPT ![w] = [call |-> calls + 1, plain |-> p, first |-> first]]
    /\ ciphertextBlocks' = [ciphertextBlocks EXCEPT ![w] = [i \in 1..n |-> NoBlock]]
    /\ written' = [written EXCEPT ![w] = <<>>]
    /\ gpc' = [g \in Goroutines |->
                 IF g[1] # w THEN gpc[g] ELSE IF g[2] < Split(n) THEN "nonce" ELSE "none"]
    /\ at' = [g \in Goroutines |->
                 IF g[1] = w /\ g[2] < Split(n) THEN Low(n, g[2]) ELSE at[g]]
    /\ UNCHANGED <<cBlockPool, cHeap, putPanic, randVars>>

-----------------------------------------------------------------------------
\* randPrefetcher.read of IVLen bytes hands out n and leaves rest in the buffer
HandOut(g, n, rest) ==
    /\ nonces' = Append(nonces, n)
    /\ buf' = rest
    /\ gpc' = [gpc EXCEPT ![g] = "seal"]
    /\ UNCHANGED <<calls, epc, args, written, at, blockVars>>

\* the first IVLen bytes of b
FirstBytes(b) == CHOOSE s \in kSubset(IVLen, b) : \A x \in s, y \in b \ s : x < y

\* there is enough in the buffer: Lock, Read, Unlock
ReadNonce(g) ==
    /\ ~ putPanic
    /\ gpc[g] = "nonce" /\ randLock = NoBlock
    /\ Cardinality(buf) >= IVLen
    /\ HandOut(g, FirstBytes(buf), buf \ FirstBytes(buf))
    /\ UNCHANGED <<randLock, drawn>>

\* there is not: what was left is read and dropped, the mutex stays locked
Drain(g) ==
    /\ ~ putPanic
    /\ gpc[g] = "nonce" /\ randLock = NoBlock
    /\ Cardinality(buf) < IVLen
    /\ buf' = {}
    /\ randLock' = g
    /\ gpc' = [gpc EXCEPT ![g] = "refill"]
    /\ UNCHANGED <<calls, epc, args, written, at, blockVars, drawn, nonces>>

\* Mutation of Refill: the bytes handed out stay in the buffer
Mut_Refill(g) ==
    LET fresh == (drawn + 1)..(drawn + prefetchN) IN
    /\ ~ putPanic
    /\ gpc[g] = "refill"
    /\ drawn' = drawn + prefetchN
    /\ HandOut(g, FirstBytes(fresh), fresh)
    /\ randLock' = NoBlock

\* Mutation of Refill: no Unlock
Mut_Refill2(g) ==
    LET fresh == (drawn + 1)..(drawn + prefetchN) IN
    /\ ~ putPanic
    /\ gpc[g] = "refill"
    /\ drawn' = drawn + prefetchN
    /\ HandOut(g, FirstBytes(fresh), fresh \ FirstBytes(fresh))
    /\ UNCHANGED randLock

\* fresh := <-r.refill, which refillWorker sends as fast as the system gives random
\* bytes; Reset, Write, Read, Unlock
Refill(g) ==
    LET fresh == (drawn + 1)..(drawn + prefetchN) IN
    /\ ~ putPanic
    /\ gpc[g] = "refill"
    /\ drawn' = drawn + prefetchN
    /\ HandOut(g, FirstBytes(fresh), fresh \ FirstBytes(fresh))
    /\ randLock' = NoBlock

-----------------------------------------------------------------------------
\* Mutation of Sealed: doEncryptBlocks counts from the start of its group
Mut_Sealed(g) ==
    LET a == args[g[1]] IN
    [call |-> a.call, i |-> at[g], len |-> a.plain[at[g] + 1],
     no |-> a.first + at[g] - Low(Len(a.plain), g[2])]

\* doEncryptBlock of plaintext i (from 0) with its associated data
Sealed(g) ==
    LET a == args[g[1]] IN
    [call |-> a.call, i |-> at[g], len |-> a.plain[at[g] + 1], no |-> a.first + at[g]]

CHeld == (UNION {Range(ciphertextBlocks[w]) : w \in Writers}) \ {NoBlock}

\* cBlockPool.Get: a pooled array, or a new one, of which there must be enough.
\* sync.Pool may forget an array, which makes no difference but that it is shared less.
GetCBlock ==
    LET from == IF cBlockPool # {} THEN cBlockPool ELSE CBlocks \ CHeld
    IN  IF from = {} THEN {} ELSE {CHOOSE a \in from : TRUE}

\* one round of doEncryptBlocks, after its nonce has been drawn
Seal(g) ==
    LET w == g[1] IN
    /\ ~ putPanic
    /\ gpc[g] = "seal"
    /\ \E a \in GetCBlock :
          /\ cBlockPool' = cBlockPool \ {a}
          /\ cHeap' = [cHeap EXCEPT ![a] = Sealed(g)]
          /\ ciphertextBlocks' = [ciphertextBlocks EXCEPT ![w][at[g] + 1] = a]
    /\ at' = [at EXCEPT ![g] = @ + 1]
    /\ gpc' = [gpc EXCEPT ![g] = IF at[g] + 1 < High(Len(args[w].plain), g[2]) THEN "nonce" ELSE "done"]
    /\ UNCHANGED <<calls, epc, args, written, putPanic, randVars>>

\* wg.Wait(): all goroutines of the call are done
Joined(w) == \A g \in Goroutines : g[1] = w => gpc[g] \in {"none", "done"}

\* the block that is concatenated next
Current(w) == ciphertextBlocks[w][Len(written[w]) + 1]

\* out.Write(v)
WriteBlock(w) ==
    /\ ~ putPanic
    /\ epc[w] = "encrypt" /\ Joined(w)
    /\ epc' = [epc EXCEPT ![w] = "put"]
    /\ written' = [written EXCEPT ![w] = Append(@, IF Current(w) = NoBlock THEN NoBlock ELSE cHeap[Current(w)])]
    /\ UNCHANGED <<calls, args, blockVars, gpc, at, randVars>>

\* be.cBlockPool.Put(v), after the last block out.Bytes() is returned; what is left
\* in a pooled array is never read
PutCBlock(w) ==
    LET i == Len(written[w])
        v == ciphertextBlocks[w][i]
    IN
    /\ ~ putPanic
    /\ epc[w] = "put"
    /\ putPanic' = (v = NoBlock)
    /\ cBlockPool' = cBlockPool \cup ({v} \ {NoBlock})
    /\ ciphertextBlocks' = [ciphertextBlocks EXCEPT ![w][i] = NoBlock]
    /\ epc' = [epc EXCEPT ![w] = IF i < Len(args[w].plain) THEN "encrypt" ELSE "idle"]
    /\ cHeap' = [a \in CBlocks |-> IF a = v THEN NoBlock ELSE cHeap[a]]
    /\ UNCHANGED <<calls, args, written, gpc, at, randVars>>

EncryptNext ==
    \/ \E w \in Writers :
          \/ \E p \in Plaintexts, first \in FirstBlockNos : StartEncrypt(w, p, first)
          \/ WriteBlock(w) \/ PutCBlock(w)
    \/ \E g \in Goroutines : ReadNonce(g) \/ Drain(g) \/ Refill(g) \/ Seal(g)

EncryptSpec == EncryptInit /\ [][EncryptNext]_encryptVars

-----------------------------------------------------------------------------
\* No two blocks are sealed with nonces that have a random byte in common, and no
\* nonce is short of one, whoever drew it and however the buffer ran out: GCM
\* gives nothing once a nonce is used twice (randPrefetcher.read).
NoncesAreFresh ==
    \A i, j \in DOMAIN nonces :
        /\ Cardinality(nonces[i]) = IVLen
        /\ i # j => nonces[i] \cap nonces[j] = {}

\* The prefetcher's mutex is held only by a goroutine that is about to get its
\* refill and to release it, so that no goroutine of EncryptBlocks is stuck in
\* IVGenerator.Get.
PrefetcherIsReleased ==
    randLock # NoBlock => gpc[randLock] = "refill"

\* What EncryptBlocks returns is what DecryptBlocks opens: the blocks of this call,
\* all of them, in their order, each sealed with its own number, though they come
\* from two goroutines and from arrays that other calls use before and after.
WrittenReadsBack ==
    /\ ~ putPanic
    /\ \A w \in Writers : epc[w] = "idle" /\ args[w] # NoArgs =>
          /\ Len(written[w]) = Len(args[w].plain)
          /\ \A i \in DOMAIN written[w] :
                LET b == written[w][i] IN
                /\ b.call = args[w].call
                /\ b.i = i - 1
                /\ b.len = args[w].plain[i]
                /\ b.no = args[w].first + (i - 1)

====
