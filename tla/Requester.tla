------------------------------ MODULE Requester ------------------------------
(***************************************************************************)
(* The request layer of package requester: any number of goroutines        *)
(* ("clients", one per call of ReadFile, ReadDir or DecryptName in          *)
(* progress) ask for keys; a pool of workers performs each request once    *)
(* and publishes its result in a cache the clients read.  Clients block on *)
(* a condition variable of the worker ("ticket") that has reserved a key.  *)
(*                                                                         *)
(* A step of the model is one access to shared state: one syncCache        *)
(* method, one channel operation, one mutex or condition-variable          *)
(* operation.  What a goroutine computes in between is part of the step    *)
(* before it.                                                              *)
(*                                                                         *)
(* A key stands for the pair (which of the three caches, key string).  The *)
(* data a request returns is left out: only data, an error, or nothing at  *)
(* all are told apart, which is all that the control flow looks at.        *)
(***************************************************************************)
EXTENDS Naturals, Sequences

CONSTANTS
    Clients,      \* goroutines that call ReadFile, ReadDir, DecryptName
    Workers,      \* the lockers 1..numWorkers, and the goroutines they belong to
    Locker0,      \* r.lockers[0], which no worker owns
    None,         \* nil: no goroutine, no ticket, no receiver
    Keys,         \* what can be asked for
    CacheOf,      \* the cache a key lives in: 1 file, 2 dir, 3 decrypt
    QueueSize,    \* capacity of workQueue (1000 in the code)
    Results,      \* what the backend may answer: a subset of Replies
    MaxClears,    \* bound on the number of calls of ClearCache
    Timeouts,     \* whether 20 seconds may pass before a worker responds
    MayStop       \* whether Stop may be called

Replies == {"data", "err", "nil"}

ASSUME ConstantsAssumption ==
    /\ Clients \cap Workers = {}
    /\ Locker0 \notin Workers
    /\ None \notin Clients \cup Workers \cup {Locker0} \cup Keys
    /\ CacheOf \in [Keys -> 1..3]
    /\ QueueSize \in Nat \ {0}
    /\ Results \subseteq Replies
    /\ MaxClears \in Nat
    /\ Timeouts \in BOOLEAN
    /\ MayStop \in BOOLEAN

cacheErrRetryAttempts == 3

Lockers == Workers \cup {Locker0}

(***************************************************************************)
(* A genCacheEntry.  val is "data" or "err" when that field is set, "nil"  *)
(* when neither is, and "absent" when the map has no such key (Get then    *)
(* returns the zero entry).  No request returns both data and an error:    *)
(* backend.Provider and NameTransform return nothing along with an error.  *)
(***************************************************************************)
Entry == [val : Replies \cup {"absent"}, locker : Lockers]

Absent      == [val |-> "absent", locker |-> Locker0]
Pending(w)  == [val |-> "nil", locker |-> w]
Finished(v) == [val |-> v, locker |-> Locker0]

(***************************************************************************)
(* A work item.  The respChan of a client's current attempt is named by    *)
(* the client: it has one at a time.  A respChan that its client gave up   *)
(* on, after a timeout, can be received from by nobody: None.              *)
(***************************************************************************)
Work   == [key : Keys, chan : Clients \cup {None}]
NoWork == [key |-> None, chan |-> None]

VARIABLES
    cache,        \* [Keys -> Entry], the three syncCaches
    workQueue,    \* the buffered channel
    stopped,      \* workQueue is closed
    panicked,     \* a send on the closed channel has panicked: nothing runs any more
    mutex,        \* holder of each ticket's mutex
    \* makeRequest: per client, its position, key, loop index i, ticket (None when
    \* respChan was closed), last entry read under the ticket, and result;
    \* and the clients whose respChan a worker has closed
    cpc, ckey, attempt, ticket, cached, result, respClosed,
    \* worker: per worker, its position, work item, ticket to send and reply
    wpc, work, offer, reply,
    \* ClearCache: position, cache being cleared, its keysToDelete, calls so far
    clearPc, clearAt, keysToDelete, clears,
    \* history: per client, the errors published for its key during its call
    published

clientVars == <<cpc, ckey, attempt, ticket, cached, result, respClosed>>
workerVars == <<wpc, work, offer, reply>>
clearVars  == <<clearPc, clearAt, keysToDelete, clears>>
vars == <<cache, workQueue, stopped, panicked, mutex, clientVars, workerVars,
          clearVars, published>>

ClientPcs == {"idle", "check", "enqueue", "select", "got", "delete", "lock",
              "examine", "sleep", "asleep", "unlock"}
WorkerPcs == {"idle", "lookup", "grant", "forward", "lock", "request",
              "store", "broadcast", "exited"}
Outcomes  == {"none", "data", "err", "retries", "timeout"}

-----------------------------------------------------------------------------
Init ==
    /\ cache = [k \in Keys |-> Absent]
    /\ workQueue = <<>>
    /\ stopped = FALSE
    /\ panicked = FALSE
    /\ mutex = [l \in Lockers |-> None]
    /\ cpc = [c \in Clients |-> "idle"]
    /\ ckey = [c \in Clients |-> None]
    /\ attempt = [c \in Clients |-> 0]
    /\ ticket = [c \in Clients |-> None]
    /\ cached = [c \in Clients |-> Absent]
    /\ result = [c \in Clients |-> "none"]
    /\ respClosed = {}
    /\ wpc = [w \in Workers |-> "idle"]
    /\ work = [w \in Workers |-> NoWork]
    /\ offer = [w \in Workers |-> Locker0]
    /\ reply = [w \in Workers |-> "nil"]
    /\ clearPc = "idle"
    /\ clearAt = 1
    /\ keysToDelete = {}
    /\ clears = 0
    /\ published = [c \in Clients |-> {}]

-----------------------------------------------------------------------------
(***************************************************************************)
(* makeRequest.  Goto and Get stand for what every step of a client does:    *)
(* move on to the next statement, and read the cache entry of its key.     *)
(***************************************************************************)
Get(c) == cache[ckey[c]]

Goto(c, pc) == cpc' = [cpc EXCEPT ![c] = pc]

\* return: the locals of the call are gone, only its result is left
Return(c, outcome) ==
    /\ Goto(c, "idle")
    /\ result' = [result EXCEPT ![c] = outcome]
    /\ ckey' = [ckey EXCEPT ![c] = None]
    /\ attempt' = [attempt EXCEPT ![c] = 0]
    /\ ticket' = [ticket EXCEPT ![c] = None]
    /\ cached' = [cached EXCEPT ![c] = Absent]

\* Mutation of Retry: one round too many
Mut_Retry(c) ==
    \/ /\ attempt[c] < cacheErrRetryAttempts
       /\ Goto(c, "check")
       /\ attempt' = [attempt EXCEPT ![c] = @ + 1]
       /\ ticket' = [ticket EXCEPT ![c] = None]
       /\ cached' = [cached EXCEPT ![c] = Absent]
       /\ UNCHANGED <<ckey, result>>
    \/ /\ attempt[c] >= cacheErrRetryAttempts
       /\ Return(c, "retries")

\* continue: the next round of the loop, or the error after the last one
Retry(c) ==
    \/ /\ attempt[c] + 1 < cacheErrRetryAttempts
       /\ Goto(c, "check")
       /\ attempt' = [attempt EXCEPT ![c] = @ + 1]
       /\ ticket' = [ticket EXCEPT ![c] = None]
       /\ cached' = [cached EXCEPT ![c] = Absent]
       /\ UNCHANGED <<ckey, result>>
    \/ /\ attempt[c] + 1 >= cacheErrRetryAttempts
       /\ Return(c, "retries")

\* ReadFile, ReadDir or DecryptName is called for key k
Call(c, k) ==
    /\ ~panicked
    /\ cpc[c] = "idle"
    /\ Goto(c, "check")
    /\ ckey' = [ckey EXCEPT ![c] = k]
    /\ result' = [result EXCEPT ![c] = "none"]
    /\ published' = [published EXCEPT ![c] = {}]
    /\ UNCHANGED <<cache, workQueue, stopped, panicked, mutex, attempt, ticket,
                   cached, respClosed, workerVars, clearVars>>

\* Mutation of Check: a cached error is returned like cached data
Mut_Check(c) ==
    /\ ~panicked
    /\ cpc[c] = "check"
    /\ \/ /\ Get(c).val \in {"data", "err"}
          /\ Return(c, Get(c).val)
       \/ /\ Get(c).val \notin {"data", "err"}
          /\ Goto(c, "enqueue")
          /\ UNCHANGED <<ckey, attempt, ticket, cached, result>>
    /\ UNCHANGED <<cache, workQueue, stopped, panicked, mutex, respClosed,
                   workerVars, clearVars, published>>

\* "Return immediately if there is valid data in the cache"
Check(c) ==
    /\ ~panicked
    /\ cpc[c] = "check"
    /\ \/ /\ Get(c).val = "data"
          /\ Return(c, "data")
       \/ /\ Get(c).val # "data"
          /\ Goto(c, "enqueue")
          /\ UNCHANGED <<ckey, attempt, ticket, cached, result>>
    /\ UNCHANGED <<cache, workQueue, stopped, panicked, mutex, respClosed,
                   workerVars, clearVars, published>>

\* r.workQueue <- work{...}: blocks while the channel is full
Enqueue(c) ==
    /\ ~panicked
    /\ cpc[c] = "enqueue"
    /\ ~stopped
    /\ Len(workQueue) < QueueSize
    /\ workQueue' = Append(workQueue, [key |-> ckey[c], chan |-> c])
    /\ Goto(c, "select")
    /\ UNCHANGED <<cache, stopped, panicked, mutex, ckey, attempt, ticket, cached,
                   result, respClosed, workerVars, clearVars, published>>

\* the same send after Stop: a send on a closed channel panics
EnqueuePanics(c) ==
    /\ ~panicked
    /\ cpc[c] = "enqueue"
    /\ stopped
    /\ panicked' = TRUE
    /\ UNCHANGED <<cache, workQueue, stopped, mutex, clientVars, workerVars,
                   clearVars, published>>

\* ticket, ok := <-respChan with ok = FALSE
RecvClosed(c) ==
    /\ ~panicked
    /\ cpc[c] = "select"
    /\ c \in respClosed
    /\ respClosed' = respClosed \ {c}
    /\ Goto(c, "got")
    /\ UNCHANGED <<cache, workQueue, stopped, panicked, mutex, ckey, attempt,
                   ticket, cached, result, workerVars, clearVars, published>>

\* a work item whose client no longer receives
Orphan(item, c) == IF item.chan = c THEN [item EXCEPT !.chan = None] ELSE item

\* <-time.After(20 * time.Second): the client leaves, its work item does not
Timeout(c) ==
    /\ ~panicked
    /\ Timeouts
    /\ cpc[c] = "select"
    /\ Return(c, "timeout")
    /\ respClosed' = respClosed \ {c}
    /\ workQueue' = [i \in DOMAIN workQueue |-> Orphan(workQueue[i], c)]
    /\ work' = [w \in Workers |-> Orphan(work[w], c)]
    /\ UNCHANGED <<cache, stopped, panicked, mutex, wpc, offer, reply, clearVars,
                   published>>

\* the first cache.Get after a ticket came back or respChan was closed
Got(c) ==
    /\ ~panicked
    /\ cpc[c] = "got"
    /\ \/ /\ Get(c).val = "absent"
          /\ Retry(c)
       \/ /\ Get(c).val = "data"
          /\ Return(c, "data")
       \/ /\ Get(c).val \in {"nil", "err"}
          /\ Goto(c, IF ticket[c] = None THEN "delete" ELSE "lock")
          /\ UNCHANGED <<ckey, attempt, ticket, cached, result>>
    /\ UNCHANGED <<cache, workQueue, stopped, panicked, mutex, respClosed,
                   workerVars, clearVars, published>>

\* cache.Delete(key); continue
Delete(c) ==
    /\ ~panicked
    /\ cpc[c] = "delete"
    /\ cache' = [cache EXCEPT ![ckey[c]] = Absent]
    /\ Retry(c)
    /\ UNCHANGED <<workQueue, stopped, panicked, mutex, respClosed, workerVars,
                   clearVars, published>>

\* ticket.Lock(), and the re-locking in cv.Wait() after a wake-up
LockTicket(c) ==
    /\ ~panicked
    /\ cpc[c] = "lock"
    /\ mutex[ticket[c]] = None
    /\ mutex' = [mutex EXCEPT ![ticket[c]] = c]
    /\ Goto(c, "examine")
    /\ UNCHANGED <<cache, workQueue, stopped, panicked, ckey, attempt, ticket,
                   cached, result, respClosed, workerVars, clearVars, published>>

\* Mutation of StopsWaiting: the comparison of the lockers is the wrong way round
Mut_StopsWaiting(c, e) ==
    \/ e.val \in {"absent", "data", "err"}
    \/ ticket[c] = Locker0
    \/ e.locker = ticket[c]

\* !found || dataAvailable || wrongLocker
StopsWaiting(c, e) ==
    \/ e.val \in {"absent", "data", "err"}
    \/ ticket[c] = Locker0
    \/ e.locker # ticket[c]

\* the body of the inner loop: cache.Get, then leave the loop or wait
Examine(c) ==
    /\ ~panicked
    /\ cpc[c] = "examine"
    /\ cached' = [cached EXCEPT ![c] = Get(c)]
    /\ Goto(c, IF StopsWaiting(c, Get(c)) THEN "unlock" ELSE "sleep")
    /\ UNCHANGED <<cache, workQueue, stopped, panicked, mutex, ckey, attempt,
                   ticket, result, respClosed, workerVars, clearVars, published>>

\* ticket.Wait(): join the waiters, release the mutex
Sleep(c) ==
    /\ ~panicked
    /\ cpc[c] = "sleep"
    /\ mutex' = [mutex EXCEPT ![ticket[c]] = None]
    /\ Goto(c, "asleep")
    /\ UNCHANGED <<cache, workQueue, stopped, panicked, ckey, attempt, ticket,
                   cached, result, respClosed, workerVars, clearVars, published>>

\* ticket.Unlock(), and what follows from the entry read under the lock
Unlock(c) ==
    /\ ~panicked
    /\ cpc[c] = "unlock"
    /\ mutex' = [mutex EXCEPT ![ticket[c]] = None]
    /\ \/ /\ cached[c].val \in {"absent", "nil"}
          /\ Retry(c)
       \/ /\ cached[c].val \in {"data", "err"}
          /\ Return(c, cached[c].val)
    /\ UNCHANGED <<cache, workQueue, stopped, panicked, respClosed, workerVars,
                   clearVars, published>>

-----------------------------------------------------------------------------
(***************************************************************************)
(* worker and performRequestAndCache.                                      *)
(***************************************************************************)
WGoto(w, pc) == wpc' = [wpc EXCEPT ![w] = pc]

\* w, ok := <-r.workQueue
Receive(w) ==
    /\ ~panicked
    /\ wpc[w] = "idle"
    /\ workQueue # <<>>
    /\ work' = [work EXCEPT ![w] = Head(workQueue)]
    /\ workQueue' = Tail(workQueue)
    /\ WGoto(w, "lookup")
    /\ UNCHANGED <<cache, stopped, panicked, mutex, clientVars, offer, reply,
                   clearVars, published>>

\* the channel is closed and drained: workNone, and !ok
Exit(w) ==
    /\ ~panicked
    /\ wpc[w] = "idle"
    /\ stopped
    /\ workQueue = <<>>
    /\ WGoto(w, "exited")
    /\ UNCHANGED <<cache, workQueue, stopped, panicked, mutex, clientVars, work,
                   offer, reply, clearVars, published>>

\* Mutation of GetOrInsert: a reserved key is reserved once more
Mut_GetOrInsert(w) ==
    /\ ~panicked
    /\ wpc[w] = "lookup"
    /\ \/ /\ cache[work[w].key].val \in {"absent", "nil"}
          /\ cache' = [cache EXCEPT ![work[w].key] = Pending(w)]
          /\ offer' = [offer EXCEPT ![w] = w]
          /\ WGoto(w, "grant")
          /\ UNCHANGED <<respClosed, work>>
       \/ /\ cache[work[w].key].val \in {"data", "err"}
          /\ respClosed' = respClosed \cup ({work[w].chan} \cap Clients)
          /\ work' = [work EXCEPT ![w] = NoWork]
          /\ WGoto(w, "idle")
          /\ UNCHANGED <<cache, offer>>
    /\ UNCHANGED <<workQueue, stopped, panicked, mutex, cpc, ckey, attempt, ticket,
                   cached, result, reply, clearVars, published>>

\* cache.GetOrInsert, and close(responseCh) when the entry has a result.
\* "grant": the key is reserved for this worker, its own ticket goes out;
\* "forward": the ticket named by the entry goes out.
GetOrInsert(w) ==
    LET item == work[w]
        e    == cache[item.key]
    IN
    /\ ~panicked
    /\ wpc[w] = "lookup"
    /\ \/ /\ e.val = "absent"
          /\ cache' = [cache EXCEPT ![item.key] = Pending(w)]
          /\ offer' = [offer EXCEPT ![w] = w]
          /\ WGoto(w, "grant")
          /\ UNCHANGED <<respClosed, work>>
       \/ /\ e.val = "nil"
          /\ offer' = [offer EXCEPT ![w] = e.locker]
          /\ WGoto(w, "forward")
          /\ UNCHANGED <<cache, respClosed, work>>
       \/ /\ e.val \in {"data", "err"}
          /\ respClosed' = respClosed \cup ({item.chan} \cap Clients)
          /\ work' = [work EXCEPT ![w] = NoWork]
          /\ WGoto(w, "idle")
          /\ UNCHANGED <<cache, offer>>
    /\ UNCHANGED <<workQueue, stopped, panicked, mutex, cpc, ckey, attempt, ticket,
                   cached, result, reply, clearVars, published>>

\* responseCh <- wt, met by ticket, ok := <-respChan: the channel is not
\* buffered, so the worker blocks until its client receives
SendTicket(w, c) ==
    /\ ~panicked
    /\ wpc[w] \in {"grant", "forward"}
    /\ work[w].chan = c
    /\ cpc[c] = "select"
    /\ ticket' = [ticket EXCEPT ![c] = offer[w]]
    /\ Goto(c, "got")
    /\ \/ /\ wpc[w] = "grant"
          /\ WGoto(w, "lock")
          /\ UNCHANGED work
       \/ /\ wpc[w] = "forward"
          /\ WGoto(w, "idle")
          /\ work' = [work EXCEPT ![w] = NoWork]
    /\ offer' = [offer EXCEPT ![w] = Locker0]
    /\ UNCHANGED <<cache, workQueue, stopped, panicked, mutex, ckey, attempt, cached,
                   result, respClosed, reply, clearVars, published>>

\* Mutation of LockOwn: the worker does not lock its ticket
Mut_LockOwn(w) ==
    /\ ~panicked
    /\ wpc[w] = "lock"
    /\ WGoto(w, "request")
    /\ UNCHANGED <<cache, workQueue, stopped, panicked, mutex, clientVars, work,
                   offer, reply, clearVars, published>>

\* wt.Lock() on the worker's own ticket
LockOwn(w) ==
    /\ ~panicked
    /\ wpc[w] = "lock"
    /\ mutex[w] = None
    /\ mutex' = [mutex EXCEPT ![w] = w]
    /\ WGoto(w, "request")
    /\ UNCHANGED <<cache, workQueue, stopped, panicked, clientVars, work, offer,
                   reply, clearVars, published>>

\* data, err := request(): a reply without a byte, entry or name counts as nil
Request(w, r) ==
    /\ ~panicked
    /\ wpc[w] = "request"
    /\ reply' = [reply EXCEPT ![w] = r]
    /\ WGoto(w, "store")
    /\ UNCHANGED <<cache, workQueue, stopped, panicked, mutex, clientVars, work,
                   offer, clearVars, published>>

\* Mutation of Store: the published entry keeps the worker's locker number
Mut_Store(w) ==
    /\ ~panicked
    /\ wpc[w] = "store"
    /\ cache' = [cache EXCEPT ![work[w].key] = [val |-> reply[w], locker |-> w]]
    /\ WGoto(w, "broadcast")
    /\ UNCHANGED <<workQueue, stopped, panicked, mutex, clientVars, work, offer,
                   reply, clearVars, published>>

\* cache.Set(key, genCacheEntry{data: data, err: err})
Store(w) ==
    /\ ~panicked
    /\ wpc[w] = "store"
    /\ cache' = [cache EXCEPT ![work[w].key] = Finished(reply[w])]
    /\ published' = [c \in Clients |-> IF ckey[c] = work[w].key
                                      THEN published[c] \cup ({reply[w]} \cap {"err"})
                                      ELSE published[c]]
    /\ WGoto(w, "broadcast")
    /\ UNCHANGED <<workQueue, stopped, panicked, mutex, clientVars, work, offer,
                   reply, clearVars>>

\* the clients in cv.Wait() on the ticket of worker w
Sleepers(w) == {c \in Clients : cpc[c] = "asleep" /\ ticket[c] = w}

\* Mutation of Broadcast: nobody is woken
Mut_Broadcast(w) ==
    /\ ~panicked
    /\ wpc[w] = "broadcast"
    /\ mutex' = [mutex EXCEPT ![w] = None]
    /\ WGoto(w, "idle")
    /\ work' = [work EXCEPT ![w] = NoWork]
    /\ reply' = [reply EXCEPT ![w] = "nil"]
    /\ UNCHANGED <<cache, workQueue, stopped, panicked, clientVars, offer, clearVars,
                   published>>

\* wt.cv.Broadcast(); wt.Unlock()
Broadcast(w) ==
    /\ ~panicked
    /\ wpc[w] = "broadcast"
    /\ cpc' = [c \in Clients |-> IF c \in Sleepers(w) THEN "lock" ELSE cpc[c]]
    /\ mutex' = [mutex EXCEPT ![w] = None]
    /\ WGoto(w, "idle")
    /\ work' = [work EXCEPT ![w] = NoWork]
    /\ reply' = [reply EXCEPT ![w] = "nil"]
    /\ UNCHANGED <<cache, workQueue, stopped, panicked, ckey, attempt, ticket, cached,
                   result, respClosed, offer, clearVars, published>>

-----------------------------------------------------------------------------
(***************************************************************************)
(* ClearCache goes through the three caches in turn.  In each one it lists *)
(* the keys under the read lock and deletes the listed keys under the      *)
(* write lock, so keys may come and go in between.                         *)
(***************************************************************************)
StartClear ==
    /\ ~panicked
    /\ clearPc = "idle"
    /\ clears < MaxClears
    /\ clears' = clears + 1
    /\ clearPc' = "scan"
    /\ clearAt' = 1
    /\ UNCHANGED <<cache, workQueue, stopped, panicked, mutex, clientVars, workerVars,
                   keysToDelete, published>>

ScanKeys ==
    /\ ~panicked
    /\ clearPc = "scan"
    /\ keysToDelete' = {k \in Keys : CacheOf[k] = clearAt /\ cache[k].val # "absent"}
    /\ clearPc' = "wipe"
    /\ UNCHANGED <<cache, workQueue, stopped, panicked, mutex, clientVars, workerVars,
                   clearAt, clears, published>>

WipeKeys ==
    /\ ~panicked
    /\ clearPc = "wipe"
    /\ cache' = [k \in Keys |-> IF k \in keysToDelete THEN Absent ELSE cache[k]]
    /\ keysToDelete' = {}
    /\ \/ /\ clearAt < 3
          /\ clearPc' = "scan"
          /\ clearAt' = clearAt + 1
       \/ /\ clearAt = 3
          /\ clearPc' = "idle"
          /\ clearAt' = 1
    /\ UNCHANGED <<workQueue, stopped, panicked, mutex, clientVars, workerVars,
                   clears, published>>

\* close(r.workQueue)
Stop ==
    /\ ~panicked
    /\ MayStop
    /\ ~stopped
    /\ stopped' = TRUE
    /\ UNCHANGED <<cache, workQueue, panicked, mutex, clientVars, workerVars,
                   clearVars, published>>

-----------------------------------------------------------------------------
ClientStep(c) ==
    \/ Check(c) \/ Enqueue(c) \/ EnqueuePanics(c) \/ RecvClosed(c) \/ Got(c)
    \/ Delete(c) \/ LockTicket(c) \/ Examine(c) \/ Sleep(c) \/ Unlock(c)

WorkerStep(w) ==
    \/ Receive(w) \/ Exit(w) \/ GetOrInsert(w)
    \/ \E c \in Clients : SendTicket(w, c)
    \/ LockOwn(w)
    \/ \E r \in Results : Request(w, r)
    \/ Store(w) \/ Broadcast(w)

Next ==
    \/ \E c \in Clients :
          \/ \E k \in Keys : Call(c, k)
          \/ ClientStep(c)
          \/ Timeout(c)
    \/ \E w \in Workers : WorkerStep(w)
    \/ StartClear \/ ScanKeys \/ WipeKeys
    \/ Stop

Spec == Init /\ [][Next]_vars

(***************************************************************************)
(* Goroutines that can run do run, and those that can run only now and     *)
(* then get their turn as well, which strong fairness of a goroutine's     *)
(* steps says: sync.Mutex hands itself over to a waiter that has starved   *)
(* for a millisecond, and a channel serves its blocked senders and         *)
(* receivers in the order they came.  Nothing makes clients call, the      *)
(* cache be cleared or the queue be closed, and nothing makes a timeout    *)
(* strike.                                                                 *)
(***************************************************************************)
Fairness ==
    /\ \A c \in Clients : SF_vars(ClientStep(c))
    /\ \A w \in Workers : SF_vars(WorkerStep(w))
    /\ WF_vars(ScanKeys \/ WipeKeys)

FairSpec == Spec /\ Fairness

-----------------------------------------------------------------------------
SharedTypeOK ==
    /\ cache \in [Keys -> Entry]
    /\ workQueue \in Seq(Work)
    /\ Len(workQueue) <= QueueSize
    /\ stopped \in BOOLEAN
    /\ panicked \in BOOLEAN
    /\ mutex \in [Lockers -> Clients \cup Workers \cup {None}]
    /\ respClosed \subseteq Clients
    /\ published \in [Clients -> SUBSET Replies]

ClientTypeOK ==
    /\ cpc \in [Clients -> ClientPcs]
    /\ ckey \in [Clients -> Keys \cup {None}]
    /\ \A c \in Clients : cpc[c] # "idle" => ckey[c] \in Keys
    /\ attempt \in [Clients -> 0..(cacheErrRetryAttempts - 1)]
    /\ ticket \in [Clients -> Lockers \cup {None}]
    /\ cached \in [Clients -> Entry]
    /\ result \in [Clients -> Outcomes]

WorkerTypeOK ==
    /\ wpc \in [Workers -> WorkerPcs]
    /\ work \in [Workers -> Work \cup {NoWork}]
    /\ \A w \in Workers : wpc[w] \notin {"idle", "exited"} => work[w] \in Work
    /\ offer \in [Workers -> Lockers]
    /\ reply \in [Workers -> Replies]

ClearTypeOK ==
    /\ clearPc \in {"idle", "scan", "wipe"}
    /\ clearAt \in 1..3
    /\ keysToDelete \subseteq Keys
    /\ clears \in 0..MaxClears

\* The values the variables of makeRequest, worker, syncCache and ClearCache
\* range over; a call in progress has a key, a busy worker has a work item.
TypeOK ==
    /\ SharedTypeOK
    /\ ClientTypeOK
    /\ WorkerTypeOK
    /\ ClearTypeOK

\* the worker has reserved its key and not yet published the result
Fetching(w) == wpc[w] \in {"grant", "lock", "request", "store"}

\* An entry that names a worker's locker is that worker's live reservation:
\* however clears, deletes and other workers' requests interleave with
\* performRequestAndCache, the worker is still on its way to overwriting it.
PendingHasOwner ==
    \A k \in Keys : \A w \in Workers :
        cache[k].locker = w => /\ cache[k].val = "nil"
                               /\ work[w].key = k
                               /\ Fetching(w)

\* A client that has decided to wait, or waits, on a ticket (makeRequest's
\* ticket.Wait()) waits on one whose worker has its Broadcast still ahead.
\* Nobody waits on locker 0, which no worker would ever signal.
NoLostWakeup ==
    \A c \in Clients : cpc[c] \in {"sleep", "asleep"} =>
        /\ ticket[c] \in Workers
        /\ Fetching(ticket[c]) \/ wpc[ticket[c]] = "broadcast"

\* Work is not duplicated: until the caches are cleared for the first time, a
\* worker that fetches a key does so under its own reservation in the cache, and
\* so no second worker fetches it and no data is fetched again.
SingleFlight ==
    clears = 0 =>
        \A w \in Workers : Fetching(w) => cache[work[w].key] = Pending(w)

\* Cached errors are not served to later calls: an error that a call returns
\* was published while that call was in progress.
ErrorsAreFresh ==
    \A c \in Clients : result[c] = "err" => "err" \in published[c]

\* While the backend answers with data, makeRequest's loop runs once per call until
\* the caches are cleared for the first time: no call loses sight of the entry that
\* it waits for, and none is told that its retries are used up.
FirstRoundSuffices ==
    clears = 0 => \A c \in Clients : attempt[c] = 0 /\ result[c] # "retries"

\* While the backend answers with data, a single call of ClearCache "at some random
\* point" does not make concurrent calls fail: "should continue to work" (the test
\* of ReadFile with ClearCache).
OneClearIsHarmless ==
    \A c \in Clients : result[c] # "retries"

\* Every call of ReadFile, ReadDir or DecryptName returns, unless the process
\* panics because the queue was closed under a caller.
EveryCallReturns ==
    \A c \in Clients : cpc[c] # "idle" ~> (cpc[c] = "idle" \/ panicked)

====
