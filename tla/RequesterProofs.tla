--------------------------- MODULE RequesterProofs ---------------------------
(***************************************************************************)
(* Proofs about the request layer, for any number of clients, workers and  *)
(* keys, any queue size and any pattern of clears, timeouts and shutdown.  *)
(***************************************************************************)
EXTENDS Requester, TLAPS

-----------------------------------------------------------------------------
(***************************************************************************)
(* The inductive invariant.                                                *)
(***************************************************************************)
\* From ticket.Lock() to ticket.Unlock() a client has a ticket.
WaiterHasTicket ==
    \A c \in Clients :
        cpc[c] \in {"lock", "examine", "sleep", "asleep", "unlock"} => ticket[c] \in Lockers

\* Clients in the critical section of a ticket, and workers in that of their
\* own, hold its mutex.
HoldersHold ==
    /\ \A c \in Clients :
          cpc[c] \in {"examine", "sleep", "unlock"} => mutex[ticket[c]] = c
    /\ \A w \in Workers :
          wpc[w] \in {"request", "store", "broadcast"} => mutex[w] = w

IInv ==
    /\ TypeOK
    /\ WaiterHasTicket
    /\ HoldersHold
    /\ PendingHasOwner
    /\ NoLostWakeup

-----------------------------------------------------------------------------
\* Orphaning leaves the key of an item alone.
LEMMA OrphanedItem ==
    ASSUME NEW item \in Work \cup {NoWork}, NEW c \in Clients
    PROVE  /\ Orphan(item, c) \in Work \cup {NoWork}
           /\ item \in Work => Orphan(item, c) \in Work
           /\ Orphan(item, c).key = item.key
BY DEF Orphan, Work, NoWork

\* Rewriting the items of a queue one by one keeps it a queue of that length.
LEMMA OrphanedQueue ==
    ASSUME NEW q \in Seq(Work), NEW c \in Clients
    PROVE  LET r == [i \in DOMAIN q |-> Orphan(q[i], c)]
           IN  r \in Seq(Work) /\ Len(r) = Len(q)
<1> DEFINE r == [i \in DOMAIN q |-> Orphan(q[i], c)]
<1>1. \A i \in 1..Len(q) : Orphan(q[i], c) \in Work
  <2>1. \A i \in 1..Len(q) : q[i] \in Work
    OBVIOUS
  <2> QED
    BY <2>1, OrphanedItem
<1>2. DOMAIN q = 1..Len(q) /\ Len(q) \in Nat
  OBVIOUS
<1>3. r \in [1..Len(q) -> Work]
  BY <1>1, <1>2
<1> QED
  BY <1>2, <1>3

-----------------------------------------------------------------------------
\* return and continue keep the locals of a client in their types.
LEMMA ReturnType ==
    ASSUME ClientTypeOK, NEW c \in Clients, NEW o \in Outcomes, Return(c, o)
    PROVE  ClientTypeOK'
BY ConstantsAssumption DEF ClientTypeOK, Return, Goto, ClientPcs, Absent, Entry, Replies,
   Lockers, cacheErrRetryAttempts

LEMMA RetryType ==
    ASSUME ClientTypeOK, NEW c \in Clients, cpc[c] # "idle", Retry(c)
    PROVE  ClientTypeOK'
<1>1. CASE attempt[c] + 1 < cacheErrRetryAttempts
  <2>1. /\ cpc' = [cpc EXCEPT ![c] = "check"]
        /\ attempt' = [attempt EXCEPT ![c] = attempt[c] + 1]
        /\ ticket' = [ticket EXCEPT ![c] = None]
        /\ cached' = [cached EXCEPT ![c] = Absent]
        /\ UNCHANGED <<ckey, result>>
    BY <1>1 DEF Retry, Goto, ClientTypeOK, cacheErrRetryAttempts
  <2>2. attempt[c] + 1 \in 0..(cacheErrRetryAttempts - 1)
    BY <1>1 DEF ClientTypeOK, cacheErrRetryAttempts
  <2>3. Absent \in Entry
    BY DEF Absent, Entry, Lockers
  <2> QED
    BY <2>1, <2>2, <2>3 DEF ClientTypeOK, ClientPcs
<1>2. CASE attempt[c] + 1 >= cacheErrRetryAttempts
  BY <1>2, ReturnType DEF Retry, Outcomes, ClientTypeOK, cacheErrRetryAttempts
<1> QED
  BY <1>1, <1>2 DEF ClientTypeOK, cacheErrRetryAttempts

\* Every step keeps every variable in its type.
LEMMA TypeStep ==
    ASSUME TypeOK, [Next]_vars
    PROVE  TypeOK'
<1> USE ConstantsAssumption DEF TypeOK
<1>1. ASSUME NEW c \in Clients, NEW k \in Keys, Call(c, k) PROVE TypeOK'
  <2>1. SharedTypeOK'
    BY <1>1 DEF Call, SharedTypeOK, clearVars, workerVars
  <2>2. ClientTypeOK'
    BY <1>1 DEF Call, ClientTypeOK, Goto, ClientPcs, Outcomes
  <2>3. WorkerTypeOK' /\ ClearTypeOK'
    BY <1>1 DEF Call, WorkerTypeOK, ClearTypeOK, clientVars, workerVars, clearVars
  <2> QED
    BY <2>1, <2>2, <2>3
<1>2. ASSUME NEW c \in Clients, Check(c) PROVE TypeOK'
  <2>1. ClientTypeOK'
    BY <1>2, ReturnType DEF Check, ClientTypeOK, Goto, ClientPcs, Outcomes
  <2>2. SharedTypeOK' /\ WorkerTypeOK' /\ ClearTypeOK'
    BY <1>2 DEF Check, SharedTypeOK, WorkerTypeOK, ClearTypeOK, clientVars, workerVars, clearVars
  <2> QED
    BY <2>1, <2>2
<1>3. ASSUME NEW c \in Clients, Enqueue(c) PROVE TypeOK'
  <2>1. SharedTypeOK'
    BY <1>3 DEF Enqueue, SharedTypeOK, ClientTypeOK, Work
  <2>2. ClientTypeOK'
    BY <1>3 DEF Enqueue, ClientTypeOK, Goto, ClientPcs
  <2>3. WorkerTypeOK' /\ ClearTypeOK'
    BY <1>3 DEF Enqueue, WorkerTypeOK, ClearTypeOK, clientVars, workerVars, clearVars
  <2> QED
    BY <2>1, <2>2, <2>3
<1>4. ASSUME NEW c \in Clients, EnqueuePanics(c) PROVE TypeOK'
  <2>1. SharedTypeOK'
    BY <1>4 DEF EnqueuePanics, SharedTypeOK, clientVars
  <2>2. ClientTypeOK' /\ WorkerTypeOK' /\ ClearTypeOK'
    BY <1>4 DEF EnqueuePanics, ClientTypeOK, WorkerTypeOK, ClearTypeOK, clientVars, workerVars, clearVars
  <2> QED
    BY <2>1, <2>2
<1>5. ASSUME NEW c \in Clients, RecvClosed(c) PROVE TypeOK'
  <2>1. SharedTypeOK'
    BY <1>5 DEF RecvClosed, SharedTypeOK
  <2>2. ClientTypeOK'
    BY <1>5 DEF RecvClosed, ClientTypeOK, Goto, ClientPcs
  <2>3. WorkerTypeOK' /\ ClearTypeOK'
    BY <1>5 DEF RecvClosed, WorkerTypeOK, ClearTypeOK, clientVars, workerVars, clearVars
  <2> QED
    BY <2>1, <2>2, <2>3
<1>6. ASSUME NEW c \in Clients, Got(c) PROVE TypeOK'
  <2>1. ClientTypeOK'
    BY <1>6, ReturnType, RetryType DEF Got, ClientTypeOK, SharedTypeOK, Entry, Replies, Get, Goto, ClientPcs, Outcomes
  <2>2. SharedTypeOK' /\ WorkerTypeOK' /\ ClearTypeOK'
    BY <1>6 DEF Got, SharedTypeOK, WorkerTypeOK, ClearTypeOK, clientVars, workerVars, clearVars
  <2> QED
    BY <2>1, <2>2
<1>7. ASSUME NEW c \in Clients, Delete(c) PROVE TypeOK'
  <2>1. SharedTypeOK'
    BY <1>7 DEF Delete, SharedTypeOK, Absent, Entry, Lockers
  <2>2. ClientTypeOK'
    BY <1>7, RetryType DEF Delete
  <2>3. WorkerTypeOK' /\ ClearTypeOK'
    BY <1>7 DEF Delete, WorkerTypeOK, ClearTypeOK, clientVars, workerVars, clearVars
  <2> QED
    BY <2>1, <2>2, <2>3
<1>8. ASSUME NEW c \in Clients, LockTicket(c) PROVE TypeOK'
  <2>1. SharedTypeOK'
    BY <1>8 DEF LockTicket, SharedTypeOK
  <2>2. ClientTypeOK'
    BY <1>8 DEF LockTicket, ClientTypeOK, Goto, ClientPcs
  <2>3. WorkerTypeOK' /\ ClearTypeOK'
    BY <1>8 DEF LockTicket, WorkerTypeOK, ClearTypeOK, clientVars, workerVars, clearVars
  <2> QED
    BY <2>1, <2>2, <2>3
<1>9. ASSUME NEW c \in Clients, Examine(c) PROVE TypeOK'
  <2>1. ClientTypeOK'
    BY <1>9 DEF Examine, SharedTypeOK, ClientTypeOK, Get, Goto, ClientPcs
  <2>2. SharedTypeOK' /\ WorkerTypeOK' /\ ClearTypeOK'
    BY <1>9 DEF Examine, SharedTypeOK, WorkerTypeOK, ClearTypeOK, clientVars, workerVars, clearVars
  <2> QED
    BY <2>1, <2>2
<1>10. ASSUME NEW c \in Clients, Sleep(c) PROVE TypeOK'
  <2>1. SharedTypeOK'
    BY <1>10 DEF Sleep, SharedTypeOK
  <2>2. ClientTypeOK'
    BY <1>10 DEF Sleep, ClientTypeOK, Goto, ClientPcs
  <2>3. WorkerTypeOK' /\ ClearTypeOK'
    BY <1>10 DEF Sleep, WorkerTypeOK, ClearTypeOK, clientVars, workerVars, clearVars
  <2> QED
    BY <2>1, <2>2, <2>3
<1>11. ASSUME NEW c \in Clients, Unlock(c) PROVE TypeOK'
  <2>1. SharedTypeOK'
    BY <1>11 DEF Unlock, SharedTypeOK
  <2>2. ClientTypeOK'
    BY <1>11, ReturnType, RetryType DEF Unlock, Outcomes
  <2>3. WorkerTypeOK' /\ ClearTypeOK'
    BY <1>11 DEF Unlock, WorkerTypeOK, ClearTypeOK, clientVars, workerVars, clearVars
  <2> QED
    BY <2>1, <2>2, <2>3
<1>12. ASSUME NEW c \in Clients, Timeout(c) PROVE TypeOK'
  <2>1. SharedTypeOK'
    BY <1>12, OrphanedQueue DEF Timeout, SharedTypeOK
  <2>2. ClientTypeOK'
    BY <1>12, ReturnType DEF Timeout, Outcomes
  <2>3. WorkerTypeOK'
    BY <1>12, OrphanedItem DEF Timeout, WorkerTypeOK
  <2>4. ClearTypeOK'
    BY <1>12 DEF Timeout, ClearTypeOK, clientVars, workerVars, clearVars
  <2> QED
    BY <2>1, <2>2, <2>3, <2>4
<1>13. ASSUME NEW w \in Workers, Receive(w) PROVE TypeOK'
  <2>1. SharedTypeOK'
    BY <1>13 DEF Receive, SharedTypeOK, clientVars
  <2>2. WorkerTypeOK'
    BY <1>13 DEF Receive, SharedTypeOK, WorkerTypeOK, WGoto, WorkerPcs
  <2>3. ClientTypeOK' /\ ClearTypeOK'
    BY <1>13 DEF Receive, ClientTypeOK, ClearTypeOK, clientVars, workerVars, clearVars
  <2> QED
    BY <2>1, <2>2, <2>3
<1>14. ASSUME NEW w \in Workers, Exit(w) PROVE TypeOK'
  <2>1. WorkerTypeOK'
    BY <1>14 DEF Exit, WorkerTypeOK, WGoto, WorkerPcs
  <2>2. SharedTypeOK' /\ ClientTypeOK' /\ ClearTypeOK'
    BY <1>14 DEF Exit, SharedTypeOK, ClientTypeOK, ClearTypeOK, clientVars, workerVars, clearVars
  <2> QED
    BY <2>1, <2>2
<1>15. ASSUME NEW w \in Workers, GetOrInsert(w) PROVE TypeOK'
  <2>a. work[w] \in Work
    BY <1>15 DEF GetOrInsert, WorkerTypeOK
  <2>b. cache[work[w].key] \in Entry
    BY <2>a DEF Work, SharedTypeOK
  <2>c. Pending(w) \in Entry /\ w \in Lockers /\ cache[work[w].key].locker \in Lockers
    BY <2>b DEF Pending, Entry, Lockers, Replies
  <2>1. SharedTypeOK'
    BY <1>15, <2>c DEF GetOrInsert, SharedTypeOK
  <2>2. WorkerTypeOK'
    BY <1>15, <2>a, <2>c DEF GetOrInsert, WorkerTypeOK, WGoto, WorkerPcs
  <2>3. ClientTypeOK' /\ ClearTypeOK'
    BY <1>15 DEF GetOrInsert, ClientTypeOK, ClearTypeOK, clientVars, workerVars, clearVars
  <2> QED
    BY <2>1, <2>2, <2>3
<1>16. ASSUME NEW w \in Workers, NEW c \in Clients, SendTicket(w, c) PROVE TypeOK'
  <2>1. ClientTypeOK'
    BY <1>16 DEF SendTicket, ClientTypeOK, WorkerTypeOK, Goto, ClientPcs
  <2>2. WorkerTypeOK'
    BY <1>16 DEF SendTicket, WorkerTypeOK, WGoto, WorkerPcs, Lockers
  <2>3. SharedTypeOK' /\ ClearTypeOK'
    BY <1>16 DEF SendTicket, SharedTypeOK, ClearTypeOK, clientVars, workerVars, clearVars
  <2> QED
    BY <2>1, <2>2, <2>3
<1>17. ASSUME NEW w \in Workers, LockOwn(w) PROVE TypeOK'
  <2>1. SharedTypeOK'
    BY <1>17 DEF LockOwn, SharedTypeOK, clientVars
  <2>2. WorkerTypeOK'
    BY <1>17 DEF LockOwn, WorkerTypeOK, WGoto, WorkerPcs
  <2>3. ClientTypeOK' /\ ClearTypeOK'
    BY <1>17 DEF LockOwn, ClientTypeOK, ClearTypeOK, clientVars, workerVars, clearVars
  <2> QED
    BY <2>1, <2>2, <2>3
<1>18. ASSUME NEW w \in Workers, NEW r \in Results, Request(w, r) PROVE TypeOK'
  <2>1. WorkerTypeOK'
    BY <1>18 DEF Request, WorkerTypeOK, WGoto, WorkerPcs
  <2>2. SharedTypeOK' /\ ClientTypeOK' /\ ClearTypeOK'
    BY <1>18 DEF Request, SharedTypeOK, ClientTypeOK, ClearTypeOK, clientVars, workerVars, clearVars
  <2> QED
    BY <2>1, <2>2
<1>19. ASSUME NEW w \in Workers, Store(w) PROVE TypeOK'
  <2>1. SharedTypeOK'
    <3>1. Finished(reply[w]) \in Entry
      BY DEF Finished, Entry, Lockers, WorkerTypeOK
    <3>2. published' \in [Clients -> SUBSET Replies]
      BY <1>19 DEF Store, SharedTypeOK, WorkerTypeOK
    <3> QED
      BY <1>19, <3>1, <3>2 DEF Store, SharedTypeOK, clientVars
  <2>2. WorkerTypeOK'
    BY <1>19 DEF Store, WorkerTypeOK, WGoto, WorkerPcs
  <2>3. ClientTypeOK' /\ ClearTypeOK'
    BY <1>19 DEF Store, ClientTypeOK, ClearTypeOK, clientVars, workerVars, clearVars
  <2> QED
    BY <2>1, <2>2, <2>3
<1>20. ASSUME NEW w \in Workers, Broadcast(w) PROVE TypeOK'
  <2>1. SharedTypeOK'
    BY <1>20 DEF Broadcast, SharedTypeOK
  <2>2. ClientTypeOK'
    BY <1>20 DEF Broadcast, Sleepers, ClientTypeOK, ClientPcs
  <2>3. WorkerTypeOK'
    BY <1>20 DEF Broadcast, WorkerTypeOK, WGoto, WorkerPcs, Replies
  <2>4. ClearTypeOK'
    BY <1>20 DEF Broadcast, ClearTypeOK, clientVars, workerVars, clearVars
  <2> QED
    BY <2>1, <2>2, <2>3, <2>4
<1>21. ASSUME StartClear PROVE TypeOK'
  <2>1. ClearTypeOK'
    BY <1>21 DEF StartClear, ClearTypeOK
  <2>2. SharedTypeOK' /\ ClientTypeOK' /\ WorkerTypeOK'
    BY <1>21 DEF StartClear, SharedTypeOK, ClientTypeOK, WorkerTypeOK, clientVars, workerVars, clearVars
  <2> QED
    BY <2>1, <2>2
<1>22. ASSUME ScanKeys PROVE TypeOK'
  <2>1. ClearTypeOK'
    BY <1>22 DEF ScanKeys, ClearTypeOK
  <2>2. SharedTypeOK' /\ ClientTypeOK' /\ WorkerTypeOK'
    BY <1>22 DEF ScanKeys, SharedTypeOK, ClientTypeOK, WorkerTypeOK, clientVars, workerVars, clearVars
  <2> QED
    BY <2>1, <2>2
<1>23. ASSUME WipeKeys PROVE TypeOK'
  <2>1. SharedTypeOK'
    BY <1>23 DEF WipeKeys, SharedTypeOK, Absent, Entry, Lockers, clientVars
  <2>2. ClearTypeOK'
    BY <1>23 DEF WipeKeys, ClearTypeOK
  <2>3. ClientTypeOK' /\ WorkerTypeOK'
    BY <1>23 DEF WipeKeys, ClientTypeOK, WorkerTypeOK, clientVars, workerVars, clearVars
  <2> QED
    BY <2>1, <2>2, <2>3
<1>24. ASSUME Stop PROVE TypeOK'
  <2>1. SharedTypeOK'
    BY <1>24 DEF Stop, SharedTypeOK, clientVars
  <2>2. ClientTypeOK' /\ WorkerTypeOK' /\ ClearTypeOK'
    BY <1>24 DEF Stop, ClientTypeOK, WorkerTypeOK, ClearTypeOK, clientVars, workerVars, clearVars
  <2> QED
    BY <2>1, <2>2
<1>25. ASSUME UNCHANGED vars PROVE TypeOK'
  <2>1. SharedTypeOK' /\ ClientTypeOK' /\ WorkerTypeOK' /\ ClearTypeOK'
    BY <1>25 DEF vars, SharedTypeOK, ClientTypeOK, WorkerTypeOK, ClearTypeOK, clientVars, workerVars, clearVars
  <2> QED
    BY <2>1
<1> QED
  BY <1>1, <1>2, <1>3, <1>4, <1>5, <1>6, <1>7, <1>8, <1>9, <1>10, <1>11, <1>12, <1>13, <1>14, <1>15, <1>16, <1>17, <1>18, <1>19, <1>20, <1>21, <1>22, <1>23, <1>24, <1>25 DEF Next, ClientStep, WorkerStep

\* The invariant holds initially.
LEMMA InitIInv == Init => IInv
<1> SUFFICES ASSUME Init PROVE IInv
  OBVIOUS
<1> USE ConstantsAssumption DEF Init
<1>1. SharedTypeOK
  <2>1. workQueue \in Seq(Work) /\ Len(workQueue) <= QueueSize
    OBVIOUS
  <2>2. cache \in [Keys -> Entry]
    BY DEF Absent, Entry, Lockers
  <2> QED
    BY <2>1, <2>2 DEF SharedTypeOK
<1>2. ClientTypeOK
  BY DEF ClientTypeOK, ClientPcs, Absent, Entry, Lockers, Outcomes, cacheErrRetryAttempts
<1>3. WorkerTypeOK
  BY DEF WorkerTypeOK, WorkerPcs, Lockers, Replies
<1>4. ClearTypeOK
  BY DEF ClearTypeOK
<1>5. WaiterHasTicket /\ HoldersHold /\ PendingHasOwner /\ NoLostWakeup
  BY DEF WaiterHasTicket, HoldersHold, PendingHasOwner, NoLostWakeup, Absent
<1> QED
  BY <1>1, <1>2, <1>3, <1>4, <1>5 DEF IInv, TypeOK

\* A client that returns or continues is at the start of a call or of a round,
\* and holds no ticket any more.
LEMMA RoundEnds ==
    ASSUME ClientTypeOK, NEW c \in Clients,
           Retry(c) \/ \E o \in Outcomes : Return(c, o)
    PROVE  /\ \/ cpc' = [cpc EXCEPT ![c] = "idle"]
              \/ cpc' = [cpc EXCEPT ![c] = "check"]
           /\ ticket' = [ticket EXCEPT ![c] = None]
BY DEF Retry, Return, Goto

\* A client that leaves the critical section of no ticket, or leaves it and
\* unlocks, does not disturb anybody else's waiting.
LEMMA RoundEndsSafely ==
    ASSUME IInv, NEW c \in Clients, TypeOK',
           Retry(c) \/ \E o \in Outcomes : Return(c, o),
           \/ UNCHANGED mutex /\ cpc[c] \notin {"examine", "sleep", "unlock"}
           \/ /\ cpc[c] = "unlock"
              /\ mutex' = [mutex EXCEPT ![ticket[c]] = None],
           UNCHANGED wpc
    PROVE  WaiterHasTicket' /\ HoldersHold' /\ NoLostWakeup'
<1> USE ConstantsAssumption DEF IInv, TypeOK
<1>1. /\ \/ cpc' = [cpc EXCEPT ![c] = "idle"]
         \/ cpc' = [cpc EXCEPT ![c] = "check"]
      /\ ticket' = [ticket EXCEPT ![c] = None]
  BY RoundEnds
<1>2. WaiterHasTicket' /\ NoLostWakeup'
  BY <1>1 DEF WaiterHasTicket, NoLostWakeup, Fetching, ClientTypeOK
<1>3. HoldersHold'
  BY <1>1 DEF HoldersHold, WaiterHasTicket, ClientTypeOK, WorkerTypeOK, SharedTypeOK, Lockers
<1> QED
  BY <1>2, <1>3

\* Every step keeps the invariant.
LEMMA NextIInv ==
    ASSUME IInv, [Next]_vars
    PROVE  IInv'
<1> USE ConstantsAssumption
<1>t. TypeOK /\ TypeOK'
  BY TypeStep DEF IInv
<1> DEFINE Rest == WaiterHasTicket /\ HoldersHold /\ PendingHasOwner /\ NoLostWakeup
<1> USE <1>t DEF IInv, TypeOK
<1>1. ASSUME NEW c \in Clients, NEW k \in Keys, Call(c, k) PROVE Rest'
  BY <1>1 DEF Call, Goto, workerVars, ClientTypeOK, WaiterHasTicket, HoldersHold,
     PendingHasOwner, NoLostWakeup, Fetching
<1>2. ASSUME NEW c \in Clients, Check(c) PROVE Rest'
  <2>1. PendingHasOwner'
    BY <1>2 DEF Check, PendingHasOwner, Fetching, workerVars
  <2>2. CASE Get(c).val = "data"
    BY <1>2, <2>1, <2>2, RoundEndsSafely DEF Check, Outcomes, workerVars
  <2>3. CASE Get(c).val # "data"
    BY <1>2, <2>1, <2>3 DEF Check, Goto, workerVars, ClientTypeOK, WaiterHasTicket,
       HoldersHold, NoLostWakeup, Fetching
  <2> QED
    BY <2>2, <2>3
<1>3. ASSUME NEW c \in Clients, Enqueue(c) PROVE Rest'
  BY <1>3 DEF Enqueue, Goto, workerVars, ClientTypeOK, WaiterHasTicket, HoldersHold,
     PendingHasOwner, NoLostWakeup, Fetching
<1>4. ASSUME NEW c \in Clients, EnqueuePanics(c) PROVE Rest'
  BY <1>4 DEF EnqueuePanics, clientVars, workerVars, WaiterHasTicket, HoldersHold,
     PendingHasOwner, NoLostWakeup, Fetching
<1>5. ASSUME NEW c \in Clients, RecvClosed(c) PROVE Rest'
  BY <1>5 DEF RecvClosed, Goto, workerVars, ClientTypeOK, WaiterHasTicket, HoldersHold,
     PendingHasOwner, NoLostWakeup, Fetching
<1>6. ASSUME NEW c \in Clients, Got(c) PROVE Rest'
  <2>1. PendingHasOwner'
    BY <1>6 DEF Got, PendingHasOwner, Fetching, workerVars
  <2>2. CASE Get(c).val \in {"absent", "data"}
    BY <1>6, <2>1, <2>2, RoundEndsSafely DEF Got, Outcomes, workerVars
  <2>3. CASE Get(c).val \in {"nil", "err"}
    BY <1>6, <2>1, <2>3 DEF Got, Goto, workerVars, ClientTypeOK, WaiterHasTicket,
       HoldersHold, NoLostWakeup, Fetching
  <2> QED
    BY <1>6, <2>2, <2>3 DEF Got
<1>7. ASSUME NEW c \in Clients, Delete(c) PROVE Rest'
  <2>1. PendingHasOwner'
    BY <1>7 DEF Delete, PendingHasOwner, Fetching, workerVars, Absent, SharedTypeOK
  <2> QED
    BY <1>7, <2>1, RoundEndsSafely DEF Delete, workerVars
<1>8. ASSUME NEW c \in Clients, LockTicket(c) PROVE Rest'
  BY <1>8 DEF LockTicket, Goto, workerVars, ClientTypeOK, SharedTypeOK, Lockers, WaiterHasTicket, HoldersHold,
     PendingHasOwner, NoLostWakeup, Fetching
<1>9. ASSUME NEW c \in Clients, Examine(c) PROVE Rest'
  <2>1. WaiterHasTicket' /\ HoldersHold' /\ PendingHasOwner'
    BY <1>9 DEF Examine, Goto, workerVars, ClientTypeOK, WaiterHasTicket, HoldersHold,
       PendingHasOwner, Fetching
  <2>2. CASE StopsWaiting(c, Get(c))
    BY <1>9, <2>1, <2>2 DEF Examine, Goto, workerVars, ClientTypeOK, NoLostWakeup, Fetching
  <2>3. CASE ~StopsWaiting(c, Get(c))
    <3>1. ticket[c] \in Workers /\ Fetching(ticket[c])
      BY <1>9, <2>3 DEF Examine, StopsWaiting, Get, WaiterHasTicket, PendingHasOwner,
         Lockers, ClientTypeOK
    <3>2. NoLostWakeup'
      BY <1>9, <2>3, <3>1 DEF Examine, Goto, workerVars, ClientTypeOK, NoLostWakeup, Fetching
    <3> QED
      BY <2>1, <3>2
  <2> QED
    BY <2>2, <2>3
<1>10. ASSUME NEW c \in Clients, Sleep(c) PROVE Rest'
  BY <1>10 DEF Sleep, Goto, workerVars, ClientTypeOK, SharedTypeOK, WaiterHasTicket, HoldersHold,
     PendingHasOwner, NoLostWakeup, Fetching
<1>11. ASSUME NEW c \in Clients, Unlock(c) PROVE Rest'
  <2>1. PendingHasOwner'
    BY <1>11 DEF Unlock, PendingHasOwner, Fetching, workerVars
  <2>2. Retry(c) \/ \E o \in Outcomes : Return(c, o)
    BY <1>11 DEF Unlock, Outcomes
  <2> QED
    BY <1>11, <2>1, <2>2, RoundEndsSafely DEF Unlock, workerVars
<1>12. ASSUME NEW c \in Clients, Timeout(c) PROVE Rest'
  <2>1. PendingHasOwner'
    BY <1>12, OrphanedItem DEF Timeout, PendingHasOwner, Fetching, WorkerTypeOK
  <2> QED
    BY <1>12, <2>1, RoundEndsSafely DEF Timeout, Outcomes
<1>13. ASSUME NEW w \in Workers, Receive(w) PROVE Rest'
  BY <1>13 DEF Receive, WGoto, clientVars, WorkerTypeOK, WaiterHasTicket, HoldersHold,
     PendingHasOwner, NoLostWakeup, Fetching
<1>14. ASSUME NEW w \in Workers, Exit(w) PROVE Rest'
  BY <1>14 DEF Exit, WGoto, clientVars, WorkerTypeOK, WaiterHasTicket, HoldersHold,
     PendingHasOwner, NoLostWakeup, Fetching
<1>15. ASSUME NEW w \in Workers, GetOrInsert(w) PROVE Rest'
  <2>1. work[w] \in Work /\ work[w].key \in Keys
    BY <1>15 DEF GetOrInsert, WorkerTypeOK, Work
  <2>2. \A k \in Keys : cache[k].locker # w
    BY <1>15 DEF GetOrInsert, PendingHasOwner, Fetching
  <2>3. PendingHasOwner'
    <3>1. CASE cache[work[w].key].val = "absent"
      BY <1>15, <2>1, <2>2, <3>1 DEF GetOrInsert, WGoto, Pending, PendingHasOwner, Fetching,
         WorkerTypeOK, SharedTypeOK
    <3>2. CASE cache[work[w].key].val # "absent"
      BY <1>15, <2>1, <2>2, <3>2 DEF GetOrInsert, WGoto, PendingHasOwner, Fetching,
         WorkerTypeOK, SharedTypeOK
    <3> QED
      BY <3>1, <3>2
  <2>4. WaiterHasTicket' /\ HoldersHold' /\ NoLostWakeup'
    BY <1>15 DEF GetOrInsert, WGoto, WaiterHasTicket, HoldersHold, NoLostWakeup, Fetching,
       WorkerTypeOK
  <2> QED
    BY <2>3, <2>4
<1>16. ASSUME NEW w \in Workers, NEW c \in Clients, SendTicket(w, c) PROVE Rest'
  <2>1. /\ cpc' = [cpc EXCEPT ![c] = "got"]
        /\ \A x \in Clients \ {c} : ticket'[x] = ticket[x]
        /\ UNCHANGED <<cache, mutex>>
    BY <1>16 DEF SendTicket, Goto, ClientTypeOK
  <2>2. \/ wpc[w] = "grant" /\ wpc' = [wpc EXCEPT ![w] = "lock"] /\ UNCHANGED work
        \/ /\ wpc[w] = "forward" /\ wpc' = [wpc EXCEPT ![w] = "idle"]
           /\ \A x \in Workers \ {w} : work'[x] = work[x]
    BY <1>16 DEF SendTicket, WGoto, WorkerTypeOK
  <2>3. WaiterHasTicket' /\ HoldersHold'
    BY <2>1, <2>2 DEF WaiterHasTicket, HoldersHold, ClientTypeOK, WorkerTypeOK
  <2>4. PendingHasOwner'
    BY <2>1, <2>2 DEF PendingHasOwner, Fetching, WorkerTypeOK
  <2>5. NoLostWakeup'
    BY <2>1, <2>2 DEF NoLostWakeup, Fetching, ClientTypeOK, WorkerTypeOK
  <2> QED
    BY <2>3, <2>4, <2>5
<1>17. ASSUME NEW w \in Workers, LockOwn(w) PROVE Rest'
  BY <1>17 DEF LockOwn, WGoto, clientVars, WorkerTypeOK, SharedTypeOK, Lockers, WaiterHasTicket, HoldersHold,
     PendingHasOwner, NoLostWakeup, Fetching
<1>18. ASSUME NEW w \in Workers, NEW r \in Results, Request(w, r) PROVE Rest'
  BY <1>18 DEF Request, WGoto, clientVars, WorkerTypeOK, WaiterHasTicket, HoldersHold,
     PendingHasOwner, NoLostWakeup, Fetching
<1>19. ASSUME NEW w \in Workers, Store(w) PROVE Rest'
  BY <1>19 DEF Store, WGoto, Finished, clientVars, WorkerTypeOK, SharedTypeOK, WaiterHasTicket, HoldersHold,
     PendingHasOwner, NoLostWakeup, Fetching
<1>20. ASSUME NEW w \in Workers, Broadcast(w) PROVE Rest'
  BY <1>20 DEF Broadcast, Sleepers, WGoto, ClientTypeOK, WorkerTypeOK, SharedTypeOK, WaiterHasTicket, HoldersHold,
     PendingHasOwner, NoLostWakeup, Fetching
<1>21. ASSUME StartClear PROVE Rest'
  BY <1>21 DEF StartClear, clientVars, workerVars, WaiterHasTicket, HoldersHold,
     PendingHasOwner, NoLostWakeup, Fetching
<1>22. ASSUME ScanKeys PROVE Rest'
  BY <1>22 DEF ScanKeys, clientVars, workerVars, WaiterHasTicket, HoldersHold,
     PendingHasOwner, NoLostWakeup, Fetching
<1>23. ASSUME WipeKeys PROVE Rest'
  BY <1>23 DEF WipeKeys, Absent, clientVars, workerVars, WaiterHasTicket, HoldersHold,
     PendingHasOwner, NoLostWakeup, Fetching
<1>24. ASSUME Stop PROVE Rest'
  BY <1>24 DEF Stop, clientVars, workerVars, WaiterHasTicket, HoldersHold,
     PendingHasOwner, NoLostWakeup, Fetching
<1>25. ASSUME UNCHANGED vars PROVE Rest'
  BY <1>25 DEF vars, clientVars, workerVars, WaiterHasTicket, HoldersHold,
     PendingHasOwner, NoLostWakeup, Fetching
<1> QED
  BY <1>1, <1>2, <1>3, <1>4, <1>5, <1>6, <1>7, <1>8, <1>9, <1>10, <1>11, <1>12, <1>13, <1>14, <1>15, <1>16, <1>17, <1>18, <1>19, <1>20, <1>21, <1>22, <1>23, <1>24, <1>25 DEF Next, ClientStep, WorkerStep

-----------------------------------------------------------------------------
\* The invariant holds in every reachable state: makeRequest, the workers and
\* syncCache together keep it.
THEOREM Invariance == Spec => []IInv
<1>1. IInv /\ [Next]_vars => IInv'
  BY NextIInv
<1> QED
  BY InitIInv, <1>1, PTL DEF Spec

\* Every variable of the request layer keeps its type, and the work queue its
\* capacity.
THEOREM TypeCorrect == Spec => []TypeOK
<1>1. IInv => TypeOK
  BY DEF IInv
<1> QED
  BY Invariance, <1>1, PTL

\* A cache entry that names a worker is that worker's live reservation, for
\* any interleaving of requests, deletes, clears and timeouts.
THEOREM PendingIsOwned == Spec => []PendingHasOwner
<1>1. IInv => PendingHasOwner
  BY DEF IInv
<1> QED
  BY Invariance, <1>1, PTL

\* Nobody waits on a ticket that will not be signalled by a worker that is on
\* its way to do so.
THEOREM WakeupIsNotLost == Spec => []NoLostWakeup
<1>1. IInv => NoLostWakeup
  BY DEF IInv
<1> QED
  BY Invariance, <1>1, PTL

-----------------------------------------------------------------------------
(***************************************************************************)
(* Whose an item is.  A respChan is named by its client, so it has to be    *)
(* shown that a client has no more than one item at a time, in the queue or *)
(* with a worker, and that it waits for the key this item asks for.         *)
(***************************************************************************)
\* the client is in its select, for the key of the item
AwaitedBy(item, c) == cpc[c] = "select" /\ item.key = ckey[c]

\* a worker that has still to answer the client of its item
Owes(w) == wpc[w] \in {"lookup", "grant", "forward"}

ItemsAreAwaited ==
    /\ \A i \in DOMAIN workQueue : \A c \in Clients :
          workQueue[i].chan = c => AwaitedBy(workQueue[i], c)
    /\ \A w \in Workers : \A c \in Clients :
          Owes(w) /\ work[w].chan = c => AwaitedBy(work[w], c)

ItemsAreUnique ==
    \A c \in Clients :
        /\ \A i, j \in DOMAIN workQueue :
              workQueue[i].chan = c /\ workQueue[j].chan = c => i = j
        /\ \A i \in DOMAIN workQueue : \A w \in Workers :
              ~ (workQueue[i].chan = c /\ Owes(w) /\ work[w].chan = c)
        /\ \A v, w \in Workers :
              Owes(v) /\ work[v].chan = c /\ Owes(w) /\ work[w].chan = c => v = w

\* the respChan of a client's select was closed: its item is gone
ClosedIsLast ==
    \A c \in respClosed :
        /\ cpc[c] = "select"
        /\ \A i \in DOMAIN workQueue : workQueue[i].chan # c
        /\ \A w \in Workers : ~ (Owes(w) /\ work[w].chan = c)

\* Until it has received, a client has neither ticket nor entry.
EarlyHasNothing ==
    \A c \in Clients :
        /\ cpc[c] \in {"idle", "check", "enqueue", "select"} => ticket[c] = None
        /\ cpc[c] # "unlock" => cached[c].val # "err"

ItemInv ==
    /\ ItemsAreAwaited
    /\ ItemsAreUnique
    /\ ClosedIsLast
    /\ EarlyHasNothing

(***************************************************************************)
(* Errors.  A ticket is handed out for an entry without a result only; an   *)
(* error that its receiver finds later was stored meanwhile.                *)
(***************************************************************************)
Told(c) == "err" \in published[c]

TicketsAreFresh ==
    /\ \A w \in Workers : \A c \in Clients :
          (wpc[w] \in {"grant", "forward"} /\ work[w].chan = c
           /\ cache[work[w].key].val = "err") => Told(c)
    /\ \A c \in Clients : ticket[c] # None /\ Get(c).val = "err" => Told(c)

EntriesAreFresh == \A c \in Clients : cached[c].val = "err" => Told(c)

FreshInv == TicketsAreFresh /\ EntriesAreFresh /\ ErrorsAreFresh

(***************************************************************************)
(* Single flight, as long as there were neither errors nor clears: data     *)
(* stays in the cache, a closed respChan announces data, and nothing is     *)
(* deleted.                                                                 *)
(***************************************************************************)
NothingDeleted ==
    /\ clearPc = "idle"
    /\ \A w \in Workers : reply[w] # "err"
    /\ \A k \in Keys : cache[k].val # "err"
    /\ \A c \in Clients :
          /\ c \in respClosed => Get(c).val = "data"
          /\ cpc[c] = "got" /\ ticket[c] = None => Get(c).val = "data"
          /\ cpc[c] # "delete"

FlightInv == SingleFlight /\ (clears = 0 => NothingDeleted)

(***************************************************************************)
(* If moreover every reply is data, the ticket that a client was given      *)
(* names the reservation of its key until the data is there.                *)
(***************************************************************************)
Serves(t, k) ==
    \/ cache[k].val = "data"
    \/ cache[k].val = "nil" /\ cache[k].locker = t /\ t \in Workers

RoundFacts ==
    /\ \A k \in Keys : cache[k].val = "nil" => cache[k].locker \in Workers
    /\ \A w \in Workers :
          /\ wpc[w] = "store" => reply[w] = "data"
          /\ wpc[w] \in {"grant", "forward"} => Serves(offer[w], work[w].key)
    /\ \A c \in Clients :
          /\ ticket[c] # None => Serves(ticket[c], ckey[c])
          /\ cpc[c] = "unlock" => cached[c].val = "data"
          /\ attempt[c] = 0 /\ result[c] # "retries"

RoundInv == clears = 0 => RoundFacts

-----------------------------------------------------------------------------
\* A client outside its select has no item, wherever it goes from there.
LEMMA ClientMoves ==
    ASSUME TypeOK, ItemInv, NEW c \in Clients, NEW pc \in ClientPcs \ {"select"},
           cpc[c] # "select", cpc' = [cpc EXCEPT ![c] = pc],
           \A d \in Clients \ {c} : ckey'[d] = ckey[d],
           UNCHANGED <<workQueue, respClosed, wpc, work>>
    PROVE  ItemsAreAwaited' /\ ItemsAreUnique' /\ ClosedIsLast'
<1> USE DEF TypeOK, ItemInv, SharedTypeOK, ClientTypeOK, WorkerTypeOK
<1>1. /\ \A i \in DOMAIN workQueue : workQueue[i].chan # c
      /\ \A w \in Workers : ~ (Owes(w) /\ work[w].chan = c)
      /\ c \notin respClosed
  BY DEF ItemsAreAwaited, ClosedIsLast, AwaitedBy
<1>2. \A d \in Clients \ {c} : cpc'[d] = cpc[d]
  OBVIOUS
<1>3. ItemsAreAwaited'
  BY <1>1, <1>2 DEF ItemsAreAwaited, AwaitedBy, Owes
<1>4. ItemsAreUnique'
  BY DEF ItemsAreUnique, Owes
<1>5. ClosedIsLast'
  BY <1>1, <1>2 DEF ClosedIsLast, Owes
<1> QED
  BY <1>3, <1>4, <1>5

\* return and continue leave the client without ticket and entry.
LEMMA RoundEndsEmpty ==
    ASSUME TypeOK, NEW c \in Clients, Retry(c) \/ \E o \in Outcomes : Return(c, o)
    PROVE  /\ \E pc \in ClientPcs \ {"select"} :
                 pc \in {"idle", "check"} /\ cpc' = [cpc EXCEPT ![c] = pc]
           /\ \A d \in Clients \ {c} : ckey'[d] = ckey[d] /\ result'[d] = result[d]
           /\ ticket' = [ticket EXCEPT ![c] = None]
           /\ cached' = [cached EXCEPT ![c] = Absent]
BY DEF Retry, Return, Goto, ClientPcs, TypeOK, ClientTypeOK

\* A client that returns or continues keeps the facts about items.
LEMMA RoundEndsItems ==
    ASSUME TypeOK, ItemInv, NEW c \in Clients, cpc[c] # "select",
           Retry(c) \/ \E o \in Outcomes : Return(c, o),
           UNCHANGED <<workQueue, respClosed, wpc, work>>
    PROVE  ItemInv'
<1>1. PICK pc \in ClientPcs \ {"select"} :
          pc \in {"idle", "check"} /\ cpc' = [cpc EXCEPT ![c] = pc]
  BY RoundEndsEmpty
<1>2. /\ \A d \in Clients \ {c} : ckey'[d] = ckey[d]
      /\ ticket' = [ticket EXCEPT ![c] = None]
      /\ cached' = [cached EXCEPT ![c] = Absent]
  BY RoundEndsEmpty
<1>3. ItemsAreAwaited' /\ ItemsAreUnique' /\ ClosedIsLast'
  BY <1>1, <1>2, ClientMoves
<1>4. EarlyHasNothing'
  BY <1>1, <1>2 DEF ItemInv, EarlyHasNothing, Absent, TypeOK, ClientTypeOK
<1> QED
  BY <1>3, <1>4 DEF ItemInv

\* A step that touches neither clients nor items.
LEMMA ItemsUntouched ==
    ASSUME ItemInv,
           UNCHANGED <<cpc, ckey, ticket, cached, workQueue, respClosed>>,
           \A w \in Workers : /\ Owes(w)' => Owes(w)
                              /\ Owes(w)' => work'[w] = work[w]
    PROVE  ItemInv'
<1>1. ItemsAreAwaited'
  BY DEF ItemInv, ItemsAreAwaited, AwaitedBy
<1>2. ItemsAreUnique' /\ ClosedIsLast'
  BY DEF ItemInv, ItemsAreUnique, ClosedIsLast
<1>3. EarlyHasNothing'
  BY DEF ItemInv, EarlyHasNothing
<1> QED
  BY <1>1, <1>2, <1>3 DEF ItemInv

\* Every step keeps the facts about items.
LEMMA NextItemInv ==
    ASSUME IInv, ItemInv, [Next]_vars
    PROVE  ItemInv'
<1> USE ConstantsAssumption
<1>t. TypeOK /\ TypeOK'
  BY TypeStep DEF IInv
<1> USE <1>t
<1>1. ASSUME NEW c \in Clients, NEW k \in Keys, Call(c, k) PROVE ItemInv'
  <2>1. ItemsAreAwaited' /\ ItemsAreUnique' /\ ClosedIsLast'
    <3>1. /\ cpc[c] # "select" /\ cpc' = [cpc EXCEPT ![c] = "check"]
          /\ UNCHANGED <<workQueue, respClosed, wpc, work>>
      BY <1>1 DEF Call, Goto, workerVars
    <3>2. \A d \in Clients \ {c} : ckey'[d] = ckey[d]
      BY <1>1 DEF Call, TypeOK, ClientTypeOK
    <3> QED
      BY <3>1, <3>2, ClientMoves DEF ClientPcs
  <2>2. EarlyHasNothing'
    BY <1>1 DEF Call, Goto, ItemInv, EarlyHasNothing, TypeOK, ClientTypeOK
  <2> QED
    BY <2>1, <2>2 DEF ItemInv
<1>2. ASSUME NEW c \in Clients, Check(c) PROVE ItemInv'
  <2>1. cpc[c] # "select" /\ UNCHANGED <<workQueue, respClosed, wpc, work>>
    BY <1>2 DEF Check, workerVars
  <2>2. CASE Get(c).val = "data"
    BY <1>2, <2>1, <2>2, RoundEndsItems DEF Check, Outcomes
  <2>3. CASE Get(c).val # "data"
    <3>1. cpc' = [cpc EXCEPT ![c] = "enqueue"] /\ UNCHANGED <<ckey, ticket, cached>>
      BY <1>2, <2>3 DEF Check, Goto
    <3>2. EarlyHasNothing'
      BY <1>2, <3>1 DEF Check, ItemInv, EarlyHasNothing, TypeOK, ClientTypeOK
    <3> QED
      BY <2>1, <3>1, <3>2, ClientMoves DEF ItemInv, ClientPcs
  <2> QED
    BY <2>2, <2>3
<1>3. ASSUME NEW c \in Clients, Enqueue(c) PROVE ItemInv'
  <2> DEFINE item == [key |-> ckey[c], chan |-> c]
  <2>1. /\ cpc[c] = "enqueue" /\ cpc' = [cpc EXCEPT ![c] = "select"]
        /\ workQueue' = Append(workQueue, item)
        /\ UNCHANGED <<ckey, ticket, cached, respClosed, wpc, work>>
    BY <1>3 DEF Enqueue, Goto, workerVars
  <2>2. /\ \A i \in DOMAIN workQueue : workQueue[i].chan # c
        /\ \A w \in Workers : ~ (Owes(w) /\ work[w].chan = c)
        /\ c \notin respClosed
    BY <2>1 DEF ItemInv, ItemsAreAwaited, ClosedIsLast, AwaitedBy
  <2>3. /\ Len(workQueue) \in Nat
        /\ DOMAIN workQueue = 1..Len(workQueue)
        /\ DOMAIN workQueue' = 1..(Len(workQueue) + 1)
        /\ \A i \in 1..Len(workQueue) : workQueue'[i] = workQueue[i]
        /\ workQueue'[Len(workQueue) + 1] = item
    BY <2>1 DEF TypeOK, SharedTypeOK
  <2>4. \A i \in DOMAIN workQueue' :
            \/ i \in DOMAIN workQueue /\ workQueue'[i] = workQueue[i]
            \/ i = Len(workQueue) + 1 /\ workQueue'[i].chan = c /\ workQueue'[i].key = ckey[c]
    BY <2>3
  <2>5. cpc'[c] = "select" /\ \A d \in Clients \ {c} : cpc'[d] = cpc[d]
    BY <2>1 DEF TypeOK, ClientTypeOK
  <2>6. ItemsAreAwaited'
    BY <2>1, <2>2, <2>4, <2>5 DEF ItemInv, ItemsAreAwaited, AwaitedBy, Owes
  <2>7. ItemsAreUnique'
    BY <2>1, <2>2, <2>4 DEF ItemInv, ItemsAreUnique, Owes
  <2>8. ClosedIsLast'
    BY <2>1, <2>2, <2>4, <2>5 DEF ItemInv, ClosedIsLast, Owes, TypeOK, SharedTypeOK
  <2>9. EarlyHasNothing'
    BY <2>1, <2>5 DEF ItemInv, EarlyHasNothing
  <2> QED
    BY <2>6, <2>7, <2>8, <2>9 DEF ItemInv
<1>4. ASSUME NEW c \in Clients, EnqueuePanics(c) PROVE ItemInv'
  BY <1>4, ItemsUntouched DEF EnqueuePanics, clientVars, workerVars, Owes
<1>5. ASSUME NEW c \in Clients, RecvClosed(c) PROVE ItemInv'
  <2>1. /\ cpc[c] = "select" /\ cpc' = [cpc EXCEPT ![c] = "got"]
        /\ c \in respClosed /\ respClosed' = respClosed \ {c}
        /\ UNCHANGED <<ckey, ticket, cached, workQueue, wpc, work>>
    BY <1>5 DEF RecvClosed, Goto, workerVars
  <2>2. \A d \in Clients \ {c} : cpc'[d] = cpc[d]
    BY <2>1 DEF TypeOK, ClientTypeOK
  <2>3. /\ \A i \in DOMAIN workQueue : workQueue[i].chan # c
        /\ \A w \in Workers : ~ (Owes(w) /\ work[w].chan = c)
    BY <2>1 DEF ItemInv, ClosedIsLast
  <2>4. ItemsAreAwaited' /\ ItemsAreUnique'
    BY <2>1, <2>2, <2>3 DEF ItemInv, ItemsAreAwaited, ItemsAreUnique, AwaitedBy, Owes
  <2>5. ClosedIsLast'
    BY <2>1, <2>2 DEF ItemInv, ClosedIsLast, Owes, TypeOK, SharedTypeOK
  <2>6. EarlyHasNothing'
    BY <2>1 DEF ItemInv, EarlyHasNothing, TypeOK, ClientTypeOK
  <2> QED
    BY <2>4, <2>5, <2>6 DEF ItemInv
<1>6. ASSUME NEW c \in Clients, Got(c) PROVE ItemInv'
  <2>1. cpc[c] = "got" /\ UNCHANGED <<workQueue, respClosed, wpc, work>>
    BY <1>6 DEF Got, workerVars
  <2>2. CASE Get(c).val \in {"absent", "data"}
    BY <1>6, <2>1, <2>2, RoundEndsItems DEF Got, Outcomes
  <2>3. CASE Get(c).val \in {"nil", "err"}
    <3>1. /\ cpc' = [cpc EXCEPT ![c] = IF ticket[c] = None THEN "delete" ELSE "lock"]
          /\ UNCHANGED <<ckey, ticket, cached>>
      BY <1>6, <2>3 DEF Got, Goto
    <3>2. EarlyHasNothing'
      BY <2>1, <3>1 DEF ItemInv, EarlyHasNothing, TypeOK, ClientTypeOK
    <3>3. ItemsAreAwaited' /\ ItemsAreUnique' /\ ClosedIsLast'
      BY <2>1, <3>1, ClientMoves DEF ClientPcs
    <3> QED
      BY <3>2, <3>3 DEF ItemInv
  <2> QED
    BY <1>6, <2>2, <2>3 DEF Got
<1>7. ASSUME NEW c \in Clients, Delete(c) PROVE ItemInv'
  BY <1>7, RoundEndsItems DEF Delete, workerVars
<1>8. ASSUME NEW c \in Clients, LockTicket(c) PROVE ItemInv'
  <2>1. /\ cpc[c] = "lock" /\ cpc' = [cpc EXCEPT ![c] = "examine"]
        /\ UNCHANGED <<ckey, ticket, cached, workQueue, respClosed, wpc, work>>
    BY <1>8 DEF LockTicket, Goto, workerVars
  <2>2. EarlyHasNothing'
    BY <2>1 DEF ItemInv, EarlyHasNothing, TypeOK, ClientTypeOK
  <2> QED
    BY <2>1, <2>2, ClientMoves DEF ItemInv, ClientPcs
<1>9. ASSUME NEW c \in Clients, Examine(c) PROVE ItemInv'
  <2>1. /\ cpc[c] = "examine"
        /\ cpc' = [cpc EXCEPT ![c] = IF StopsWaiting(c, Get(c)) THEN "unlock" ELSE "sleep"]
        /\ cached' = [cached EXCEPT ![c] = Get(c)]
        /\ UNCHANGED <<ckey, ticket, workQueue, respClosed, wpc, work>>
    BY <1>9 DEF Examine, Goto, workerVars
  <2>2. EarlyHasNothing'
    BY <2>1 DEF StopsWaiting, ItemInv, EarlyHasNothing, TypeOK, ClientTypeOK
  <2>3. ItemsAreAwaited' /\ ItemsAreUnique' /\ ClosedIsLast'
    BY <2>1, ClientMoves DEF ClientPcs
  <2> QED
    BY <2>2, <2>3 DEF ItemInv
<1>10. ASSUME NEW c \in Clients, Sleep(c) PROVE ItemInv'
  <2>1. /\ cpc[c] = "sleep" /\ cpc' = [cpc EXCEPT ![c] = "asleep"]
        /\ UNCHANGED <<ckey, ticket, cached, workQueue, respClosed, wpc, work>>
    BY <1>10 DEF Sleep, Goto, workerVars
  <2>2. EarlyHasNothing'
    BY <2>1 DEF ItemInv, EarlyHasNothing, TypeOK, ClientTypeOK
  <2> QED
    BY <2>1, <2>2, ClientMoves DEF ItemInv, ClientPcs
<1>11. ASSUME NEW c \in Clients, Unlock(c) PROVE ItemInv'
  <2>1. Retry(c) \/ \E o \in Outcomes : Return(c, o)
    BY <1>11 DEF Unlock, Outcomes
  <2> QED
    BY <1>11, <2>1, RoundEndsItems DEF Unlock, workerVars
<1>12. ASSUME NEW c \in Clients, Timeout(c) PROVE ItemInv'
  <2>1. /\ cpc' = [cpc EXCEPT ![c] = "idle"]
        /\ ticket' = [ticket EXCEPT ![c] = None]
        /\ cached' = [cached EXCEPT ![c] = Absent]
        /\ respClosed' = respClosed \ {c}
        /\ UNCHANGED wpc
    BY <1>12 DEF Timeout, Return, Goto
  <2>2. \A d \in Clients \ {c} : ckey'[d] = ckey[d] /\ cpc'[d] = cpc[d]
    BY <1>12, <2>1 DEF Timeout, Return, TypeOK, ClientTypeOK
  <2>3. /\ DOMAIN workQueue' = DOMAIN workQueue
        /\ \A i \in DOMAIN workQueue :
              /\ workQueue'[i].chan # c
              /\ workQueue'[i].chan # None => workQueue'[i] = workQueue[i]
    <3>1. \A i \in DOMAIN workQueue : workQueue[i] \in Work
      BY DEF TypeOK, SharedTypeOK
    <3> QED
      BY <1>12, <3>1 DEF Timeout, Orphan, Work
  <2>4. \A w \in Workers :
            /\ work'[w].chan # c
            /\ work'[w].chan # None => work'[w] = work[w]
    BY <1>12 DEF Timeout, Orphan, Work, NoWork, TypeOK, WorkerTypeOK
  <2>5. ItemsAreAwaited'
    BY <2>1, <2>2, <2>3, <2>4 DEF ItemInv, ItemsAreAwaited, AwaitedBy, Owes
  <2>6. ItemsAreUnique'
    BY <2>1, <2>3, <2>4 DEF ItemInv, ItemsAreUnique, Owes
  <2>7. ClosedIsLast'
    BY <2>1, <2>2, <2>3, <2>4 DEF ItemInv, ClosedIsLast, Owes, TypeOK, SharedTypeOK
  <2>8. EarlyHasNothing'
    BY <2>1 DEF ItemInv, EarlyHasNothing, Absent, TypeOK, ClientTypeOK
  <2> QED
    BY <2>5, <2>6, <2>7, <2>8 DEF ItemInv
<1>13. ASSUME NEW w \in Workers, Receive(w) PROVE ItemInv'
  <2>1. /\ wpc[w] = "idle" /\ wpc' = [wpc EXCEPT ![w] = "lookup"]
        /\ work' = [work EXCEPT ![w] = Head(workQueue)]
        /\ workQueue # <<>> /\ workQueue' = Tail(workQueue)
        /\ UNCHANGED <<cpc, ckey, ticket, cached, respClosed>>
    BY <1>13 DEF Receive, WGoto, clientVars
  <2>2. /\ 1 \in DOMAIN workQueue /\ work'[w] = workQueue[1]
        /\ \A i \in DOMAIN workQueue' :
              /\ i + 1 \in DOMAIN workQueue /\ i + 1 # 1
              /\ workQueue'[i] = workQueue[i + 1]
    <3>1. Len(workQueue) \in Nat /\ Len(workQueue) > 0 /\ DOMAIN workQueue = 1..Len(workQueue)
      BY <2>1 DEF TypeOK, SharedTypeOK
    <3>2. /\ DOMAIN workQueue' = 1..(Len(workQueue) - 1)
          /\ \A i \in 1..(Len(workQueue) - 1) : workQueue'[i] = workQueue[i + 1]
      BY <2>1, <3>1 DEF TypeOK, SharedTypeOK
    <3> QED
      BY <2>1, <3>1, <3>2 DEF TypeOK, WorkerTypeOK
  <2>3. /\ Owes(w)' /\ ~ Owes(w)
        /\ \A v \in Workers \ {w} : (Owes(v)' <=> Owes(v)) /\ work'[v] = work[v]
    BY <2>1 DEF Owes, TypeOK, WorkerTypeOK
  <2>4. ItemsAreAwaited'
    BY <2>1, <2>2, <2>3 DEF ItemInv, ItemsAreAwaited, AwaitedBy
  <2>5. ItemsAreUnique'
    <3> SUFFICES ASSUME NEW c \in Clients
                 PROVE  /\ \A i, j \in DOMAIN workQueue' :
                              workQueue'[i].chan = c /\ workQueue'[j].chan = c => i = j
                        /\ \A i \in DOMAIN workQueue' : \A v \in Workers :
                              ~ (workQueue'[i].chan = c /\ Owes(v)' /\ work'[v].chan = c)
                        /\ \A u, v \in Workers :
                              Owes(u)' /\ work'[u].chan = c /\ Owes(v)' /\ work'[v].chan = c
                              => u = v
      BY DEF ItemsAreUnique
    <3>1. \A i \in DOMAIN workQueue' : i \in Nat
      BY DEF TypeOK, SharedTypeOK
    <3>2. \A i, j \in DOMAIN workQueue' :
              workQueue'[i].chan = c /\ workQueue'[j].chan = c => i + 1 = j + 1
      BY <2>2 DEF ItemInv, ItemsAreUnique
    <3>3. \A i \in DOMAIN workQueue' : \A v \in Workers :
              ~ (workQueue'[i].chan = c /\ Owes(v)' /\ work'[v].chan = c)
      BY <2>2, <2>3 DEF ItemInv, ItemsAreUnique
    <3>4. \A u, v \in Workers :
              Owes(u)' /\ work'[u].chan = c /\ Owes(v)' /\ work'[v].chan = c => u = v
      BY <2>2, <2>3 DEF ItemInv, ItemsAreUnique
    <3> QED
      BY <3>1, <3>2, <3>3, <3>4
  <2>6. ClosedIsLast'
    BY <2>1, <2>2, <2>3 DEF ItemInv, ClosedIsLast
  <2>7. EarlyHasNothing'
    BY <2>1 DEF ItemInv, EarlyHasNothing
  <2> QED
    BY <2>4, <2>5, <2>6, <2>7 DEF ItemInv
<1>14. ASSUME NEW w \in Workers, Exit(w) PROVE ItemInv'
  BY <1>14, ItemsUntouched DEF Exit, WGoto, clientVars, Owes, TypeOK, WorkerTypeOK
<1>15. ASSUME NEW w \in Workers, GetOrInsert(w) PROVE ItemInv'
  <2>1. wpc[w] = "lookup" /\ UNCHANGED <<cpc, ckey, ticket, cached, workQueue>>
    BY <1>15 DEF GetOrInsert
  <2>2. CASE cache[work[w].key].val \in {"absent", "nil"}
    <3>1. \E pc \in {"grant", "forward"} : wpc' = [wpc EXCEPT ![w] = pc]
      BY <1>15, <2>2 DEF GetOrInsert, WGoto
    <3>2. UNCHANGED <<work, respClosed>>
      BY <1>15, <2>2 DEF GetOrInsert
    <3>3. \A v \in Workers : Owes(v)' => Owes(v)
      BY <2>1, <3>1 DEF Owes, TypeOK, WorkerTypeOK
    <3> QED
      BY <2>1, <3>2, <3>3, ItemsUntouched
  <2>3. CASE cache[work[w].key].val \in {"data", "err"}
    <3>1. /\ respClosed' = respClosed \cup ({work[w].chan} \cap Clients)
          /\ wpc' = [wpc EXCEPT ![w] = "idle"]
          /\ work' = [work EXCEPT ![w] = NoWork]
      BY <1>15, <2>3 DEF GetOrInsert, WGoto
    <3>2. /\ Owes(w) /\ ~ Owes(w)'
          /\ \A v \in Workers \ {w} : (Owes(v)' <=> Owes(v)) /\ work'[v] = work[v]
      BY <2>1, <3>1 DEF Owes, TypeOK, WorkerTypeOK
    <3>3. ItemsAreAwaited' /\ ItemsAreUnique' /\ EarlyHasNothing'
      BY <2>1, <3>2 DEF ItemInv, ItemsAreAwaited, ItemsAreUnique, EarlyHasNothing, AwaitedBy
    <3>4. ASSUME NEW c \in Clients, c = work[w].chan
          PROVE  /\ cpc[c] = "select"
                 /\ \A i \in DOMAIN workQueue : workQueue[i].chan # c
                 /\ \A v \in Workers \ {w} : ~ (Owes(v) /\ work[v].chan = c)
      BY <3>2, <3>4 DEF ItemInv, ItemsAreAwaited, ItemsAreUnique, AwaitedBy
    <3>5. ClosedIsLast'
      BY <2>1, <3>1, <3>2, <3>4 DEF ItemInv, ClosedIsLast
    <3> QED
      BY <3>3, <3>5 DEF ItemInv
  <2> QED
    BY <1>15, <2>2, <2>3 DEF GetOrInsert
<1>16. ASSUME NEW w \in Workers, NEW c \in Clients, SendTicket(w, c) PROVE ItemInv'
  <2>1. /\ work[w].chan = c /\ Owes(w)
        /\ cpc' = [cpc EXCEPT ![c] = "got"]
        /\ ticket' = [ticket EXCEPT ![c] = offer[w]]
        /\ UNCHANGED <<ckey, cached, workQueue, respClosed>>
    BY <1>16 DEF SendTicket, Goto, Owes
  <2>2. /\ ~ Owes(w)'
        /\ \A v \in Workers \ {w} : (Owes(v)' <=> Owes(v)) /\ work'[v] = work[v]
    BY <1>16 DEF SendTicket, WGoto, Owes, TypeOK, WorkerTypeOK
  <2>3. \A d \in Clients \ {c} : cpc'[d] = cpc[d] /\ ticket'[d] = ticket[d]
    BY <2>1 DEF TypeOK, ClientTypeOK
  <2>4. /\ \A i \in DOMAIN workQueue : workQueue[i].chan # c
        /\ \A v \in Workers \ {w} : ~ (Owes(v) /\ work[v].chan = c)
        /\ c \notin respClosed
    BY <2>1 DEF ItemInv, ItemsAreUnique, ClosedIsLast
  <2>5. ItemsAreAwaited'
    BY <2>1, <2>2, <2>3, <2>4 DEF ItemInv, ItemsAreAwaited, AwaitedBy
  <2>6. ItemsAreUnique'
    BY <2>1, <2>2 DEF ItemInv, ItemsAreUnique
  <2>7. ClosedIsLast'
    BY <2>1, <2>2, <2>3, <2>4 DEF ItemInv, ClosedIsLast, TypeOK, SharedTypeOK
  <2>8. EarlyHasNothing'
    BY <1>16, <2>1, <2>3 DEF SendTicket, ItemInv, EarlyHasNothing, TypeOK, ClientTypeOK
  <2> QED
    BY <2>5, <2>6, <2>7, <2>8 DEF ItemInv
<1>17. ASSUME NEW w \in Workers, LockOwn(w) PROVE ItemInv'
  BY <1>17, ItemsUntouched DEF LockOwn, WGoto, clientVars, Owes, TypeOK, WorkerTypeOK
<1>18. ASSUME NEW w \in Workers, NEW r \in Results, Request(w, r) PROVE ItemInv'
  BY <1>18, ItemsUntouched DEF Request, WGoto, clientVars, Owes, TypeOK, WorkerTypeOK
<1>19. ASSUME NEW w \in Workers, Store(w) PROVE ItemInv'
  BY <1>19, ItemsUntouched DEF Store, WGoto, clientVars, Owes, TypeOK, WorkerTypeOK
<1>20. ASSUME NEW w \in Workers, Broadcast(w) PROVE ItemInv'
  <2>1. /\ \A c \in Clients : \/ cpc'[c] = cpc[c]
                              \/ cpc[c] = "asleep" /\ cpc'[c] = "lock"
        /\ UNCHANGED <<ckey, ticket, cached, workQueue, respClosed>>
    BY <1>20 DEF Broadcast, Sleepers
  <2>2. \A v \in Workers : (Owes(v)' <=> Owes(v)) /\ (Owes(v) => work'[v] = work[v])
    BY <1>20 DEF Broadcast, WGoto, Owes, TypeOK, WorkerTypeOK
  <2>3. ItemsAreAwaited'
    BY <2>1, <2>2 DEF ItemInv, ItemsAreAwaited, AwaitedBy
  <2>4. ItemsAreUnique'
    BY <2>1, <2>2 DEF ItemInv, ItemsAreUnique
  <2>5. ClosedIsLast'
    BY <2>1, <2>2 DEF ItemInv, ClosedIsLast, TypeOK, SharedTypeOK
  <2>6. EarlyHasNothing'
    BY <2>1 DEF ItemInv, EarlyHasNothing
  <2> QED
    BY <2>3, <2>4, <2>5, <2>6 DEF ItemInv
<1>21. ASSUME StartClear PROVE ItemInv'
  BY <1>21, ItemsUntouched DEF StartClear, clientVars, workerVars, Owes
<1>22. ASSUME ScanKeys PROVE ItemInv'
  BY <1>22, ItemsUntouched DEF ScanKeys, clientVars, workerVars, Owes
<1>23. ASSUME WipeKeys PROVE ItemInv'
  BY <1>23, ItemsUntouched DEF WipeKeys, clientVars, workerVars, Owes
<1>24. ASSUME Stop PROVE ItemInv'
  BY <1>24, ItemsUntouched DEF Stop, clientVars, workerVars, Owes
<1>25. ASSUME UNCHANGED vars PROVE ItemInv'
  BY <1>25, ItemsUntouched DEF vars, clientVars, workerVars, Owes
<1> QED
  BY <1>1, <1>2, <1>3, <1>4, <1>5, <1>6, <1>7, <1>8, <1>9, <1>10, <1>11, <1>12, <1>13, <1>14, <1>15, <1>16, <1>17, <1>18, <1>19, <1>20, <1>21, <1>22, <1>23, <1>24, <1>25 DEF Next, ClientStep, WorkerStep

-----------------------------------------------------------------------------
\* A step after which there is no error, ticket, answer or entry that was not
\* there before.
LEMMA FreshKept ==
    ASSUME TypeOK, ItemInv, FreshInv, UNCHANGED published,
           \A k \in Keys : cache'[k].val = "err" => cache[k].val = "err",
           \A c \in Clients :
               /\ ticket'[c] = None \/ (ticket'[c] = ticket[c] /\ ckey'[c] = ckey[c])
               /\ cached'[c].val = "err" => cached[c].val = "err"
               /\ result'[c] = "err" => result[c] = "err" \/ cached[c].val = "err",
           \A w \in Workers : wpc'[w] \in {"grant", "forward"} =>
               /\ wpc[w] \in {"grant", "forward"}
               /\ work'[w].chan \in {work[w].chan, None}
               /\ work'[w].key = work[w].key
    PROVE  FreshInv'
<1> USE ConstantsAssumption
<1>1. \A w \in Workers : wpc[w] \in {"grant", "forward"} => work[w].key \in Keys
  BY DEF TypeOK, WorkerTypeOK, Work
<1>2. \A c \in Clients : ticket[c] # None => ckey[c] \in Keys
  BY DEF ItemInv, EarlyHasNothing, TypeOK, ClientTypeOK
<1>3. TicketsAreFresh'
  <2>1. ASSUME NEW w \in Workers, NEW c \in Clients,
               wpc'[w] \in {"grant", "forward"}, work'[w].chan = c,
               cache'[work'[w].key].val = "err"
        PROVE  Told(c)'
    <3>1. work[w].chan = c /\ cache[work[w].key].val = "err"
      BY <1>1, <2>1
    <3> QED
      BY <2>1, <3>1 DEF FreshInv, TicketsAreFresh, Told
  <2>2. ASSUME NEW c \in Clients, ticket'[c] # None, cache'[ckey'[c]].val = "err"
        PROVE  Told(c)'
    BY <1>2, <2>2 DEF FreshInv, TicketsAreFresh, Told, Get
  <2> QED
    BY <2>1, <2>2 DEF TicketsAreFresh, Get
<1>4. EntriesAreFresh' /\ ErrorsAreFresh'
  BY DEF FreshInv, EntriesAreFresh, ErrorsAreFresh, Told
<1> QED
  BY <1>3, <1>4 DEF FreshInv

\* A client that returns or continues brings no new error along.
LEMMA RoundEndsFresh ==
    ASSUME TypeOK, ItemInv, FreshInv, NEW c \in Clients,
           \/ Retry(c)
           \/ \E o \in Outcomes : Return(c, o) /\ (o = "err" => cached[c].val = "err"),
           \A k \in Keys : cache'[k].val = "err" => cache[k].val = "err",
           UNCHANGED <<published, wpc, work>>
    PROVE  FreshInv'
<1>1. /\ ticket' = [ticket EXCEPT ![c] = None]
      /\ cached' = [cached EXCEPT ![c] = Absent]
      /\ \A d \in Clients \ {c} : ckey'[d] = ckey[d] /\ result'[d] = result[d]
  BY RoundEndsEmpty
<1>2. result'[c] = "err" => result[c] = "err" \/ cached[c].val = "err"
  BY DEF Retry, Return, TypeOK, ClientTypeOK
<1>3. \A d \in Clients :
          /\ ticket'[d] = None \/ (ticket'[d] = ticket[d] /\ ckey'[d] = ckey[d])
          /\ cached'[d].val = "err" => cached[d].val = "err"
          /\ result'[d] = "err" => result[d] = "err" \/ cached[d].val = "err"
  BY <1>1, <1>2 DEF Absent, TypeOK, ClientTypeOK
<1> QED
  BY <1>3, FreshKept

\* Every step keeps errors fresh.
LEMMA NextFreshInv ==
    ASSUME IInv, ItemInv, FreshInv, [Next]_vars
    PROVE  FreshInv'
<1> USE ConstantsAssumption
<1>t. TypeOK /\ TypeOK'
  BY TypeStep DEF IInv
<1> USE <1>t
<1>1. ASSUME NEW c \in Clients, NEW k \in Keys, Call(c, k) PROVE FreshInv'
  <2>1. /\ cpc[c] = "idle" /\ result' = [result EXCEPT ![c] = "none"]
        /\ published' = [published EXCEPT ![c] = {}] /\ ckey' = [ckey EXCEPT ![c] = k]
        /\ UNCHANGED <<cache, ticket, cached, wpc, work>>
    BY <1>1 DEF Call, workerVars
  <2>2. ticket[c] = None /\ cached[c].val # "err"
    BY <2>1 DEF ItemInv, EarlyHasNothing
  <2>3. \A w \in Workers : wpc[w] \in {"grant", "forward"} => work[w].chan # c
    BY <2>1 DEF ItemInv, ItemsAreAwaited, AwaitedBy, Owes
  <2>4. result'[c] = "none"
        /\ \A d \in Clients \ {c} : /\ ckey'[d] = ckey[d] /\ result'[d] = result[d]
                                    /\ published'[d] = published[d]
    BY <2>1 DEF TypeOK, ClientTypeOK, SharedTypeOK
  <2>5. TicketsAreFresh'
    BY <2>1, <2>2, <2>3, <2>4 DEF FreshInv, TicketsAreFresh, Told, Get
  <2>6. EntriesAreFresh' /\ ErrorsAreFresh'
    BY <2>1, <2>2, <2>4 DEF FreshInv, EntriesAreFresh, ErrorsAreFresh, Told
  <2> QED
    BY <2>5, <2>6 DEF FreshInv
<1>2. ASSUME NEW c \in Clients, Check(c) PROVE FreshInv'
  <2>1. UNCHANGED <<cache, published, wpc, work>>
    BY <1>2 DEF Check, workerVars
  <2>2. CASE Get(c).val = "data"
    BY <1>2, <2>1, <2>2, RoundEndsFresh DEF Check, Outcomes
  <2>3. CASE Get(c).val # "data"
    BY <1>2, <2>1, <2>3, FreshKept DEF Check
  <2> QED
    BY <2>2, <2>3
<1>3. ASSUME NEW c \in Clients, Enqueue(c) PROVE FreshInv'
  BY <1>3, FreshKept DEF Enqueue, workerVars
<1>4. ASSUME NEW c \in Clients, EnqueuePanics(c) PROVE FreshInv'
  BY <1>4, FreshKept DEF EnqueuePanics, clientVars, workerVars
<1>5. ASSUME NEW c \in Clients, RecvClosed(c) PROVE FreshInv'
  BY <1>5, FreshKept DEF RecvClosed, workerVars
<1>6. ASSUME NEW c \in Clients, Got(c) PROVE FreshInv'
  <2>1. UNCHANGED <<cache, published, wpc, work>>
    BY <1>6 DEF Got, workerVars
  <2>2. CASE Get(c).val \in {"absent", "data"}
    BY <1>6, <2>1, <2>2, RoundEndsFresh DEF Got, Outcomes
  <2>3. CASE Get(c).val \in {"nil", "err"}
    BY <1>6, <2>1, <2>3, FreshKept DEF Got
  <2> QED
    BY <1>6, <2>2, <2>3 DEF Got
<1>7. ASSUME NEW c \in Clients, Delete(c) PROVE FreshInv'
  <2>1. \A k \in Keys : cache'[k].val = "err" => cache[k].val = "err"
    BY <1>7 DEF Delete, Absent, TypeOK, SharedTypeOK
  <2> QED
    BY <1>7, <2>1, RoundEndsFresh DEF Delete, workerVars
<1>8. ASSUME NEW c \in Clients, LockTicket(c) PROVE FreshInv'
  BY <1>8, FreshKept DEF LockTicket, workerVars
<1>9. ASSUME NEW c \in Clients, Examine(c) PROVE FreshInv'
  <2>1. /\ cached' = [cached EXCEPT ![c] = Get(c)]
        /\ UNCHANGED <<cache, ckey, ticket, result, published, wpc, work>>
    BY <1>9 DEF Examine, workerVars
  <2>2. Get(c).val = "err" => Told(c)
    BY <1>9 DEF Examine, IInv, WaiterHasTicket, FreshInv, TicketsAreFresh, Lockers
  <2>3. EntriesAreFresh'
    BY <2>1, <2>2 DEF FreshInv, EntriesAreFresh, Told, TypeOK, ClientTypeOK
  <2>4. TicketsAreFresh' /\ ErrorsAreFresh'
    BY <2>1 DEF FreshInv, TicketsAreFresh, ErrorsAreFresh, Told, Get
  <2> QED
    BY <2>3, <2>4 DEF FreshInv
<1>10. ASSUME NEW c \in Clients, Sleep(c) PROVE FreshInv'
  BY <1>10, FreshKept DEF Sleep, workerVars
<1>11. ASSUME NEW c \in Clients, Unlock(c) PROVE FreshInv'
  <2>1. UNCHANGED <<cache, published, wpc, work>>
    BY <1>11 DEF Unlock, workerVars
  <2>2. \/ Retry(c)
        \/ \E o \in Outcomes : Return(c, o) /\ (o = "err" => cached[c].val = "err")
    BY <1>11 DEF Unlock, Outcomes
  <2> QED
    BY <2>1, <2>2, RoundEndsFresh
<1>12. ASSUME NEW c \in Clients, Timeout(c) PROVE FreshInv'
  <2>1. /\ ticket' = [ticket EXCEPT ![c] = None]
        /\ cached' = [cached EXCEPT ![c] = Absent]
        /\ ckey' = [ckey EXCEPT ![c] = None]
        /\ result' = [result EXCEPT ![c] = "timeout"]
        /\ UNCHANGED <<cache, published, wpc>>
    BY <1>12 DEF Timeout, Return
  <2>2. \A w \in Workers : /\ work'[w].chan \in {work[w].chan, None}
                           /\ work'[w].key = work[w].key
    BY <1>12 DEF Timeout, Orphan, Work, NoWork, TypeOK, WorkerTypeOK
  <2>3. \A d \in Clients :
            /\ ticket'[d] = None \/ (ticket'[d] = ticket[d] /\ ckey'[d] = ckey[d])
            /\ cached'[d].val = "err" => cached[d].val = "err"
            /\ result'[d] = "err" => result[d] = "err" \/ cached[d].val = "err"
    BY <2>1 DEF Absent, TypeOK, ClientTypeOK
  <2> QED
    BY <2>1, <2>2, <2>3, FreshKept
<1>13. ASSUME NEW w \in Workers, Receive(w) PROVE FreshInv'
  <2>1. \A v \in Workers : wpc'[v] \in {"grant", "forward"} =>
            wpc[v] \in {"grant", "forward"} /\ work'[v] = work[v]
    BY <1>13 DEF Receive, WGoto, TypeOK, WorkerTypeOK
  <2> QED
    BY <1>13, <2>1, FreshKept DEF Receive, clientVars
<1>14. ASSUME NEW w \in Workers, Exit(w) PROVE FreshInv'
  <2>1. \A v \in Workers : wpc'[v] \in {"grant", "forward"} => wpc[v] \in {"grant", "forward"}
    BY <1>14 DEF Exit, WGoto, TypeOK, WorkerTypeOK
  <2> QED
    BY <1>14, <2>1, FreshKept DEF Exit, clientVars
<1>15. ASSUME NEW w \in Workers, GetOrInsert(w) PROVE FreshInv'
  <2>1. UNCHANGED <<ckey, ticket, cached, result, published>>
    BY <1>15 DEF GetOrInsert
  <2>2. work[w].key \in Keys
    BY <1>15 DEF GetOrInsert, TypeOK, WorkerTypeOK, Work
  <2>3. \A k \in Keys : cache'[k].val = "err" => cache[k].val = "err"
    BY <1>15, <2>2 DEF GetOrInsert, Pending, TypeOK, SharedTypeOK
  <2>4. \A v \in Workers \ {w} : wpc'[v] = wpc[v] /\ work'[v] = work[v]
    BY <1>15 DEF GetOrInsert, WGoto, TypeOK, WorkerTypeOK
  <2>5. wpc'[w] \in {"grant", "forward"} =>
            work'[w] = work[w] /\ cache'[work[w].key].val = "nil"
    BY <1>15, <2>2 DEF GetOrInsert, WGoto, Pending, TypeOK, WorkerTypeOK, SharedTypeOK
  <2>6. \A v \in Workers : wpc[v] \in {"grant", "forward"} => work[v].key \in Keys
    BY DEF TypeOK, WorkerTypeOK, Work
  <2>7. \A c \in Clients : ticket[c] # None => ckey[c] \in Keys
    BY DEF ItemInv, EarlyHasNothing, TypeOK, ClientTypeOK
  <2>8. TicketsAreFresh'
    BY <2>1, <2>3, <2>4, <2>5, <2>6, <2>7 DEF FreshInv, TicketsAreFresh, Told, Get
  <2>9. EntriesAreFresh' /\ ErrorsAreFresh'
    BY <2>1 DEF FreshInv, EntriesAreFresh, ErrorsAreFresh, Told
  <2> QED
    BY <2>8, <2>9 DEF FreshInv
<1>16. ASSUME NEW w \in Workers, NEW c \in Clients, SendTicket(w, c) PROVE FreshInv'
  <2>1. /\ UNCHANGED <<cache, ckey, cached, result, published>>
        /\ work[w].chan = c /\ wpc[w] \in {"grant", "forward"}
        /\ \A d \in Clients \ {c} : ticket'[d] = ticket[d]
    BY <1>16 DEF SendTicket, TypeOK, ClientTypeOK
  <2>2. \A v \in Workers : wpc'[v] \in {"grant", "forward"} =>
            wpc[v] \in {"grant", "forward"} /\ work'[v] = work[v]
    BY <1>16 DEF SendTicket, WGoto, TypeOK, WorkerTypeOK
  <2>3. Get(c).val = "err" => Told(c)
    <3>1. work[w].key = ckey[c]
      BY <2>1 DEF ItemInv, ItemsAreAwaited, AwaitedBy, Owes
    <3> QED
      BY <2>1, <3>1 DEF FreshInv, TicketsAreFresh, Get
  <2>4. TicketsAreFresh'
    BY <2>1, <2>2, <2>3 DEF FreshInv, TicketsAreFresh, Told, Get
  <2>5. EntriesAreFresh' /\ ErrorsAreFresh'
    BY <2>1 DEF FreshInv, EntriesAreFresh, ErrorsAreFresh, Told
  <2> QED
    BY <2>4, <2>5 DEF FreshInv
<1>17. ASSUME NEW w \in Workers, LockOwn(w) PROVE FreshInv'
  <2>1. \A v \in Workers : wpc'[v] \in {"grant", "forward"} => wpc[v] \in {"grant", "forward"}
    BY <1>17 DEF LockOwn, WGoto, TypeOK, WorkerTypeOK
  <2> QED
    BY <1>17, <2>1, FreshKept DEF LockOwn, clientVars
<1>18. ASSUME NEW w \in Workers, NEW r \in Results, Request(w, r) PROVE FreshInv'
  <2>1. \A v \in Workers : wpc'[v] \in {"grant", "forward"} => wpc[v] \in {"grant", "forward"}
    BY <1>18 DEF Request, WGoto, TypeOK, WorkerTypeOK
  <2> QED
    BY <1>18, <2>1, FreshKept DEF Request, clientVars
<1>19. ASSUME NEW w \in Workers, Store(w) PROVE FreshInv'
  <2> DEFINE k == work[w].key
  <2>1. k \in Keys
    BY <1>19 DEF Store, TypeOK, WorkerTypeOK, Work
  <2>2. /\ cache' = [cache EXCEPT ![k] = Finished(reply[w])]
        /\ \A c \in Clients : /\ Told(c) => Told(c)'
                              /\ ckey[c] = k /\ reply[w] = "err" => Told(c)'
        /\ UNCHANGED <<ckey, ticket, cached, result, work>>
    BY <1>19 DEF Store, Told, clientVars
  <2>3. \A v \in Workers : wpc'[v] \in {"grant", "forward"} => wpc[v] \in {"grant", "forward"}
    BY <1>19 DEF Store, WGoto, TypeOK, WorkerTypeOK
  <2>4. \A j \in Keys : cache'[j].val = "err" =>
            cache[j].val = "err" \/ (j = k /\ reply[w] = "err")
    BY <2>1, <2>2 DEF Finished, TypeOK, SharedTypeOK
  <2>5. \A v \in Workers : wpc[v] \in {"grant", "forward"} => work[v].key \in Keys
    BY DEF TypeOK, WorkerTypeOK, Work
  <2>6. \A c \in Clients : ticket[c] # None => ckey[c] \in Keys
    BY DEF ItemInv, EarlyHasNothing, TypeOK, ClientTypeOK
  <2>7. \A v \in Workers : \A c \in Clients :
            wpc[v] \in {"grant", "forward"} /\ work[v].chan = c => work[v].key = ckey[c]
    BY DEF ItemInv, ItemsAreAwaited, AwaitedBy, Owes
  <2> HIDE DEF k
  <2>8. ASSUME NEW v \in Workers, NEW c \in Clients,
               wpc'[v] \in {"grant", "forward"}, work'[v].chan = c,
               cache'[work'[v].key].val = "err"
        PROVE  Told(c)'
    BY <2>2, <2>3, <2>4, <2>5, <2>7, <2>8 DEF FreshInv, TicketsAreFresh
  <2>9. ASSUME NEW c \in Clients, ticket'[c] # None, cache'[ckey'[c]].val = "err"
        PROVE  Told(c)'
    BY <2>2, <2>4, <2>6, <2>9 DEF FreshInv, TicketsAreFresh, Get
  <2>10. TicketsAreFresh'
    BY <2>8, <2>9 DEF TicketsAreFresh, Get
  <2>11. EntriesAreFresh'
    BY <2>2 DEF FreshInv, EntriesAreFresh
  <2>12. ErrorsAreFresh'
    BY <2>2 DEF FreshInv, ErrorsAreFresh, Told
  <2> QED
    BY <2>10, <2>11, <2>12 DEF FreshInv
<1>20. ASSUME NEW w \in Workers, Broadcast(w) PROVE FreshInv'
  <2>1. \A v \in Workers : wpc'[v] \in {"grant", "forward"} =>
            wpc[v] \in {"grant", "forward"} /\ work'[v] = work[v]
    BY <1>20 DEF Broadcast, WGoto, TypeOK, WorkerTypeOK
  <2> QED
    BY <1>20, <2>1, FreshKept DEF Broadcast
<1>21. ASSUME StartClear PROVE FreshInv'
  BY <1>21, FreshKept DEF StartClear, clientVars, workerVars
<1>22. ASSUME ScanKeys PROVE FreshInv'
  BY <1>22, FreshKept DEF ScanKeys, clientVars, workerVars
<1>23. ASSUME WipeKeys PROVE FreshInv'
  <2>1. \A k \in Keys : cache'[k].val = "err" => cache[k].val = "err"
    BY <1>23 DEF WipeKeys, Absent
  <2> QED
    BY <1>23, <2>1, FreshKept DEF WipeKeys, clientVars, workerVars
<1>24. ASSUME Stop PROVE FreshInv'
  BY <1>24, FreshKept DEF Stop, clientVars, workerVars
<1>25. ASSUME UNCHANGED vars PROVE FreshInv'
  BY <1>25, FreshKept DEF vars, clientVars, workerVars
<1> QED
  BY <1>1, <1>2, <1>3, <1>4, <1>5, <1>6, <1>7, <1>8, <1>9, <1>10, <1>11, <1>12, <1>13, <1>14, <1>15, <1>16, <1>17, <1>18, <1>19, <1>20, <1>21, <1>22, <1>23, <1>24, <1>25 DEF Next, ClientStep, WorkerStep

-----------------------------------------------------------------------------
\* A step without clears and errors that leaves the cache alone.
LEMMA FlightKept ==
    ASSUME TypeOK, FlightInv, clears = 0, UNCHANGED <<cache, clearPc>>,
           \A w \in Workers : /\ Fetching(w)' => Fetching(w) /\ work'[w].key = work[w].key
                              /\ reply'[w] # "err",
           \A c \in Clients :
               /\ c \in respClosed' => c \in respClosed /\ ckey'[c] = ckey[c]
               /\ cpc'[c] = "got" /\ ticket'[c] = None =>
                     /\ \/ cpc[c] = "got" /\ ticket[c] = None
                        \/ c \in respClosed
                     /\ ckey'[c] = ckey[c]
               /\ cpc'[c] # "delete"
    PROVE  FlightInv'
<1>1. SingleFlight'
  BY DEF FlightInv, SingleFlight, Pending
<1>2. NothingDeleted'
  BY DEF FlightInv, NothingDeleted, Get
<1> QED
  BY <1>1, <1>2 DEF FlightInv

\* A client that returns or continues.
LEMMA RoundEndsFlight ==
    ASSUME TypeOK, ItemInv, FlightInv, clears = 0, NEW c \in Clients, cpc[c] # "select",
           Retry(c) \/ \E o \in Outcomes : Return(c, o),
           UNCHANGED <<cache, clearPc, wpc, work, reply, respClosed>>
    PROVE  FlightInv'
<1>1. PICK pc \in ClientPcs \ {"select"} :
          pc \in {"idle", "check"} /\ cpc' = [cpc EXCEPT ![c] = pc]
  BY RoundEndsEmpty
<1>2. /\ \A d \in Clients \ {c} : ckey'[d] = ckey[d]
      /\ ticket' = [ticket EXCEPT ![c] = None]
  BY RoundEndsEmpty
<1>3. c \notin respClosed
  BY DEF ItemInv, ClosedIsLast
<1>4. \A d \in Clients :
          /\ d \in respClosed' => d \in respClosed /\ ckey'[d] = ckey[d]
          /\ cpc'[d] = "got" /\ ticket'[d] = None =>
                /\ \/ cpc[d] = "got" /\ ticket[d] = None
                   \/ d \in respClosed
                /\ ckey'[d] = ckey[d]
          /\ cpc'[d] # "delete"
  BY <1>1, <1>2, <1>3 DEF FlightInv, NothingDeleted, TypeOK, ClientTypeOK
<1>5. \A w \in Workers : /\ Fetching(w)' => Fetching(w) /\ work'[w].key = work[w].key
                         /\ reply'[w] # "err"
  BY DEF Fetching, FlightInv, NothingDeleted
<1> QED
  BY <1>4, <1>5, FlightKept

\* Without errors every step keeps single flight until the first clear.
LEMMA NextFlightInv ==
    ASSUME "err" \notin Results, IInv, ItemInv, FlightInv, [Next]_vars
    PROVE  FlightInv'
<1> USE ConstantsAssumption
<1>t. TypeOK /\ TypeOK'
  BY TypeStep DEF IInv
<1> USE <1>t
<1>0. CASE clears' # 0
  BY <1>0 DEF FlightInv, SingleFlight
<1> SUFFICES ASSUME clears' = 0 PROVE FlightInv'
  BY <1>0
<1>z. clears = 0
  <2>1. UNCHANGED clears \/ clears' = clears + 1
    BY DEF Next, ClientStep, WorkerStep, Call, Check, Enqueue, EnqueuePanics, RecvClosed, Got,
       Delete, LockTicket, Examine, Sleep, Unlock, Timeout, Receive, Exit, GetOrInsert,
       SendTicket, LockOwn, Request, Store, Broadcast, StartClear, ScanKeys, WipeKeys, Stop,
       clearVars, vars
  <2> QED
    BY <2>1 DEF TypeOK, ClearTypeOK
<1>n. NothingDeleted /\ \A w \in Workers : Fetching(w) => cache[work[w].key] = Pending(w)
  BY <1>z DEF FlightInv, SingleFlight
<1>p. \A w \in Workers : Fetching(w) =>
          cache[work[w].key].val = "nil" /\ cache[work[w].key].locker = w
  <2>1. \A w : Pending(w).val = "nil" /\ Pending(w).locker = w
    BY DEF Pending
  <2> QED
    BY <1>n, <2>1
<1>r. /\ \A w \in Workers : reply[w] # "err"
      /\ \A c \in Clients : cpc[c] # "delete"
  BY <1>n DEF NothingDeleted
<1>c. \A c \in Clients : c \in respClosed => cpc[c] = "select"
  BY DEF ItemInv, ClosedIsLast
<1>1. ASSUME NEW c \in Clients, NEW k \in Keys, Call(c, k) PROVE FlightInv'
  <2>1. \A d \in Clients :
            /\ d \in respClosed' => d \in respClosed /\ ckey'[d] = ckey[d]
            /\ cpc'[d] = "got" => cpc[d] = "got" /\ ckey'[d] = ckey[d]
            /\ cpc'[d] # "delete"
    BY <1>1, <1>r, <1>c DEF Call, Goto, TypeOK, ClientTypeOK
  <2> QED
    BY <1>1, <1>z, <1>r, <2>1, FlightKept DEF Call, workerVars, clearVars, Fetching
<1>2. ASSUME NEW c \in Clients, Check(c) PROVE FlightInv'
  <2>1. cpc[c] = "check" /\ UNCHANGED <<cache, clearPc, wpc, work, reply, respClosed>>
    BY <1>2 DEF Check, workerVars, clearVars
  <2>2. CASE Get(c).val = "data"
    BY <1>2, <1>z, <2>1, <2>2, RoundEndsFlight DEF Check, Outcomes
  <2>3. CASE Get(c).val # "data"
    <3>1. cpc' = [cpc EXCEPT ![c] = "enqueue"] /\ UNCHANGED <<ckey, ticket>>
      BY <1>2, <2>3 DEF Check, Goto
    <3>2. \A d \in Clients : (cpc'[d] = "got" => cpc[d] = "got") /\ cpc'[d] # "delete"
      BY <3>1, <1>r DEF TypeOK, ClientTypeOK
    <3> QED
      BY <1>z, <1>r, <2>1, <3>1, <3>2, FlightKept DEF Fetching
  <2> QED
    BY <2>2, <2>3
<1>3. ASSUME NEW c \in Clients, Enqueue(c) PROVE FlightInv'
  <2>1. \A d \in Clients : (cpc'[d] = "got" => cpc[d] = "got") /\ cpc'[d] # "delete"
    BY <1>3, <1>r DEF Enqueue, Goto, TypeOK, ClientTypeOK
  <2> QED
    BY <1>3, <1>z, <1>r, <2>1, FlightKept DEF Enqueue, workerVars, clearVars, Fetching
<1>4. ASSUME NEW c \in Clients, EnqueuePanics(c) PROVE FlightInv'
  BY <1>4, <1>z, <1>r, FlightKept DEF EnqueuePanics, clientVars, workerVars, clearVars, Fetching
<1>5. ASSUME NEW c \in Clients, RecvClosed(c) PROVE FlightInv'
  <2>1. \A d \in Clients :
            /\ d \in respClosed' => d \in respClosed
            /\ cpc'[d] = "got" => cpc[d] = "got" \/ d \in respClosed
            /\ cpc'[d] # "delete"
    BY <1>5, <1>r DEF RecvClosed, Goto, TypeOK, ClientTypeOK
  <2> QED
    BY <1>5, <1>z, <1>r, <2>1, FlightKept DEF RecvClosed, workerVars, clearVars, Fetching
<1>6. ASSUME NEW c \in Clients, Got(c) PROVE FlightInv'
  <2>1. cpc[c] = "got" /\ UNCHANGED <<cache, clearPc, wpc, work, reply, respClosed>>
    BY <1>6 DEF Got, workerVars, clearVars
  <2>2. CASE Get(c).val \in {"absent", "data"}
    BY <1>6, <1>z, <2>1, <2>2, RoundEndsFlight DEF Got, Outcomes
  <2>3. CASE Get(c).val \in {"nil", "err"}
    <3>1. ticket[c] # None
      BY <1>n, <2>1, <2>3 DEF NothingDeleted
    <3>2. cpc' = [cpc EXCEPT ![c] = "lock"] /\ UNCHANGED <<ckey, ticket>>
      BY <1>6, <2>3, <3>1 DEF Got, Goto
    <3>3. \A d \in Clients : (cpc'[d] = "got" => cpc[d] = "got") /\ cpc'[d] # "delete"
      BY <3>2, <1>r DEF TypeOK, ClientTypeOK
    <3> QED
      BY <1>z, <1>r, <2>1, <3>2, <3>3, FlightKept DEF Fetching
  <2> QED
    BY <1>6, <2>2, <2>3 DEF Got
<1>7. ASSUME NEW c \in Clients, Delete(c) PROVE FlightInv'
  BY <1>7, <1>r DEF Delete
<1>8. ASSUME NEW c \in Clients, LockTicket(c) PROVE FlightInv'
  <2>1. \A d \in Clients : (cpc'[d] = "got" => cpc[d] = "got") /\ cpc'[d] # "delete"
    BY <1>8, <1>r DEF LockTicket, Goto, TypeOK, ClientTypeOK
  <2> QED
    BY <1>8, <1>z, <1>r, <2>1, FlightKept DEF LockTicket, workerVars, clearVars, Fetching
<1>9. ASSUME NEW c \in Clients, Examine(c) PROVE FlightInv'
  <2>1. \A d \in Clients : (cpc'[d] = "got" => cpc[d] = "got") /\ cpc'[d] # "delete"
    BY <1>9, <1>r DEF Examine, Goto, TypeOK, ClientTypeOK
  <2> QED
    BY <1>9, <1>z, <1>r, <2>1, FlightKept DEF Examine, workerVars, clearVars, Fetching
<1>10. ASSUME NEW c \in Clients, Sleep(c) PROVE FlightInv'
  <2>1. \A d \in Clients : (cpc'[d] = "got" => cpc[d] = "got") /\ cpc'[d] # "delete"
    BY <1>10, <1>r DEF Sleep, Goto, TypeOK, ClientTypeOK
  <2> QED
    BY <1>10, <1>z, <1>r, <2>1, FlightKept DEF Sleep, workerVars, clearVars, Fetching
<1>11. ASSUME NEW c \in Clients, Unlock(c) PROVE FlightInv'
  <2>1. Retry(c) \/ \E o \in Outcomes : Return(c, o)
    BY <1>11 DEF Unlock, Outcomes
  <2> QED
    BY <1>11, <1>z, <2>1, RoundEndsFlight DEF Unlock, workerVars, clearVars
<1>12. ASSUME NEW c \in Clients, Timeout(c) PROVE FlightInv'
  <2>1. \A d \in Clients :
            /\ d \in respClosed' => d \in respClosed /\ ckey'[d] = ckey[d]
            /\ cpc'[d] = "got" /\ ticket'[d] = None =>
                  cpc[d] = "got" /\ ticket[d] = None /\ ckey'[d] = ckey[d]
            /\ cpc'[d] # "delete"
    BY <1>12, <1>r DEF Timeout, Return, Goto, TypeOK, ClientTypeOK
  <2>2. \A w \in Workers : work'[w].key = work[w].key
    BY <1>12, OrphanedItem DEF Timeout, TypeOK, WorkerTypeOK
  <2> QED
    BY <1>12, <1>z, <1>r, <2>1, <2>2, FlightKept DEF Timeout, clearVars, Fetching
<1>13. ASSUME NEW w \in Workers, Receive(w) PROVE FlightInv'
  <2>1. \A v \in Workers : Fetching(v)' => Fetching(v) /\ work'[v] = work[v]
    BY <1>13 DEF Receive, WGoto, Fetching, TypeOK, WorkerTypeOK
  <2> QED
    BY <1>13, <1>z, <1>r, <2>1, FlightKept DEF Receive, clientVars, clearVars
<1>14. ASSUME NEW w \in Workers, Exit(w) PROVE FlightInv'
  <2>1. \A v \in Workers : Fetching(v)' => Fetching(v)
    BY <1>14 DEF Exit, WGoto, Fetching, TypeOK, WorkerTypeOK
  <2> QED
    BY <1>14, <1>z, <1>r, <2>1, FlightKept DEF Exit, clientVars, clearVars
<1>15. ASSUME NEW w \in Workers, GetOrInsert(w) PROVE FlightInv'
  <2> DEFINE k == work[w].key
  <2>1. /\ wpc[w] = "lookup" /\ ~ Fetching(w)
        /\ UNCHANGED <<cpc, ckey, ticket, reply, clearPc>>
    BY <1>15 DEF GetOrInsert, Fetching, clearVars
  <2>2. k \in Keys
    BY <2>1 DEF TypeOK, WorkerTypeOK, Work
  <2>3. \A v \in Workers \ {w} : (Fetching(v)' <=> Fetching(v)) /\ work'[v] = work[v]
    BY <1>15 DEF GetOrInsert, WGoto, Fetching, TypeOK, WorkerTypeOK
  <2>4. CASE cache[k].val = "absent"
    <3>1. /\ cache' = [cache EXCEPT ![k] = Pending(w)]
          /\ UNCHANGED <<work, respClosed>>
      BY <1>15, <2>4 DEF GetOrInsert
    <3>2. \A v \in Workers : Fetching(v) => work[v].key # k
      BY <1>p, <2>4
    <3>3. \A v \in Workers : Fetching(v) => work[v].key \in Keys
      BY DEF Fetching, TypeOK, WorkerTypeOK, Work
    <3>4. SingleFlight'
      BY <1>n, <2>2, <2>3, <3>1, <3>2, <3>3 DEF SingleFlight, Pending, TypeOK, SharedTypeOK
    <3>5. \A j \in Keys : /\ cache[j].val = "data" => cache'[j].val = "data"
                          /\ cache'[j].val # "err"
      BY <1>n, <2>2, <2>4, <3>1 DEF NothingDeleted, Pending, TypeOK, SharedTypeOK
    <3>6. \A c \in Clients : cpc[c] # "idle" => ckey[c] \in Keys
      BY DEF TypeOK, ClientTypeOK
    <3>7. NothingDeleted'
      BY <1>n, <1>c, <2>1, <3>1, <3>5, <3>6 DEF NothingDeleted, Get
    <3> QED
      BY <3>4, <3>7 DEF FlightInv
  <2>5. CASE cache[k].val = "nil"
    <3>1. ~ Fetching(w)' /\ UNCHANGED <<cache, work, respClosed>>
      BY <1>15, <2>5 DEF GetOrInsert, WGoto, Fetching, TypeOK, WorkerTypeOK
    <3>2. \A c \in Clients : cpc'[c] # "delete"
      BY <1>r, <2>1
    <3> QED
      BY <1>z, <1>r, <2>1, <2>3, <3>1, <3>2, FlightKept
  <2>6. CASE cache[k].val \in {"data", "err"}
    <3>1. /\ ~ Fetching(w)' /\ UNCHANGED cache
          /\ respClosed' = respClosed \cup ({work[w].chan} \cap Clients)
      BY <1>15, <2>6 DEF GetOrInsert, WGoto, Fetching, TypeOK, WorkerTypeOK
    <3>2. cache[k].val = "data"
      BY <1>n, <2>2, <2>6 DEF NothingDeleted
    <3>3. \A c \in Clients : c = work[w].chan => ckey[c] = k
      BY <2>1 DEF ItemInv, ItemsAreAwaited, AwaitedBy, Owes
    <3>4. NothingDeleted'
      BY <1>n, <2>1, <3>1, <3>2, <3>3 DEF NothingDeleted, Get
    <3>5. SingleFlight'
      BY <1>n, <2>3, <3>1 DEF SingleFlight, Pending
    <3> QED
      BY <3>4, <3>5 DEF FlightInv
  <2> QED
    BY <1>15, <2>4, <2>5, <2>6 DEF GetOrInsert
<1>16. ASSUME NEW w \in Workers, NEW c \in Clients, SendTicket(w, c) PROVE FlightInv'
  <2>1. ticket'[c] # None
    BY <1>16 DEF SendTicket, TypeOK, ClientTypeOK, WorkerTypeOK, Lockers
  <2>2. /\ \A d \in Clients \ {c} : cpc'[d] = cpc[d] /\ ticket'[d] = ticket[d]
        /\ \A d \in Clients : cpc'[d] # "delete"
    BY <1>16, <1>r DEF SendTicket, Goto, TypeOK, ClientTypeOK
  <2>3. \A v \in Workers : Fetching(v)' => Fetching(v) /\ work'[v].key = work[v].key
    BY <1>16 DEF SendTicket, WGoto, Fetching, TypeOK, WorkerTypeOK
  <2>4. UNCHANGED <<cache, clearPc, reply, respClosed, ckey>>
    BY <1>16 DEF SendTicket, clearVars
  <2> QED
    BY <1>z, <1>r, <2>1, <2>2, <2>3, <2>4, FlightKept
<1>17. ASSUME NEW w \in Workers, LockOwn(w) PROVE FlightInv'
  <2>1. \A v \in Workers : Fetching(v)' => Fetching(v)
    BY <1>17 DEF LockOwn, WGoto, Fetching, TypeOK, WorkerTypeOK
  <2> QED
    BY <1>17, <1>z, <1>r, <2>1, FlightKept DEF LockOwn, clientVars, clearVars
<1>18. ASSUME NEW w \in Workers, NEW r \in Results, Request(w, r) PROVE FlightInv'
  <2>1. \A v \in Workers : (Fetching(v)' => Fetching(v)) /\ reply'[v] # "err"
    BY <1>18, <1>r DEF Request, WGoto, Fetching, TypeOK, WorkerTypeOK
  <2> QED
    BY <1>18, <1>z, <1>r, <2>1, FlightKept DEF Request, clientVars, clearVars
<1>19. ASSUME NEW w \in Workers, Store(w) PROVE FlightInv'
  <2> DEFINE k == work[w].key
  <2>1. /\ k \in Keys /\ Fetching(w)
        /\ cache' = [cache EXCEPT ![k] = Finished(reply[w])]
        /\ UNCHANGED <<cpc, ckey, ticket, respClosed, work, reply, clearPc>>
    BY <1>19 DEF Store, Fetching, clientVars, clearVars, TypeOK, WorkerTypeOK, Work
  <2>2. cache[k].val = "nil" /\ cache[k].locker = w
    BY <1>p, <2>1
  <2>3. \A v \in Workers : Fetching(v)' => Fetching(v) /\ v # w
    BY <1>19 DEF Store, WGoto, Fetching, TypeOK, WorkerTypeOK
  <2>4. \A v \in Workers : Fetching(v) => work[v].key \in Keys
    BY DEF Fetching, TypeOK, WorkerTypeOK, Work
  <2>5. \A v \in Workers : Fetching(v)' => work[v].key # k
    BY <1>p, <2>2, <2>3
  <2>6. SingleFlight'
    BY <1>n, <2>1, <2>3, <2>4, <2>5 DEF SingleFlight, Pending, TypeOK, SharedTypeOK
  <2>7. \A j \in Keys : /\ cache[j].val = "data" => cache'[j].val = "data"
                        /\ cache'[j].val # "err"
    BY <1>n, <1>r, <2>1, <2>2 DEF NothingDeleted, Finished, TypeOK, SharedTypeOK
  <2>8. \A c \in Clients : cpc[c] # "idle" => ckey[c] \in Keys
    BY DEF TypeOK, ClientTypeOK
  <2>9. NothingDeleted'
    BY <1>n, <1>c, <2>1, <2>7, <2>8 DEF NothingDeleted, Get
  <2> QED
    BY <2>6, <2>9 DEF FlightInv
<1>20. ASSUME NEW w \in Workers, Broadcast(w) PROVE FlightInv'
  <2>1. \A v \in Workers : Fetching(v)' => Fetching(v) /\ work'[v] = work[v]
    BY <1>20 DEF Broadcast, WGoto, Fetching, TypeOK, WorkerTypeOK
  <2>2. \A v \in Workers : reply'[v] # "err"
    BY <1>20, <1>r DEF Broadcast, TypeOK, WorkerTypeOK
  <2>3. \A c \in Clients : (cpc'[c] = "got" => cpc[c] = "got") /\ cpc'[c] # "delete"
    BY <1>20, <1>r DEF Broadcast, Sleepers
  <2> QED
    BY <1>20, <1>z, <2>1, <2>2, <2>3, FlightKept DEF Broadcast, clearVars
<1>21. ASSUME StartClear PROVE FlightInv'
  BY <1>21, <1>z DEF StartClear
<1>22. ASSUME ScanKeys PROVE FlightInv'
  BY <1>22, <1>n DEF ScanKeys, NothingDeleted
<1>23. ASSUME WipeKeys PROVE FlightInv'
  BY <1>23, <1>n DEF WipeKeys, NothingDeleted
<1>24. ASSUME Stop PROVE FlightInv'
  BY <1>24, <1>z, <1>r, FlightKept DEF Stop, clientVars, workerVars, clearVars, Fetching
<1>25. ASSUME UNCHANGED vars PROVE FlightInv'
  BY <1>25, <1>z, <1>r, FlightKept DEF vars, clientVars, workerVars, clearVars, Fetching
<1> QED
  BY <1>1, <1>2, <1>3, <1>4, <1>5, <1>6, <1>7, <1>8, <1>9, <1>10, <1>11, <1>12, <1>13, <1>14, <1>15, <1>16, <1>17, <1>18, <1>19, <1>20, <1>21, <1>22, <1>23, <1>24, <1>25 DEF Next, ClientStep, WorkerStep

-----------------------------------------------------------------------------
\* A step that leaves the cache alone and hands out no ticket.
LEMMA RoundKept ==
    ASSUME RoundFacts, UNCHANGED cache,
           \A w \in Workers :
               /\ wpc'[w] = "store" => reply'[w] = "data"
               /\ wpc'[w] \in {"grant", "forward"} =>
                     /\ wpc[w] \in {"grant", "forward"}
                     /\ work'[w].key = work[w].key /\ offer'[w] = offer[w],
           \A c \in Clients :
               /\ ticket'[c] = None \/ (ticket'[c] = ticket[c] /\ ckey'[c] = ckey[c])
               /\ cpc'[c] = "unlock" => cpc[c] = "unlock" /\ cached'[c] = cached[c]
               /\ attempt'[c] = 0 /\ result'[c] # "retries"
    PROVE  RoundFacts'
BY DEF RoundFacts, Serves

\* A call that returns, but for the retry error.
LEMMA ReturnRound ==
    ASSUME TypeOK, RoundFacts, NEW c \in Clients,
           NEW o \in Outcomes \ {"retries"}, Return(c, o),
           UNCHANGED <<cache, wpc, reply, offer>>,
           \A w \in Workers : work'[w].key = work[w].key
    PROVE  RoundFacts'
<1>1. \A d \in Clients :
          /\ ticket'[d] = None \/ (ticket'[d] = ticket[d] /\ ckey'[d] = ckey[d])
          /\ cpc'[d] = "unlock" => cpc[d] = "unlock" /\ cached'[d] = cached[d]
          /\ attempt'[d] = 0 /\ result'[d] # "retries"
  BY DEF Return, Goto, TypeOK, ClientTypeOK, RoundFacts
<1>2. \A w \in Workers : wpc[w] = "store" => reply[w] = "data"
  BY DEF RoundFacts
<1> QED
  BY <1>1, <1>2, RoundKept

\* If the backend answers with data, every step keeps every client in its first
\* round until the first clear.
LEMMA NextRoundInv ==
    ASSUME Results \subseteq {"data"}, IInv, ItemInv, FlightInv, RoundInv, [Next]_vars
    PROVE  RoundInv'
<1> USE ConstantsAssumption
<1>t. TypeOK /\ TypeOK'
  BY TypeStep DEF IInv
<1> USE <1>t
<1> SUFFICES ASSUME clears' = 0 PROVE RoundFacts'
  BY DEF RoundInv
<1>z. clears = 0
  <2>1. UNCHANGED clears \/ clears' = clears + 1
    BY DEF Next, ClientStep, WorkerStep, Call, Check, Enqueue, EnqueuePanics, RecvClosed, Got,
       Delete, LockTicket, Examine, Sleep, Unlock, Timeout, Receive, Exit, GetOrInsert,
       SendTicket, LockOwn, Request, Store, Broadcast, StartClear, ScanKeys, WipeKeys, Stop,
       clearVars, vars
  <2> QED
    BY <2>1 DEF TypeOK, ClearTypeOK
<1>f. RoundFacts /\ NothingDeleted
  BY <1>z DEF RoundInv, FlightInv
<1>s. \A w \in Workers : wpc[w] = "store" => reply[w] = "data"
  BY <1>f DEF RoundFacts
<1>a. \A c \in Clients :
          /\ attempt[c] = 0 /\ result[c] # "retries"
          /\ cpc[c] = "unlock" => cached[c].val = "data"
          /\ cpc[c] # "delete"
  BY <1>f DEF RoundFacts, NothingDeleted
<1>1. ASSUME NEW c \in Clients, NEW k \in Keys, Call(c, k) PROVE RoundFacts'
  <2>1. /\ cpc[c] = "idle" /\ cpc' = [cpc EXCEPT ![c] = "check"]
        /\ ckey' = [ckey EXCEPT ![c] = k] /\ result' = [result EXCEPT ![c] = "none"]
        /\ UNCHANGED <<cache, attempt, ticket, cached, wpc, work, offer, reply>>
    BY <1>1 DEF Call, Goto, workerVars
  <2>2. ticket[c] = None
    BY <2>1 DEF ItemInv, EarlyHasNothing
  <2>3. \A d \in Clients :
            /\ ticket'[d] = None \/ (ticket'[d] = ticket[d] /\ ckey'[d] = ckey[d])
            /\ cpc'[d] = "unlock" => cpc[d] = "unlock" /\ cached'[d] = cached[d]
            /\ attempt'[d] = 0 /\ result'[d] # "retries"
    BY <1>a, <2>1, <2>2 DEF TypeOK, ClientTypeOK
  <2> QED
    BY <1>f, <1>s, <2>1, <2>3, RoundKept
<1>2. ASSUME NEW c \in Clients, Check(c) PROVE RoundFacts'
  <2>1. UNCHANGED <<cache, wpc, work, offer, reply>>
    BY <1>2 DEF Check, workerVars
  <2>2. CASE Get(c).val = "data"
    BY <1>2, <1>f, <2>1, <2>2, ReturnRound DEF Check, Outcomes
  <2>3. CASE Get(c).val # "data"
    <3>1. /\ cpc' = [cpc EXCEPT ![c] = "enqueue"]
          /\ UNCHANGED <<ckey, ticket, cached, attempt, result>>
      BY <1>2, <2>3 DEF Check, Goto
    <3>2. \A d \in Clients : cpc'[d] = "unlock" => cpc[d] = "unlock"
      BY <3>1 DEF TypeOK, ClientTypeOK
    <3> QED
      BY <1>f, <1>s, <1>a, <2>1, <3>1, <3>2, RoundKept
  <2> QED
    BY <2>2, <2>3
<1>3. ASSUME NEW c \in Clients, Enqueue(c) PROVE RoundFacts'
  <2>1. \A d \in Clients : cpc'[d] = "unlock" => cpc[d] = "unlock"
    BY <1>3 DEF Enqueue, Goto, TypeOK, ClientTypeOK
  <2> QED
    BY <1>3, <1>f, <1>s, <1>a, <2>1, RoundKept DEF Enqueue, workerVars
<1>4. ASSUME NEW c \in Clients, EnqueuePanics(c) PROVE RoundFacts'
  BY <1>4, <1>f, <1>s, <1>a, RoundKept DEF EnqueuePanics, clientVars, workerVars
<1>5. ASSUME NEW c \in Clients, RecvClosed(c) PROVE RoundFacts'
  <2>1. \A d \in Clients : cpc'[d] = "unlock" => cpc[d] = "unlock"
    BY <1>5 DEF RecvClosed, Goto, TypeOK, ClientTypeOK
  <2> QED
    BY <1>5, <1>f, <1>s, <1>a, <2>1, RoundKept DEF RecvClosed, workerVars
<1>6. ASSUME NEW c \in Clients, Got(c) PROVE RoundFacts'
  <2>1. cpc[c] = "got" /\ UNCHANGED <<cache, wpc, work, offer, reply>>
    BY <1>6 DEF Got, workerVars
  <2>2. Get(c).val # "absent"
    BY <1>f, <2>1 DEF NothingDeleted, RoundFacts, Serves, Get
  <2>3. CASE Get(c).val = "data"
    BY <1>6, <1>f, <2>1, <2>3, ReturnRound DEF Got, Outcomes
  <2>4. CASE Get(c).val \in {"nil", "err"}
    <3>1. /\ cpc' = [cpc EXCEPT ![c] = IF ticket[c] = None THEN "delete" ELSE "lock"]
          /\ UNCHANGED <<ckey, ticket, cached, attempt, result>>
      BY <1>6, <2>4 DEF Got, Goto
    <3>2. \A d \in Clients : cpc'[d] = "unlock" => cpc[d] = "unlock"
      BY <3>1 DEF TypeOK, ClientTypeOK
    <3> QED
      BY <1>f, <1>s, <1>a, <2>1, <3>1, <3>2, RoundKept
  <2> QED
    BY <1>6, <2>2, <2>3, <2>4 DEF Got
<1>7. ASSUME NEW c \in Clients, Delete(c) PROVE RoundFacts'
  BY <1>7, <1>a DEF Delete
<1>8. ASSUME NEW c \in Clients, LockTicket(c) PROVE RoundFacts'
  <2>1. \A d \in Clients : cpc'[d] = "unlock" => cpc[d] = "unlock"
    BY <1>8 DEF LockTicket, Goto, TypeOK, ClientTypeOK
  <2> QED
    BY <1>8, <1>f, <1>s, <1>a, <2>1, RoundKept DEF LockTicket, workerVars
<1>9. ASSUME NEW c \in Clients, Examine(c) PROVE RoundFacts'
  <2>1. /\ cpc[c] = "examine"
        /\ cpc' = [cpc EXCEPT ![c] = IF StopsWaiting(c, Get(c)) THEN "unlock" ELSE "sleep"]
        /\ cached' = [cached EXCEPT ![c] = Get(c)]
        /\ UNCHANGED <<cache, ckey, ticket, attempt, result, wpc, work, offer, reply>>
    BY <1>9 DEF Examine, Goto, workerVars
  <2>2. Serves(ticket[c], ckey[c])
    BY <1>f, <2>1 DEF IInv, WaiterHasTicket, RoundFacts, Lockers
  <2>3. StopsWaiting(c, Get(c)) => Get(c).val = "data"
    BY <2>2 DEF StopsWaiting, Serves, Get
  <2>4. \A d \in Clients : cpc'[d] = "unlock" => cached'[d].val = "data"
    BY <1>a, <2>1, <2>3 DEF TypeOK, ClientTypeOK
  <2> QED
    BY <1>f, <2>1, <2>4 DEF RoundFacts, Serves
<1>10. ASSUME NEW c \in Clients, Sleep(c) PROVE RoundFacts'
  <2>1. \A d \in Clients : cpc'[d] = "unlock" => cpc[d] = "unlock"
    BY <1>10 DEF Sleep, Goto, TypeOK, ClientTypeOK
  <2> QED
    BY <1>10, <1>f, <1>s, <1>a, <2>1, RoundKept DEF Sleep, workerVars
<1>11. ASSUME NEW c \in Clients, Unlock(c) PROVE RoundFacts'
  <2>1. Return(c, "data") /\ UNCHANGED <<cache, wpc, work, offer, reply>>
    BY <1>11, <1>a DEF Unlock, workerVars
  <2> QED
    BY <1>f, <2>1, ReturnRound DEF Outcomes
<1>12. ASSUME NEW c \in Clients, Timeout(c) PROVE RoundFacts'
  <2>1. \A w \in Workers : work'[w].key = work[w].key
    BY <1>12, OrphanedItem DEF Timeout, TypeOK, WorkerTypeOK
  <2> QED
    BY <1>12, <1>f, <2>1, ReturnRound DEF Timeout, Outcomes
<1>13. ASSUME NEW w \in Workers, Receive(w) PROVE RoundFacts'
  <2>1. \A v \in Workers :
            /\ wpc'[v] = "store" => wpc[v] = "store"
            /\ wpc'[v] \in {"grant", "forward"} =>
                  wpc[v] \in {"grant", "forward"} /\ work'[v] = work[v]
    BY <1>13 DEF Receive, WGoto, TypeOK, WorkerTypeOK
  <2> QED
    BY <1>13, <1>f, <1>s, <1>a, <2>1, RoundKept DEF Receive, clientVars
<1>14. ASSUME NEW w \in Workers, Exit(w) PROVE RoundFacts'
  <2>1. \A v \in Workers :
            /\ wpc'[v] = "store" => wpc[v] = "store"
            /\ wpc'[v] \in {"grant", "forward"} => wpc[v] \in {"grant", "forward"}
    BY <1>14 DEF Exit, WGoto, TypeOK, WorkerTypeOK
  <2> QED
    BY <1>14, <1>f, <1>s, <1>a, <2>1, RoundKept DEF Exit, clientVars
<1>15. ASSUME NEW w \in Workers, GetOrInsert(w) PROVE RoundFacts'
  <2> DEFINE k == work[w].key
  <2>1. /\ wpc[w] = "lookup" /\ k \in Keys
        /\ UNCHANGED <<cpc, ckey, attempt, ticket, cached, result, reply>>
    BY <1>15 DEF GetOrInsert, TypeOK, WorkerTypeOK, Work
  <2>2. \A v \in Workers \ {w} : wpc'[v] = wpc[v] /\ work'[v] = work[v] /\ offer'[v] = offer[v]
    BY <1>15 DEF GetOrInsert, WGoto, TypeOK, WorkerTypeOK
  <2>3. \/ cache' = [cache EXCEPT ![k] = Pending(w)] /\ cache[k].val = "absent"
        \/ UNCHANGED cache
    BY <1>15 DEF GetOrInsert
  <2>4. \A j \in Keys : \/ cache'[j] = cache[j]
                        \/ /\ cache[j].val = "absent" /\ cache'[j].val = "nil"
                           /\ cache'[j].locker = w
    BY <2>1, <2>3 DEF Pending, TypeOK, SharedTypeOK
  <2>5. \A j \in Keys : \A t : Serves(t, j) => Serves(t, j)'
    BY <2>4 DEF Serves
  <2>6. \A j \in Keys : cache'[j].val = "nil" => cache'[j].locker \in Workers
    BY <1>f, <2>4 DEF RoundFacts
  <2>7. wpc'[w] \in {"grant", "forward"} => Serves(offer[w], work[w].key)'
    <3>1. CASE cache[k].val = "absent"
      BY <1>15, <2>1, <3>1 DEF GetOrInsert, Serves, Pending, TypeOK, SharedTypeOK, WorkerTypeOK
    <3>2. CASE cache[k].val = "nil"
      BY <1>15, <1>f, <2>1, <3>2 DEF GetOrInsert, Serves, RoundFacts, TypeOK, WorkerTypeOK
    <3>3. CASE cache[k].val \in {"data", "err"}
      BY <1>15, <3>3 DEF GetOrInsert, WGoto, TypeOK, WorkerTypeOK
    <3> QED
      BY <1>15, <3>1, <3>2, <3>3 DEF GetOrInsert
  <2>8. wpc'[w] # "store"
    BY <1>15 DEF GetOrInsert, WGoto, TypeOK, WorkerTypeOK
  <2>9. \A v \in Workers : wpc[v] \in {"grant", "forward"} => work[v].key \in Keys
    BY DEF TypeOK, WorkerTypeOK, Work
  <2>10. \A c \in Clients : ticket[c] # None => ckey[c] \in Keys
    BY DEF ItemInv, EarlyHasNothing, TypeOK, ClientTypeOK
  <2>11. \A v \in Workers :
            /\ wpc'[v] = "store" => reply'[v] = "data"
            /\ wpc'[v] \in {"grant", "forward"} => Serves(offer[v], work[v].key)'
    BY <1>f, <2>1, <2>2, <2>5, <2>7, <2>8, <2>9 DEF RoundFacts
  <2>12. \A c \in Clients : ticket'[c] # None => Serves(ticket[c], ckey[c])'
    BY <1>f, <2>1, <2>5, <2>10 DEF RoundFacts
  <2> QED
    BY <1>a, <2>1, <2>6, <2>11, <2>12 DEF RoundFacts, Serves
<1>16. ASSUME NEW w \in Workers, NEW c \in Clients, SendTicket(w, c) PROVE RoundFacts'
  <2>1. /\ wpc[w] \in {"grant", "forward"} /\ work[w].chan = c
        /\ cpc' = [cpc EXCEPT ![c] = "got"]
        /\ ticket' = [ticket EXCEPT ![c] = offer[w]]
        /\ UNCHANGED <<cache, ckey, attempt, cached, result, reply>>
    BY <1>16 DEF SendTicket, Goto
  <2>2. \A v \in Workers :
            /\ wpc'[v] = "store" => wpc[v] = "store"
            /\ wpc'[v] \in {"grant", "forward"} =>
                  /\ wpc[v] \in {"grant", "forward"}
                  /\ work'[v] = work[v] /\ offer'[v] = offer[v]
    BY <1>16 DEF SendTicket, WGoto, TypeOK, WorkerTypeOK
  <2>3. work[w].key = ckey[c]
    BY <2>1 DEF ItemInv, ItemsAreAwaited, AwaitedBy, Owes
  <2>4. Serves(offer[w], ckey[c])
    BY <1>f, <2>1, <2>3 DEF RoundFacts
  <2>5. \A d \in Clients : ticket'[d] # None => Serves(ticket[d], ckey[d])'
    <3>1. \A d \in Clients : ticket'[d] = IF d = c THEN offer[w] ELSE ticket[d]
      BY <2>1 DEF TypeOK, ClientTypeOK
    <3> QED
      BY <1>f, <2>1, <2>4, <3>1 DEF RoundFacts, Serves
  <2>6. \A d \in Clients : cpc'[d] = "unlock" => cpc[d] = "unlock"
    BY <2>1 DEF TypeOK, ClientTypeOK
  <2> QED
    BY <1>f, <2>1, <2>2, <2>5, <2>6 DEF RoundFacts, Serves
<1>17. ASSUME NEW w \in Workers, LockOwn(w) PROVE RoundFacts'
  <2>1. \A v \in Workers :
            /\ wpc'[v] = "store" => wpc[v] = "store"
            /\ wpc'[v] \in {"grant", "forward"} => wpc[v] \in {"grant", "forward"}
    BY <1>17 DEF LockOwn, WGoto, TypeOK, WorkerTypeOK
  <2> QED
    BY <1>17, <1>f, <1>s, <1>a, <2>1, RoundKept DEF LockOwn, clientVars
<1>18. ASSUME NEW w \in Workers, NEW r \in Results, Request(w, r) PROVE RoundFacts'
  <2>1. \A v \in Workers :
            /\ wpc'[v] = "store" => reply'[v] = "data"
            /\ wpc'[v] \in {"grant", "forward"} => wpc[v] \in {"grant", "forward"}
    BY <1>18, <1>s DEF Request, WGoto, TypeOK, WorkerTypeOK
  <2> QED
    BY <1>18, <1>f, <1>a, <2>1, RoundKept DEF Request, clientVars
<1>19. ASSUME NEW w \in Workers, Store(w) PROVE RoundFacts'
  <2> DEFINE k == work[w].key
  <2>1. /\ k \in Keys /\ reply[w] = "data"
        /\ cache' = [cache EXCEPT ![k] = Finished(reply[w])]
        /\ UNCHANGED <<cpc, ckey, attempt, ticket, cached, result, work, offer, reply>>
    BY <1>19, <1>s DEF Store, clientVars, TypeOK, WorkerTypeOK, Work
  <2>2. \A v \in Workers :
            /\ wpc'[v] = "store" => wpc[v] = "store"
            /\ wpc'[v] \in {"grant", "forward"} => wpc[v] \in {"grant", "forward"}
    BY <1>19 DEF Store, WGoto, TypeOK, WorkerTypeOK
  <2>3. \A j \in Keys : cache'[j] = cache[j] \/ cache'[j].val = "data"
    BY <2>1 DEF Finished, TypeOK, SharedTypeOK
  <2>4. \A j \in Keys : \A t : Serves(t, j) => Serves(t, j)'
    BY <2>3 DEF Serves
  <2>5. \A j \in Keys : cache'[j].val = "nil" => cache'[j].locker \in Workers
    BY <1>f, <2>3 DEF RoundFacts
  <2>6. \A v \in Workers : wpc[v] \in {"grant", "forward"} => work[v].key \in Keys
    BY DEF TypeOK, WorkerTypeOK, Work
  <2>7. \A c \in Clients : ticket[c] # None => ckey[c] \in Keys
    BY DEF ItemInv, EarlyHasNothing, TypeOK, ClientTypeOK
  <2>8. \A v \in Workers :
            /\ wpc'[v] = "store" => reply'[v] = "data"
            /\ wpc'[v] \in {"grant", "forward"} => Serves(offer[v], work[v].key)'
    BY <1>f, <2>1, <2>2, <2>4, <2>6 DEF RoundFacts
  <2>9. \A c \in Clients : ticket'[c] # None => Serves(ticket[c], ckey[c])'
    BY <1>f, <2>1, <2>4, <2>7 DEF RoundFacts
  <2> QED
    BY <1>a, <2>1, <2>5, <2>8, <2>9 DEF RoundFacts, Serves
<1>20. ASSUME NEW w \in Workers, Broadcast(w) PROVE RoundFacts'
  <2>1. \A v \in Workers :
            /\ wpc'[v] = "store" => wpc[v] = "store" /\ reply'[v] = reply[v]
            /\ wpc'[v] \in {"grant", "forward"} =>
                  wpc[v] \in {"grant", "forward"} /\ work'[v] = work[v]
    BY <1>20 DEF Broadcast, WGoto, TypeOK, WorkerTypeOK
  <2>2. \A c \in Clients : cpc'[c] = "unlock" => cpc[c] = "unlock"
    BY <1>20 DEF Broadcast, Sleepers
  <2> QED
    BY <1>20, <1>f, <1>s, <1>a, <2>1, <2>2, RoundKept DEF Broadcast
<1>21. ASSUME StartClear PROVE RoundFacts'
  BY <1>21, <1>z DEF StartClear
<1>22. ASSUME ScanKeys PROVE RoundFacts'
  BY <1>22, <1>f DEF ScanKeys, NothingDeleted
<1>23. ASSUME WipeKeys PROVE RoundFacts'
  BY <1>23, <1>f DEF WipeKeys, NothingDeleted
<1>24. ASSUME Stop PROVE RoundFacts'
  BY <1>24, <1>f, <1>s, <1>a, RoundKept DEF Stop, clientVars, workerVars
<1>25. ASSUME UNCHANGED vars PROVE RoundFacts'
  BY <1>25, <1>f, <1>s, <1>a, RoundKept DEF vars, clientVars, workerVars
<1> QED
  BY <1>1, <1>2, <1>3, <1>4, <1>5, <1>6, <1>7, <1>8, <1>9, <1>10, <1>11, <1>12, <1>13, <1>14, <1>15, <1>16, <1>17, <1>18, <1>19, <1>20, <1>21, <1>22, <1>23, <1>24, <1>25 DEF Next, ClientStep, WorkerStep

-----------------------------------------------------------------------------
\* Nothing is queued, cached or answered in the beginning.
LEMMA InitItems == Init => ItemInv /\ FreshInv /\ FlightInv /\ RoundInv
<1> SUFFICES ASSUME Init PROVE ItemInv /\ FreshInv /\ FlightInv /\ RoundInv
  OBVIOUS
<1> USE DEF Init
<1>1. DOMAIN workQueue = {}
  OBVIOUS
<1>2. ItemInv
  BY <1>1 DEF ItemInv, ItemsAreAwaited, ItemsAreUnique, ClosedIsLast, EarlyHasNothing, Owes,
     Absent
<1>3. FreshInv
  BY DEF FreshInv, TicketsAreFresh, EntriesAreFresh, ErrorsAreFresh, Absent
<1>4. FlightInv
  BY DEF FlightInv, SingleFlight, NothingDeleted, Fetching, Absent
<1>5. RoundInv
  BY DEF RoundInv, RoundFacts, Absent
<1> QED
  BY <1>2, <1>3, <1>4, <1>5

\* An item's client waits for it in its select and has no other item: what
\* makes a respChan belong to one attempt of one call of makeRequest.
THEOREM ItemsHaveClients == Spec => []ItemInv
<1>1. IInv /\ ItemInv /\ [Next]_vars => ItemInv'
  BY NextItemInv
<1> QED
  BY InitItems, Invariance, <1>1, PTL DEF Spec

\* A call of ReadFile, ReadDir or DecryptName that returns an error returns one
\* that was stored while it ran, whatever deletes, clears, timeouts and other
\* calls do to the cached entry meanwhile.
THEOREM ErrorsAreAlwaysFresh == Spec => []ErrorsAreFresh
<1>1. IInv /\ ItemInv /\ FreshInv /\ [Next]_vars => FreshInv'
  BY NextFreshInv
<1>2. FreshInv => ErrorsAreFresh
  BY DEF FreshInv
<1> QED
  BY InitItems, Invariance, ItemsHaveClients, <1>1, <1>2, PTL DEF Spec

\* With a backend that does not fail, a key is fetched by one worker at a time
\* and not again, until ClearCache is called for the first time.
THEOREM WorkIsNotDuplicated ==
    ASSUME "err" \notin Results
    PROVE  Spec => []SingleFlight
<1>1. IInv /\ ItemInv /\ FlightInv /\ [Next]_vars => FlightInv'
  BY NextFlightInv
<1>2. FlightInv => SingleFlight
  BY DEF FlightInv
<1> QED
  BY InitItems, Invariance, ItemsHaveClients, <1>1, <1>2, PTL DEF Spec

\* With a backend that answers with data, no call of ReadFile, ReadDir or
\* DecryptName needs a second round before ClearCache is first called.
THEOREM OneRoundIsEnough ==
    ASSUME Results \subseteq {"data"}
    PROVE  Spec => []FirstRoundSuffices
<1>1. "err" \notin Results
  OBVIOUS
<1>2. IInv /\ ItemInv /\ FlightInv /\ [Next]_vars => FlightInv'
  BY <1>1, NextFlightInv
<1>3. IInv /\ ItemInv /\ FlightInv /\ RoundInv /\ [Next]_vars => RoundInv'
  BY NextRoundInv
<1>4. RoundInv => FirstRoundSuffices
  BY DEF RoundInv, RoundFacts, FirstRoundSuffices
<1> QED
  BY InitItems, Invariance, ItemsHaveClients, <1>2, <1>3, <1>4, PTL DEF Spec

====
