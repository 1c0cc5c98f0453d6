------------------------------ MODULE FastCache ------------------------------
(***************************************************************************)
(* FastCache: a hash map from plaintext to ciphertext directory paths whose *)
(* entries are threaded on a doubly linked list, oldest first.  Find and   *)
(* Store move the entry they touch to the end of the list (refreshNode);   *)
(* a Store at capacity reuses the node at the head.  Every method runs     *)
(* under the one lock, so a method is one step.                            *)
(*                                                                         *)
(* A node is the number of its allocation since the last Clear: nodes are  *)
(* allocated only while count is below cacheSize and never freed.          *)
(***************************************************************************)
EXTENDS Naturals, Sequences, FiniteSets

CONSTANTS
    Paths,      \* plaintext paths
    CPaths,     \* ciphertext paths
    cacheSize,
    None        \* no path; the mapping an unsuccessful Find returns

ASSUME CacheAssumption ==
    /\ cacheSize \in Nat \ {0}
    /\ None \notin Paths \cup CPaths

nil   == 0
Nodes == 1..cacheSize

VARIABLES
    storage,                    \* [Paths -> Nodes \cup {nil}]
    PlaintextPath,              \* the fields of the nodes
    CiphertextPath,
    prev, next,
    head, last, count,
    call,                       \* the last call: method, path, mapping found or stored
    recency                     \* history: the cached paths, least recently used first

nodeVars == <<PlaintextPath, CiphertextPath>>
listVars == <<prev, next, head, last>>
vars == <<storage, nodeVars, listVars, count, call, recency>>

Mapping == [plain : Paths, cipher : CPaths]

Called(method, p, m) == [op |-> method, path |-> p, mapping |-> m]

\* NewFastCache; the fields of nodes that are not allocated yet are nil
Init ==
    /\ storage = [p \in Paths |-> nil]
    /\ PlaintextPath = [n \in Nodes |-> None]
    /\ CiphertextPath = [n \in Nodes |-> None]
    /\ prev = [n \in Nodes |-> nil]
    /\ next = [n \in Nodes |-> nil]
    /\ head = nil
    /\ last = nil
    /\ count = 0
    /\ call = Called("New", None, None)
    /\ recency = <<>>

-----------------------------------------------------------------------------
\* history: p has just been used
Without(p) ==
    LET i == CHOOSE j \in DOMAIN recency : recency[j] = p
    IN  IF \E j \in DOMAIN recency : recency[j] = p
        THEN SubSeq(recency, 1, i - 1) \o SubSeq(recency, i + 1, Len(recency))
        ELSE recency

Used(p) == recency' = Append(Without(p), p)

\* Mutation of refreshNode: the moved node keeps its successor
Mut_refreshNode(d) ==
    \/ /\ next[d] = nil
       /\ UNCHANGED listVars
    \/ /\ next[d] # nil
       /\ next' = [next EXCEPT ![last] = d]
       /\ head' = IF prev[d] = nil THEN next[d] ELSE head
       /\ prev' = [prev EXCEPT ![d] = last]
       /\ last' = d

\* "makes this node the most recently used by putting it at the end of the
\* linked hash map".  The prev of the node after d is left as it was.
refreshNode(d) ==
    \/ /\ next[d] = nil
       /\ UNCHANGED listVars
    \/ /\ next[d] # nil
       /\ \/ /\ prev[d] # nil
             /\ next' = [next EXCEPT ![prev[d]] = next[d], ![d] = nil, ![last] = d]
             /\ UNCHANGED head
          \/ /\ prev[d] = nil
             /\ next' = [next EXCEPT ![d] = nil, ![last] = d]
             /\ head' = next[d]
       /\ prev' = [prev EXCEPT ![d] = last]
       /\ last' = d

\* Mutation of Find: the entry found is not refreshed
Mut_Find(p) ==
    /\ \/ /\ storage[p] = nil
          /\ call' = Called("Find", p, None)
          /\ UNCHANGED recency
       \/ /\ storage[p] # nil
          /\ call' = Called("Find", p, [plain |-> PlaintextPath[storage[p]],
                                       cipher |-> CiphertextPath[storage[p]]])
          /\ Used(p)
    /\ UNCHANGED <<storage, nodeVars, listVars, count>>

Find(p) ==
    LET d == storage[p] IN
    /\ \/ /\ d = nil
          /\ call' = Called("Find", p, None)
          /\ UNCHANGED <<listVars, recency>>
       \/ /\ d # nil
          /\ refreshNode(d)
          /\ call' = Called("Find", p, [plain |-> PlaintextPath[d], cipher |-> CiphertextPath[d]])
          /\ Used(p)
    /\ UNCHANGED <<storage, nodeVars, count>>

\* Mutation of Update: the ciphertext path of a known entry is not replaced
Mut_Update(p, c) ==
    /\ storage[p] # nil
    /\ refreshNode(storage[p])
    /\ Used(p)
    /\ call' = Called("Store", p, [plain |-> p, cipher |-> c])
    /\ UNCHANGED <<storage, nodeVars, count>>

\* Store of a path that is in the cache
Update(p, c) ==
    LET d == storage[p] IN
    /\ d # nil
    /\ refreshNode(d)
    /\ CiphertextPath' = [CiphertextPath EXCEPT ![d] = c]
    /\ Used(p)
    /\ call' = Called("Store", p, [plain |-> p, cipher |-> c])
    /\ UNCHANGED <<storage, PlaintextPath, count>>

\* Mutation of Replace: the evicted path stays in the map
Mut_Replace(p, c) ==
    /\ storage[p] = nil
    /\ count + 1 > cacheSize
    /\ refreshNode(head)
    /\ PlaintextPath' = [PlaintextPath EXCEPT ![head] = p]
    /\ CiphertextPath' = [CiphertextPath EXCEPT ![head] = c]
    /\ storage' = [storage EXCEPT ![p] = head]
    /\ count' = cacheSize
    /\ recency' = Append(Without(PlaintextPath[head]), p)
    /\ call' = Called("Store", p, [plain |-> p, cipher |-> c])

\* Mutation of Replace: count is not set back to cacheSize
Mut_Replace2(p, c) ==
    /\ storage[p] = nil
    /\ count + 1 > cacheSize
    /\ refreshNode(head)
    /\ PlaintextPath' = [PlaintextPath EXCEPT ![head] = p]
    /\ CiphertextPath' = [CiphertextPath EXCEPT ![head] = c]
    /\ storage' = [storage EXCEPT ![PlaintextPath[head]] = nil, ![p] = head]
    /\ count' = count + 1
    /\ recency' = Append(Without(PlaintextPath[head]), p)
    /\ call' = Called("Store", p, [plain |-> p, cipher |-> c])

\* Store of a new path at capacity: the node at the head is reused
Replace(p, c) ==
    LET old == PlaintextPath[head] IN
    /\ storage[p] = nil
    /\ count + 1 > cacheSize
    /\ refreshNode(head)
    /\ PlaintextPath' = [PlaintextPath EXCEPT ![head] = p]
    /\ CiphertextPath' = [CiphertextPath EXCEPT ![head] = c]
    /\ storage' = [storage EXCEPT ![old] = nil, ![p] = head]
    /\ count' = cacheSize
    /\ recency' = Append(Without(old), p)
    /\ call' = Called("Store", p, [plain |-> p, cipher |-> c])

\* Store of a new path below capacity: a new node at the end of the list
Insert(p, c) ==
    LET n == count + 1 IN
    /\ storage[p] = nil
    /\ n <= cacheSize
    /\ storage' = [storage EXCEPT ![p] = n]
    /\ PlaintextPath' = [PlaintextPath EXCEPT ![n] = p]
    /\ CiphertextPath' = [CiphertextPath EXCEPT ![n] = c]
    /\ \/ /\ head = nil
          /\ head' = n
          /\ UNCHANGED <<prev, next>>
       \/ /\ head # nil
          /\ prev' = [prev EXCEPT ![n] = last]
          /\ next' = [next EXCEPT ![last] = n]
          /\ UNCHANGED head
    /\ last' = n
    /\ count' = n
    /\ Used(p)
    /\ call' = Called("Store", p, [plain |-> p, cipher |-> c])

Store(p, c) == Update(p, c) \/ Replace(p, c) \/ Insert(p, c)

\* the nodes become garbage: their numbers are used afresh
Clear ==
    /\ storage' = [p \in Paths |-> nil]
    /\ PlaintextPath' = [n \in Nodes |-> None]
    /\ CiphertextPath' = [n \in Nodes |-> None]
    /\ prev' = [n \in Nodes |-> nil]
    /\ next' = [n \in Nodes |-> nil]
    /\ head' = nil
    /\ last' = nil
    /\ count' = 0
    /\ call' = Called("Clear", None, None)
    /\ recency' = <<>>

Next ==
    \/ \E p \in Paths : Find(p)
    \/ \E p \in Paths, c \in CPaths : Store(p, c)
    \/ Clear

Spec == Init /\ [][Next]_vars

-----------------------------------------------------------------------------
CachedPaths == {p \in Paths : storage[p] # nil}

\* The values of the variables; lists and map hold node numbers or nil.
TypeOK ==
    /\ storage \in [Paths -> Nodes \cup {nil}]
    /\ PlaintextPath \in [Nodes -> Paths \cup {None}]
    /\ CiphertextPath \in [Nodes -> CPaths \cup {None}]
    /\ prev \in [Nodes -> Nodes \cup {nil}]
    /\ next \in [Nodes -> Nodes \cup {nil}]
    /\ head \in Nodes \cup {nil}
    /\ last \in Nodes \cup {nil}
    /\ count \in 0..cacheSize
    /\ call \in [op : {"New", "Find", "Store", "Clear"}, path : Paths \cup {None},
                mapping : Mapping \cup {None}]

\* The map and the nodes agree: each cached path has a node of its own, that
\* node carries the path, and every allocated node is some cached path's, so
\* that no node is lost when Replace reuses the head.
MapMatchesNodes ==
    /\ \A p \in CachedPaths : storage[p] <= count /\ PlaintextPath[storage[p]] = p
    /\ \A n \in 1..count : PlaintextPath[n] \in Paths /\ storage[PlaintextPath[n]] = n

\* The ends of the list: head and last are nil only in an empty cache, and the
\* last node is the only one without a successor.  Without this, Store and
\* refreshNode would dereference nil.
ListEnds ==
    /\ head \in 0..count /\ last \in 0..count
    /\ head = nil <=> count = 0
    /\ last = nil <=> count = 0
    /\ \A n \in 1..count : next[n] \in 0..count /\ prev[n] \in 0..count
    /\ \A n \in 1..count : next[n] = nil <=> n = last

\* The end of the list is the entry that was used last, as Find and
\* refreshNode promise, even where the middle of the list is out of order.
LastIsMostRecent ==
    last # nil => PlaintextPath[last] = recency[Len(recency)]

\* A Store that evicts an entry evicts the one used longest ago.
EvictsLeastRecentlyUsed ==
    [][\A p \in CachedPaths :
          storage'[p] = nil /\ count' # 0 => p = Head(recency)]_vars

-----------------------------------------------------------------------------
\* What a caller sees of the cache: for each path, the stored ciphertext path.
Abstract ==
    INSTANCE BoundedCache WITH
        contents <- [p \in Paths |-> IF storage[p] = nil THEN None
                                     ELSE CiphertextPath[storage[p]]]

\* Whatever the list looks like, FastCache is a cache of bounded size that
\* answers with what was stored last.
ImplementsBoundedCache == Abstract!Spec

====
