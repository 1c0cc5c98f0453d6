--------------------------- MODULE FastCacheProofs ---------------------------
(***************************************************************************)
(* Proofs about FastCache, for any set of paths and any cache size: the    *)
(* map and the nodes always agree, no method dereferences nil, and a       *)
(* caller sees a BoundedCache.                                             *)
(***************************************************************************)
EXTENDS FastCache, FiniteSetTheorems, TLAPS

\* Allocated nodes carry a ciphertext path.
NodesFilled == \A n \in 1..count : CiphertextPath[n] \in CPaths

\* Nodes that are not allocated yet are linked to nothing.
FreshNodes == \A n \in Nodes : n > count => next[n] = nil /\ prev[n] = nil

IInv ==
    /\ TypeOK
    /\ MapMatchesNodes
    /\ ListEnds
    /\ NodesFilled
    /\ FreshNodes

-----------------------------------------------------------------------------
\* The invariant holds in a new cache.
LEMMA InitIInv == Init => IInv
BY CacheAssumption DEF Init, IInv, TypeOK, MapMatchesNodes, ListEnds, NodesFilled,
   FreshNodes, CachedPaths, Nodes, nil, Called, Mapping

\* refreshNode of an allocated node keeps the list well formed.
LEMMA RefreshKeepsList ==
    ASSUME IInv, NEW d \in 1..count, refreshNode(d), UNCHANGED count
    PROVE  /\ ListEnds'
           /\ FreshNodes'
           /\ prev' \in [Nodes -> Nodes \cup {nil}]
           /\ next' \in [Nodes -> Nodes \cup {nil}]
           /\ head' \in Nodes \cup {nil}
           /\ last' \in Nodes \cup {nil}
<1>n. /\ d \in Nodes
      /\ 1..count \subseteq Nodes
      /\ nil \notin Nodes
      /\ head \in Nodes \cup {nil} /\ last \in Nodes \cup {nil}
      /\ prev \in [Nodes -> Nodes \cup {nil}] /\ next \in [Nodes -> Nodes \cup {nil}]
  BY CacheAssumption DEF IInv, TypeOK, Nodes, nil
<1>1. CASE next[d] = nil
  BY <1>1, <1>n DEF refreshNode, listVars, ListEnds, FreshNodes, IInv
<1>2. CASE next[d] # nil
  <2>1. last \in 1..count /\ d # last /\ next[d] \in 1..count /\ last \in Nodes
    BY <1>2, <1>n DEF IInv, TypeOK, ListEnds, Nodes, nil
  <2>2. /\ last' = d
        /\ prev' = [prev EXCEPT ![d] = last]
        /\ head' \in {head, next[d]}
    BY <1>2 DEF refreshNode
  <2>3. /\ next' \in [Nodes -> Nodes \cup {nil}]
        /\ next'[d] = nil
        /\ next'[last] = d
        /\ \A n \in Nodes \ {d, last} :
              next'[n] = next[n] \/ (n = prev[d] /\ next'[n] = next[d])
    <3>1. CASE prev[d] # nil
      <4>1. next' = [next EXCEPT ![prev[d]] = next[d], ![d] = nil, ![last] = d]
        BY <1>2, <3>1 DEF refreshNode
      <4> QED
        BY <1>n, <2>1, <4>1
    <3>2. CASE prev[d] = nil
      <4>1. next' = [next EXCEPT ![d] = nil, ![last] = d]
        BY <1>2, <3>2 DEF refreshNode
      <4> QED
        BY <1>n, <2>1, <4>1
    <3> QED
      BY <3>1, <3>2
  <2>4. \A n \in Nodes : n \notin 1..count => next'[n] = next[n] /\ prev'[n] = prev[n]
    BY <1>n, <2>1, <2>2, <2>3 DEF IInv, ListEnds, nil
  <2>5. ListEnds'
    <3>1. count # 0 /\ head \in 1..count
      BY DEF IInv, TypeOK, ListEnds, nil
    <3>2. \A n \in 1..count : next'[n] \in 0..count /\ (next'[n] = nil <=> n = last')
      BY <1>n, <2>1, <2>2, <2>3 DEF IInv, TypeOK, ListEnds, nil
    <3>3. \A n \in 1..count : prev'[n] \in 0..count
      BY <1>n, <2>1, <2>2 DEF IInv, TypeOK, ListEnds
    <3> QED
      BY <2>1, <2>2, <3>1, <3>2, <3>3 DEF ListEnds, nil
  <2>6. FreshNodes'
    BY <2>4 DEF IInv, TypeOK, FreshNodes, Nodes
  <2> QED
    BY <1>n, <2>1, <2>2, <2>3, <2>5, <2>6
<1> QED
  BY <1>1, <1>2

\* Every method keeps the invariant.
LEMMA NextIInv ==
    ASSUME IInv, [Next]_vars
    PROVE  IInv'
<1> USE CacheAssumption
<1>1. ASSUME NEW p \in Paths, Find(p) PROVE IInv'
  <2>1. CASE storage[p] = nil
    BY <1>1, <2>1 DEF Find, IInv, TypeOK, MapMatchesNodes, ListEnds, NodesFilled,
       FreshNodes, CachedPaths, Called, Mapping, nodeVars, listVars
  <2>2. CASE storage[p] # nil
    <3>1. storage[p] \in 1..count /\ PlaintextPath[storage[p]] = p
      BY <2>2 DEF IInv, TypeOK, MapMatchesNodes, CachedPaths, Nodes, nil
    <3>2. refreshNode(storage[p]) /\ UNCHANGED <<storage, PlaintextPath, CiphertextPath, count>>
      BY <1>1, <2>2 DEF Find, nodeVars
    <3>3. CiphertextPath[storage[p]] \in CPaths
      BY <3>1 DEF IInv, NodesFilled
    <3>4. TypeOK'
      <4>1. call' = Called("Find", p, [plain |-> p, cipher |-> CiphertextPath[storage[p]]])
        BY <1>1, <2>2, <3>1 DEF Find
      <4> QED
        BY <3>1, <3>2, <3>3, <4>1, RefreshKeepsList DEF IInv, TypeOK, Called, Mapping
    <3>5. ListEnds' /\ FreshNodes'
      BY <3>1, <3>2, RefreshKeepsList
    <3>6. MapMatchesNodes' /\ NodesFilled'
      BY <3>2 DEF IInv, MapMatchesNodes, NodesFilled, CachedPaths
    <3> QED
      BY <3>4, <3>5, <3>6 DEF IInv
  <2> QED
    BY <2>1, <2>2
<1>2. ASSUME NEW p \in Paths, NEW c \in CPaths, Update(p, c) PROVE IInv'
  <2>1. storage[p] \in 1..count /\ storage[p] \in Nodes
    BY <1>2 DEF Update, IInv, TypeOK, MapMatchesNodes, CachedPaths, Nodes, nil
  <2>2. /\ refreshNode(storage[p]) /\ UNCHANGED <<storage, PlaintextPath, count>>
        /\ CiphertextPath' = [CiphertextPath EXCEPT ![storage[p]] = c]
        /\ call' = Called("Store", p, [plain |-> p, cipher |-> c])
    BY <1>2 DEF Update
  <2>3. TypeOK'
    BY <2>1, <2>2, RefreshKeepsList DEF IInv, TypeOK, Called, Mapping
  <2>4. ListEnds' /\ FreshNodes'
    BY <2>1, <2>2, RefreshKeepsList
  <2>5. MapMatchesNodes' /\ NodesFilled'
    BY <2>1, <2>2 DEF IInv, TypeOK, MapMatchesNodes, NodesFilled, CachedPaths, Nodes
  <2> QED
    BY <2>3, <2>4, <2>5 DEF IInv
<1>3. ASSUME NEW p \in Paths, NEW c \in CPaths, Replace(p, c) PROVE IInv'
  <2> DEFINE old == PlaintextPath[head]
  <2>1. count = cacheSize /\ UNCHANGED count
    BY <1>3 DEF Replace, IInv, TypeOK
  <2>2. head \in 1..count /\ head \in Nodes
    BY <2>1 DEF IInv, TypeOK, ListEnds, Nodes, nil
  <2>3. old \in Paths /\ storage[old] = head
    BY <2>2 DEF IInv, MapMatchesNodes
  <2>4. /\ refreshNode(head)
        /\ PlaintextPath' = [PlaintextPath EXCEPT ![head] = p]
        /\ CiphertextPath' = [CiphertextPath EXCEPT ![head] = c]
        /\ storage' = [storage EXCEPT ![old] = nil, ![p] = head]
        /\ call' = Called("Store", p, [plain |-> p, cipher |-> c])
        /\ storage[p] = nil
    BY <1>3 DEF Replace
  <2>5. TypeOK'
    BY <2>1, <2>2, <2>4, RefreshKeepsList DEF IInv, TypeOK, Called, Mapping
  <2>6. ListEnds' /\ FreshNodes'
    BY <2>1, <2>2, <2>4, RefreshKeepsList
  <2>7. MapMatchesNodes'
    BY <2>1, <2>2, <2>3, <2>4 DEF IInv, TypeOK, MapMatchesNodes, CachedPaths, Nodes, nil
  <2>8. NodesFilled'
    BY <2>1, <2>2, <2>4 DEF IInv, TypeOK, NodesFilled, Nodes
  <2> QED
    BY <2>5, <2>6, <2>7, <2>8 DEF IInv
<1>4. ASSUME NEW p \in Paths, NEW c \in CPaths, Insert(p, c) PROVE IInv'
  <2> DEFINE n == count + 1
  <2>1. n \in Nodes /\ count' = n /\ last' = n /\ storage[p] = nil
    BY <1>4 DEF Insert, IInv, TypeOK, Nodes
  <2>2. /\ storage' = [storage EXCEPT ![p] = n]
        /\ PlaintextPath' = [PlaintextPath EXCEPT ![n] = p]
        /\ CiphertextPath' = [CiphertextPath EXCEPT ![n] = c]
        /\ call' = Called("Store", p, [plain |-> p, cipher |-> c])
    BY <1>4 DEF Insert
  <2>3. TypeOK'
    <3>1. /\ head' \in Nodes
          /\ prev' \in [Nodes -> Nodes \cup {nil}]
          /\ next' \in [Nodes -> Nodes \cup {nil}]
      BY <1>4, <2>1 DEF Insert, IInv, TypeOK
    <3> QED
      BY <2>1, <2>2, <3>1 DEF IInv, TypeOK, Called, Mapping, Nodes
  <2>4. ListEnds' /\ FreshNodes'
    <3>1. CASE head = nil
      BY <1>4, <2>1, <3>1 DEF Insert, IInv, TypeOK, ListEnds, FreshNodes, Nodes, nil
    <3>2. CASE head # nil
      <4>1. last \in 1..count /\ head' = head
        BY <1>4, <3>2 DEF Insert, IInv, TypeOK, ListEnds, Nodes, nil
      <4>2. /\ prev' = [prev EXCEPT ![n] = last]
            /\ next' = [next EXCEPT ![last] = n]
        BY <1>4, <3>2 DEF Insert
      <4> QED
        BY <2>1, <3>2, <4>1, <4>2 DEF IInv, TypeOK, ListEnds, FreshNodes, Nodes, nil
    <3> QED
      BY <3>1, <3>2
  <2>5. MapMatchesNodes' /\ NodesFilled'
    BY <2>1, <2>2 DEF IInv, TypeOK, MapMatchesNodes, NodesFilled, CachedPaths, Nodes, nil
  <2> QED
    BY <2>3, <2>4, <2>5 DEF IInv
<1>5. ASSUME Clear PROVE IInv'
  BY <1>5 DEF Clear, IInv, TypeOK, MapMatchesNodes, ListEnds, NodesFilled,
     FreshNodes, CachedPaths, Nodes, nil, Called, Mapping
<1>6. ASSUME UNCHANGED vars PROVE IInv'
  BY <1>6 DEF vars, nodeVars, listVars, IInv, TypeOK, MapMatchesNodes, ListEnds,
     NodesFilled, FreshNodes, CachedPaths
<1> QED
  BY <1>1, <1>2, <1>3, <1>4, <1>5, <1>6 DEF Next, Store

-----------------------------------------------------------------------------
\* The invariant holds in every reachable state of the cache.
THEOREM Invariance == Spec => []IInv
<1>1. IInv /\ [Next]_vars => IInv'
  BY NextIInv
<1> QED
  BY InitIInv, <1>1, PTL DEF Spec

\* The fields of FastCache and its nodes keep their types; count never
\* exceeds cacheSize.
THEOREM TypeCorrect == Spec => []TypeOK
<1>1. IInv => TypeOK
  BY DEF IInv
<1> QED
  BY Invariance, <1>1, PTL

\* Map and nodes agree however Find, Store and Clear are mixed.
THEOREM MapIsConsistent == Spec => []MapMatchesNodes
<1>1. IInv => MapMatchesNodes
  BY DEF IInv
<1> QED
  BY Invariance, <1>1, PTL

\* head, last and the successors of all nodes but the last are never nil, so
\* that Store and refreshNode never dereference nil.
THEOREM ListIsAnchored == Spec => []ListEnds
<1>1. IInv => ListEnds
  BY DEF IInv
<1> QED
  BY Invariance, <1>1, PTL

-----------------------------------------------------------------------------
(***************************************************************************)
(* The end of the list.  The order of use, recency, is a history variable: *)
(* that it is a sequence of paths is all that is needed of it.             *)
(***************************************************************************)
RecentInv == recency \in Seq(Paths) /\ LastIsMostRecent

\* Taking a path out of the order of use leaves a sequence of paths.
LEMMA WithoutType ==
    ASSUME recency \in Seq(Paths), NEW p
    PROVE  Without(p) \in Seq(Paths)
<1>1. CASE \E j \in DOMAIN recency : recency[j] = p
  <2> DEFINE i == CHOOSE j \in DOMAIN recency : recency[j] = p
  <2>1. i \in DOMAIN recency
    BY <1>1
  <2>2. Len(recency) \in Nat /\ i \in 1..Len(recency)
    BY <2>1
  <2>3. Without(p) = SubSeq(recency, 1, i - 1) \o SubSeq(recency, i + 1, Len(recency))
    BY <1>1 DEF Without
  <2> HIDE DEF i
  <2>4. SubSeq(recency, 1, i - 1) \in Seq(Paths)
    BY <2>2
  <2>5. SubSeq(recency, i + 1, Len(recency)) \in Seq(Paths)
    BY <2>2
  <2> QED
    BY <2>3, <2>4, <2>5
<1>2. CASE ~ \E j \in DOMAIN recency : recency[j] = p
  BY <1>2 DEF Without
<1> QED
  BY <1>1, <1>2

\* A path that is appended to the order of use is the most recent one.
LEMMA AppendedIsLast ==
    ASSUME NEW s \in Seq(Paths), NEW p \in Paths
    PROVE  /\ Append(s, p) \in Seq(Paths)
           /\ Append(s, p)[Len(Append(s, p))] = p
OBVIOUS

\* refreshNode puts its node at the end, where it may be already.
LEMMA RefreshedIsLast ==
    ASSUME IInv, NEW d \in 1..count, refreshNode(d)
    PROVE  last' = d
BY DEF refreshNode, listVars, IInv, ListEnds

\* Every method puts the path it has used at the end of the list.
LEMMA NextRecentInv ==
    ASSUME IInv, RecentInv, [Next]_vars
    PROVE  RecentInv'
<1> USE CacheAssumption
<1>1. ASSUME NEW p \in Paths, Find(p) PROVE RecentInv'
  <2>1. CASE storage[p] = nil
    BY <1>1, <2>1 DEF Find, RecentInv, LastIsMostRecent, listVars, nodeVars
  <2>2. CASE storage[p] # nil
    <3>1. storage[p] \in 1..count /\ PlaintextPath[storage[p]] = p
      BY <2>2 DEF IInv, TypeOK, MapMatchesNodes, CachedPaths, Nodes, nil
    <3>2. last' = storage[p] /\ UNCHANGED PlaintextPath /\ recency' = Append(Without(p), p)
      BY <1>1, <2>2, <3>1, RefreshedIsLast DEF Find, nodeVars, Used
    <3> QED
      BY <3>1, <3>2, WithoutType, AppendedIsLast DEF RecentInv, LastIsMostRecent
  <2> QED
    BY <2>1, <2>2
<1>2. ASSUME NEW p \in Paths, NEW c \in CPaths, Update(p, c) PROVE RecentInv'
  <2>1. storage[p] \in 1..count /\ PlaintextPath[storage[p]] = p
    BY <1>2 DEF Update, IInv, TypeOK, MapMatchesNodes, CachedPaths, Nodes, nil
  <2>2. last' = storage[p] /\ UNCHANGED PlaintextPath /\ recency' = Append(Without(p), p)
    BY <1>2, <2>1, RefreshedIsLast DEF Update, Used
  <2> QED
    BY <2>1, <2>2, WithoutType, AppendedIsLast DEF RecentInv, LastIsMostRecent
<1>3. ASSUME NEW p \in Paths, NEW c \in CPaths, Replace(p, c) PROVE RecentInv'
  <2>1. head \in 1..count /\ head \in Nodes
    BY <1>3 DEF Replace, IInv, TypeOK, ListEnds, Nodes, nil
  <2>2. last' = head
    BY <1>3, <2>1, RefreshedIsLast DEF Replace
  <2>3. PlaintextPath'[head] = p
    BY <1>3, <2>1 DEF Replace, IInv, TypeOK
  <2>4. recency' = Append(Without(PlaintextPath[head]), p)
    BY <1>3 DEF Replace
  <2> QED
    BY <2>2, <2>3, <2>4, WithoutType, AppendedIsLast DEF RecentInv, LastIsMostRecent
<1>4. ASSUME NEW p \in Paths, NEW c \in CPaths, Insert(p, c) PROVE RecentInv'
  <2>1. count + 1 \in Nodes /\ last' = count + 1 /\ recency' = Append(Without(p), p)
    BY <1>4 DEF Insert, IInv, TypeOK, Nodes, Used
  <2>2. PlaintextPath'[count + 1] = p
    BY <1>4, <2>1 DEF Insert, IInv, TypeOK
  <2> QED
    BY <2>1, <2>2, WithoutType, AppendedIsLast DEF RecentInv, LastIsMostRecent
<1>5. ASSUME Clear PROVE RecentInv'
  BY <1>5 DEF Clear, RecentInv, LastIsMostRecent, nil
<1>6. ASSUME UNCHANGED vars PROVE RecentInv'
  BY <1>6 DEF vars, nodeVars, listVars, RecentInv, LastIsMostRecent
<1> QED
  BY <1>1, <1>2, <1>3, <1>4, <1>5, <1>6 DEF Next, Store

\* Find and Store leave the entry they have used at the end of the list, for any
\* sequence of calls, and although refreshNode leaves wrong prev fields behind.
THEOREM EndOfListIsMostRecent == Spec => []LastIsMostRecent
<1>1. Init => RecentInv
  BY DEF Init, RecentInv, LastIsMostRecent, nil
<1>2. IInv /\ RecentInv /\ [Next]_vars => RecentInv'
  BY NextRecentInv
<1>3. RecentInv => LastIsMostRecent
  BY DEF RecentInv
<1> QED
  BY Invariance, <1>1, <1>2, <1>3, PTL DEF Spec

-----------------------------------------------------------------------------
(***************************************************************************)
(* Refinement.                                                             *)
(***************************************************************************)
Contents == [p \in Paths |-> IF storage[p] = nil THEN None ELSE CiphertextPath[storage[p]]]

\* count counts the cached paths, and they are the paths a caller sees.
LEMMA CountIsCardinality ==
    ASSUME IInv
    PROVE  /\ Abstract!Cached = CachedPaths
           /\ Abstract!Cardinality(CachedPaths) = count
<1>1. Abstract!Cached = CachedPaths
  <2>1. \A p \in CachedPaths : CiphertextPath[storage[p]] \in CPaths
    BY DEF IInv, TypeOK, MapMatchesNodes, NodesFilled, CachedPaths, Nodes, nil
  <2> QED
    BY <2>1, CacheAssumption DEF Abstract!Cached, CachedPaths
<1>2. Cardinality(CachedPaths) = count
  <2> DEFINE f == [n \in 1..count |-> PlaintextPath[n]]
  <2>1. f \in [1..count -> CachedPaths]
    BY DEF IInv, MapMatchesNodes, CachedPaths, nil
  <2>2. \A m, n \in 1..count : f[m] = f[n] => m = n
    BY DEF IInv, MapMatchesNodes
  <2>3. \A p \in CachedPaths : \E n \in 1..count : f[n] = p
    BY DEF IInv, TypeOK, MapMatchesNodes, CachedPaths, Nodes, nil
  <2>4. f \in Bijection(1..count, CachedPaths)
    BY <2>1, <2>2, <2>3 DEF Bijection, Injection, Surjection, IsInjective
  <2>5. ExistsBijection(1..count, CachedPaths)
    BY <2>4 DEF ExistsBijection
  <2>6. count \in Nat
    BY DEF IInv, TypeOK
  <2> QED
    BY <2>5, <2>6, FS_CountingElements
<1>3. Abstract!Cardinality(CachedPaths) = Cardinality(CachedPaths)
  BY DEF Cardinality, Abstract!Cardinality
<1> QED
  BY <1>1, <1>2, <1>3

\* A new FastCache looks like a new BoundedCache.
LEMMA InitRefines == Init => Abstract!Init
BY DEF Init, Abstract!Init, Called, Abstract!Called

\* Every method of FastCache looks like the same method of BoundedCache.
LEMMA StepRefines ==
    ASSUME IInv, [Next]_vars
    PROVE  [Abstract!Next]_(Abstract!vars)
<1> USE CacheAssumption
<1>c. /\ Abstract!Cached = CachedPaths
      /\ Abstract!Cardinality(CachedPaths) = count
  BY CountIsCardinality
<1>1. ASSUME NEW p \in Paths, Find(p) PROVE Abstract!Find(p)
  <2>1. Contents' = Contents
    BY <1>1 DEF Find, nodeVars, Contents
  <2>2. CASE storage[p] = nil
    BY <1>1, <1>c, <2>1, <2>2 DEF Find, Abstract!Find, Abstract!Lookup, Contents, CachedPaths, Called,
       Abstract!Called
  <2>3. CASE storage[p] # nil
    <3>1. p \in CachedPaths /\ PlaintextPath[storage[p]] = p
      BY <2>3 DEF IInv, MapMatchesNodes, CachedPaths
    <3>2. call' = Called("Find", p, [plain |-> p, cipher |-> Contents[p]])
      BY <1>1, <2>3, <3>1 DEF Find, Contents
    <3> QED
      BY <1>c, <2>1, <3>1, <3>2 DEF Abstract!Find, Abstract!Lookup, Contents, Called, Abstract!Called
  <2> QED
    BY <2>2, <2>3
<1>2. ASSUME NEW p \in Paths, NEW c \in CPaths, Update(p, c) PROVE Abstract!Store(p, c)
  <2>1. p \in CachedPaths /\ storage[p] \in Nodes
    BY <1>2 DEF Update, CachedPaths, IInv, TypeOK
  <2>2. \A q \in CachedPaths : storage[q] = storage[p] => q = p
    BY <2>1 DEF IInv, MapMatchesNodes
  <2>3. Contents' = [Contents EXCEPT ![p] = c]
    BY <1>2, <2>1, <2>2 DEF Update, Contents, CachedPaths, IInv, TypeOK
  <2> QED
    BY <1>2, <1>c, <2>1, <2>3 DEF Update, Abstract!Store, Abstract!Put, Contents, Called, Abstract!Called
<1>3. ASSUME NEW p \in Paths, NEW c \in CPaths, Replace(p, c) PROVE Abstract!Store(p, c)
  <2> DEFINE old == PlaintextPath[head]
  <2>1. count = cacheSize /\ p \notin CachedPaths
    BY <1>3 DEF Replace, IInv, TypeOK, CachedPaths
  <2>2. head \in 1..count /\ head \in Nodes /\ head # nil
    BY <2>1 DEF IInv, TypeOK, ListEnds, Nodes, nil
  <2>3. old \in CachedPaths /\ storage[old] = head /\ old # p
    BY <2>1, <2>2 DEF IInv, MapMatchesNodes, CachedPaths
  <2>4. \A q \in CachedPaths : storage[q] = head => q = old
    BY <2>2 DEF IInv, MapMatchesNodes
  <2>5. Contents' = [Contents EXCEPT ![old] = None, ![p] = c]
    <3>1. /\ storage' = [storage EXCEPT ![old] = nil, ![p] = head]
          /\ CiphertextPath' = [CiphertextPath EXCEPT ![head] = c]
      BY <1>3 DEF Replace
    <3>2. \A q \in Paths \ {p, old} : Contents'[q] = Contents[q]
      BY <2>2, <2>4, <3>1 DEF Contents, CachedPaths, IInv, TypeOK
    <3>3. Contents'[p] = c /\ Contents'[old] = None
      BY <2>2, <2>3, <3>1 DEF Contents, CachedPaths, IInv, TypeOK
    <3> QED
      BY <2>3, <3>2, <3>3 DEF Contents, CachedPaths
  <2>6. call' = Abstract!Called("Store", p, [plain |-> p, cipher |-> c])
    BY <1>3 DEF Replace, Called, Abstract!Called
  <2> HIDE DEF old
  <2> QED
    BY <1>c, <2>1, <2>3, <2>5, <2>6 DEF Abstract!Store, Abstract!Put, Contents
<1>4. ASSUME NEW p \in Paths, NEW c \in CPaths, Insert(p, c) PROVE Abstract!Store(p, c)
  <2>1. count < cacheSize /\ count + 1 \in Nodes /\ count + 1 # nil
    BY <1>4 DEF Insert, IInv, TypeOK, Nodes, nil
  <2>2. \A q \in CachedPaths : storage[q] # count + 1
    BY <2>1 DEF IInv, TypeOK, MapMatchesNodes, CachedPaths, Nodes, nil
  <2>3. Contents' = [Contents EXCEPT ![p] = c]
    BY <1>4, <2>1, <2>2 DEF Insert, Contents, CachedPaths, IInv, TypeOK
  <2>4. call' = Abstract!Called("Store", p, [plain |-> p, cipher |-> c])
    BY <1>4 DEF Insert, Called, Abstract!Called
  <2> QED
    BY <1>c, <2>1, <2>3, <2>4 DEF Abstract!Store, Abstract!Put, Contents
<1>5. ASSUME Clear PROVE Abstract!Clear
  BY <1>5 DEF Clear, Abstract!Clear, Called, Abstract!Called
<1>6. ASSUME UNCHANGED vars PROVE UNCHANGED Abstract!vars
  BY <1>6 DEF vars, nodeVars, Abstract!vars
<1> QED
  BY <1>1, <1>2, <1>3, <1>4, <1>5, <1>6 DEF Next, Store, Abstract!Next

\* FastCache implements BoundedCache: whatever order its list is in, it holds
\* at most cacheSize mappings and answers with the one stored last.
THEOREM Refinement == Spec => ImplementsBoundedCache
<1>1. IInv /\ [Next]_vars => [Abstract!Next]_(Abstract!vars)
  BY StepRefines
<1> QED
  BY InitRefines, Invariance, <1>1, PTL DEF Spec, ImplementsBoundedCache, Abstract!Spec

====
