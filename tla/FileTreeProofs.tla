---------------------------- MODULE FileTreeProofs ----------------------------
(***************************************************************************)
(* Proofs about FileTree, for any number of workers, any sequence of       *)
(* versions of the drive, any paths and any size of the fast cache: what   *)
(* the fast cache holds and what ReadFile, ReadDir and Stat return has     *)
(* been true of the path that was asked for.                               *)
(***************************************************************************)
EXTENDS FileTree, WellFoundedInduction, TLAPS

Steps == {"idle", "find", "store", "iv", "list", "name", "read", "stat"}

TypeOK ==
    /\ now \in Versions
    /\ ivCache \in [CDirs -> 0..now]
    /\ listCache \in [CDirs -> 0..now]
    /\ fileCache \in [CFiles -> 0..now]
    /\ fastCache \in [Paths -> CDirs \cup {None}]
    /\ pc \in [Workers -> Steps]
    /\ op \in [Workers -> {"none", "ReadFile", "ReadDir", "Stat"}]
    /\ path \in [Workers -> Paths \cup {<<>>}]
    /\ depth \in [Workers -> Nat]
    /\ cpath \in [Workers -> CPaths]
    /\ result = [w \in Workers |-> result[w]]

\* The requester's caches hold what a version had.
CachesAreTrue ==
    /\ \A c \in CDirs : listCache[c] # 0 => IsDir(listCache[c], c)
    /\ \A c \in CFiles : fileCache[c] # 0 => IsFile(fileCache[c], c)

\* findPath is at a prefix of the path, on its way to the goal.
OnTheWay(w) ==
    pc[w] # "idle" =>
        /\ op[w] # "none" /\ path[w] \in Paths
        /\ op[w] = "ReadFile" => path[w] # <<>>
        /\ depth[w] <= Goal(w)

\* Its ciphertext path has been that of the prefix it is at; ReadFile has gone one
\* name further before it reads.
WalkIsTrue(w) ==
    /\ pc[w] \in {"store", "iv", "list", "name", "stat"} =>
          \E v \in Past : cpath[w] \in Dirs[v][Prefix(path[w], depth[w])]
    /\ pc[w] = "name" => listCache[cpath[w]] # 0
    /\ pc[w] = "stat" => op[w] = "Stat" /\ depth[w] = Goal(w)
    /\ pc[w] = "read" => cpath[w] \in CFiles /\ \E v \in Past : Encrypts(v, cpath[w], path[w])

IInv ==
    /\ TypeOK
    /\ CachesAreTrue
    /\ \A w \in Workers : OnTheWay(w) /\ WalkIsTrue(w)
    /\ CacheIsTruthful
    /\ AnswersAreTrue

-----------------------------------------------------------------------------
\* Prefixes of a sequence, and the sequence one longer.
LEMMA PrefixFacts ==
    ASSUME NEW S, NEW c \in Seq(S), NEW n \in 0..Len(c)
    PROVE  /\ Prefix(c, n) \in Seq(S)
           /\ Len(Prefix(c, n)) = n
           /\ \A i \in 1..n : Prefix(c, n)[i] = c[i]
BY DEF Prefix

LEMMA PrefixOfPrefix ==
    ASSUME NEW S, NEW c \in Seq(S), NEW n \in 0..Len(c), NEW i \in 0..n
    PROVE  Prefix(Prefix(c, n), i) = Prefix(c, i)
BY DEF Prefix

LEMMA PrefixIsAll == ASSUME NEW S, NEW c \in Seq(S) PROVE Prefix(c, Len(c)) = c
BY DEF Prefix

LEMMA AppendFacts ==
    ASSUME NEW S, NEW c \in Seq(S), NEW x
    PROVE  /\ Append(c, x) \in Seq(S \cup {x})
           /\ Append(c, x) # <<>>
           /\ Len(Append(c, x)) = Len(c) + 1
           /\ \A i \in 1..Len(c) : Append(c, x)[i] = c[i]
           /\ Append(c, x)[Len(c) + 1] = x
           /\ \A i \in 0..Len(c) : Prefix(Append(c, x), i) = Prefix(c, i)
<1>1. c \in Seq(S \cup {x}) /\ x \in S \cup {x}
  OBVIOUS
<1>2. \A i \in 0..Len(c) : Prefix(Append(c, x), i) = Prefix(c, i)
  BY <1>1 DEF Prefix
<1> QED
  BY <1>1, <1>2

\* A path that is not the root is its parent's and one name.
LEMMA FrontFacts ==
    ASSUME NEW S, NEW c \in Seq(S), c # <<>>
    PROVE  /\ Len(c) \in Nat \ {0}
           /\ Front(c) = Prefix(c, Len(c) - 1)
           /\ Last(c) = c[Len(c)]
           /\ Append(Front(c), Last(c)) = c
BY DEF Front, Last, Prefix

-----------------------------------------------------------------------------
\* The ciphertext paths of the drive are sequences.
LEMMA DirIsSeq ==
    ASSUME NEW v \in Versions, NEW c, IsDir(v, c)
    PROVE  \E S : c \in Seq(S)
BY TreeAssumption DEF IsDir

LEMMA CPathIsSeq == ASSUME NEW c \in CPaths PROVE \E S : c \in Seq(S)
<1>1. CASE c \in CDirs
  BY <1>1, DirIsSeq DEF CDirs, IsDir
<1>2. CASE c \in CFiles
  <2>1. PICK v \in Versions : c \in UNION {{Append(d, e.name) : e \in {e \in Range(Drive[v][d].list) : ~ e.dir}}
                                              : d \in DOMAIN Drive[v]}
    BY <1>2 DEF CFiles
  <2>2. PICK d \in DOMAIN Drive[v] : \E e \in Range(Drive[v][d].list) : c = Append(d, e.name)
    BY <2>1
  <2>3. PICK e \in Range(Drive[v][d].list) : c = Append(d, e.name)
    BY <2>2
  <2>4. PICK S : d \in Seq(S)
    BY DirIsSeq DEF IsDir
  <2> QED
    BY <2>3, <2>4, AppendFacts
<1> QED
  BY <1>1, <1>2 DEF CPaths

LEMMA RootIsCPath == <<>> \in CDirs /\ <<>> \in CPaths
<1>1. 1 \in Versions
  BY TreeAssumption
<1>2. <<>> \in DOMAIN Drive[1]
  BY <1>1, TreeAssumption
<1> QED
  BY <1>1, <1>2 DEF CPaths, CDirs

\* The root is the directory of the empty path, in every version.
LEMMA RootIsRoot ==
    ASSUME NEW v \in Versions, <<>> \in Paths
    PROVE  <<>> \in Dirs[v][<<>>]
BY TreeAssumption DEF Dirs, Encrypts

\* Every step of the way to a ciphertext path is there in a version.
Reached(v, c) ==
    \A i \in 1..Len(c) :
        /\ Prefix(c, i - 1) \in DOMAIN Drive[v]
        /\ \E e \in Range(Drive[v][Prefix(c, i - 1)].list) : e.name = c[i]

LEMMA DirIsReached == ASSUME NEW v \in Versions, NEW c, IsDir(v, c) PROVE Reached(v, c)
BY TreeAssumption DEF IsDir, Reached

LEMMA FileIsReached ==
    ASSUME NEW v \in Versions, NEW S, NEW c \in Seq(S), IsFile(v, c)
    PROVE  Reached(v, c)
<1>1. /\ Len(c) \in Nat \ {0} /\ Front(c) = Prefix(c, Len(c) - 1) /\ Last(c) = c[Len(c)]
      /\ Front(c) \in DOMAIN Drive[v]
  BY FrontFacts DEF IsFile
<1>2. Front(c) \in Seq(S) /\ Len(Front(c)) = Len(c) - 1 /\ Len(c) - 1 \in 0..Len(c)
  BY <1>1, PrefixFacts
<1>3. Reached(v, Front(c))
  BY <1>1, DirIsReached DEF IsDir
<1>4. ASSUME NEW i \in 1..Len(c)
      PROVE  /\ Prefix(c, i - 1) \in DOMAIN Drive[v]
             /\ \E e \in Range(Drive[v][Prefix(c, i - 1)].list) : e.name = c[i]
  <2>1. CASE i = Len(c)
    BY <1>1, <2>1 DEF IsFile
  <2>2. CASE i < Len(c)
    <3>1. i \in 1..Len(Front(c)) /\ i - 1 \in 0..(Len(c) - 1)
      BY <1>1, <1>2, <2>2
    <3>2. Prefix(Prefix(c, Len(c) - 1), i - 1) = Prefix(c, i - 1)
      BY <1>2, <3>1, PrefixOfPrefix
    <3>3. \A j \in 1..(Len(c) - 1) : Prefix(c, Len(c) - 1)[j] = c[j]
      BY <1>2, PrefixFacts
    <3>4. Prefix(Front(c), i - 1) = Prefix(c, i - 1) /\ Front(c)[i] = c[i]
      BY <1>1, <1>2, <3>1, <3>2, <3>3
    <3> QED
      BY <1>3, <3>1, <3>4 DEF Reached
  <2> QED
    BY <1>1, <2>1, <2>2
<1> QED
  BY <1>4 DEF Reached

\* A ciphertext name of a directory has one plaintext, in every version.
LEMMA OneName ==
    ASSUME NEW v \in Versions, NEW u \in Versions,
           NEW d \in DOMAIN Drive[v], d \in DOMAIN Drive[u],
           NEW e \in Range(Drive[v][d].list), NEW f \in Range(Drive[u][d].list),
           e.name = f.name
    PROVE  e.plain = f.plain
<1>1. CASE e.plain # None
  <2>1. Drive[v][d].iv = Drive[u][d].iv
    BY <1>1, StableNamesAssumption
  <2> QED
    BY <2>1, NamesAssumption
<1>2. CASE f.plain # None
  <2>1. Drive[u][d].iv = Drive[v][d].iv
    BY <1>2, StableNamesAssumption
  <2> QED
    BY <2>1, NamesAssumption
<1> QED
  BY <1>1, <1>2

\* A ciphertext path stands for one plaintext path, in every version that has it.
LEMMA OnePlaintext ==
    ASSUME NEW v \in Versions, NEW u \in Versions, NEW c, NEW p,
           Encrypts(v, c, p), Reached(u, c)
    PROVE  Encrypts(u, c, p)
<1>1. ASSUME NEW i \in 1..Len(p)
      PROVE  /\ Prefix(c, i - 1) \in DOMAIN Drive[u]
             /\ \E e \in Range(Drive[u][Prefix(c, i - 1)].list) : e.name = c[i] /\ e.plain = p[i]
  <2>1. /\ Prefix(c, i - 1) \in DOMAIN Drive[u]
        /\ \E f \in Range(Drive[u][Prefix(c, i - 1)].list) : f.name = c[i]
    BY DEF Reached, Encrypts
  <2>2. PICK f \in Range(Drive[u][Prefix(c, i - 1)].list) : f.name = c[i]
    BY <2>1
  <2>3. Prefix(c, i - 1) \in DOMAIN Drive[v]
    BY DEF Encrypts
  <2>4. PICK e \in Range(Drive[v][Prefix(c, i - 1)].list) : e.name = c[i] /\ e.plain = p[i]
    BY DEF Encrypts
  <2>5. e.plain = f.plain
    BY <2>1, <2>2, <2>3, <2>4, OneName
  <2> QED
    BY <2>1, <2>2, <2>4, <2>5
<1> QED
  BY <1>1 DEF Encrypts

\* What was the directory of a path is that in every version in which it is one.
LEMMA SameDir ==
    ASSUME NEW v \in Versions, NEW u \in Versions, NEW p \in Paths,
           NEW c \in Dirs[v][p], IsDir(u, c)
    PROVE  c \in Dirs[u][p]
<1>1. Encrypts(v, c, p)
  BY DEF Dirs
<1>2. Encrypts(u, c, p)
  BY <1>1, DirIsReached, OnePlaintext
<1> QED
  BY <1>2 DEF Dirs, IsDir

\* findInDir returns an entry of the listing with the name it looks for.
LEMMA FoundIsThere ==
    ASSUME NEW c, NEW lost, NEW n, NEW e \in Found(c, lost, n)
    PROVE  e \in Range(Listed(c).list) /\ e.plain = n
BY DEF Found, Decrypted, Range

\* One name further down: the entry that decrypts to the next name of the path
\* leads to the ciphertext path of the longer prefix.
LEMMA OneNameFurther ==
    ASSUME NEW v \in Versions, NEW p \in Paths, NEW n \in Nat, n < Len(p),
           NEW c \in Dirs[v][Prefix(p, n)], NEW e \in Range(Drive[v][c].list), e.plain = p[n + 1]
    PROVE  /\ Encrypts(v, Append(c, e.name), Prefix(p, n + 1))
           /\ e.dir => Append(c, e.name) \in Dirs[v][Prefix(p, n + 1)]
           /\ ~ e.dir => Append(c, e.name) \in CFiles
<1> DEFINE a == Append(c, e.name)
           q == Prefix(p, n)
           r == Prefix(p, n + 1)
<1>1. PICK T : p \in Seq(T)
  BY PathsAssumption
<1>2. n \in 0..Len(p) /\ n + 1 \in 0..Len(p) /\ n + 1 \in 1..Len(p)
  BY <1>1
<1>3. q \in Paths /\ r \in Paths
  BY <1>2, PathsAssumption
<1>4. Len(q) = n /\ \A i \in 1..n : q[i] = p[i]
  BY <1>1, <1>2, PrefixFacts
<1>5. Len(r) = n + 1 /\ \A i \in 1..(n + 1) : r[i] = p[i]
  BY <1>1, <1>2, PrefixFacts
<1>6. c \in DOMAIN Drive[v] /\ Encrypts(v, c, q)
  BY <1>3 DEF Dirs
<1>7. PICK S : c \in Seq(S)
  BY <1>6, DirIsSeq DEF IsDir
<1>8. Len(c) = n
  BY <1>4, <1>6 DEF Encrypts
<1>9. /\ Len(a) = n + 1 /\ a[n + 1] = e.name
      /\ \A i \in 1..n : a[i] = c[i]
      /\ \A i \in 0..n : Prefix(a, i) = Prefix(c, i)
  <2>1. Len(a) = Len(c) + 1
    BY <1>7, AppendFacts
  <2>2. a[Len(c) + 1] = e.name
    BY <1>7, AppendFacts
  <2>3. \A i \in 1..Len(c) : a[i] = c[i]
    BY <1>7, AppendFacts
  <2>4. \A i \in 0..Len(c) : Prefix(a, i) = Prefix(c, i)
    BY <1>7, AppendFacts
  <2> QED
    BY <1>8, <2>1, <2>2, <2>3, <2>4
<1>10. Prefix(a, n) = c
  BY <1>7, <1>8, <1>9, PrefixIsAll
<1> HIDE DEF a, q, r
<1>11. ASSUME NEW i \in 1..Len(r)
       PROVE  /\ Prefix(a, i - 1) \in DOMAIN Drive[v]
              /\ \E f \in Range(Drive[v][Prefix(a, i - 1)].list) : f.name = a[i] /\ f.plain = r[i]
  <2>1. CASE i = n + 1
    BY <1>5, <1>6, <1>9, <1>10, <2>1
  <2>2. CASE i \in 1..n
    <3>1. Prefix(a, i - 1) = Prefix(c, i - 1) /\ a[i] = c[i] /\ r[i] = q[i]
      BY <1>4, <1>5, <1>9, <2>2
    <3>2. i \in 1..Len(q)
      BY <1>4, <2>2
    <3> QED
      BY <1>6, <3>1, <3>2 DEF Encrypts
  <2> QED
    BY <1>5, <2>1, <2>2
<1>12. Encrypts(v, a, r)
  BY <1>5, <1>9, <1>11 DEF Encrypts
<1>13. e.dir => a \in Dirs[v][r]
  BY <1>3, <1>6, <1>12, TreeAssumption DEF Dirs, a
<1>14. ~ e.dir => a \in CFiles
  BY <1>6 DEF CFiles, a
<1> QED
  BY <1>12, <1>13, <1>14 DEF a, r

\* A file of a version is not one of its directories.
LEMMA FileIsNoDir ==
    ASSUME NEW v \in Versions, NEW c \in CPaths, IsFile(v, c)
    PROVE  c \notin DOMAIN Drive[v]
<1>1. PICK S : c \in Seq(S)
  BY CPathIsSeq
<1>2. PICK e \in Range(Drive[v][Front(c)].list) : e.name = Last(c) /\ ~ e.dir
  BY DEF IsFile
<1>3. Append(Front(c), e.name) = c
  BY <1>1, <1>2, FrontFacts DEF IsFile
<1> QED
  <2>1. Front(c) \in DOMAIN Drive[v]
    BY DEF IsFile
  <2>2. e.dir <=> Append(Front(c), e.name) \in DOMAIN Drive[v]
    BY <2>1, TreeAssumption
  <2> QED
    BY <1>2, <1>3, <2>2

\* What Store does to the fast cache: it may forget other entries.
LEMMA PutFacts ==
    ASSUME TypeOK, NEW p \in Paths, NEW c \in CDirs, Cache!Put(p, c)
    PROVE  /\ fastCache' \in [Paths -> CDirs \cup {None}]
           /\ \A q \in Paths : fastCache'[q] # None =>
                 fastCache'[q] = fastCache[q] \/ (q = p /\ fastCache'[q] = c)
BY DEF TypeOK, Cache!Put, Cache!Cached

-----------------------------------------------------------------------------
\* The entries are some of those that the directory p has in a version.
TrueListing(v, items, p) ==
    \E c \in Dirs[v][p] : \A i \in DOMAIN items :
        \E e \in Range(Drive[v][c].list) :
            items[i] = [name |-> e.plain, size |-> PlainSize(e.size)]

\* What AnswersAreTrue says of one call that returned r for the path p.
TrueAnswer(r, p) ==
    /\ r.kind = "data" => r.cpath \in Files[r.at][p] /\ r.length = PlainSize(SizeOf(r.at, r.cpath))
    /\ r.kind = "info" =>
          \E v \in Past : Encrypts(v, r.cpath, p) /\ r.size = PlainSize(SizeOf(v, r.cpath))
    /\ r.kind = "list" => \E v \in Past : TrueListing(v, r.items, p)

Sane(w) == OnTheWay(w) /\ WalkIsTrue(w) /\ (pc[w] = "idle" => TrueAnswer(result[w], path[w]))

\* The state of a worker is as it was.
Still(w) ==
    /\ pc'[w] = pc[w] /\ op'[w] = op[w] /\ path'[w] = path[w]
    /\ depth'[w] = depth[w] /\ cpath'[w] = cpath[w] /\ result'[w] = result[w]

\* the requester forgets no listing
Kept == \A c \in CDirs : listCache[c] # 0 => listCache'[c] # 0

LEMMA Sanity == IInv => \A w \in Workers : Sane(w)
BY DEF IInv, Sane, AnswersAreTrue, TrueAnswer, TrueListing

LEMMA PastGrows ==
    ASSUME TypeOK, now' = now \/ now' = now + 1
    PROVE  \A v \in Past : v \in Past'
BY TreeAssumption DEF TypeOK, Past

LEMMA PastIsVersions == ASSUME TypeOK PROVE Past \subseteq Versions /\ now \in Past
BY TreeAssumption DEF TypeOK, Past

\* A worker that takes no step stays sane, whatever the others do.
LEMMA StillSane ==
    ASSUME TypeOK, NEW w \in Workers, Sane(w), Still(w), Kept,
           now' = now \/ now' = now + 1
    PROVE  Sane(w)'
<1>1. \A v \in Past : v \in Past'
  BY PastGrows
<1>2. OnTheWay(w)'
  BY DEF Sane, OnTheWay, Still, Goal
<1>3. WalkIsTrue(w)'
  <2>1. pc'[w] \in {"store", "iv", "list", "name", "stat"} =>
           \E v \in Past' : cpath'[w] \in Dirs[v][Prefix(path'[w], depth'[w])]
    BY <1>1 DEF Sane, WalkIsTrue, Still
  <2>2. pc'[w] = "name" => listCache'[cpath'[w]] # 0
    <3> SUFFICES ASSUME pc[w] = "name" PROVE listCache'[cpath[w]] # 0
      BY DEF Still
    <3>1. PICK v \in Past : cpath[w] \in Dirs[v][Prefix(path[w], depth[w])]
      BY DEF Sane, WalkIsTrue
    <3>2. listCache[cpath[w]] # 0
      BY DEF Sane, WalkIsTrue
    <3>3. Prefix(path[w], depth[w]) \in Paths
      <4>1. path[w] \in Paths /\ depth[w] <= Goal(w) /\ (op[w] = "ReadFile" => path[w] # <<>>)
        BY DEF Sane, OnTheWay
      <4>2. PICK S : path[w] \in Seq(S)
        BY <4>1, PathsAssumption
      <4>3. depth[w] \in 0..Len(path[w])
        BY <4>1, <4>2 DEF TypeOK, Goal
      <4> QED
        BY <4>1, <4>3, PathsAssumption
    <3>4. cpath[w] \in CDirs
      BY <3>1, <3>3, PastIsVersions DEF Dirs, CDirs
    <3> QED
      BY <3>2, <3>4 DEF Kept
  <2>3. pc'[w] = "stat" => op'[w] = "Stat" /\ depth'[w] = Goal(w)'
    BY DEF Sane, WalkIsTrue, Still, Goal
  <2>4. pc'[w] = "read" => cpath'[w] \in CFiles /\ \E v \in Past' : Encrypts(v, cpath'[w], path'[w])
    BY <1>1 DEF Sane, WalkIsTrue, Still
  <2> QED
    BY <2>1, <2>2, <2>3, <2>4 DEF WalkIsTrue
<1>4. pc'[w] = "idle" => TrueAnswer(result[w], path[w])'
  <2> SUFFICES ASSUME pc[w] = "idle" PROVE TrueAnswer(result[w], path[w])'
    BY DEF Still
  <2>1. TrueAnswer(result[w], path[w])
    BY DEF Sane
  <2> QED
    <3>1. ASSUME NEW r, NEW p, TrueAnswer(r, p) PROVE TrueAnswer(r, p)'
      BY <1>1, <3>1 DEF TrueAnswer
    <3> QED
      BY <2>1, <3>1 DEF Still
<1> QED
  BY <1>2, <1>3, <1>4 DEF Sane

\* It is enough to look at the worker that takes the step.
LEMMA OneWorker ==
    ASSUME IInv, NEW w \in Workers, TypeOK', now' = now, Kept,
           \A u \in Workers \ {w} : Still(u),
           CachesAreTrue', CacheIsTruthful', Sane(w)'
    PROVE  IInv'
<1>1. ASSUME NEW u \in Workers PROVE Sane(u)'
  BY Sanity, StillSane DEF IInv
<1> QED
  BY <1>1 DEF IInv, Sane, AnswersAreTrue, TrueAnswer, TrueListing

\* The prefix that findPath is at.
LEMMA PrefixIsPath ==
    ASSUME IInv, NEW w \in Workers, pc[w] # "idle"
    PROVE  /\ path[w] \in Paths /\ \E S : path[w] \in Seq(S)
           /\ depth[w] \in 0..Goal(w) /\ Goal(w) \in 0..Len(path[w])
           /\ op[w] = "ReadFile" => Len(path[w]) \in Nat \ {0} /\ Goal(w) = Len(path[w]) - 1
           /\ op[w] # "ReadFile" => Goal(w) = Len(path[w])
           /\ \A n \in 0..Len(path[w]) : Prefix(path[w], n) \in Paths
<1>1. path[w] \in Paths /\ depth[w] <= Goal(w) /\ (op[w] = "ReadFile" => path[w] # <<>>)
  BY DEF IInv, OnTheWay
<1>2. PICK S : path[w] \in Seq(S)
  BY <1>1, PathsAssumption
<1>3. \A n \in 0..Len(path[w]) : Prefix(path[w], n) \in Paths
  BY <1>1, PathsAssumption
<1> QED
  BY <1>1, <1>2, <1>3 DEF IInv, TypeOK, Goal

LEMMA WalkIsDir ==
    ASSUME IInv, NEW w \in Workers, pc[w] \in {"store", "iv", "list", "name", "stat"}
    PROVE  cpath[w] \in CDirs
<1>1. PICK v \in Past : cpath[w] \in Dirs[v][Prefix(path[w], depth[w])]
  BY DEF IInv, WalkIsTrue
<1>2. Prefix(path[w], depth[w]) \in Paths
  BY PrefixIsPath
<1> QED
  BY <1>1, <1>2, PastIsVersions DEF Dirs, CDirs, IInv

-----------------------------------------------------------------------------
\* What a step must not touch when it only moves one worker.
Quiet == UNCHANGED <<remoteVars, fastCache, op, path>>

LEMMA QuietFacts ==
    ASSUME IInv, Quiet
    PROVE  /\ now' = now /\ Kept
           /\ CachesAreTrue' /\ CacheIsTruthful'
<1>1. CachesAreTrue'
  BY DEF IInv, CachesAreTrue, Quiet, remoteVars
<1>2. CacheIsTruthful'
  BY DEF IInv, CacheIsTruthful, Quiet, remoteVars, Cache!Cached, Past
<1> QED
  BY <1>1, <1>2 DEF Kept, Quiet, remoteVars

\* A call that returns a true answer.
LEMMA Returned ==
    ASSUME IInv, NEW w \in Workers, NEW res, Return(w, res), Quiet, TrueAnswer(res, path[w])
    PROVE  IInv'
<1>1. TypeOK'
  <2>1. pc' \in [Workers -> Steps] /\ depth' \in [Workers -> Nat] /\ cpath' \in [Workers -> CPaths]
    BY RootIsCPath DEF IInv, TypeOK, Return, Goto, Steps
  <2>2. result' = [u \in Workers |-> result'[u]]
    BY DEF IInv, TypeOK, Return
  <2> QED
    BY <2>1, <2>2 DEF IInv, TypeOK, Quiet, remoteVars
<1>2. \A u \in Workers \ {w} : Still(u)
  BY DEF IInv, TypeOK, Return, Goto, Quiet, Still
<1>3. pc'[w] = "idle" /\ result'[w] = res /\ path' = path /\ now' = now
  BY DEF IInv, TypeOK, Return, Goto, Quiet, remoteVars
<1>4. TrueAnswer(res, path[w])'
  BY <1>3 DEF TrueAnswer, Past
<1>5. Sane(w)'
  BY <1>3, <1>4 DEF Sane, OnTheWay, WalkIsTrue
<1> QED
  BY <1>1, <1>2, <1>5, QuietFacts, OneWorker

LEMMA ErrorIsTrue == ASSUME NEW p PROVE TrueAnswer(Error, p)
BY DEF TrueAnswer, Error

LEMMA CallStep ==
    ASSUME IInv, NEW w \in Workers, NEW method \in {"ReadFile", "ReadDir", "Stat"}, NEW p \in Paths,
           Call(w, method, p)
    PROVE  IInv'
<1>1. PICK S : p \in Seq(S)
  BY PathsAssumption
<1>2. /\ now' = now /\ Kept /\ CachesAreTrue' /\ CacheIsTruthful'
  BY DEF IInv, CachesAreTrue, CacheIsTruthful, Call, remoteVars, Cache!Cached, Past, Kept
<1>3. op'[w] = method /\ path'[w] = p
  BY DEF IInv, TypeOK, Call
<1>4. \A u \in Workers \ {w} : Still(u)
  BY DEF IInv, TypeOK, Call, Return, Goto, Still
<1>5. /\ op' \in [Workers -> {"none", "ReadFile", "ReadDir", "Stat"}]
      /\ path' \in [Workers -> Paths \cup {<<>>}]
  BY DEF IInv, TypeOK, Call
<1>6. CASE method = "ReadFile" /\ p = <<>>
  <2>1. Return(w, Error)
    BY <1>6 DEF Call
  <2>2. TypeOK'
    <3>1. pc' \in [Workers -> Steps] /\ depth' \in [Workers -> Nat] /\ cpath' \in [Workers -> CPaths]
      BY <2>1, RootIsCPath DEF IInv, TypeOK, Return, Goto, Steps
    <3>2. result' = [u \in Workers |-> result'[u]]
      BY <2>1 DEF IInv, TypeOK, Return
    <3> QED
      BY <1>5, <3>1, <3>2 DEF IInv, TypeOK, Call, remoteVars
  <2>3. pc'[w] = "idle" /\ result'[w] = Error
    BY <2>1 DEF IInv, TypeOK, Return, Goto
  <2>4. Sane(w)'
    BY <2>3 DEF Sane, OnTheWay, WalkIsTrue, TrueAnswer, Error
  <2> QED
    BY <1>2, <1>4, <2>2, <2>4, OneWorker
<1>7. CASE ~ (method = "ReadFile" /\ p = <<>>)
  <2> DEFINE n == IF method = "ReadFile" THEN Len(p) - 1 ELSE Len(p)
  <2>1. /\ Goto(w, "find") /\ UNCHANGED cpath
        /\ depth' = [depth EXCEPT ![w] = n]
        /\ result' = [result EXCEPT ![w] = [kind |-> "none"]]
    BY <1>7 DEF Call
  <2>2. n \in Nat
    BY <1>1, <1>7
  <2> HIDE DEF n
  <2>3. pc'[w] = "find" /\ depth'[w] = n
    BY <2>1 DEF IInv, TypeOK, Goto
  <2>4. TypeOK'
    <3>1. pc' \in [Workers -> Steps] /\ depth' \in [Workers -> Nat] /\ cpath' \in [Workers -> CPaths]
      BY <2>1, <2>2 DEF IInv, TypeOK, Goto, Steps
    <3>2. result' = [u \in Workers |-> result'[u]]
      BY <2>1 DEF IInv, TypeOK
    <3> QED
      BY <1>5, <3>1, <3>2 DEF IInv, TypeOK, Call, remoteVars
  <2>5. Sane(w)'
    BY <1>3, <1>7, <2>2, <2>3 DEF Sane, OnTheWay, WalkIsTrue, Goal, n
  <2> QED
    BY <1>2, <1>4, <2>4, <2>5, OneWorker
<1> QED
  BY <1>6, <1>7

\* findPath moves on: to a step, a length of the prefix and a ciphertext path that
\* belong together.
Moved(w, s, n, c) ==
    /\ pc' = [pc EXCEPT ![w] = s]
    /\ depth' = [depth EXCEPT ![w] = n]
    /\ cpath' = [cpath EXCEPT ![w] = c]
    /\ UNCHANGED <<op, path, result>>

Fits(w, s, n, c) ==
    /\ s \in Steps \ {"idle"} /\ n \in 0..Goal(w) /\ c \in CPaths
    /\ s \in {"store", "iv", "list", "name", "stat"} => \E v \in Past : c \in Dirs[v][Prefix(path[w], n)]
    /\ s = "name" => listCache'[c] # 0
    /\ s = "stat" => op[w] = "Stat" /\ n = Goal(w)
    /\ s = "read" => c \in CFiles /\ \E v \in Past : Encrypts(v, c, path[w])

LEMMA Moves ==
    ASSUME IInv, NEW w \in Workers, pc[w] # "idle", NEW s, NEW n, NEW c,
           Moved(w, s, n, c), Fits(w, s, n, c),
           now' = now, Kept,
           ivCache' \in [CDirs -> 0..now], listCache' \in [CDirs -> 0..now], UNCHANGED fileCache,
           fastCache' \in [Paths -> CDirs \cup {None}],
           CachesAreTrue', CacheIsTruthful'
    PROVE  IInv'
<1>1. pc'[w] = s /\ depth'[w] = n /\ cpath'[w] = c /\ path'[w] = path[w] /\ op'[w] = op[w]
  BY DEF IInv, TypeOK, Moved
<1>2. TypeOK'
  <2>1. Goal(w) \in Nat
    BY PrefixIsPath
  <2>2. n \in Nat
    BY <2>1 DEF Fits
  <2>3. /\ pc' \in [Workers -> Steps] /\ depth' \in [Workers -> Nat] /\ cpath' \in [Workers -> CPaths]
    BY <2>2 DEF IInv, TypeOK, Moved, Fits
  <2> QED
    BY <2>3 DEF IInv, TypeOK, Moved
<1>3. \A u \in Workers \ {w} : Still(u)
  BY DEF IInv, TypeOK, Moved, Still
<1>4. Goal(w)' = Goal(w) /\ Past' = Past
  BY <1>1 DEF Goal, Past
<1>5. OnTheWay(w)'
  <2>1. n <= Goal(w)
    BY PrefixIsPath DEF Fits
  <2> QED
    BY <1>1, <1>4, <2>1 DEF IInv, OnTheWay
<1>6. WalkIsTrue(w)'
  BY <1>1, <1>4 DEF WalkIsTrue, Fits
<1>7. pc'[w] # "idle"
  BY <1>1 DEF Fits
<1> QED
  BY <1>2, <1>3, <1>5, <1>6, <1>7, OneWorker DEF Sane

\* the same for a step that leaves the caches alone
LEMMA QuietMove ==
    ASSUME IInv, NEW w \in Workers, pc[w] # "idle", NEW s, NEW n, NEW c,
           Moved(w, s, n, c), Fits(w, s, n, c), Quiet
    PROVE  IInv'
<1>1. /\ ivCache' \in [CDirs -> 0..now] /\ listCache' \in [CDirs -> 0..now] /\ UNCHANGED fileCache
      /\ fastCache' \in [Paths -> CDirs \cup {None}]
  BY DEF IInv, TypeOK, Quiet, remoteVars
<1> QED
  BY <1>1, QuietFacts, Moves

\* where findPath goes once it has the ciphertext path of a prefix
After(w, n) == IF op[w] = "Stat" /\ n = Goal(w) THEN "stat" ELSE "iv"

LEMMA ResolvedFacts ==
    ASSUME NEW w \in Workers, NEW n, Resolved(w, n)
    PROVE  /\ pc' = [pc EXCEPT ![w] = After(w, n)]
           /\ After(w, n) \in {"iv", "stat"}
           /\ After(w, n) = "stat" => op[w] = "Stat" /\ n = Goal(w)
BY DEF Resolved, Goto, After

LEMMA FindRootStep ==
    ASSUME IInv, NEW w \in Workers, FindRoot(w)
    PROVE  IInv'
<1>1. pc[w] = "find" /\ depth[w] = 0 /\ Quiet /\ Resolved(w, 0)
  BY DEF FindRoot, Quiet
<1> DEFINE s == After(w, 0)
<1>2. /\ pc' = [pc EXCEPT ![w] = s] /\ s \in {"iv", "stat"}
      /\ s = "stat" => op[w] = "Stat" /\ 0 = Goal(w)
  BY <1>1, ResolvedFacts
<1> HIDE DEF s
<1>3. Moved(w, s, 0, <<>>)
  BY <1>1, <1>2 DEF FindRoot, Moved, IInv, TypeOK
<1>4. Prefix(path[w], 0) = <<>> /\ <<>> \in Paths
  <2>1. 0 \in 0..Len(path[w]) /\ Prefix(path[w], 0) \in Paths
    BY <1>1, PrefixIsPath
  <2>2. Prefix(path[w], 0) = <<>>
    BY <1>1, PrefixIsPath DEF Prefix
  <2> QED
    BY <2>1, <2>2
<1>5. 0 \in 0..Goal(w)
  BY <1>1, PrefixIsPath
<1>6. \E v \in Past : <<>> \in Dirs[v][Prefix(path[w], 0)]
  BY <1>4, RootIsRoot, PastIsVersions DEF IInv
<1>7. Fits(w, s, 0, <<>>)
  BY <1>2, <1>5, <1>6, RootIsCPath DEF Fits, Steps
<1> QED
  BY <1>1, <1>3, <1>7, QuietMove

LEMMA FindCachedStep ==
    ASSUME IInv, NEW w \in Workers, FindCached(w)
    PROVE  IInv'
<1> DEFINE p == Prefix(path[w], depth[w])
<1>1. pc[w] = "find" /\ depth[w] > 0 /\ Quiet
  BY DEF FindCached, Quiet
<1>2. depth[w] \in 0..Goal(w) /\ Goal(w) \in Nat /\ p \in Paths
  BY <1>1, PrefixIsPath
<1>3. CASE Mapping(w) = None
  <2>1. Moved(w, "find", depth[w] - 1, cpath[w])
    BY <1>1, <1>3 DEF FindCached, Moved, IInv, TypeOK
  <2>2. Fits(w, "find", depth[w] - 1, cpath[w])
    BY <1>1, <1>2 DEF Fits, Steps, IInv, TypeOK
  <2> QED
    BY <1>1, <2>1, <2>2, QuietMove
<1>4. CASE Mapping(w) # None
  <2>1. p \in Cache!Cached /\ Mapping(w).cipher = fastCache[p]
    BY <1>4 DEF Mapping, Cache!Lookup
  <2>2. PICK v \in Past : fastCache[p] \in Dirs[v][p]
    BY <2>1 DEF IInv, CacheIsTruthful
  <2>3. fastCache[p] \in CPaths
    BY <1>2, <2>2, PastIsVersions DEF Dirs, CDirs, CPaths, IInv
  <2>4. Resolved(w, depth[w]) /\ cpath' = [cpath EXCEPT ![w] = fastCache[p]] /\ UNCHANGED depth
    BY <1>4, <2>1 DEF FindCached
  <2> DEFINE s == After(w, depth[w])
  <2>5. /\ pc' = [pc EXCEPT ![w] = s] /\ s \in {"iv", "stat"}
        /\ s = "stat" => op[w] = "Stat" /\ depth[w] = Goal(w)
    BY <2>4, ResolvedFacts
  <2> HIDE DEF s
  <2>6. Moved(w, s, depth[w], fastCache[p])
    BY <1>1, <2>4, <2>5 DEF FindCached, Moved, IInv, TypeOK
  <2>7. Fits(w, s, depth[w], fastCache[p])
    BY <1>2, <2>2, <2>3, <2>5 DEF Fits, Steps
  <2> QED
    BY <1>1, <2>6, <2>7, QuietMove
<1> QED
  BY <1>3, <1>4

LEMMA ReadIVStep ==
    ASSUME IInv, NEW w \in Workers, ReadIV(w)
    PROVE  IInv'
<1>1. pc[w] = "iv" /\ cpath[w] \in CDirs
  BY WalkIsDir DEF ReadIV
<1>2. /\ now' = now /\ Kept /\ CachesAreTrue' /\ CacheIsTruthful'
  BY DEF IInv, CachesAreTrue, CacheIsTruthful, ReadIV, Cache!Cached, Past, Kept
<1>3. /\ ivCache' \in [CDirs -> 0..now] /\ listCache' \in [CDirs -> 0..now] /\ UNCHANGED fileCache
      /\ fastCache' \in [Paths -> CDirs \cup {None}]
  <2>1. now \in 0..now
    BY TreeAssumption DEF IInv, TypeOK
  <2> QED
    BY <1>1, <2>1 DEF IInv, TypeOK, ReadIV, Fetch
<1>4. Moved(w, "list", depth[w], cpath[w])
  BY DEF ReadIV, Moved, Goto, walkVars, IInv, TypeOK
<1>5. Fits(w, "list", depth[w], cpath[w])
  BY <1>1, PrefixIsPath DEF IInv, WalkIsTrue, Fits, Steps, CPaths
<1> QED
  BY <1>1, <1>2, <1>3, <1>4, <1>5, Moves

LEMMA ListDirStep ==
    ASSUME IInv, NEW w \in Workers, ListDir(w)
    PROVE  IInv'
<1> DEFINE c == cpath[w]
           v == Fetch(listCache[c])
<1>1. pc[w] = "list" /\ c \in CDirs
  BY WalkIsDir DEF ListDir
<1>2. now \in 1..now /\ listCache[c] \in 0..now
  BY <1>1, TreeAssumption DEF IInv, TypeOK
<1>3. v \in 1..now /\ IsDir(v, c)
  <2>1. CASE listCache[c] = 0
    BY <1>1, <1>2, <2>1 DEF ListDir, Known, Present, Fetch
  <2>2. CASE listCache[c] # 0
    BY <1>1, <1>2, <2>2 DEF IInv, CachesAreTrue, Fetch
  <2> QED
    BY <2>1, <2>2
<1>4. listCache' = [listCache EXCEPT ![c] = v]
  BY DEF ListDir
<1> HIDE DEF v
<1>5. /\ listCache' \in [CDirs -> 0..now] /\ listCache'[c] = v
      /\ \A d \in CDirs : d # c => listCache'[d] = listCache[d]
  BY <1>1, <1>3, <1>4 DEF IInv, TypeOK
<1>6. Kept
  BY <1>3, <1>5 DEF Kept
<1>7. now' = now /\ CacheIsTruthful'
  BY DEF IInv, CacheIsTruthful, ListDir, Cache!Cached, Past
<1>8. CachesAreTrue'
  <2>1. \A d \in CDirs : listCache'[d] # 0 => IsDir(listCache'[d], d)
    BY <1>3, <1>5 DEF IInv, CachesAreTrue
  <2> QED
    BY <2>1 DEF IInv, CachesAreTrue, ListDir
<1>9. /\ ivCache' \in [CDirs -> 0..now] /\ UNCHANGED fileCache
      /\ fastCache' \in [Paths -> CDirs \cup {None}]
  BY DEF IInv, TypeOK, ListDir
<1>10. Moved(w, "name", depth[w], c)
  BY DEF ListDir, Moved, Goto, walkVars, IInv, TypeOK
<1>11. Fits(w, "name", depth[w], c)
  BY <1>1, <1>3, <1>5, PrefixIsPath DEF IInv, WalkIsTrue, Fits, Steps, CPaths
<1> QED
  BY <1>1, <1>5, <1>6, <1>7, <1>8, <1>9, <1>10, <1>11, Moves

\* The version of the listing that findInDir and ReadDir go through is one in which
\* the directory is that of the prefix.
LEMMA ListingIsRight ==
    ASSUME IInv, NEW w \in Workers, pc[w] = "name"
    PROVE  /\ listCache[cpath[w]] \in Past /\ listCache[cpath[w]] \in Versions
           /\ cpath[w] \in Dirs[listCache[cpath[w]]][Prefix(path[w], depth[w])]
           /\ Prefix(path[w], depth[w]) \in Paths
<1>1. PICK v \in Past : cpath[w] \in Dirs[v][Prefix(path[w], depth[w])]
  BY DEF IInv, WalkIsTrue
<1>2. Prefix(path[w], depth[w]) \in Paths
  BY PrefixIsPath
<1>3. cpath[w] \in CDirs /\ listCache[cpath[w]] # 0
  BY WalkIsDir DEF IInv, WalkIsTrue
<1>4. listCache[cpath[w]] \in Past /\ listCache[cpath[w]] \in Versions
  BY <1>3, TreeAssumption DEF IInv, TypeOK, Past
<1>5. IsDir(listCache[cpath[w]], cpath[w])
  BY <1>3 DEF IInv, CachesAreTrue
<1> QED
  BY <1>1, <1>2, <1>4, <1>5, SameDir, PastIsVersions DEF IInv

LEMMA EnterDirStep ==
    ASSUME IInv, NEW w \in Workers, NEW lost, EnterDir(w, lost)
    PROVE  IInv'
<1> DEFINE c == cpath[w]
           v == listCache[c]
           n == depth[w]
<1>1. pc[w] = "name" /\ n < Goal(w) /\ Quiet
  BY DEF EnterDir, Quiet
<1>2. /\ v \in Past /\ v \in Versions /\ c \in Dirs[v][Prefix(path[w], n)]
  BY <1>1, ListingIsRight
<1>3. /\ path[w] \in Paths /\ n \in Nat /\ n < Len(path[w]) /\ n + 1 \in 0..Goal(w)
      /\ Prefix(path[w], n + 1) \in Paths
  BY <1>1, PrefixIsPath
<1>4. CASE Return(w, Error)
  BY <1>1, <1>4, Returned, ErrorIsTrue
<1>5. ASSUME NEW e \in Found(c, lost, path[w][n + 1]), e.dir,
             Moved(w, "store", n + 1, Append(c, e.name))
      PROVE  IInv'
  <2>1. e \in Range(Drive[v][c].list) /\ e.plain = path[w][n + 1]
    BY FoundIsThere DEF Listed
  <2>2. Append(c, e.name) \in Dirs[v][Prefix(path[w], n + 1)]
    BY <1>2, <1>3, <1>5, <2>1, OneNameFurther
  <2>3. Append(c, e.name) \in CPaths
    BY <1>2, <1>3, <2>2 DEF Dirs, CDirs, CPaths
  <2>4. Fits(w, "store", n + 1, Append(c, e.name))
    BY <1>2, <1>3, <2>2, <2>3 DEF Fits, Steps
  <2> QED
    BY <1>1, <1>5, <2>4, QuietMove
<1>6. ASSUME NEW e \in Found(c, lost, path[w][n + 1]), e.dir,
             depth' = [depth EXCEPT ![w] = @ + 1],
             cpath' = [cpath EXCEPT ![w] = Append(@, e.name)],
             Goto(w, "store"), UNCHANGED result
      PROVE  Moved(w, "store", n + 1, Append(c, e.name))
  BY <1>1, <1>6 DEF Goto, Moved, Quiet
<1> QED
  BY <1>4, <1>5, <1>6 DEF EnterDir

LEMMA OpenFileStep ==
    ASSUME IInv, NEW w \in Workers, NEW lost, OpenFile(w, lost)
    PROVE  IInv'
<1> DEFINE c == cpath[w]
           v == listCache[c]
           n == depth[w]
<1>1. pc[w] = "name" /\ n = Goal(w) /\ op[w] = "ReadFile" /\ Quiet
  BY DEF OpenFile, Quiet
<1>2. /\ v \in Past /\ v \in Versions /\ c \in Dirs[v][Prefix(path[w], n)]
  BY <1>1, ListingIsRight
<1>3. PICK S : path[w] \in Seq(S)
  BY <1>1, PrefixIsPath
<1>4. path[w] \in Paths /\ n \in Nat /\ n < Len(path[w]) /\ n + 1 = Len(path[w]) /\ n \in 0..Goal(w)
  BY <1>1, PrefixIsPath
<1>5. Prefix(path[w], n + 1) = path[w] /\ Last(path[w]) = path[w][n + 1]
  BY <1>3, <1>4, PrefixIsAll DEF Last
<1>6. CASE Return(w, Error)
  BY <1>1, <1>6, Returned, ErrorIsTrue
<1>7. ASSUME NEW e \in Found(c, lost, Last(path[w])), ~ e.dir,
             Moved(w, "read", n, Append(c, e.name))
      PROVE  IInv'
  <2>1. e \in Range(Drive[v][c].list) /\ e.plain = path[w][n + 1]
    BY <1>5, FoundIsThere DEF Listed
  <2>2. Encrypts(v, Append(c, e.name), Prefix(path[w], n + 1)) /\ Append(c, e.name) \in CFiles
    BY <1>2, <1>4, <1>7, <2>1, OneNameFurther
  <2>3. Fits(w, "read", n, Append(c, e.name))
    BY <1>2, <1>4, <1>5, <2>2 DEF Fits, Steps, CPaths
  <2> QED
    BY <1>1, <1>7, <2>3, QuietMove
<1>8. ASSUME NEW e \in Found(c, lost, Last(path[w])), ~ e.dir,
             cpath' = [cpath EXCEPT ![w] = Append(@, e.name)],
             Goto(w, "read"), UNCHANGED <<depth, result>>
      PROVE  Moved(w, "read", n, Append(c, e.name))
  BY <1>1, <1>8 DEF Goto, Moved, Quiet, IInv, TypeOK
<1> QED
  BY <1>6, <1>7, <1>8 DEF OpenFile

LEMMA CollectDirStep ==
    ASSUME IInv, NEW w \in Workers, NEW lost, CollectDir(w, lost)
    PROVE  IInv'
<1> DEFINE c == cpath[w]
           v == listCache[c]
           items == ListEntries(c, lost)
<1>1. pc[w] = "name" /\ depth[w] = Goal(w) /\ op[w] = "ReadDir" /\ Quiet /\ Return(w, List(items))
  BY DEF CollectDir, Quiet
<1>2. PICK S : path[w] \in Seq(S)
  BY <1>1, PrefixIsPath
<1>3. Prefix(path[w], depth[w]) = path[w]
  BY <1>1, <1>2, PrefixIsPath, PrefixIsAll
<1>4. v \in Past /\ c \in Dirs[v][path[w]]
  BY <1>1, <1>3, ListingIsRight
<1>5. ASSUME NEW i \in DOMAIN items
      PROVE  \E e \in Range(Drive[v][c].list) : items[i] = [name |-> e.plain, size |-> PlainSize(e.size)]
  BY DEF ListEntries, Decrypted, Listed, Entry, Range
<1> HIDE DEF items
<1>6. TrueListing(v, items, path[w])
  BY <1>4, <1>5 DEF TrueListing
<1>7. TrueAnswer(List(items), path[w])
  BY <1>4, <1>6 DEF TrueAnswer, List
<1> QED
  BY <1>1, <1>7, Returned

LEMMA RememberStep ==
    ASSUME IInv, NEW w \in Workers, Remember(w)
    PROVE  IInv'
<1> DEFINE p == Prefix(path[w], depth[w])
           c == cpath[w]
           s == After(w, depth[w])
<1>1. pc[w] = "store" /\ Cache!Put(p, c) /\ Resolved(w, depth[w])
  BY DEF Remember
<1>2. /\ UNCHANGED remoteVars /\ UNCHANGED <<op, path, depth, cpath, result>>
  BY DEF Remember, walkVars
<1>3. c \in CDirs /\ p \in Paths /\ depth[w] \in 0..Goal(w)
  BY <1>1, WalkIsDir, PrefixIsPath
<1>4. PICK v \in Past : c \in Dirs[v][p]
  BY <1>1 DEF IInv, WalkIsTrue
<1>5. /\ fastCache' \in [Paths -> CDirs \cup {None}]
      /\ \A q \in Paths : fastCache'[q] # None =>
            fastCache'[q] = fastCache[q] \/ (q = p /\ fastCache'[q] = c)
  BY <1>1, <1>3, PutFacts DEF IInv
<1>6. /\ pc' = [pc EXCEPT ![w] = s] /\ s \in {"iv", "stat"}
      /\ s = "stat" => op[w] = "Stat" /\ depth[w] = Goal(w)
  BY <1>1, ResolvedFacts
<1> HIDE DEF p, c, s
<1>7. CacheIsTruthful'
  <2> SUFFICES ASSUME NEW q \in Paths, fastCache'[q] # None
               PROVE  \E u \in Past : fastCache'[q] \in Dirs[u][q]
    BY <1>2 DEF CacheIsTruthful, Cache!Cached, Past, remoteVars
  <2>1. CASE fastCache'[q] = fastCache[q]
    BY <2>1 DEF IInv, CacheIsTruthful, Cache!Cached
  <2>2. CASE q = p /\ fastCache'[q] = c
    BY <1>4, <2>2
  <2> QED
    BY <1>5, <2>1, <2>2
<1>8. /\ now' = now /\ Kept /\ CachesAreTrue'
  BY <1>2 DEF IInv, CachesAreTrue, remoteVars, Kept
<1>9. /\ ivCache' \in [CDirs -> 0..now] /\ listCache' \in [CDirs -> 0..now] /\ UNCHANGED fileCache
  BY <1>2 DEF IInv, TypeOK, remoteVars
<1>10. Moved(w, s, depth[w], c)
  BY <1>2, <1>6 DEF Moved, IInv, TypeOK, c
<1>11. Fits(w, s, depth[w], c)
  BY <1>3, <1>4, <1>6 DEF Fits, Steps, CPaths, p
<1> QED
  BY <1>1, <1>5, <1>7, <1>8, <1>9, <1>10, <1>11, Moves

\* What was the ciphertext path of a plaintext path is that in every version that
\* has anything there.
LEMMA StillEncrypts ==
    ASSUME TypeOK, NEW v \in Past, NEW u \in Past, NEW c \in CPaths, NEW p,
           Encrypts(v, c, p), IsDir(u, c) \/ IsFile(u, c)
    PROVE  Encrypts(u, c, p)
<1>1. v \in Versions /\ u \in Versions
  BY PastIsVersions
<1>2. PICK S : c \in Seq(S)
  BY CPathIsSeq
<1>3. Reached(u, c)
  BY <1>1, <1>2, DirIsReached, FileIsReached
<1> QED
  BY <1>1, <1>3, OnePlaintext

LEMMA StatRemoteStep ==
    ASSUME IInv, NEW w \in Workers, StatRemote(w)
    PROVE  IInv'
<1>1. pc[w] = "stat" /\ Present(w) /\ Return(w, Info(now, cpath[w])) /\ Quiet
  BY DEF StatRemote, Quiet
<1>2. PICK v \in Past : cpath[w] \in Dirs[v][Prefix(path[w], depth[w])]
  BY <1>1 DEF IInv, WalkIsTrue
<1>3. op[w] = "Stat" /\ depth[w] = Goal(w)
  BY <1>1 DEF IInv, WalkIsTrue
<1>4. PICK S : path[w] \in Seq(S)
  BY <1>1, PrefixIsPath
<1>5. Prefix(path[w], depth[w]) = path[w] /\ path[w] \in Paths
  BY <1>1, <1>3, <1>4, PrefixIsPath, PrefixIsAll
<1>6. Encrypts(v, cpath[w], path[w])
  BY <1>2, <1>5, PastIsVersions DEF Dirs, IInv
<1>7. IsDir(now, cpath[w]) \/ IsFile(now, cpath[w])
  BY <1>1 DEF Present
<1>8. Encrypts(now, cpath[w], path[w])
  BY <1>6, <1>7, StillEncrypts, PastIsVersions DEF IInv, TypeOK
<1>9. TrueAnswer(Info(now, cpath[w]), path[w])
  BY <1>8, PastIsVersions DEF TrueAnswer, Info, IInv
<1> QED
  BY <1>1, <1>9, Returned

LEMMA ReadContentStep ==
    ASSUME IInv, NEW w \in Workers, ReadContent(w)
    PROVE  IInv'
<1> DEFINE c == cpath[w]
           v == Fetch(fileCache[c])
           res == IF SizeOf(v, c) <= HeaderLen THEN Error ELSE Data(v, c)
<1>1. pc[w] = "read" /\ (Known(w) \/ Present(w)) /\ Return(w, res)
  BY DEF ReadContent
<1>2. c \in CFiles /\ c \in CPaths /\ path[w] \in Paths
  BY <1>1, PrefixIsPath DEF IInv, WalkIsTrue, CPaths
<1>3. PICK u \in Past : Encrypts(u, c, path[w])
  BY <1>1 DEF IInv, WalkIsTrue
<1>4. now \in 1..now /\ fileCache[c] \in 0..now
  BY <1>2, TreeAssumption DEF IInv, TypeOK
<1>5. v \in Past /\ IsFile(v, c)
  <2>1. CASE fileCache[c] = 0
    BY <1>1, <1>4, <2>1 DEF Known, Present, Fetch, Past
  <2>2. CASE fileCache[c] # 0
    BY <1>2, <1>4, <2>2 DEF IInv, CachesAreTrue, Fetch, Past
  <2> QED
    BY <2>1, <2>2
<1>6. fileCache' = [fileCache EXCEPT ![c] = v]
  BY DEF ReadContent
<1> HIDE DEF v, c
<1>7. c \in Files[v][path[w]]
  <2>1. v \in Versions
    BY <1>5, PastIsVersions DEF IInv
  <2>2. Encrypts(v, c, path[w])
    BY <1>2, <1>3, <1>5, StillEncrypts DEF IInv
  <2>3. c \notin DOMAIN Drive[v]
    BY <1>2, <1>5, <2>1, FileIsNoDir
  <2> QED
    BY <1>2, <2>1, <2>2, <2>3 DEF Files
<1>8. TrueAnswer(res, path[w])
  BY <1>7 DEF TrueAnswer, Error, Data
<1> HIDE DEF res
<1>9. /\ now' = now /\ Kept /\ CacheIsTruthful'
  BY DEF IInv, CacheIsTruthful, ReadContent, Cache!Cached, Past, Kept
<1>10. fileCache' \in [CFiles -> 0..now]
  <2>1. v \in 0..now
    BY <1>4, <1>5, TreeAssumption DEF Past, IInv, TypeOK
  <2> QED
    BY <1>6, <2>1 DEF IInv, TypeOK
<1>11. CachesAreTrue'
  <2>1. \A d \in CFiles : fileCache'[d] = fileCache[d] \/ (d = c /\ fileCache'[d] = v)
    BY <1>2, <1>6 DEF IInv, TypeOK
  <2>2. \A d \in CFiles : fileCache'[d] # 0 => IsFile(fileCache'[d], d)
    BY <1>5, <2>1 DEF IInv, CachesAreTrue
  <2> QED
    BY <2>2 DEF IInv, CachesAreTrue, ReadContent
<1>12. TypeOK'
  <2>1. pc' \in [Workers -> Steps] /\ depth' \in [Workers -> Nat] /\ cpath' \in [Workers -> CPaths]
    BY <1>1, RootIsCPath DEF IInv, TypeOK, Return, Goto, Steps
  <2>2. result' = [o \in Workers |-> result'[o]]
    BY <1>1 DEF IInv, TypeOK, Return
  <2> QED
    BY <1>9, <1>10, <2>1, <2>2 DEF IInv, TypeOK, ReadContent
<1>13. \A o \in Workers \ {w} : Still(o)
  BY <1>1 DEF IInv, TypeOK, ReadContent, Return, Goto, Still
<1>14. pc'[w] = "idle" /\ result'[w] = res /\ path' = path
  BY <1>1 DEF IInv, TypeOK, ReadContent, Return, Goto
<1>15. TrueAnswer(result[w], path[w])'
  BY <1>8, <1>9, <1>14 DEF TrueAnswer, Past
<1>16. Sane(w)'
  BY <1>14, <1>15 DEF Sane, OnTheWay, WalkIsTrue
<1> QED
  BY <1>9, <1>11, <1>12, <1>13, <1>16, OneWorker

LEMMA ChangeStep ==
    ASSUME IInv, Change
    PROVE  IInv'
<1>1. now' = now + 1 /\ now' \in Versions
  BY TreeAssumption DEF Change, IInv, TypeOK
<1>2. TypeOK'
  <2>1. \A n \in 0..now : n \in 0..now'
    BY <1>1, TreeAssumption DEF IInv, TypeOK
  <2> QED
    BY <1>1, <2>1 DEF IInv, TypeOK, Change, walkVars
<1>3. CachesAreTrue'
  BY DEF IInv, CachesAreTrue, Change
<1>4. CacheIsTruthful'
  BY <1>1, PastGrows DEF IInv, CacheIsTruthful, Change, Cache!Cached
<1>5. ASSUME NEW w \in Workers PROVE Sane(w)'
  BY <1>1, Sanity, StillSane DEF Change, Kept, Still, walkVars, IInv
<1> QED
  BY <1>2, <1>3, <1>4, <1>5 DEF IInv, Sane, AnswersAreTrue, TrueAnswer, TrueListing

LEMMA WorkStep ==
    ASSUME IInv, NEW w \in Workers, Work(w)
    PROVE  IInv'
<1>1. CASE Gone(w)
  <2>1. Return(w, Error) /\ Quiet
    BY <1>1 DEF Gone, Quiet
  <2> QED
    BY <2>1, Returned, ErrorIsTrue
<1>2. ASSUME NEW f, Fault(w, f) PROVE IInv'
  <2>1. Return(w, Error) /\ Quiet
    BY <1>2 DEF Fault, Quiet
  <2> QED
    BY <2>1, Returned, ErrorIsTrue
<1>3. ASSUME NEW lost, EnterDir(w, lost) \/ OpenFile(w, lost) \/ CollectDir(w, lost)
      PROVE  IInv'
  BY <1>3, EnterDirStep, OpenFileStep, CollectDirStep
<1>4. CASE FindRoot(w) \/ FindCached(w) \/ ReadIV(w) \/ ListDir(w)
  BY <1>4, FindRootStep, FindCachedStep, ReadIVStep, ListDirStep
<1>5. CASE Remember(w) \/ ReadContent(w) \/ StatRemote(w)
  BY <1>5, RememberStep, ReadContentStep, StatRemoteStep
<1> QED
  BY <1>1, <1>2, <1>3, <1>4, <1>5 DEF Work

-----------------------------------------------------------------------------
LEMMA InitIInv == Init => IInv
<1> SUFFICES ASSUME Init PROVE IInv
  OBVIOUS
<1>1. TypeOK
  <2>1. 1 \in Versions
    BY TreeAssumption
  <2> QED
    BY <2>1, RootIsCPath DEF Init, TypeOK, Steps
<1>2. CachesAreTrue /\ CacheIsTruthful
  BY DEF Init, CachesAreTrue, CacheIsTruthful, Cache!Cached
<1>3. \A w \in Workers : pc[w] = "idle" /\ result[w].kind = "none"
  BY DEF Init
<1>4. \A w \in Workers : OnTheWay(w) /\ WalkIsTrue(w)
  BY <1>3 DEF OnTheWay, WalkIsTrue
<1>5. AnswersAreTrue
  BY <1>3 DEF AnswersAreTrue
<1> QED
  BY <1>1, <1>2, <1>4, <1>5 DEF IInv

LEMMA NextIInv == IInv /\ [Next]_vars => IInv'
<1> SUFFICES ASSUME IInv, [Next]_vars PROVE IInv'
  OBVIOUS
<1>1. CASE UNCHANGED vars
  BY <1>1 DEF vars, remoteVars, walkVars, IInv, TypeOK, CachesAreTrue, OnTheWay, WalkIsTrue, Goal,
              CacheIsTruthful, AnswersAreTrue, Cache!Cached, Past
<1>2. CASE Next
  BY <1>2, CallStep, WorkStep, ChangeStep DEF Next
<1> QED
  BY <1>1, <1>2

\* The inductive invariant holds in every reachable state: what the requester's
\* caches hold was there, and findPath's ciphertext path has been that of the
\* prefix it is at.
THEOREM Invariance == Spec => []IInv
BY InitIInv, NextIInv, PTL DEF Spec

\* Every entry of the fast cache maps a plaintext path to a directory that has been
\* the one of that path, whatever the goroutines and the other clients do.
THEOREM FastCacheIsTruthful == Spec => []CacheIsTruthful
<1>1. IInv => CacheIsTruthful
  BY DEF IInv
<1> QED
  BY <1>1, Invariance, PTL

\* Whatever ReadFile, ReadDir and Stat return without an error has been true of the
\* path they were asked for, however old the cached pieces it was made from are.
THEOREM AnswersHaveBeenTrue == Spec => []AnswersAreTrue
<1>1. IInv => AnswersAreTrue
  BY DEF IInv
<1> QED
  BY <1>1, Invariance, PTL

-----------------------------------------------------------------------------
(***************************************************************************)
(* Failures.  If there is something at the path all the time, there is one *)
(* ciphertext path for it, and findPath has nowhere else to go.            *)
(***************************************************************************)
\* A set of natural numbers has a least member.
LEMMA LeastNat ==
    ASSUME NEW T, T \subseteq Nat, T # {}
    PROVE  \E m \in T : \A k \in T : m <= k
<1> DEFINE R == {ss \in Nat \X Nat : ss[1] < ss[2]}
<1>1. IsWellFoundedOn(R, Nat)
  BY NatLessThanWellFounded, Zenon DEF OpToRel
<1>2. PICK x \in T : \A y \in T : ~ (<<y, x>> \in R)
  BY <1>1, WFMin
<1>3. \A y \in T : y < x => <<y, x>> \in R
  OBVIOUS
<1>4. \A y \in T : ~ (y < x)
  BY <1>2, <1>3
<1>5. x \in Nat /\ \A y \in T : y \in Nat
  OBVIOUS
<1> HIDE DEF R
<1> QED
  BY <1>4, <1>5

\* The ciphertext path of a prefix.
LEMMA EncryptsPrefix ==
    ASSUME NEW v \in Versions, NEW p \in Paths, NEW n \in 0..Len(p),
           NEW S, NEW c \in Seq(S), Encrypts(v, c, p)
    PROVE  Encrypts(v, Prefix(c, n), Prefix(p, n))
<1>1. PICK R : p \in Seq(R)
  BY PathsAssumption
<1>2. Len(c) = Len(p) /\ n \in 0..Len(c) /\ n \in Nat
  BY <1>1 DEF Encrypts
<1>3. Len(Prefix(p, n)) = n /\ \A i \in 1..n : Prefix(p, n)[i] = p[i]
  BY <1>1, PrefixFacts
<1>4. Len(Prefix(c, n)) = n /\ \A i \in 1..n : Prefix(c, n)[i] = c[i]
  BY <1>2, PrefixFacts
<1>5. ASSUME NEW i \in 1..n
      PROVE  /\ Prefix(Prefix(c, n), i - 1) = Prefix(c, i - 1)
             /\ i \in 1..Len(p)
  <2>1. i - 1 \in 0..n /\ i \in 1..Len(p)
    BY <1>2
  <2> QED
    BY <1>2, <2>1, PrefixOfPrefix
<1> QED
  BY <1>3, <1>4, <1>5 DEF Encrypts

\* What a ciphertext path leads to is a directory or a file.
LEMMA EncryptedIsThere ==
    ASSUME NEW v \in Versions, NEW p \in Paths, Len(p) # 0,
           NEW S, NEW c \in Seq(S), Encrypts(v, c, p)
    PROVE  c \in Dirs[v][p] \cup Files[v][p]
<1>1. Len(c) = Len(p) /\ c # <<>>
  BY DEF Encrypts
<1>2. /\ Len(c) \in Nat \ {0} /\ Front(c) = Prefix(c, Len(c) - 1) /\ Last(c) = c[Len(c)]
      /\ Append(Front(c), Last(c)) = c
  BY <1>1, FrontFacts
<1>3. Front(c) \in DOMAIN Drive[v]
  BY <1>1, <1>2 DEF Encrypts
<1>4. PICK e \in Range(Drive[v][Front(c)].list) : e.name = Last(c)
  BY <1>1, <1>2 DEF Encrypts
<1>5. e.dir <=> c \in DOMAIN Drive[v]
  <2>1. e.dir <=> Append(Front(c), e.name) \in DOMAIN Drive[v]
    BY <1>3, TreeAssumption
  <2> QED
    BY <1>2, <1>4, <2>1
<1>6. CASE e.dir
  BY <1>5, <1>6 DEF Dirs
<1>7. CASE ~ e.dir
  <2>1. c \in CFiles
    BY <1>2, <1>3, <1>4, <1>7 DEF CFiles
  <2> QED
    BY <1>5, <1>7, <2>1 DEF Files
<1> QED
  BY <1>6, <1>7

\* If no two stored names on the way decrypt to the same name, a plaintext path has one
\* ciphertext path, and so have its prefixes.
LEMMA OneCipherPath ==
    ASSUME NEW v \in Versions, NEW p \in Unambiguous[v], NEW n \in 0..Len(p),
           NEW S, NEW c \in Seq(S), NEW T, NEW d \in Seq(T),
           Encrypts(v, c, p), Encrypts(v, d, Prefix(p, n))
    PROVE  d = Prefix(c, n)
<1>1. p \in Paths
  BY DEF Unambiguous
<1>2. PICK R : p \in Seq(R)
  BY <1>1, PathsAssumption
<1>3. Len(Prefix(p, n)) = n /\ n \in Nat /\ Prefix(p, n) \in Paths
  <2>1. Prefix(p, n) \in Paths
    BY <1>1, PathsAssumption
  <2> QED
    BY <1>2, <2>1, PrefixFacts
<1>4. n \in 0..Len(c) /\ Len(d) = n
  BY <1>3 DEF Encrypts
<1>5. Encrypts(v, Prefix(c, n), Prefix(p, n)) /\ Prefix(c, n) \in Seq(S)
  BY <1>1, <1>4, EncryptsPrefix, PrefixFacts
<1>6. CASE n = 0
  <2>1. Len(Prefix(c, n)) = 0
    BY <1>4, <1>6, PrefixFacts
  <2> QED
    BY <1>4, <1>5, <1>6, <2>1
<1>7. CASE n # 0
  <2>1. /\ d \in Dirs[v][Prefix(p, n)] \cup Files[v][Prefix(p, n)]
        /\ Prefix(c, n) \in Dirs[v][Prefix(p, n)] \cup Files[v][Prefix(p, n)]
    BY <1>3, <1>5, <1>7, EncryptedIsThere
  <2>2. n \in 1..Len(p)
    BY <1>2, <1>7
  <2> QED
    BY <2>1, <2>2 DEF Unambiguous
<1> QED
  BY <1>6, <1>7

\* rangeInDir asks for the listing after the IV, and only ReadFile for content.
StepFits(w) ==
    /\ pc[w] \in {"list", "name"} => ivCache[cpath[w]] # 0
    /\ pc[w] = "read" => op[w] = "ReadFile"

\* The requester has IVs that the directories have had.
IVsAreTrue ==
    /\ \A c \in CDirs : ivCache[c] # 0 => IsDir(ivCache[c], c)
    /\ \A w \in Workers : StepFits(w)

\* There is a version in which method m had to fail on the path p.
Missing(m, p) ==
    \E v \in Past :
        IF m = "ReadFile"
        THEN \A c \in Files[v][p] : SizeOf(v, c) <= HeaderLen
        ELSE Dirs[v][p] = {}

\* What FailuresHaveReason says of one worker.
HasReason(w) ==
    (pc[w] = "idle" /\ ~ hit[w] /\ op[w] # "none" /\ Untouched(path[w])) =>
        /\ result[w].kind = "error" => Missing(op[w], path[w])
        /\ result[w].kind = "list" => Complete(w)

ReasonInv ==
    /\ hit \in [Workers -> BOOLEAN]
    /\ IVsAreTrue
    /\ \A w \in Workers : HasReason(w)

\* The ciphertext path c has been that of what w was asked for all the time.
Target(w, c) ==
    \A v \in Past :
        IF op[w] = "ReadFile" THEN c \in Files[v][path[w]] ELSE c \in Dirs[v][path[w]]

LEMMA HasTarget ==
    ASSUME IInv, NEW w \in Workers, Untouched(path[w]), ~ Missing(op[w], path[w])
    PROVE  \E c : Target(w, c)
<1>1. now \in Past
  BY PastIsVersions DEF IInv
<1>2. CASE op[w] = "ReadFile"
  <2>1. PICK c : c \in Files[now][path[w]]
    BY <1>1, <1>2 DEF Missing
  <2>2. \A v \in Past : Files[v][path[w]] = Files[now][path[w]]
    BY <1>1 DEF Untouched
  <2> QED
    BY <1>2, <2>1, <2>2 DEF Target
<1>3. CASE op[w] # "ReadFile"
  <2>1. PICK c : c \in Dirs[now][path[w]]
    BY <1>1, <1>3 DEF Missing
  <2>2. \A v \in Past : Dirs[v][path[w]] = Dirs[now][path[w]]
    BY <1>1 DEF Untouched
  <2> QED
    BY <1>3, <2>1, <2>2 DEF Target
<1> QED
  BY <1>2, <1>3

\* A call is on its way to the target, and the way is there all the time.
LEMMA OnTarget ==
    ASSUME IInv, NEW w \in Workers, pc[w] # "idle", Untouched(path[w]), NEW c, Target(w, c)
    PROVE  /\ Len(c) = Len(path[w]) /\ \E S : c \in Seq(S)
           /\ \A v \in Past : Encrypts(v, c, path[w])
           /\ \A v \in Past : \A n \in 0..Goal(w) : IsDir(v, Prefix(c, n))
           /\ op[w] = "ReadFile" => \A v \in Past : IsFile(v, c) /\ ~ IsDir(v, c)
           /\ pc[w] \in {"store", "iv", "list", "name", "stat"} => cpath[w] = Prefix(c, depth[w])
           /\ pc[w] = "read" => cpath[w] = c
<1> DEFINE p == path[w]
<1>1. now \in Past /\ Past \subseteq Versions
  BY PastIsVersions DEF IInv
<1>2. p \in Paths /\ Goal(w) \in 0..Len(p) /\ depth[w] \in 0..Goal(w) /\ Len(p) \in Nat
  <2>1. PICK R : p \in Seq(R)
    BY PrefixIsPath
  <2> QED
    BY <2>1, PrefixIsPath
<1>3. c \in CPaths /\ \A v \in Past : Encrypts(v, c, p)
  BY <1>1, <1>2 DEF Target, Files, Dirs, CDirs, CPaths
<1>4. PICK S : c \in Seq(S)
  BY <1>3, CPathIsSeq
<1>5. Len(c) = Len(p)
  BY <1>1, <1>3 DEF Encrypts
<1>6. ASSUME NEW v \in Past, NEW n \in 0..Goal(w) PROVE IsDir(v, Prefix(c, n))
  <2>1. CASE n < Len(p)
    <3>1. n + 1 \in 1..Len(p) /\ (n + 1) - 1 = n
      BY <1>2, <2>1
    <3> QED
      BY <1>3, <3>1 DEF Encrypts, IsDir
  <2>2. CASE n = Len(p)
    <3>1. op[w] # "ReadFile"
      BY <1>2, <2>2, PrefixIsPath
    <3>2. c \in Dirs[v][p]
      BY <3>1 DEF Target
    <3>3. Prefix(c, n) = c
      BY <1>4, <1>5, <2>2, PrefixIsAll
    <3> QED
      BY <1>1, <1>2, <3>2, <3>3 DEF Dirs, IsDir
  <2> QED
    BY <1>2, <2>1, <2>2
<1>7. ASSUME op[w] = "ReadFile", NEW v \in Past PROVE IsFile(v, c) /\ ~ IsDir(v, c)
  <2>1. c \in Files[v][p] /\ c \notin DOMAIN Drive[v]
    BY <1>1, <1>2, <1>7 DEF Target, Files
  <2>2. Len(p) \in Nat \ {0} /\ Len(p) \in 1..Len(p)
    BY <1>7, PrefixIsPath
  <2>3. c # <<>>
    BY <1>5, <2>2
  <2>4. Front(c) = Prefix(c, Len(p) - 1) /\ Last(c) = c[Len(p)] /\ Append(Front(c), Last(c)) = c
    BY <1>4, <1>5, <2>3, FrontFacts
  <2>5. Front(c) \in DOMAIN Drive[v]
    BY <1>3, <2>2, <2>4 DEF Encrypts
  <2>6. PICK e \in Range(Drive[v][Front(c)].list) : e.name = Last(c)
    BY <1>3, <2>2, <2>4 DEF Encrypts
  <2>7. ~ e.dir
    <3>1. v \in Versions
      BY <1>1
    <3>2. e.dir <=> Append(Front(c), e.name) \in DOMAIN Drive[v]
      BY <2>5, <3>1, TreeAssumption
    <3> QED
      BY <2>1, <2>4, <2>6, <3>2
  <2> QED
    BY <2>1, <2>3, <2>5, <2>6, <2>7 DEF IsFile, IsDir
<1>8. ASSUME pc[w] \in {"store", "iv", "list", "name", "stat"} PROVE cpath[w] = Prefix(c, depth[w])
  <2>1. PICK v \in Past : cpath[w] \in Dirs[v][Prefix(p, depth[w])]
    BY <1>8 DEF IInv, WalkIsTrue
  <2>2. depth[w] \in 0..Len(p) /\ Prefix(p, depth[w]) \in Paths
    <3>1. depth[w] \in 0..Len(p)
      BY <1>2
    <3> QED
      BY <1>2, <3>1, PathsAssumption
  <2>3. Encrypts(v, cpath[w], Prefix(p, depth[w])) /\ IsDir(v, cpath[w])
    BY <1>1, <2>1, <2>2 DEF Dirs, IsDir
  <2>4. PICK R : cpath[w] \in Seq(R)
    BY <1>1, <2>3, DirIsSeq
  <2> QED
    BY <1>1, <1>3, <1>4, <2>2, <2>3, <2>4, OneCipherPath DEF Untouched
<1>9. ASSUME pc[w] = "read" PROVE cpath[w] = c
  <2>1. PICK v \in Past : Encrypts(v, cpath[w], p)
    BY <1>9 DEF IInv, WalkIsTrue
  <2>2. PICK R : cpath[w] \in Seq(R)
    BY CPathIsSeq DEF IInv, TypeOK
  <2>3. Len(p) \in 0..Len(p) /\ Prefix(p, Len(p)) = p /\ Prefix(c, Len(p)) = c
    <3>1. PICK Q : p \in Seq(Q)
      BY PrefixIsPath
    <3> QED
      BY <1>2, <1>4, <1>5, <3>1, PrefixIsAll
  <2> QED
    BY <1>1, <1>3, <1>4, <2>1, <2>2, <2>3, OneCipherPath DEF Untouched
<1> QED
  BY <1>3, <1>4, <1>5, <1>6, <1>7, <1>8, <1>9

\* The next name of the path is found, in whichever versions IV and listing are.
LEMMA NextName ==
    ASSUME IInv, IVsAreTrue, NEW w \in Workers, pc[w] = "name", depth[w] < Len(path[w]),
           Untouched(path[w]), NEW c, Target(w, c)
    PROVE  /\ listCache[cpath[w]] \in Past
           /\ \E e \in Found(cpath[w], {}, path[w][depth[w] + 1]) :
                 e.dir <=> IsDir(listCache[cpath[w]], Prefix(c, depth[w] + 1))
<1> DEFINE p == path[w]
           n == depth[w]
           d == cpath[w]
           v == listCache[d]
           u == ivCache[d]
<1>1. v \in Past /\ v \in Versions /\ d \in DOMAIN Drive[v] /\ d \in CDirs
  BY ListingIsRight, WalkIsDir DEF Dirs
<1>2. u \in Past /\ u \in Versions /\ d \in DOMAIN Drive[u]
  BY <1>1, TreeAssumption DEF IInv, TypeOK, IVsAreTrue, StepFits, IsDir, Past
<1>3. p \in Paths /\ n \in Nat /\ n + 1 \in 1..Len(p) /\ (n + 1) - 1 = n
  <2>1. PICK R : p \in Seq(R)
    BY PrefixIsPath
  <2> QED
    BY <2>1, PrefixIsPath
<1>4. d = Prefix(c, n) /\ Len(c) = Len(p) /\ Encrypts(v, c, p) /\ Encrypts(u, c, p)
  BY <1>1, <1>2, OnTarget
<1>5. PICK S : c \in Seq(S)
  BY OnTarget
<1>6. PICK e \in Range(Drive[v][d].list) : e.name = c[n + 1] /\ e.plain = p[n + 1]
  BY <1>3, <1>4 DEF Encrypts
<1>7. PICK f \in Range(Drive[u][d].list) : f.name = c[n + 1] /\ f.plain = p[n + 1]
  BY <1>3, <1>4 DEF Encrypts
<1>8. p[n + 1] # None
  BY <1>3, PathsAssumption
<1>9. Drive[v][d].iv = Drive[u][d].iv
  BY <1>1, <1>2, <1>6, <1>7, <1>8, StableNamesAssumption
<1> DEFINE l == Drive[v][d].list
           named == {i \in Decrypted(d, {}) : Listed(d).list[i].plain = p[n + 1]}
<1>10. Listed(d).list = l /\ named \subseteq DOMAIN l /\ DOMAIN l \subseteq Nat
  <2>1. l \in Seq(Range(l))
    BY <1>1, TreeAssumption
  <2>2. DOMAIN l \subseteq Nat
    BY <2>1
  <2> QED
    BY <2>2 DEF Decrypted, Listed
<1>11. named # {}
  <2>1. PICK i \in DOMAIN l : l[i] = e
    BY <1>6 DEF Range
  <2>2. i \in Decrypted(d, {})
    BY <1>6, <1>8, <1>9, <2>1 DEF Decrypted, Listed
  <2> QED
    BY <1>6, <1>10, <2>1, <2>2
<1>12. PICK i \in named : \A j \in named : i <= j
  <2>1. named \subseteq Nat
    BY <1>10
  <2> HIDE DEF named
  <2> QED
    BY <1>11, <2>1, LeastNat
<1>13. l[i] \in Found(d, {}, p[n + 1])
  BY <1>10, <1>12 DEF Found
<1>14. l[i] \in Range(l) /\ l[i].plain = p[n + 1]
  BY <1>10, <1>12 DEF Range
<1> HIDE DEF named
<1>15. d \in Dirs[v][Prefix(p, n)]
  BY ListingIsRight
<1>16. Append(d, l[i].name) = Prefix(c, n + 1)
  <2>1. Encrypts(v, Append(d, l[i].name), Prefix(p, n + 1))
    BY <1>1, <1>3, <1>14, <1>15, OneNameFurther
  <2>2. PICK T : d \in Seq(T)
    BY <1>1, DirIsSeq DEF IsDir
  <2>3. Append(d, l[i].name) \in Seq(T \cup {l[i].name})
    BY <2>2, AppendFacts
  <2>4. p \in Unambiguous[v] /\ n + 1 \in 0..Len(p)
    BY <1>1, <1>3 DEF Untouched
  <2> DEFINE a == Append(d, l[i].name)
             m == n + 1
  <2> HIDE DEF a, m, p, n, d, v, l
  <2>5. a = Prefix(c, m)
    BY <1>1, <1>4, <1>5, <2>1, <2>3, <2>4, OneCipherPath DEF a, m
  <2> QED
    BY <2>5 DEF a, m
<1>17. l[i].dir <=> Append(d, l[i].name) \in DOMAIN Drive[v]
  BY <1>1, <1>14, TreeAssumption
<1> QED
  BY <1>1, <1>13, <1>16, <1>17 DEF IsDir

\* Whatever a step of w does, the other workers stay as they are, and so does the drive.
LEMMA OthersAreStill ==
    ASSUME IInv, ReasonInv, NEW w \in Workers,
           Work(w) \/ \E m, p : Call(w, m, p)
    PROVE  /\ \A o \in Workers \ {w} : Still(o) /\ hit'[o] = hit[o]
           /\ hit' \in [Workers -> BOOLEAN] /\ now' = now
<1> USE DEF IInv, TypeOK, ReasonInv, Still, Goto, Return, remoteVars, walkVars
<1>1. ASSUME NEW m, NEW p, Call(w, m, p)
      PROVE  /\ \A o \in Workers \ {w} : Still(o) /\ hit'[o] = hit[o]
             /\ hit' \in [Workers -> BOOLEAN] /\ now' = now
  BY <1>1 DEF Call
<1>2. CASE FindRoot(w) \/ FindCached(w) \/ Remember(w)
  BY <1>2 DEF FindRoot, FindCached, Remember, Resolved
<1>3. CASE ReadIV(w) \/ ListDir(w) \/ ReadContent(w) \/ StatRemote(w) \/ Gone(w)
  BY <1>3 DEF ReadIV, ListDir, ReadContent, StatRemote, Gone
<1>4. ASSUME NEW f, Fault(w, f)
      PROVE  /\ \A o \in Workers \ {w} : Still(o) /\ hit'[o] = hit[o]
             /\ hit' \in [Workers -> BOOLEAN] /\ now' = now
  BY <1>4 DEF Fault
<1>5. ASSUME NEW lost, EnterDir(w, lost) \/ OpenFile(w, lost) \/ CollectDir(w, lost)
      PROVE  /\ \A o \in Workers \ {w} : Still(o) /\ hit'[o] = hit[o]
             /\ hit' \in [Workers -> BOOLEAN] /\ now' = now
  <2>1. hit' \in [Workers -> BOOLEAN] /\ \A o \in Workers \ {w} : hit'[o] = hit[o]
    BY <1>5 DEF EnterDir, OpenFile, CollectDir, Suffers
  <2> QED
    BY <1>5, <2>1 DEF EnterDir, OpenFile, CollectDir
<1> QED
  BY <1>1, <1>2, <1>3, <1>4, <1>5 DEF Work

\* A reason that there was stays one.
LEMMA ReasonsLast ==
    ASSUME TypeOK, NEW w \in Workers, HasReason(w), Still(w), hit'[w] = hit[w],
           now' = now \/ now' = now + 1
    PROVE  HasReason(w)'
<1>1. \A v \in Past : v \in Past'
  BY PastGrows
<1>2. ASSUME NEW p, Untouched(p)' PROVE Untouched(p)
  BY <1>1, <1>2 DEF Untouched
<1>3. ASSUME NEW m, NEW p, Missing(m, p) PROVE Missing(m, p)'
  BY <1>1, <1>3 DEF Missing
<1>4. Complete(w) => Complete(w)'
  BY <1>1 DEF Complete, Still
<1> SUFFICES ASSUME pc[w] = "idle", ~ hit[w], op[w] # "none", Untouched(path[w])'
             PROVE  /\ result[w].kind = "error" => Missing(op[w], path[w])'
                    /\ result[w].kind = "list" => Complete(w)'
  BY DEF HasReason, Still
<1>5. Untouched(path[w])
  BY <1>2 DEF Still
<1>6. result[w].kind = "error" => Missing(op[w], path[w])
  BY <1>5 DEF HasReason
<1>7. result[w].kind = "error" => Missing(op[w], path[w])'
  BY <1>3, <1>6 DEF Still
<1> QED
  BY <1>4, <1>5, <1>7 DEF HasReason

\* the requester forgets no IV
IVKept == \A c \in CDirs : ivCache[c] # 0 => ivCache'[c] # 0

\* It is enough to look at the worker that takes the step.
LEMMA OneReason ==
    ASSUME IInv, ReasonInv, NEW w \in Workers, now' = now, hit' \in [Workers -> BOOLEAN],
           \A o \in Workers \ {w} : Still(o) /\ hit'[o] = hit[o],
           IVKept, \A c \in CDirs : ivCache'[c] # 0 => IsDir(ivCache'[c], c),
           StepFits(w)', HasReason(w)'
    PROVE  ReasonInv'
<1>1. ASSUME NEW o \in Workers \ {w} PROVE HasReason(o)'
  BY ReasonsLast DEF IInv, ReasonInv
<1>2. ASSUME NEW o \in Workers \ {w} PROVE StepFits(o)'
  <2>1. Still(o) /\ StepFits(o)
    BY DEF ReasonInv, IVsAreTrue
  <2>2. pc[o] \in {"list", "name"} => cpath[o] \in CDirs
    BY WalkIsDir
  <2> QED
    BY <2>1, <2>2 DEF IVKept, Still, StepFits
<1>3. IVsAreTrue'
  BY <1>2 DEF IVsAreTrue
<1> QED
  BY <1>1, <1>3 DEF ReasonInv

\* A step that asks for no IV and ends elsewhere than in a listing.
LEMMA QuietReason ==
    ASSUME IInv, ReasonInv, NEW w \in Workers, Work(w) \/ \E m, p : Call(w, m, p),
           UNCHANGED ivCache,
           StepFits(w)', HasReason(w)'
    PROVE  ReasonInv'
<1>1. IVKept /\ \A c \in CDirs : ivCache'[c] # 0 => IsDir(ivCache'[c], c)
  BY DEF ReasonInv, IVsAreTrue, IVKept
<1> QED
  BY <1>1, OthersAreStill, OneReason

\* A call that fails for a reason, or meets a fault.
LEMMA FailsForReason ==
    ASSUME IInv, ReasonInv, NEW w \in Workers, Work(w), Return(w, Error),
           UNCHANGED <<remoteVars, op, path>>,
           hit'[w] \/ (Untouched(path[w]) => Missing(op[w], path[w]))
    PROVE  ReasonInv'
<1>1. pc'[w] = "idle" /\ result'[w] = Error
  BY DEF Return, Goto, IInv, TypeOK
<1>2. \A m, p : (Untouched(p)' <=> Untouched(p)) /\ (Missing(m, p)' <=> Missing(m, p))
  BY DEF Untouched, Missing, remoteVars, Past
<1>3. HasReason(w)'
  BY <1>1, <1>2 DEF HasReason, Error
<1> QED
  BY <1>1, <1>3, QuietReason DEF remoteVars, StepFits

\* A file is not at the root.
LEMMA NoFileAtRoot == ASSUME NEW v \in Versions, <<>> \in Paths PROVE Files[v][<<>>] = {}
<1>1. <<>> \notin CFiles
  <2>1. ASSUME NEW u \in Versions, NEW d \in DOMAIN Drive[u], NEW x PROVE Append(d, x) # <<>>
    <3>1. PICK S : d \in Seq(S)
      BY DirIsSeq DEF IsDir
    <3> QED
      BY <3>1, AppendFacts
  <2> QED
    BY <2>1 DEF CFiles
<1>2. ASSUME NEW c \in Files[v][<<>>] PROVE FALSE
  <2>1. c \in CFiles /\ c \in CPaths /\ Len(c) = 0
    BY DEF Files, Encrypts, CPaths
  <2>2. PICK S : c \in Seq(S)
    BY <2>1, CPathIsSeq
  <2>3. c = <<>>
    BY <2>1, <2>2
  <2> QED
    BY <1>1, <2>1, <2>3
<1> QED
  BY <1>2

LEMMA CallReason ==
    ASSUME IInv, ReasonInv, NEW w \in Workers, NEW m, NEW p \in Paths, Call(w, m, p)
    PROVE  ReasonInv'
<1>1. op'[w] = m /\ path'[w] = p /\ UNCHANGED remoteVars
  BY DEF Call, IInv, TypeOK
<1>2. CASE m = "ReadFile" /\ p = <<>>
  <2>1. pc'[w] = "idle" /\ result'[w] = Error
    BY <1>2 DEF Call, Return, Goto, IInv, TypeOK
  <2>2. now \in Past /\ now \in Versions
    BY PastIsVersions DEF IInv
  <2>3. Missing(m, p)
    BY <1>2, <2>2, NoFileAtRoot DEF Missing
  <2>4. Missing(m, p)'
    BY <1>1, <2>3 DEF Missing, Past, remoteVars
  <2>5. HasReason(w)'
    BY <1>1, <2>1, <2>4 DEF HasReason, Error
  <2> QED
    BY <1>1, <2>1, <2>5, QuietReason DEF remoteVars, StepFits
<1>3. CASE ~ (m = "ReadFile" /\ p = <<>>)
  <2>1. pc'[w] = "find"
    BY <1>3 DEF Call, Goto, IInv, TypeOK
  <2>2. HasReason(w)'
    BY <2>1 DEF HasReason
  <2> QED
    BY <1>1, <2>1, <2>2, QuietReason DEF remoteVars, StepFits
<1> QED
  BY <1>2, <1>3

\* findPath in the fast cache, and ReadIV and ListDir, do not return.
LEMMA WalkReason ==
    ASSUME IInv, ReasonInv, NEW w \in Workers,
           FindRoot(w) \/ FindCached(w) \/ Remember(w) \/ ReadIV(w) \/ ListDir(w)
    PROVE  ReasonInv'
<1>0. Work(w)
  BY DEF Work
<1>1. CASE FindRoot(w) \/ FindCached(w) \/ Remember(w)
  <2>1. pc'[w] \in {"find", "stat", "iv"} /\ UNCHANGED remoteVars
    BY <1>1 DEF FindRoot, FindCached, Remember, Resolved, Goto, IInv, TypeOK
  <2>2. HasReason(w)'
    BY <2>1 DEF HasReason
  <2> QED
    BY <1>0, <2>1, <2>2, QuietReason DEF remoteVars, StepFits
<1>2. CASE ReadIV(w)
  <2> DEFINE d == cpath[w]
             x == Fetch(ivCache[d])
  <2>1. pc[w] = "iv" /\ d \in CDirs /\ pc'[w] = "list" /\ cpath'[w] = d
    BY <1>2, WalkIsDir DEF ReadIV, Goto, walkVars, IInv, TypeOK
  <2>2. ivCache' = [ivCache EXCEPT ![d] = x]
    BY <1>2 DEF ReadIV
  <2>3. x # 0 /\ IsDir(x, d)
    <3>1. CASE ivCache[d] = 0
      <4>1. Present(w) /\ now # 0
        BY <1>2, <2>1, <3>1, TreeAssumption DEF ReadIV, Known, IInv, TypeOK
      <4> QED
        BY <2>1, <3>1, <4>1 DEF Present, Fetch
    <3>2. CASE ivCache[d] # 0
      BY <2>1, <3>2 DEF Fetch, ReasonInv, IVsAreTrue
    <3> QED
      BY <3>1, <3>2
  <2> HIDE DEF x
  <2>4. \A c \in CDirs : ivCache'[c] = IF c = d THEN x ELSE ivCache[c]
    BY <2>2 DEF IInv, TypeOK
  <2>5. IVKept /\ \A c \in CDirs : ivCache'[c] # 0 => IsDir(ivCache'[c], c)
    BY <2>3, <2>4 DEF IVKept, ReasonInv, IVsAreTrue
  <2>6. HasReason(w)' /\ StepFits(w)'
    BY <2>1, <2>3, <2>4 DEF HasReason, StepFits
  <2> QED
    BY <1>0, <2>5, <2>6, OthersAreStill, OneReason
<1>3. CASE ListDir(w)
  <2>1. pc[w] = "list" /\ pc'[w] = "name" /\ cpath'[w] = cpath[w] /\ UNCHANGED ivCache
    BY <1>3 DEF ListDir, Goto, walkVars, IInv, TypeOK
  <2>2. HasReason(w)' /\ StepFits(w)'
    BY <2>1 DEF HasReason, ReasonInv, IVsAreTrue, StepFits
  <2> QED
    BY <1>0, <2>1, <2>2, QuietReason
<1> QED
  BY <1>1, <1>2, <1>3

\* Nobody is told that a directory is gone which is there, unless it was replaced.
LEMMA GoneReason ==
    ASSUME IInv, ReasonInv, NEW w \in Workers, Gone(w)
    PROVE  ReasonInv'
<1>1. /\ pc[w] \in {"iv", "list", "read", "stat"} /\ ~ Present(w)
      /\ Return(w, Error) /\ UNCHANGED <<remoteVars, op, path>> /\ Work(w)
  BY DEF Gone, Work
<1>2. ASSUME Untouched(path[w]), ~ Missing(op[w], path[w]) PROVE FALSE
  <2>1. PICK c : Target(w, c)
    BY <1>2, HasTarget
  <2>2. now \in Past /\ depth[w] \in 0..Goal(w)
    BY <1>1, PrefixIsPath, PastIsVersions DEF IInv
  <2>3. CASE pc[w] \in {"iv", "list", "stat"}
    <3>1. cpath[w] = Prefix(c, depth[w]) /\ IsDir(now, Prefix(c, depth[w]))
      BY <1>2, <2>1, <2>2, <2>3, OnTarget
    <3> QED
      BY <1>1, <2>3, <3>1 DEF Present
  <2>4. CASE pc[w] = "read"
    <3>1. op[w] = "ReadFile"
      BY <2>4 DEF ReasonInv, IVsAreTrue, StepFits
    <3>2. cpath[w] = c /\ IsFile(now, c)
      BY <1>2, <2>1, <2>2, <2>4, <3>1, OnTarget
    <3> QED
      BY <1>1, <2>4, <3>2 DEF Present
  <2> QED
    BY <1>1, <2>3, <2>4
<1> QED
  BY <1>1, <1>2, FailsForReason

\* A directory that is on the way to the target is found, if no fault hides it.
LEMMA EnterDirReason ==
    ASSUME IInv, ReasonInv, NEW w \in Workers, NEW lost, EnterDir(w, lost), Work(w)
    PROVE  ReasonInv'
<1> DEFINE n == depth[w]
           d == cpath[w]
           found(x) == Found(d, x, path[w][n + 1])
<1>1. /\ pc[w] = "name" /\ n < Goal(w) /\ hit'[w] = (hit[w] \/ lost # {})
      /\ UNCHANGED <<remoteVars, op, path>>
  BY DEF EnterDir, Suffers, ReasonInv
<1>2. CASE (\A e \in found(lost) : ~ e.dir) /\ Return(w, Error)
  <2>1. ASSUME lost = {}, Untouched(path[w]), ~ Missing(op[w], path[w]) PROVE FALSE
    <3>1. PICK c : Target(w, c)
      BY <2>1, HasTarget
    <3>2. n < Len(path[w]) /\ n + 1 \in 0..Goal(w)
      BY <1>1, PrefixIsPath
    <3>3. /\ listCache[d] \in Past
          /\ \E e \in found({}) : e.dir <=> IsDir(listCache[d], Prefix(c, n + 1))
      BY <1>1, <2>1, <3>1, <3>2, NextName DEF ReasonInv
    <3>4. IsDir(listCache[d], Prefix(c, n + 1))
      BY <1>1, <2>1, <3>1, <3>2, <3>3, OnTarget
    <3> QED
      BY <1>2, <2>1, <3>3, <3>4
  <2>2. hit'[w] \/ (Untouched(path[w]) => Missing(op[w], path[w]))
    BY <1>1, <2>1
  <2> QED
    BY <1>1, <1>2, <2>2, FailsForReason
<1>3. CASE Goto(w, "store")
  <2>1. pc'[w] = "store"
    BY <1>3 DEF Goto, IInv, TypeOK
  <2> QED
    BY <1>1, <2>1, QuietReason DEF remoteVars, StepFits, HasReason
<1> QED
  BY <1>2, <1>3 DEF EnterDir

\* So is a file that is the target.
LEMMA OpenFileReason ==
    ASSUME IInv, ReasonInv, NEW w \in Workers, NEW lost, OpenFile(w, lost), Work(w)
    PROVE  ReasonInv'
<1> DEFINE n == depth[w]
           d == cpath[w]
           found(x) == Found(d, x, Last(path[w]))
<1>1. /\ pc[w] = "name" /\ n = Goal(w) /\ op[w] = "ReadFile" /\ hit'[w] = (hit[w] \/ lost # {})
      /\ UNCHANGED <<remoteVars, op, path>>
  BY DEF OpenFile, Suffers, ReasonInv
<1>2. CASE (\A e \in found(lost) : e.dir) /\ Return(w, Error)
  <2>1. ASSUME lost = {}, Untouched(path[w]), ~ Missing(op[w], path[w]) PROVE FALSE
    <3>1. PICK c : Target(w, c)
      BY <2>1, HasTarget
    <3>2. n < Len(path[w]) /\ n + 1 = Len(path[w])
      BY <1>1, PrefixIsPath
    <3>3. Last(path[w]) = path[w][n + 1]
      BY <3>2 DEF Last
    <3>4. /\ listCache[d] \in Past
          /\ \E e \in found({}) : e.dir <=> IsDir(listCache[d], Prefix(c, n + 1))
      BY <1>1, <2>1, <3>1, <3>2, <3>3, NextName DEF ReasonInv
    <3>5. PICK S : c \in Seq(S)
      BY <1>1, <2>1, <3>1, OnTarget
    <3>6. Len(c) = Len(path[w])
      BY <1>1, <2>1, <3>1, OnTarget
    <3>7. Prefix(c, n + 1) = c
      BY <3>2, <3>5, <3>6, PrefixIsAll
    <3>8. ~ IsDir(listCache[d], c)
      BY <1>1, <2>1, <3>1, <3>4, OnTarget
    <3> QED
      BY <1>2, <2>1, <3>4, <3>7, <3>8
  <2>2. hit'[w] \/ (Untouched(path[w]) => Missing(op[w], path[w]))
    BY <1>1, <2>1
  <2> QED
    BY <1>1, <1>2, <2>2, FailsForReason
<1>3. CASE Goto(w, "read")
  <2>1. pc'[w] = "read" /\ op'[w] = "ReadFile"
    BY <1>1, <1>3 DEF Goto, IInv, TypeOK
  <2> QED
    BY <1>1, <2>1, QuietReason DEF remoteVars, StepFits, HasReason
<1> QED
  BY <1>2, <1>3 DEF OpenFile

\* A listing that no fault thinned out is complete, if the directory has kept its IV.
LEMMA CollectDirReason ==
    ASSUME IInv, ReasonInv, NEW w \in Workers, NEW lost, CollectDir(w, lost), Work(w)
    PROVE  ReasonInv'
<1> DEFINE d == cpath[w]
           v == listCache[d]
           u == ivCache[d]
           l == Drive[v][d].list
           items == ListEntries(d, lost)
<1>1. /\ pc[w] = "name" /\ depth[w] = Goal(w) /\ op[w] = "ReadDir"
      /\ hit'[w] = (hit[w] \/ lost # {})
      /\ Return(w, List(items)) /\ UNCHANGED <<remoteVars, op, path>>
  BY DEF CollectDir, Suffers, ReasonInv
<1>2. PICK S : path[w] \in Seq(S)
  BY <1>1, PrefixIsPath
<1>3. Prefix(path[w], depth[w]) = path[w]
  BY <1>1, <1>2, PrefixIsPath, PrefixIsAll
<1>4. v \in Past /\ d \in Dirs[v][path[w]] /\ d \in CDirs
  BY <1>1, <1>3, ListingIsRight, WalkIsDir
<1>5. u \in Past
  BY <1>1, <1>4, TreeAssumption DEF IInv, TypeOK, ReasonInv, IVsAreTrue, StepFits, Past
<1>6. pc'[w] = "idle" /\ result'[w] = List(items) /\ path'[w] = path[w] /\ now' = now
  BY <1>1 DEF Return, Goto, IInv, TypeOK, remoteVars
<1>7. ASSUME lost = {}, Untouched(path[w]) PROVE Complete(w)'
  <2>1. Drive[v][d].iv = Drive[u][d].iv
    BY <1>4, <1>5, <1>7 DEF Untouched
  <2>2. Decrypted(d, lost) = {i \in DOMAIN l : l[i].plain # None}
    BY <1>7, <2>1 DEF Decrypted, Listed
  <2>3. /\ DOMAIN items = {i \in DOMAIN l : l[i].plain # None}
        /\ \A i \in DOMAIN items : items[i].name = l[i].plain
    BY <2>2 DEF ListEntries, Entry, Listed
  <2> HIDE DEF items
  <2>4. {r.name : r \in Range(items)} = {e.plain : e \in Range(l)} \ {None}
    <3>1. {r.name : r \in Range(items)} = {items[i].name : i \in DOMAIN items}
      BY DEF Range
    <3>2. {e.plain : e \in Range(l)} = {l[i].plain : i \in DOMAIN l}
      BY DEF Range
    <3> HIDE DEF l
    <3>3. {items[i].name : i \in DOMAIN items} = {l[i].plain : i \in DOMAIN l} \ {None}
      BY <2>3
    <3> QED
      BY <3>1, <3>2, <3>3
  <2>5. result'[w].items = items
    BY <1>6 DEF List
  <2> QED
    BY <1>4, <1>6, <2>4, <2>5 DEF Complete, Past
<1>8. Untouched(path[w])' => Untouched(path[w])
  BY <1>6 DEF Untouched, Past
<1>9. ~ hit'[w] => lost = {}
  BY <1>1
<1>10. result'[w].kind = "list"
  BY <1>6 DEF List
<1>11. (~ hit'[w] /\ Untouched(path[w])') => Complete(w)'
  BY <1>7, <1>8, <1>9
<1>12. HasReason(w)'
  BY <1>10, <1>11 DEF HasReason
<1> QED
  BY <1>1, <1>6, <1>12, QuietReason DEF remoteVars, StepFits

\* A file whose content is an error is as short as that in one version.
LEMMA ReadContentReason ==
    ASSUME IInv, ReasonInv, NEW w \in Workers, ReadContent(w), Work(w)
    PROVE  ReasonInv'
<1> DEFINE c == cpath[w]
           p == path[w]
           v == Fetch(fileCache[c])
           res == IF SizeOf(v, c) <= HeaderLen THEN Error ELSE Data(v, c)
<1>1. pc[w] = "read" /\ (Known(w) \/ Present(w)) /\ Return(w, res)
  BY DEF ReadContent
<1>2. UNCHANGED <<now, ivCache, op, path>>
  BY DEF ReadContent
<1>3. c \in CFiles /\ c \in CPaths /\ p \in Paths /\ op[w] = "ReadFile"
  BY <1>1, PrefixIsPath DEF IInv, WalkIsTrue, CPaths, ReasonInv, IVsAreTrue, StepFits
<1>4. PICK o \in Past : Encrypts(o, c, p)
  BY <1>1 DEF IInv, WalkIsTrue
<1>5. now \in 1..now /\ fileCache[c] \in 0..now
  BY <1>3, TreeAssumption DEF IInv, TypeOK
<1>6. v \in Past /\ IsFile(v, c)
  <2>1. CASE fileCache[c] = 0
    BY <1>1, <1>5, <2>1 DEF Known, Present, Fetch, Past
  <2>2. CASE fileCache[c] # 0
    BY <1>3, <1>5, <2>2 DEF IInv, CachesAreTrue, Fetch, Past
  <2> QED
    BY <2>1, <2>2
<1>7. pc'[w] = "idle" /\ result'[w] = res /\ op'[w] = "ReadFile" /\ path'[w] = p
  BY <1>1, <1>2, <1>3 DEF Return, Goto, IInv, TypeOK
<1>8. res.kind \in {"error", "data"} /\ (res.kind = "error" => SizeOf(v, c) <= HeaderLen)
  BY DEF Error, Data
<1> HIDE DEF v, res, c
<1>9. ASSUME SizeOf(v, c) <= HeaderLen, Untouched(p) PROVE Missing("ReadFile", p)
  <2>1. Encrypts(v, c, p) /\ v \in Versions
    BY <1>3, <1>4, <1>6, StillEncrypts, PastIsVersions DEF IInv
  <2>2. ASSUME NEW b \in Files[v][p] PROVE b = c
    <3>1. b \in CPaths /\ Encrypts(v, b, p)
      BY <1>3, <2>1 DEF Files, CPaths
    <3>2. PICK S : c \in Seq(S)
      BY <1>3, CPathIsSeq
    <3>3. PICK T : b \in Seq(T)
      BY <3>1, CPathIsSeq
    <3>4. PICK Q : p \in Seq(Q)
      BY <1>3, PathsAssumption
    <3>5. Len(p) \in 0..Len(p) /\ Prefix(p, Len(p)) = p /\ Len(c) = Len(p) /\ Prefix(c, Len(c)) = c
      BY <2>1, <3>2, <3>4, PrefixIsAll DEF Encrypts
    <3> QED
      BY <1>6, <1>9, <2>1, <3>1, <3>2, <3>3, <3>5, OneCipherPath DEF Untouched
  <2> QED
    BY <1>6, <1>9, <2>2 DEF Missing
<1>10. SizeOf(v, c) <= HeaderLen /\ Untouched(p)' => Missing("ReadFile", p)'
  <2>1. Untouched(p)' => Untouched(p)
    BY <1>2 DEF Untouched, Past
  <2> QED
    BY <1>2, <1>9, <2>1 DEF Missing, Past
<1>11. HasReason(w)'
  BY <1>7, <1>8, <1>10 DEF HasReason
<1> QED
  BY <1>2, <1>7, <1>11, QuietReason DEF StepFits

LEMMA NextReason == IInv /\ ReasonInv /\ [Next]_vars => ReasonInv'
<1> SUFFICES ASSUME IInv, ReasonInv, [Next]_vars PROVE ReasonInv'
  OBVIOUS
<1>1. ASSUME NEW w \in Workers, NEW m, NEW p \in Paths, Call(w, m, p) PROVE ReasonInv'
  BY <1>1, CallReason
<1>2. ASSUME NEW w \in Workers, Work(w) PROVE ReasonInv'
  <2>1. CASE FindRoot(w) \/ FindCached(w) \/ Remember(w) \/ ReadIV(w) \/ ListDir(w)
    BY <2>1, WalkReason
  <2>2. ASSUME NEW lost, EnterDir(w, lost) \/ OpenFile(w, lost) \/ CollectDir(w, lost)
        PROVE  ReasonInv'
    BY <1>2, <2>2, EnterDirReason, OpenFileReason, CollectDirReason
  <2>3. CASE ReadContent(w) \/ Gone(w)
    BY <1>2, <2>3, ReadContentReason, GoneReason
  <2>4. CASE StatRemote(w)
    <3>1. pc'[w] = "idle" /\ result'[w].kind = "info" /\ UNCHANGED ivCache
      BY <2>4 DEF StatRemote, Return, Goto, Info, remoteVars, IInv, TypeOK
    <3> QED
      BY <1>2, <3>1, QuietReason DEF StepFits, HasReason
  <2>5. ASSUME NEW f, Fault(w, f) PROVE ReasonInv'
    <3>1. Return(w, Error) /\ UNCHANGED <<remoteVars, op, path>> /\ hit'[w]
      BY <2>5 DEF Fault, ReasonInv
    <3> QED
      BY <1>2, <3>1, FailsForReason
  <2> QED
    BY <1>2, <2>1, <2>2, <2>3, <2>4, <2>5 DEF Work
<1>3. ASSUME now' = now \/ now' = now + 1,
             UNCHANGED <<ivCache, pc, op, path, walkVars, result, hit>>
      PROVE  ReasonInv'
  <2>1. ASSUME NEW w \in Workers PROVE HasReason(w)'
    BY <1>3, ReasonsLast DEF Still, IInv, ReasonInv, walkVars
  <2>2. IVsAreTrue'
    BY <1>3 DEF ReasonInv, IVsAreTrue, StepFits, walkVars
  <2> QED
    BY <1>3, <2>1, <2>2 DEF ReasonInv
<1>4. CASE Change
  BY <1>3, <1>4 DEF Change
<1>5. CASE UNCHANGED vars
  BY <1>3, <1>5 DEF vars, remoteVars
<1> QED
  BY <1>1, <1>2, <1>4, <1>5 DEF Next

\* On a path that nobody has replaced and that no other stored name stands for, and
\* without a fault, ReadFile fails only if at some time there was nothing to read (once
\* is enough: an empty reply is kept), ReadDir and Stat only if there is no directory,
\* and a listing is complete, whatever the requester and the fast cache have kept.
THEOREM FailuresAlwaysHaveReason == Spec => []FailuresHaveReason
<1>1. Init => ReasonInv
  BY DEF Init, ReasonInv, IVsAreTrue, StepFits, HasReason
<1>2. ReasonInv => FailuresHaveReason
  BY DEF ReasonInv, HasReason, Missing, FailuresHaveReason
<1> QED
  BY <1>1, <1>2, NextReason, Invariance, PTL DEF Spec

====
