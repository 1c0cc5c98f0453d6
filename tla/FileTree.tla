------------------------------ MODULE FileTree ------------------------------
(***************************************************************************)
(* FileTree: ReadFile, ReadDir and Stat on plaintext paths, served by      *)
(* goroutines that share the fast cache.  findPath takes the longest       *)
(* cached prefix of a path and walks the encrypted tree down from there,   *)
(* decrypting the names of one directory after the other.                  *)
(*                                                                         *)
(* A path is the sequence of its names below the root; filepath.Clean has  *)
(* been applied.  The fast cache is used by its contract, BoundedCache.    *)
(* So are the requester and the connection pool: a request that has been   *)
(* answered before is answered from the requester's cache, which nobody    *)
(* clears; any other returns what the remote server has at that moment, or *)
(* an error if it is in Faults.                                            *)
(*                                                                         *)
(* The remote drive changes while it is read: another client of the server *)
(* takes it through the versions of Drive.  A ciphertext name stands for   *)
(* one plaintext under one directory IV, though several may stand for the  *)
(* same one (NameTransform), and no two directories have the same IV       *)
(* (nametransform.WriteDirIV), so that a directory that is removed and     *)
(* made again keeps its own ciphertext name and loses all those in it.     *)
(***************************************************************************)
EXTENDS Naturals, Sequences, FiniteSets, SequencesExt

CONSTANTS
    Workers,        \* goroutines of the SFTP server that serve requests
    Drive,          \* the versions of the remote drive, one after the other: each
                    \* maps an encrypted directory path to [iv, list], the entries
                    \* in listing order being [name, plain, dir, size]; plain is
                    \* what the name decrypts to under iv, None for a name that
                    \* does not decrypt, as gocryptfs.conf and gocryptfs.diriv
    Paths,          \* plaintext paths that are asked for, and their prefixes
    Faults,         \* requests that may fail: "iv", "list", "name", "read", "stat"
    cacheSize,      \* capacity of the fast cache (16)
    PlainSize(_),   \* ContentEnc.CipherSizeToPlainSize
    HeaderLen,
    None

VARIABLES
    now,            \* the current version of the drive
    ivCache,        \* the requester's caches: of each directory's IV, each
    listCache,      \* listing and each file, the version that was fetched,
    fileCache,      \* 0 if it has not been fetched
    fastCache,      \* contents of the fast cache
    pc,             \* worker -> the step it is at
    op,             \* worker -> the method of its request
    path,           \* worker -> the plaintext path of its request
    depth,          \* worker -> length of the prefix findPath is at
    cpath,          \* worker -> the ciphertext path of that prefix
    result,         \* worker -> what its last call returned
    hit             \* history: worker -> whether its request met a fault

walkVars == <<depth, cpath>>
remoteVars == <<now, ivCache, listCache, fileCache>>
vars == <<remoteVars, fastCache, pc, op, path, walkVars, result, hit>>

Versions == DOMAIN Drive

\* the ciphertext paths of directories and of files that there are at any time
CDirs  == UNION {DOMAIN Drive[v] : v \in Versions}
CFiles == UNION {UNION {{Append(d, e.name) : e \in {e \in Range(Drive[v][d].list) : ~ e.dir}}
                            : d \in DOMAIN Drive[v]} : v \in Versions}
CPaths == CDirs \cup CFiles

Prefix(p, n) == SubSeq(p, 1, n)

\* plaintext paths are sequences, and what is asked for is found by its prefixes
ASSUME PathsAssumption ==
    \A p \in Paths :
        /\ p \in Seq(UNION {Range(q) : q \in Paths})
        /\ \A n \in 0..Len(p) : Prefix(p, n) \in Paths
        /\ \A i \in 1..Len(p) : p[i] # None

\* each version is a tree of directories, in each of which is its gocryptfs.diriv
ASSUME TreeAssumption ==
    /\ Len(Drive) \in Nat \ {0} /\ Versions = 1..Len(Drive)
    /\ \A v \in Versions :
        /\ <<>> \in DOMAIN Drive[v]
        /\ \A d \in DOMAIN Drive[v] :
              /\ d \in Seq(UNION {Range(c) : c \in DOMAIN Drive[v]})
              /\ Drive[v][d].list \in Seq(Range(Drive[v][d].list)) \ {<<>>}
              /\ \A i \in 1..Len(d) :
                    /\ Prefix(d, i - 1) \in DOMAIN Drive[v]
                    /\ \E e \in Range(Drive[v][Prefix(d, i - 1)].list) : e.name = d[i]
              /\ \A e \in Range(Drive[v][d].list) :
                    e.dir <=> Append(d, e.name) \in DOMAIN Drive[v]

\* DecryptName is deterministic: under one IV a name decrypts to one plaintext
ASSUME NamesAssumption ==
    \A v, u \in Versions : \A d \in DOMAIN Drive[v], c \in DOMAIN Drive[u] :
        Drive[v][d].iv = Drive[u][c].iv =>
            \A e \in Range(Drive[v][d].list), f \in Range(Drive[u][c].list) :
                e.name = f.name => e.plain = f.plain

\* A name in a directory is encrypted under the directory's IV, and decrypting it
\* under another fails: that the padding would come out right is left to chance.
ASSUME StableNamesAssumption ==
    \A v, u \in Versions : \A d \in DOMAIN Drive[v] \cap DOMAIN Drive[u] :
        \A e \in Range(Drive[v][d].list), f \in Range(Drive[u][d].list) :
            e.name = f.name /\ e.plain # None => Drive[v][d].iv = Drive[u][d].iv

\* files are empty or intact: what becomes of others is DecryptFile's subject
ASSUME IntactAssumption ==
    \A v \in Versions : \A d \in DOMAIN Drive[v] : \A e \in Range(Drive[v][d].list) :
        e.plain # None /\ ~ e.dir => e.size = 0 \/ PlainSize(e.size) > 0

\* what a version has at a ciphertext path, and its size
IsDir(v, c) == c \in DOMAIN Drive[v]

IsFile(v, c) ==
    /\ c # <<>> /\ Front(c) \in DOMAIN Drive[v]
    /\ \E e \in Range(Drive[v][Front(c)].list) : e.name = Last(c) /\ ~ e.dir

SizeOf(v, c) ==
    IF c = <<>> THEN 0      \* the root's is not in a listing
    ELSE (CHOOSE e \in Range(Drive[v][Front(c)].list) : e.name = Last(c)).size

\* by its contents alone: each call is one step here
Cache == INSTANCE BoundedCache WITH contents <- fastCache, call <- None

Error       == [kind |-> "error"]
Data(v, c)  == [kind |-> "data", at |-> v, cpath |-> c, length |-> PlainSize(SizeOf(v, c))]
List(items) == [kind |-> "list", items |-> items]
Info(v, c)  == [kind |-> "info", cpath |-> c, size |-> PlainSize(SizeOf(v, c))]

-----------------------------------------------------------------------------
Init ==
    /\ now = 1
    /\ ivCache = [d \in CDirs |-> 0]
    /\ listCache = [d \in CDirs |-> 0]
    /\ fileCache = [c \in CFiles |-> 0]
    /\ fastCache = [p \in Paths |-> None]
    /\ pc = [w \in Workers |-> "idle"]
    /\ op = [w \in Workers |-> "none"]
    /\ path = [w \in Workers |-> <<>>]
    /\ depth = [w \in Workers |-> 0]
    /\ cpath = [w \in Workers |-> <<>>]
    /\ result = [w \in Workers |-> [kind |-> "none"]]
    /\ hit = [w \in Workers |-> FALSE]

Goto(w, step) == pc' = [pc EXCEPT ![w] = step]

\* the call returns; its local variables are gone
Return(w, res) ==
    /\ Goto(w, "idle")
    /\ result' = [result EXCEPT ![w] = res]
    /\ depth' = [depth EXCEPT ![w] = 0]
    /\ cpath' = [cpath EXCEPT ![w] = <<>>]

\* the directory whose ciphertext path findPath is called for
Goal(w) == IF op[w] = "ReadFile" THEN Len(path[w]) - 1 ELSE Len(path[w])

Call(w, method, p) ==
    /\ pc[w] = "idle"
    /\ op' = [op EXCEPT ![w] = method]
    /\ path' = [path EXCEPT ![w] = p]
    /\ hit' = [hit EXCEPT ![w] = FALSE]
    /\ IF method = "ReadFile" /\ p = <<>>       \* "/ is a directory"
       THEN Return(w, Error)
       ELSE /\ Goto(w, "find")
            /\ depth' = [depth EXCEPT ![w] = IF method = "ReadFile" THEN Len(p) - 1 ELSE Len(p)]
            /\ result' = [result EXCEPT ![w] = [kind |-> "none"]]
            /\ UNCHANGED cpath
    /\ UNCHANGED <<remoteVars, fastCache>>

\* findPath has the ciphertext path of the prefix of length n
Resolved(w, n) ==
    Goto(w, IF op[w] = "Stat" /\ n = Goal(w) THEN "stat" ELSE "iv")

\* findPath before it calls itself: the root needs no lookup, a cached prefix ends
\* the recursion, otherwise the parent is next
FindRoot(w) ==
    /\ pc[w] = "find" /\ depth[w] = 0
    /\ cpath' = [cpath EXCEPT ![w] = <<>>]
    /\ Resolved(w, 0)
    /\ UNCHANGED <<remoteVars, fastCache, op, path, depth, result, hit>>

\* f.fastCache.Find(cleanPath)
Mapping(w) == Cache!Lookup(Prefix(path[w], depth[w]))

FindCached(w) ==
    /\ pc[w] = "find" /\ depth[w] > 0
    /\ IF Mapping(w) = None
       THEN /\ depth' = [depth EXCEPT ![w] = @ - 1]
            /\ UNCHANGED <<pc, cpath>>
       ELSE /\ cpath' = [cpath EXCEPT ![w] = Mapping(w).cipher]
            /\ Resolved(w, depth[w])
            /\ UNCHANGED depth
    /\ UNCHANGED <<remoteVars, fastCache, op, path, result, hit>>

\* the request that w is about to make is answered from the requester's cache;
\* Stat goes to the backend, which has none
Known(w) ==
    \/ pc[w] = "iv" /\ ivCache[cpath[w]] # 0
    \/ pc[w] = "list" /\ listCache[cpath[w]] # 0
    \/ pc[w] = "read" /\ fileCache[cpath[w]] # 0

\* a request to the requester or, for Stat, to the backend fails: so does the call
Fault(w, f) ==
    /\ pc[w] = f
    /\ f \in Faults
    /\ ~ Known(w)
    /\ hit' = [hit EXCEPT ![w] = TRUE]
    /\ Return(w, Error)
    /\ UNCHANGED <<remoteVars, fastCache, op, path>>

\* the server has what w asks for: a directory, a file, or for Stat anything
Present(w) ==
    \/ pc[w] \in {"iv", "list", "stat"} /\ IsDir(now, cpath[w])
    \/ pc[w] \in {"read", "stat"} /\ IsFile(now, cpath[w])

\* the server does not have it any more; the error is not cached
Gone(w) ==
    /\ pc[w] \in {"iv", "list", "read", "stat"}
    /\ ~ Known(w) /\ ~ Present(w)
    /\ Return(w, Error)
    /\ UNCHANGED <<remoteVars, fastCache, op, path, hit>>

\* the version of a request's answer: the cached one, else the current one
Fetch(cached) == IF cached = 0 THEN now ELSE cached

\* rangeInDir: the directory IV, then the listing
ReadIV(w) ==
    /\ pc[w] = "iv"
    /\ Known(w) \/ Present(w)
    /\ ivCache' = [ivCache EXCEPT ![cpath[w]] = Fetch(@)]
    /\ Goto(w, "list")
    /\ UNCHANGED <<now, listCache, fileCache, fastCache, op, path, walkVars, result, hit>>

ListDir(w) ==
    /\ pc[w] = "list"
    /\ Known(w) \/ Present(w)
    /\ listCache' = [listCache EXCEPT ![cpath[w]] = Fetch(@)]
    /\ Goto(w, "name")
    /\ UNCHANGED <<now, ivCache, fileCache, fastCache, op, path, walkVars, result, hit>>

\* the directory of which the requester has the listing
Listed(c) == Drive[listCache[c]][c]

\* The loop of rangeInDir over the entries: the positions in the listing of those
\* whose DecryptName does not fail.  It fails for what is no name encrypted under
\* that IV, or because of a fault.  IV and listing are what the requester has, each
\* of its own version.
Decrypted(c, lost) ==
    {i \in DOMAIN Listed(c).list :
        /\ Listed(c).iv = Drive[ivCache[c]][c].iv
        /\ Listed(c).list[i].plain # None
        /\ Listed(c).list[i].name \notin lost}

\* names for which DecryptName returns an error though it should not
Losses(w) ==
    IF "name" \in Faults THEN SUBSET {Listed(cpath[w]).list[i].name : i \in Decrypted(cpath[w], {})} ELSE {{}}

Suffers(w, lost) == hit' = [hit EXCEPT ![w] = @ \/ lost # {}]

\* findInDir: the first entry named n, if there is one
Found(c, lost, n) ==
    LET named == {i \in Decrypted(c, lost) : Listed(c).list[i].plain = n}
    IN  {Listed(c).list[i] : i \in {i \in named : \A j \in named : i <= j}}

\* findPath after the parent is known: the next name must be there, a directory
EnterDir(w, lost) ==
    LET found == Found(cpath[w], lost, path[w][depth[w] + 1]) IN
    /\ pc[w] = "name" /\ depth[w] < Goal(w)
    /\ Suffers(w, lost)
    /\ \/ /\ \A e \in found : ~ e.dir
          /\ Return(w, Error)
       \/ \E e \in found :
          /\ e.dir
          /\ depth' = [depth EXCEPT ![w] = @ + 1]
          /\ cpath' = [cpath EXCEPT ![w] = Append(@, e.name)]
          /\ Goto(w, "store")
          /\ UNCHANGED result
    /\ UNCHANGED <<remoteVars, fastCache, op, path>>

\* Mutation of Remember: the mapping goes under the path of the request
Mut_Remember(w) ==
    /\ pc[w] = "store"
    /\ Cache!Put(path[w], cpath[w])
    /\ Resolved(w, depth[w])
    /\ UNCHANGED <<remoteVars, op, path, walkVars, result, hit>>

\* the last step of findPath
Remember(w) ==
    /\ pc[w] = "store"
    /\ Cache!Put(Prefix(path[w], depth[w]), cpath[w])
    /\ Resolved(w, depth[w])
    /\ UNCHANGED <<remoteVars, op, path, walkVars, result, hit>>

\* ReadFile finds its file in the parent directory
OpenFile(w, lost) ==
    LET found == Found(cpath[w], lost, Last(path[w])) IN
    /\ pc[w] = "name" /\ depth[w] = Goal(w) /\ op[w] = "ReadFile"
    /\ Suffers(w, lost)
    /\ \/ /\ \A e \in found : e.dir
          /\ Return(w, Error)
       \/ \E e \in found :
          /\ ~ e.dir
          /\ cpath' = [cpath EXCEPT ![w] = Append(@, e.name)]
          /\ Goto(w, "read")
          /\ UNCHANGED <<depth, result>>
    /\ UNCHANGED <<remoteVars, fastCache, op, path>>

\* Mutation of Entry: sizes are passed on as the server has them
Mut_Entry(e) == [name |-> e.plain, size |-> e.size]

\* the plainFileInfo of a listed entry
Entry(e) == [name |-> e.plain, size |-> PlainSize(e.size)]

\* Mutation of ListEntries: the loop ends before the last entry
Mut_ListEntries(c, lost) ==
    [i \in Decrypted(c, lost) \ {Len(Listed(c).list)} |-> Entry(Listed(c).list[i])]

\* the listing that ReadDir returns, by positions in the encrypted one
ListEntries(c, lost) == [i \in Decrypted(c, lost) |-> Entry(Listed(c).list[i])]

\* ReadDir collects the entries of its directory
CollectDir(w, lost) ==
    /\ pc[w] = "name" /\ depth[w] = Goal(w) /\ op[w] = "ReadDir"
    /\ Suffers(w, lost)
    /\ Return(w, List(ListEntries(cpath[w], lost)))
    /\ UNCHANGED <<remoteVars, fastCache, op, path>>

\* The file's bytes arrive and decryptFile returns the plaintext, or io.EOF for a file
\* that is no longer than its header.  For no bytes at all ReadFile of the requester
\* returns the error of its retries, and does so from then on: its cache entry has
\* neither data nor an error, and is kept.
ReadContent(w) ==
    LET v == Fetch(fileCache[cpath[w]]) IN
    /\ pc[w] = "read"
    /\ Known(w) \/ Present(w)
    /\ fileCache' = [fileCache EXCEPT ![cpath[w]] = v]
    /\ Return(w, IF SizeOf(v, cpath[w]) <= HeaderLen THEN Error ELSE Data(v, cpath[w]))
    /\ UNCHANGED <<now, ivCache, listCache, fastCache, op, path, hit>>

StatRemote(w) ==
    /\ pc[w] = "stat"
    /\ Present(w)
    /\ Return(w, Info(now, cpath[w]))
    /\ UNCHANGED <<remoteVars, fastCache, op, path, hit>>

\* another client changes the drive
Change ==
    /\ now < Len(Drive)
    /\ now' = now + 1
    /\ UNCHANGED <<ivCache, listCache, fileCache, fastCache, pc, op, path, walkVars, result, hit>>

Work(w) ==
    \/ FindRoot(w) \/ FindCached(w)
    \/ ReadIV(w) \/ ListDir(w)
    \/ pc[w] = "name" /\ \E lost \in Losses(w) :
          EnterDir(w, lost) \/ OpenFile(w, lost) \/ CollectDir(w, lost)
    \/ Remember(w)
    \/ ReadContent(w) \/ StatRemote(w)
    \/ Gone(w) \/ \E f \in {"iv", "list", "read", "stat"} : Fault(w, f)

Next ==
    \/ \E w \in Workers :
          \/ \E method \in {"ReadFile", "ReadDir", "Stat"}, p \in Paths : Call(w, method, p)
          \/ Work(w)
    \/ Change

Spec == Init /\ [][Next]_vars

-----------------------------------------------------------------------------
\* Reference: in version v, the ciphertext path c is the encryption of p.
Encrypts(v, c, p) ==
    /\ Len(c) = Len(p)
    /\ \A i \in 1..Len(p) :
          /\ Prefix(c, i - 1) \in DOMAIN Drive[v]
          /\ \E e \in Range(Drive[v][Prefix(c, i - 1)].list) : e.name = c[i] /\ e.plain = p[i]

Dirs  == [v \in Versions |-> [p \in Paths |-> {c \in DOMAIN Drive[v] : Encrypts(v, c, p)}]]
Files == [v \in Versions |-> [p \in Paths |-> {c \in CFiles \ DOMAIN Drive[v] : Encrypts(v, c, p)}]]

\* the versions that there have been
Past == 1..now

\* Whatever the workers' Finds, Stores and evictions and the changes of the drive
\* interleave to, an entry of the fast cache maps a plaintext path to a directory
\* that has been the one of that path.
CacheIsTruthful ==
    \A p \in Cache!Cached : \E v \in Past : fastCache[p] \in Dirs[v][p]

\* What a successful call returns has been true at some time of the path that was
\* asked for, though IVs, listings and contents come from caches of different
\* ages: the file of that path, entries of that directory with their names and
\* plaintext sizes, all of one version.  What Stat returns is of a path that there was,
\* with its size.
AnswersAreTrue ==
    \A w \in Workers :
        pc[w] = "idle" =>
            LET r == result[w] IN
            /\ r.kind = "data" => r.cpath \in Files[r.at][path[w]] /\ r.length = PlainSize(SizeOf(r.at, r.cpath))
            /\ r.kind = "info" =>
                  \E v \in Past : Encrypts(v, r.cpath, path[w]) /\ r.size = PlainSize(SizeOf(v, r.cpath))
            /\ r.kind = "list" =>
                  \E v \in Past : \E c \in Dirs[v][path[w]] : \A i \in DOMAIN r.items :
                      \E e \in Range(Drive[v][c].list) :
                          r.items[i] = [name |-> e.plain, size |-> PlainSize(e.size)]

\* The entries of a listing and those of the directory at one time, one for one.
Complete(w) ==
    \E v \in Past : \E c \in Dirs[v][path[w]] :
        {r.name : r \in Range(result[w].items)} =
            {e.plain : e \in Range(Drive[v][c].list)} \ {None}

\* The paths on the way to which, in a version, no two stored names decrypt to the same
\* name.
Unambiguous ==
    [v \in Versions |-> {p \in Paths :
        \A n \in 1..Len(p) :
            \A a, b \in Dirs[v][Prefix(p, n)] \cup Files[v][Prefix(p, n)] : a = b}]

\* The path is the same file or directory in all versions that there have been.
Untouched(p) ==
    \A u, v \in Past :
        /\ Files[u][p] = Files[v][p]
        /\ Dirs[u][p] = Dirs[v][p]
        /\ \A c \in Dirs[v][p] : Drive[u][c].iv = Drive[v][c].iv
        /\ p \in Unambiguous[v]

\* A call that met no fault, on a path that nobody has replaced, fails only if at
\* some time there was no file with content (ReadFile) or there is no directory
\* (ReadDir, and Stat, which fails for every file), and a listing is a complete one,
\* whatever the caches hold and however old it is.  At some time: the content may
\* have come later, but an empty reply is never asked for again.  Nothing is said of
\* a replaced path: if a directory is replaced between the requests for its IV and
\* its listing, none of its names decrypts, and as neither is asked for again, none
\* ever will.
FailuresHaveReason ==
    \A w \in Workers :
        pc[w] = "idle" /\ ~ hit[w] /\ op[w] # "none" /\ Untouched(path[w]) =>
            /\ result[w].kind = "error" => \E v \in Past :
                  IF op[w] = "ReadFile"
                  THEN \A c \in Files[v][path[w]] : SizeOf(v, c) <= HeaderLen
                  ELSE Dirs[v][path[w]] = {}
            /\ result[w].kind = "list" => Complete(w)

====
