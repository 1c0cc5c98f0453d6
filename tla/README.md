# gocryptsftp: a TLA+ model

gocryptsftp is an SFTP server that shows the plaintext of a gocryptfs drive which
itself lies on another SFTP server. A client's request is turned into requests for
encrypted files, directories and names; their results are cached, decrypted and
handed back. This directory holds TLA+ modules for the parts of the program in
which something can go wrong that a test would hardly reach, TLC configurations
that check them on small instances, and TLAPS proofs of almost all of their safety
properties for every instance.

    tlc -workers 2 -config requester_races.cfg MCRequester
    tlapm RequesterProofs.tla

`PROJECT.json` lists the components, the runs with their properties and mutants, the
source lines behind every definition, the hazards and the theorems.

## The system

| component | state | operations | talks to |
|---|---|---|---|
| `main.go` | listener, one goroutine per session and channel | accept, handshake, serve | handlers |
| `handlers/` | the listing behind an open directory | Fileread, Filewrite, Filecmd, Filelist (ListAt) | FileTree |
| `filetree/filetree.go` | configuration, keys, fast cache | Init, ReadFile, ReadDir, Stat, findPath, findInDir, rangeInDir | requester, fast cache, contentenc |
| `filetree/fastcache.go` | hash map of nodes on a doubly linked list, lock | Find, Store, Clear | - |
| `filetree/decrypt.go` | none of its own; two buffer pools of contentenc | decryptFile, readFileID | contentenc |
| `requester/` | work queue, three caches, one ticket (mutex and condition) per worker | ReadFile, ReadDir, DecryptName, ClearCache, Stop; workers | backend, nametransform |
| `backend/` | channel of idle connections | Get, Put, newConn; ReadFile, ReadDir, Stat, Connect | SSH, SFTP libraries |
| `gocrypt/contentenc` | buffer pools | layout arithmetic, DecryptBlocks, EncryptBlocks, MergeBlocks, headers | cryptocore |
| `gocrypt/nametransform` | keys | pad16, unPad16, DecryptName, EncryptName, long names | cryptocore |
| `gocrypt/configfile` | the configuration file | Create, EncryptKey, WriteFile, Load, LoadAndDecrypt | the file system; called by `FileTree.Init` |
| `gocrypt/cryptocore` and ciphers | keys, prefetched random bytes | key derivation, nonces, AEAD | - |

A request runs through all of them: a handler calls `FileTree.ReadFile`; `findPath`
asks the fast cache for the longest known prefix and, for each missing level, the
requester for the directory's IV (a `ReadFile` of `gocryptfs.diriv`), its listing and
one `DecryptName` per entry; the requester's workers run these on the backend, whose
calls take a connection from the pool; the file's bytes go through `decryptFile`.

Where it is hard:

- **requester**: any number of clients and a fixed set of workers share three caches,
  a bounded channel, per-call response channels and condition variables. Between any
  two steps of one goroutine, others may reserve, overwrite, delete or clear the entry
  that it has just read; clients leave after 20 s. Right means: a reservation in the
  cache has a worker that is going to replace it; nobody waits for a Broadcast that
  has passed; a key is fetched once; errors are not served to later calls; every call
  returns.
- **fast cache**: pointer surgery that must keep map, count and list ends together
  over every sequence of calls.
- **backend**: connections that break at any moment, error paths in every method; a
  connection may be neither shared nor leaked nor used after Close.
- **decryptFile**: buffers that come from pools, may be outgrown, and are returned or
  given back; files of any size and state of damage.
- **filetree**: recursion through a cache that other goroutines evict from, dozens of
  requests per call that may each fail, and a drive that others change under caches that
  nobody ever clears. Right means: what is cached and what is answered has been true of
  the path that was asked for, and a failure has a reason.
- **encryption**: one write is encrypted by two goroutines into one slice of pooled
  arrays, with nonces out of one prefetch buffer; a nonce may never repeat, and what is
  written must open again block by block.
- **sessions**: handshakes in the accept loop, peers that fail, stall or leave anywhere,
  a goroutine per connection and channel that must end with it.
- **configuration file**: the only thing on disk that holds the master key. Replacing it
  takes five system calls with a crash possible between any two; flags, key derivation
  and scrypt costs must fit when it is read back.
- **layout and names**: off-by-one at block boundaries, padding that resembles data,
  names that fit until they are encrypted.
- **key material**: arrays that are zeroed while ciphers made from them are in use.

## Modules

| module | models | composed with |
|---|---|---|
| `Requester` | package requester | stands for the requests `FileTree` makes (a step there) |
| `FastCache` | `filetree/fastcache.go`, pointer by pointer | implements `BoundedCache` |
| `BoundedCache` | what callers of the fast cache may rely on | used by `FileTree` |
| `ConnPool` | package backend | beside `Sessions` in `MCServer` |
| `ContentEnc` | layout arithmetic of contentenc, `MergeBlocks` | extended by `DecryptFile` and `EncryptBlocks`, instantiated by `MCFileTree` |
| `DecryptFile` | `decryptFile`, `DecryptBlocks`, the buffer pools | with `EncryptBlocks` in `MCContent` |
| `EncryptBlocks` | `EncryptBlocks` and its goroutines, `cBlockPool`, the random prefetcher | with `DecryptFile` in `MCContent` |
| `FileTree` | ReadFile, ReadDir, Stat and findPath on a changing drive | `BoundedCache`, `ContentEnc` |
| `NameTransform` | padding, DecryptName, EncryptName, long names | |
| `CryptoCore` | key derivation, and the life of key arrays in cryptocore and siv_aead | |
| `Sessions` | `main.go`'s accept loop and channels, `handlers/` | answers of the file tree are `FileTree`'s; beside `ConnPool` in `MCServer` |
| `ConfigFile` | package configfile, and `FileTree.Init` as its reader | |
| `RequesterProofs`, `FastCacheProofs`, `ConnPoolProofs`, `SessionsProofs`, `FileTreeProofs`, `ConfigFileProofs` | theorems about the module in their name | |
| `FormatsProofs` | theorems about `ContentEnc`, `NameTransform` and `CryptoCore` | `MCFormats` |
| `ContentProofs` | theorems about `DecryptFile` and `EncryptBlocks` | |
| `MC*` | instances for TLC; `MCFormats` has the reference definitions for `ContentEnc` and `NameTransform` | |

Definitions whose name starts with `Mut_` are mutations of the definition below them:
each replaces it in turn, and the property it is listed with must then fail.

### Requester

One step is one access to shared state: a `syncCache` method, a channel operation, a
mutex or condition-variable operation. A client's positions are the points of
`makeRequest`: `Check` reads the cache, `Enqueue` sends the work item, `SendTicket`
hands over the ticket (a rendezvous on the unbuffered `respChan`), `Got` reads the
entry again, `Delete` drops a cached error, `LockTicket`/`Examine`/`Sleep`/`Unlock` are
the loop around `ticket.Wait()`, `Retry` is the next of the three rounds. A worker's
positions are those of `performRequestAndCache`: `GetOrInsert` (the atomic
`cache.GetOrInsert`), `SendTicket`, `LockOwn`, `Request`, `Store`, `Broadcast`. `Timeout`
may strike while a client is in its `select`; the channel it leaves behind can be
received from by nobody. `ClearCache` lists the keys of a cache in one step and deletes
them in another, cache after cache. `Stop` closes the queue; a client that sends after
that panics and takes the process with it.

Data is left out: a reply is data, an error, or nothing at all (`nil`, as for an empty
file), which is all that the control flow looks at. A cache entry is absent, pending
with a worker's locker, or finished. `published` is a history variable: the replies that
were stored for a client's key during its call, as far as they are errors.

### FastCache and BoundedCache

Every method runs under the cache's one lock and is one action (`Store` has three
cases). Nodes are numbers, `nil` is 0; `recency` is a history variable with the true
order of use. `BoundedCache` is the contract: a map of at most `cacheSize` entries that
answers with what was last stored for a path, and drops an arbitrary entry when full.

### ConnPool

A call's positions are the steps of `ReadFile`, `ReadDir` and `Stat`: `Get` (idle
connection or dial), `Dial` and `NewClient` of `newConn`, the operation, `WriteTo` and the
deferred `Close` of a file, `Ping` (the `SendRequest("ping")` after a failed operation that
decides between discarding and keeping the connection) and `Put`. A connection is two
things: the SSH link (`up`), which the ping asks, and the SFTP session over it (`sftp`),
which the operations need. A link goes down at any time and takes its session along
(`LinkDown`); a session may also end on its own (`SessionDown`).

### ContentEnc, DecryptFile, NameTransform

`ContentEnc` has `offsets.go`, `intrablock.go` and `MergeBlocks` as operators; the loops
are recursive functions. `DecryptFile` runs several readers on them: byte slices are objects of a
heap, with the file and block each piece of content comes from, so that one can see
who holds the array behind a slice. `bytes.Buffer` moves to a bigger array when it has
to grow, `sync.Pool` may drop arrays at any time, `bPool.Put` panics on a wrong
capacity. A block is `own` (sealed for this file and place), `zeros` or `alien`; AES-GCM
is abstracted to accepting `own` blocks only. In `NameTransform` EME is a parameter, for
each IV a permutation of the byte strings of each length; a stored name is whether it
decodes as base64, what it decodes to, what of it the decoding ignores (`loose`: Go's
decoder is not strict about the last character's spare bits, and skips line ends), and
whether it has the prefix and the suffix of a long name. `EncodeToString` makes the
canonical spelling, `DecodeString` takes them all. SHA-256 is taken to be one-to-one.
Lengths are those of base64, with or without its padding.

### EncryptBlocks

A writer's call starts one goroutine or, from `ParallelFrom` blocks on (32 in the code),
as many as there are CPUs and no more than `encryptMaxSplit`. Each draws a nonce for its
next block, in one step if the prefetch buffer has enough (`ReadNonce`), otherwise in two,
between which it holds the prefetcher's mutex and waits for `refillWorker` (`Drain`,
`Refill`); `Seal` encrypts into an array of `cBlockPool`. Once all are done the call writes
block after block to its output and puts each array back (`WriteBlock`, `PutCBlock`), while
other calls may take it. Random bytes are numbered, a nonce is a set of them, and a sealed
block is what went into it, so that one sees a byte used twice, a block sealed with the
wrong number, or an array that was overwritten too early. Blocks are full, but for the
last, and not empty, as `MergeBlocks` makes them (`WriteIsOverlay`). The proxy does not
write; this is the package's interface and what wrote the drives.

### CryptoCore

Keys are known by how they were derived, arrays by New's variables. The ciphers of the Go
library take a key over when they are made; `sivAead` keeps a reference to an array, which
its constructor copies the key to (`new2`). `NewCore` is `New` with the zeroing at its end,
`PurgeKey` what all its callers do to the key they passed, `Wipe` what the configuration
file's code does to its key encrypter. No caller asks for AES-SIV or OpenSSL; New is
modelled with all backends.

### FileTree

A version of the remote drive is a function from encrypted directories to an IV and a
listing; `Drive` is the sequence of versions that another client of the server takes it
through (`Change`). The requester's three caches are what they are to `FileTree`: a request
that was answered before gets the same answer for ever, any other what the server has at
that moment. So a call may combine an IV, a listing and a content of different versions.
An empty file is an answer like any other: the requester keeps it, and every later
`ReadFile` of the path fails with the error of its retries. A directory that was replaced
has a new IV, under which no name of the old one decrypts. Two names of a directory may
decrypt to the same plaintext; `findInDir` takes the first. A call's steps are its accesses to the fast cache and its requests; each request may fail (`Faults`), and a
failing `DecryptName` makes `rangeInDir` skip the entry. `findPath`'s recursion is a walk
up (`FindCached`) to the longest cached prefix and down again (`ReadIV`, `ListDir`,
`EnterDir`, `Remember`). A directory listing in `Drive` includes names that do not decrypt
(`gocryptfs.conf`, `gocryptfs.diriv`, long names).

### Sessions

The accept loop is `accepting`, the peer whose handshake it is in: `Accept`, then `LogIn` or
`LogInFails`, after which the loop is back at `Accept`. A connection has one channel here;
`HandleChannel` rejects or serves it, `ReplyRequest` answers its out-of-band requests, or
ends the process over one whose payload is too short (`Panic`),
`ServeEnds` is the end of `server.Serve()` with its goroutine. `Request` and `OpenDir` are the
handlers, `ReadNames` is the library's loop around `ListAt`. What peers do is the
environment: they connect, log in with anything, open channels of any type, and hang up,
close the channel, break off in the middle of a packet or fall silent at any point.

### ConfigFile

A `ConfFile` is its version, its set of feature flags, the cost of scrypt and the wrapped
key: which master key, under which password, with or without HKDF. `Create` and a password
change (`LoadAndDecrypt`, `EncryptKey`, `WriteFile`) compute one and hand it to `WriteFile`,
which is one step per system call (`OpenTmp`, `Write`, `Sync`, `Close`, `Rename`), each of
which may fail: a failure ends it and leaves the `.tmp`, except that a failed fsync is only
logged. `Mount` is `FileTree.Init`. The process exits where `validateParams` says so, so
that these calls have no step.

The file system is the environment. Written data reaches the disk with an fsync or some
time later (`Flush`), a rename is seen at once and reaches the disk some time later. A
crash may leave unsynced files empty or cut off (`Torn`) and undo a rename. `drive` is a
history variable: the master key, from the moment that a call has stored or returned it.
Nothing in this program calls `Create` or changes a password; they are the package's
interface, and the drives that are mounted were written by them, or by the gocryptfs
versions that `Foreign` stands for. A caller uses `Create` only where there is no
configuration yet: neither `Create` nor `WriteFile` checks, and either would replace one. What
becomes of a drive whose only key somebody replaces by another on purpose is no question of
this code, so `Create` is a step only for a new drive.

## Runs

| run | instance | shows |
|---|---|---|
| `requester_races` | 2 clients, 2 workers, 1 key, errors or empty replies, timeouts, Stop; 1.8 M states | `TypeOK`, `PendingHasOwner`, `NoLostWakeup`, `ErrorsAreFresh` |
| `requester_returns` | 2 clients, 2 workers, 1 key, data, 1 clear; fair; 190,000 states | `SingleFlight` and `FirstRoundSuffices` until the first clear; `EveryCallReturns` |
| `fastcache` | capacity 3, 4 paths, 2 values; 65,000 states | `TypeOK`, `MapMatchesNodes`, `ListEnds`, `LastIsMostRecent`, refinement of `BoundedCache` |
| `server` | 2 callers, 4 connections, capacity 1; or else 2 peers, 2 login attempts, listings of 0..3 entries in pages of 2; fair; 147,000 states | `Exclusive`, `NoLeakNoReuse`, `PooledIsClean`, `DeadIsDiscarded`, `CallsReturn`; `AnswersAreHonest`, `ServerKeepsUp` |
| `formats` | blocks of 4 bytes, ranges of 0..20 bytes at offsets 0..16, files of 0..20 bytes; names of up to two blocks of 3 over 6 bytes, stored ones in two spellings; all parameters of `New`; 450,000 states | `SizesMatchLayout`, `JointRangesCover`, `WriteIsOverlay`; `NameRoundTrip`, `OnlyLegalNames`, `OneCanonicalName`, `StoredNamesFit`; `KeysLiveAsLongAsCiphers` |
| `content` | 2 readers, 5 arrays, all files of up to 6 bytes and four of two or three blocks; or else 2 writers, 2 calls of 1 block or of 3, these in parallel; nonces of 2 out of 5 prefetched bytes; 255,000 states | `PutsFit`, `NoSharedArray`, `ResultIsPlaintext`, `OnlyAuthenticData`; `NoncesAreFresh`, `PrefetcherIsReleased`, `WrittenReadsBack` |
| `filetree` | 2 goroutines, a drive of three levels in three versions (a file is empty, then has content, then its directory is replaced by another in which one name is stored twice), fast cache of 1, every request may fail; 2.1 M states | `CacheIsTruthful`, `AnswersAreTrue`, `FailuresHaveReason` |
| `configfile` | 2 passwords, 2 keys, costs 0, 9 and 10; new drives and 256 foreign configurations; failures and crashes anywhere; 340,000 states | `KeySurvives`, `WrittenIsReadable`, `TreeMatchesDrive` |

Four more runs show a disagreement between the code and what its comments, tests or README
say:

| run | property | what happens |
|---|---|---|
| `requester_timeout_hang` | `EveryCallReturns` | After a client's timeout nobody receives from its `respChan`. The worker that picks up its item reserves the key and blocks in the send for ever; a later call for the key gets that worker's ticket and waits for a Broadcast that never comes. |
| `requester_one_clear` | `OneClearIsHarmless` | Three clients, one `ClearCache`. A call whose `respChan` was closed, because there was data, reads the entry again when it has been cleared and reserved anew; it finds neither data nor an error and deletes the entry (`makerequest.go:68`), whosever reservation it is by then. The clear and two such calls disturb the third one three times, as often as it has rounds, and it fails although the backend answers. |
| `fastcache_lru` | `EvictsLeastRecentlyUsed` | `refreshNode` does not update the `prev` of the successor. With capacity 3: Store A, B, C; Find A; Find B; Store D evicts B, the entry used last. |
| `decryptfile_panic` | `NeverPanics` | A file of 19 to 50 bytes passes `readFileID`, has no plaintext blocks, and `blocks[0]` panics. |

### Bounds

Races in the requester involve one entry, the client that read it, and at most two
workers or another client that change it; two clients and two workers on one key give
all of these, with a queue of one so that senders block. The retry loop is at its real
bound of three rounds. `MaxClears` is 1; three clients are needed for one clear to use up
all rounds of a call (`requester_one_clear`), two for anything else. Clears together with errors, timeouts and Stop, and clients that wait on one
worker's ticket for different keys, are left to the theorems, which hold for any of them. A fast cache of three nodes is the smallest in which a node is neither
head nor last; four paths make it overflow. A pool of one with two callers is empty and
full at the same time for different callers; a closed connection object may be dialled
again, so four of them stand for any number. The layout arithmetic is the same at
every scale; sizes and offsets cover every residue of a block and five blocks. Five
arrays let one reader outgrow its buffer while the other holds a buffer and a block;
reader and array identities beyond that only add permutations. Three blocks split over two
goroutines leave one over; five prefetched bytes run out in the middle of a nonce of two,
and then again; six arrays are as many as two calls of three blocks can hold, so that the
`Get` of `cBlockPool`, which has no step when the arrays run out, always has one. Paths of depth three under a cache of one entry evict at every level; of
the drive's changes, one gives content to a file that may have been read while it was
empty, and one replaces a directory under readers, with other names in it, two of which
show as one. Two peers are one in the handshake and one behind it, or two sessions side by side; listings
are empty, shorter than a page, as long as one and longer. Two passwords and two keys tell a right
from a wrong one; foreign configurations take all combinations of the flags that `Load`
looks at, costs on both sides of the minimum, and two versions. Nothing bounds the
number of password changes and crashes.

### Fairness

A goroutine that can run does run: the Go scheduler is preemptive, and every exchange with
the server ends with an answer or an error. In `ConnPool` that is weak fairness of
`CallerStep`. In `Requester`, `ClientStep` and `WorkerStep` have strong fairness, because a
goroutine that waits for a mutex or for a place in a channel is enabled only now and then:
a `sync.Mutex` goes to a waiter that has starved for a millisecond, and a channel serves
blocked senders and receivers in order. `ClearCache`, once called, runs to its end. Nothing
makes clients call, timeouts strike, clears start or `Stop` be called.

In `Sessions` the server's goroutines run (weak fairness), and the backlog is served in
order, so that a peer in it is accepted if the loop comes round again and again (strong
fairness of `Accept`). Of peers nothing is assumed. The handshake runs in the accept loop and
has no deadline, so one peer that connects and stays silent keeps everybody in the backlog
waiting for ever. `ServerKeepsUp` says that this is the only way to wait for ever: a peer
leaves the backlog unless another one's handshake never ends, whatever else peers do. What
happens on established connections does not depend on it.

`requester_returns` has no errors, as with errors the claim is false even without
timeouts; see the second observation below.

## Theorems

Every theorem holds for all values of the constants that satisfy the assumptions at the
end of this section. Each is reached in the same way: an inductive invariant (`IInv`, or
one with the name of its subject), shown to hold initially and to be kept by every action,
and the property as a consequence of it. The additions to the invariants were checked by
TLC on the runs' instances before they were proved.

**`RequesterProofs`**, for any clients, workers and keys, any queue, any number of clears,
with or without timeouts and Stop:

- `TypeCorrect` (`TypeOK`), `PendingIsOwned` (`PendingHasOwner`), `WakeupIsNotLost`
  (`NoLostWakeup`), `ErrorsAreAlwaysFresh` (`ErrorsAreFresh`), for any replies;
- `WorkIsNotDuplicated` (`SingleFlight`), if no reply is an error;
- `OneRoundIsEnough` (`FirstRoundSuffices`), if every reply is data.

The two hypotheses are needed: see the observations below. `IInv` adds two facts about
mutexes: a client that has got past `ticket.Lock()` has a ticket (`WaiterHasTicket`), and
whoever is in a critical section holds its mutex (`HoldersHold`). These are what keeps a
Broadcast from slipping in between a client's look at a pending entry and its sleep: at
that moment the client holds the mutex, so the worker is not between `Request` and
`Broadcast`; and as the entry names the worker's locker, `PendingHasOwner` says that the
worker has still to store its result. `Wait` gives up mutex and wakefulness in one step.
`PendingHasOwner` in turn holds because only `GetOrInsert` writes a locker into the cache,
and the worker that did so leaves its fetch only through `Store`, which overwrites the key
whatever deletes and clears have made of it.

The other three need to know whose an item is (`ItemInv`): a client has at most one item,
in the queue or with a worker, is in its `select` as long as it has, and waits for the key
that the item asks for; a channel is closed only when its item is gone. On top of it,
`FreshInv` follows errors: tickets are handed out for entries without a result only, so an
error that the ticket's receiver finds was stored since. `FlightInv` says that nothing is
deleted before the first clear, as no client finds an error or loses data. `RoundInv` says
that until then the ticket of a client, or the one it is about to be sent, is the locker of
its key's reservation, or the data is there.

**`FastCacheProofs`**, for any paths and any capacity:

- `TypeCorrect`, `MapIsConsistent` (`MapMatchesNodes`), `ListIsAnchored` (`ListEnds`),
  `EndOfListIsMostRecent` (`LastIsMostRecent`)
- `Refinement`: `Spec => ImplementsBoundedCache`

The invariant adds that allocated nodes carry a value and that nodes not yet allocated
are linked to nothing. It says nothing of the order of the list and little of `prev`,
which is the point: what `refreshNode` leaves wrong damages the eviction order, never
the contents, nor the end of the list. The refinement needs the cardinality of the set of
cached paths, which `MapMatchesNodes` makes a bijection with `1..count`.

**`ConnPoolProofs`**, for any callers, connections and capacity:

- `ConnectionsAreExclusive` (`Exclusive`), `ConnectionsAreNotLeaked` (`NoLeakNoReuse`),
  `PoolIsClean` (`PooledIsClean`), `DeadAreDiscarded` (`DeadIsDiscarded`)

These need each other, and in addition: which positions of a call hold a connection and in
which state it is (`HeldIsLive`), that a remote file is open only while a call reads it
(`FilesAreRead`), and that a link which was down stays down while its caller is on its way
to the failed ping (`DeadStaysDead`, which has it that no session outlives its link). The last
theorem is about SSH links only; of a session that ended under a live link the contrary
holds, see the observations.

**`SessionsProofs`**, for any peers, listings and page size:

- `SessionsAreHonest` (`AnswersAreHonest`), because what a peer has got of a directory is
  always what lies before the offset at which the library goes on (`InStep`).

**`FileTreeProofs`**, for any drive, any history of it, any goroutines, faults and size of
the fast cache:

- `FastCacheIsTruthful` (`CacheIsTruthful`), `AnswersHaveBeenTrue` (`AnswersAreTrue`),
  `FailuresAlwaysHaveReason` (`FailuresHaveReason`)

The request caches hold what some version had (`CachesAreTrue`), the walk is at a prefix of
its path on the way to its goal (`OnTheWay`), and its ciphertext path has belonged to this
prefix in one version (`WalkIsTrue`). The step that needs an argument is `EnterDir`: IV,
listing and the directory itself may be of three versions. A name that decrypts does so to
the same plaintext in every version that has it in this directory, so the version of the
listing is a version in which the longer path existed.

That failures have a reason is the converse: whoever finds nothing was not looking in the
wrong place. `ReasonInv` adds to the invariant that cached IVs were those of the directory,
that a worker about to list or search one has its IV, and that each answer so far has its
reason. If the path was untouched and there is something to be found, it has one and the
same ciphertext path in all versions (`HasTarget`, `Target`), and so have its prefixes, if no
two stored names on the way show as one (`OneCipherPath`); the walk is on it (`OnTarget`);
and the next name of it is found in a cached
listing of any age under a cached IV of any age (`NextName`), because the same name in
another version of the directory means the same IV. So no step of such a call can fail but
the last one of a `ReadFile`, for a file that was too short in the version that the requester
has kept. The theorem leaves out what the code gives no guarantee for: calls that met a
fault, paths that were replaced, names that are stored twice.

**`ConfigFileProofs`**, for any passwords, keys, scrypt costs and foreign configurations:

- `MasterKeySurvives` (`KeySurvives`), `ConfigIsReadable` (`WrittenIsReadable`),
  `TreesStayRight` (`TreeMatchesDrive`)

`Safe` says where the key is as long as no fsync has failed: in the configuration, synced
and sound, or in the `.tmp` if the first rename was undone and nobody is writing
(`Claimed`); what an undone rename would bring back is as good (`ReplacedIsGood`); what
is being written says the same, and is on disk before the rename (`WritingIsSound`).

**`FormatsProofs`**, for any layout, alphabet, cipher block and length:

- `SizesAreRight` (`SizesMatchLayout`), `RangesAreCovered` (`JointRangesCover`),
  `WritesAreOverlays` (`WriteIsOverlay`), `KeysLive` (`KeysLiveAsLongAsCiphers`)
- `NamesRoundTrip` (`NameRoundTrip`), `NamesAreLegal` (`OnlyLegalNames`), `CanonicalNames`
  (`OneCanonicalName`), if EME is for each IV a permutation of the byte strings of each
  length (`EMEIsPermutation`); `StoredNames` (`StoredNamesFit`), if long names are enabled
  as well

`StandInIsPermutation` shows that the cipher which the run uses in place of EME satisfies
that hypothesis. The properties of layout and names are facts about all values of the
enumerated variables, and the invariant says no more of these than their types. Of the keys,
it says which array holds what in each state of the `CryptoCore` (`KeyState`).

Ranges and writes go through the recursive functions of `ExplodePlainRange` and
`ExplodeCipherRange`. The library's theorems about such functions cannot be used here, as
they take operators, so the proof gives the solution of the loops' equation in closed form
(`Blocks`), checks that it is one (`CutExists`), and shows by least counterexample
(`LeastNat`) that there is no other (`CutIsUnique`). What the blocks of a range are is then
known by number (`IthBlock`), and the rest is `div` and `mod`.

**`ContentProofs`**, about the two specifications one by one, as they share no state: of
`DecryptFile`, for any readers, files, layout and pool sizes,

- `PutsAlwaysFit` (`PutsFit`), `ArraysAreNotShared` (`NoSharedArray`), `ResultsArePlaintext`
  (`ResultIsPlaintext`), `DataIsAuthentic` (`OnlyAuthenticData`)

and of `EncryptBlocks`, for any writers, calls, splits and prefetch sizes,

- `NoncesAreAlwaysFresh` (`NoncesAreFresh`), `PrefetcherIsAlwaysReleased`
  (`PrefetcherIsReleased`), `WrittenAlwaysReadsBack` (`WrittenReadsBack`)

A reader's buffers hold the plaintext of the blocks so far, all of which did open, and their
arrays are its own (`ReaderOK`, `OneOwner`); the sizes come from the layout lemmas. The
prefetch buffer is an interval of random bytes above those that the nonces are made of
(`NonceInv`). Of a call of `EncryptBlocks`, every block that a goroutine is past is in an
array which no other call and no pool has, sealed as it should be, until it is written and
put back (`BlockInv`); that nothing is left out rests on `SplitFacts`, that the goroutines'
ranges cover the blocks.

What the constants are assumed to be, next to their types and to the names for "nothing"
being no members of the sets they are used with (`ConstantsAssumption`, `DistinctAssumption`,
`ArraysAssumption`, `NoBlockAssumption`):

- queue, fast cache and pool have room for one (`ConstantsAssumption`, `CacheAssumption`,
  `PoolAssumption`), a page for one entry (`MaxFilelistAssumption`); blocks, tags, IVs and
  headers are not empty (`LayoutAssumption`, `BlockAssumption`) and the request size is a
  number of blocks (`BoundsAssumption`), as the constants of the code are;
- a hashed long name fits into a directory (`LongNameAssumption`), and the length of the
  padding can be written into a byte (`AlphabetAssumption`);
- the prefetch buffer holds a nonce (`PrefetchAssumption`), and a call is split up only from
  as many blocks as there may be goroutines (`SplitAssumption`); the plaintexts are those of
  `MergeBlocks` (`PlaintextsAssumption`);
- a file has as many blocks as its size says, and a block which is sealed has content
  (`FilesAssumption`); listings are sequences (`ListingsAssumption`);
- a drive is a tree, with paths all of whose prefixes are paths (`PathsAssumption`,
  `TreeAssumption`), in each directory of which is its `gocryptfs.diriv`, so that no listing is
  empty; under an IV a name has one plaintext (`NamesAssumption`), as `DecryptName` is a
  function; no name that decrypts recurs in a directory under another IV
  (`StableNamesAssumption`), as EME on random IVs makes it improbable; files are empty or intact
  (`IntactAssumption`), as others are `DecryptFile`'s subject;
- configurations of other programs are `ConfFile`s (`ForeignAssumption`).

Checked by TLC only: `EveryCallReturns`, `CallsReturn` and `ServerKeepsUp`, which are
liveness under fairness and beyond the prover. Every other property of the passing runs is a
theorem.

## Observations not covered by a run

- With a failing backend `SingleFlight` fails: a client that was told of a cached error
  deletes the entry some steps later (`makerequest.go:68`), when it may already be
  another worker's reservation; the key is then fetched by two workers at once.
- With a failing backend `EveryCallReturns` fails: the comparison of `lockerNum`
  (`makerequest.go:104`) cannot tell a worker's new reservation of the key from the one
  the client was waiting for. A client that is slow to wake up sleeps on, and that may
  repeat.
- An empty reply is cached as an entry that is neither served nor fetched again
  (`requester.go:161`): later calls run through their rounds without a request and fail
  with the retry error. A file that was read once while it was empty cannot be read for as
  long as the process runs, whatever is written to it. `FailuresHaveReason` counts a file
  that was ever empty as a reason.
- The ping after a failed operation asks the SSH layer only (`provider.go:38,66,88`). A
  connection whose SFTP session has ended while its SSH link is up goes back to the pool
  again and again, and fails every call that gets it. `DeadIsDiscarded` is about SSH links.
- `Stat` resolves its path with `findPath`, which rejects whatever is not a directory
  (`filetree.go:294`): `Stat` of a regular file always fails. `src/README.md:102-104` speaks
  of the time "to stat (in plaintext) all files". `FailuresHaveReason` is stated for what
  the code does.
- Go's base64 decoder is not strict (`names.go:56`): stored names that differ in the spare
  bits of the last character, or by line ends, decode to the same bytes, so a directory may
  show one name twice, and only the first entry can be reached by it. gocryptfs itself
  stores the canonical spelling only. `OneCanonicalName` says that nothing else can make two
  stored names show as one.
- A crash or an error in `WriteFile` leaves `gocryptfs.conf.tmp`, and every later
  `WriteFile` fails on it (`O_EXCL`, `config_file.go:272`) until someone removes it. Until
  the directory itself is on disk this may be the only copy of a new drive's key, which
  is why `RemoveTmp` waits for that.
- After a failed fsync, which is only logged (`config_file.go:286`), a crash may leave a
  torn configuration in place of the old one. `KeySurvives` excepts this case.
- `Init` accepts drives with the flags `AESSIV` and `PlaintextNames`, as `Load` knows them,
  and then reads them with `BackendGoGCM` and encrypted names (`filetree.go:75`); the
  comment at `config_file.go:44` has unsupported flags refused.
- With an empty password `LoadAndDecrypt` returns a nil key and no error
  (`config_file.go:135`), on which `cryptocore.New` panics.
- A `DecryptName` request that fails, by a timeout for instance, leaves its entry out of
  a listing that is returned without an error (`filetree.go:236`).
- If a directory is replaced between the request for its IV and that for its listing, or
  after its IV was cached and before its listing was, none of its names decrypts. The
  listing is empty, without an error, and stays so, as neither is ever asked for again
  (`filetree.go:226-230`; nothing calls `ClearCache`). `FailuresHaveReason` excepts paths
  that have been replaced.
- `doEncryptBlock` returns an empty block as it is (`content.go:280`), and the
  `cBlockPool.Put` of `EncryptBlocks` panics on it. No caller of contentenc makes one.
- `handleChannel` serves SFTP on every session, also if its peer asked for another
  subsystem or none (`main.go:164`). It closes the channel after `io.EOF` only; after any
  other error the channel stays open on the peer's side while nobody serves it
  (`main.go:169`).
- `req.Payload[4:]` (`main.go:154`) takes the payload of a subsystem request to be at least
  four bytes long. A shorter one panics, which nothing recovers, and ends the process.
- A peer that stalls in its handshake keeps the accept loop for ever (`main.go:107`); see
  Fairness.
- `Filecmd` and `Filelist` return nil for methods they do not know (`decrypt.go:58,78`);
  the model has the methods that the library sends.
- Files without plaintext (0 bytes, as gocryptfs stores an empty file) are reported by
  ReadFile as an error: it is the requester's retry error, before `readFileID` could return
  its `io.EOF`.

## Not modelled

- Cryptography (AES-GCM, EME, SIV, scrypt, HKDF, SHA-256): abstracted to what accepts what
  and what was derived from what.
- Reading and writing of long name and directory IV files (`longnames.go`, `diriv.go`):
  their bodies are commented out and return "not implemented".
- `EncryptBlockNonce`, `FileHeader.Pack` and `RandomHeader`, which nothing calls; `forceDecode`,
  which is always false.
- `handlers/proxy.go` but for `ListAt`: "Not used, just a reference implementation".
- Start-up in `main.go`, `config`, logging, exit codes, generated fakes: input, output and
  test code.
- More than one channel per connection, and several requests of one channel at a time: the
  calls that these make concurrently are `FileTree`'s subject, where every goroutine is a
  worker of its own.

## Plan

Done, in this order: `Requester` (the concurrency at the centre), `FastCache` with its
contract, `ConnPool`, `ContentEnc` and `DecryptFile`, `NameTransform`, `FileTree` on top,
`ConfigFile`; then `FileTree` on a drive that changes, `EncryptBlocks` with the prefetcher,
long names and `MergeBlocks`, `Sessions`, `CryptoCore`.

Then the proofs, component by component, in the order of the section above.

Next: what the liveness properties rest on and is safety, so that TLC is left with the
fairness only: that a round of `EveryCallReturns` cannot be undone by another client, and
that each page of a listing and each part of a file brings its call nearer to its end
(`CallsReturn`, `ServerKeepsUp`).
