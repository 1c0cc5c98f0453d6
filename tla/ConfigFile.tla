----------------------------- MODULE ConfigFile -----------------------------
(***************************************************************************)
(* Package configfile: gocryptfs.conf, which holds the master key of a     *)
(* drive wrapped with a password, how it is created, replaced and loaded,  *)
(* and FileTree.Init, which mounts a drive from it.                        *)
(*                                                                         *)
(* The file system is the environment.  What is written reaches the disk   *)
(* when it is synced or some time later; a rename is seen at once and      *)
(* reaches the disk some time later.  A crash loses what has not: a file   *)
(* may come back Torn (empty or cut off), and a rename may come back       *)
(* undone.                                                                 *)
(*                                                                         *)
(* A password change is LoadAndDecrypt with the old password, EncryptKey   *)
(* with the new one, and WriteFile, as the comment of WriteFile has it.    *)
(***************************************************************************)
EXTENDS Naturals

CONSTANTS
    Passwords,      \* not the empty one
    Keys,           \* master keys
    Foreign,        \* configurations that other programs may have written
    LogNs,          \* scrypt costs that Create may be called with
    Absent,         \* no such file
    Torn,           \* content that does not parse
    None

CurrentVersion == 2
scryptMinLogN == 10
ScryptDefaultLogN == 16

knownFlags ==
    {"PlaintextNames", "DirIV", "EMENames", "GCMIV128", "LongNames", "AESSIV",
     "Raw64", "HKDF", "Trezor"}
requiredFlagsNormal == {"DirIV", "EMENames", "GCMIV128"}
requiredFlagsPlaintextNames == {"GCMIV128"}

\* a ConfFile; the master key is wrapped with a password, by way of HKDF or not
WrappedKey == [key : Keys, pw : Passwords, hkdf : BOOLEAN]
ConfFile ==
    [Version : Nat, FeatureFlags : SUBSET (knownFlags \cup {"Strange"}),
     EncryptedKey : WrappedKey, logN : Nat]

\* what a file may hold, and what a mounted tree keeps
FileStates == [data : ConfFile \cup {Torn}, synced : BOOLEAN]
TreeSettings == [key : Keys, hkdf : BOOLEAN, longNames : BOOLEAN, raw64 : BOOLEAN]

ASSUME ForeignAssumption ==
    /\ Foreign \subseteq ConfFile
    /\ LogNs \subseteq Nat

\* Absent, Torn and None stand for what is not there
ASSUME DistinctAssumption ==
    /\ Torn \notin ConfFile
    /\ Absent \notin FileStates
    /\ None \notin Keys /\ None \notin FileStates /\ None # Absent
    /\ None \notin ConfFile /\ None \notin TreeSettings

VARIABLES
    conf, tmp,      \* the file and its ".tmp": Absent or [data, synced]
    replaced,       \* what conf was before a rename that is not on disk yet, or None
    pc, cf,         \* WriteFile: position, and the ConfFile it writes
    tree,           \* the FileTree that was mounted last, or None
    drive,          \* history: the master key, once a call has returned or stored it
    syncFailed      \* history: an fsync has failed

vars == <<conf, tmp, replaced, pc, cf, tree, drive, syncFailed>>

File(data, synced) == [data |-> data, synced |-> synced]

Init ==
    /\ conf \in {Absent} \cup {File(c, TRUE) : c \in Foreign}
    /\ tmp = Absent
    /\ replaced = None
    /\ pc = "idle" /\ cf = None
    /\ tree = None
    /\ drive = None
    /\ syncFailed = FALSE

-----------------------------------------------------------------------------
requiredFlags(flags) ==
    IF "PlaintextNames" \in flags THEN requiredFlagsPlaintextNames ELSE requiredFlagsNormal

\* does Load return the ConfFile, rather than an error?
Loads(file) ==
    /\ file # Absent
    /\ file.data # Torn
    /\ file.data.Version = CurrentVersion
    /\ file.data.FeatureFlags \subseteq knownFlags
    /\ requiredFlags(file.data.FeatureFlags) \subseteq file.data.FeatureFlags

\* the wrapping key comes from scrypt, and from HKDF where the flag is set
Unwraps(c, pw) ==
    /\ c.EncryptedKey.pw = pw
    /\ c.EncryptedKey.hkdf = ("HKDF" \in c.FeatureFlags)

\* validateParams; the process exits if it does not hold
StrongEnough(logN) == logN >= scryptMinLogN

\* does LoadAndDecrypt with a non-empty password return the master key? (With the
\* empty one it returns nil for the key, on which Init's cryptocore.New panics.)
LoadAndDecrypt(file, pw) ==
    Loads(file) /\ StrongEnough(file.data.logN) /\ Unwraps(file.data, pw)

\* NewScryptKDF
CostOf(logN) == IF logN = 0 THEN ScryptDefaultLogN ELSE logN

\* Mutation of EncryptKey: the flags are reset to those of the old format
Mut_EncryptKey(c, key, pw, logN) ==
    [c EXCEPT !.EncryptedKey = [key |-> key, pw |-> pw, hkdf |-> FALSE],
              !.FeatureFlags = @ \ {"HKDF"},
              !.logN = CostOf(logN)]

EncryptKey(c, key, pw, logN) ==
    [c EXCEPT !.EncryptedKey = [key |-> key, pw |-> pw, hkdf |-> "HKDF" \in c.FeatureFlags],
              !.logN = CostOf(logN)]

-----------------------------------------------------------------------------
\* the feature flags of a new drive
NewFlags(plaintextNames, aessiv, trezor) ==
    {"GCMIV128", "HKDF"}
    \cup (IF plaintextNames THEN {"PlaintextNames"}
          ELSE {"DirIV", "EMENames", "LongNames", "Raw64"})
    \cup (IF aessiv THEN {"AESSIV"} ELSE {})
    \cup (IF trezor THEN {"Trezor"} ELSE {})

\* the ConfFile before EncryptKey
Blank(flags) ==
    [Version |-> CurrentVersion, FeatureFlags |-> flags, EncryptedKey |-> None, logN |-> 0]

\* Mutation of Created: the key is wrapped before the flags are set
Mut_Created(flags, key, pw, logN) ==
    [EncryptKey(Blank({}), key, pw, logN) EXCEPT !.FeatureFlags = flags]

Created(flags, key, pw, logN) == EncryptKey(Blank(flags), key, pw, logN)

\* on to WriteFile, unless validateParams has ended the process
StartWrite(c) ==
    /\ pc = "idle"
    /\ StrongEnough(c.logN)
    /\ pc' = "open" /\ cf' = c
    /\ UNCHANGED <<conf, tmp, replaced, syncFailed>>

\* Create, for a drive that has no configuration yet
Create(key, pw, flags, logN) ==
    /\ conf = Absent /\ drive = None
    /\ StartWrite(Created(flags, key, pw, logN))
    /\ UNCHANGED <<tree, drive>>

\* history: a call has returned the master key
Learn(key) == drive' = IF drive = None THEN key ELSE drive

\* the three calls of a password change
ChangePassword(old, new, logN) ==
    /\ LoadAndDecrypt(conf, old)
    /\ StartWrite(EncryptKey(conf.data, conf.data.EncryptedKey.key, new, logN))
    /\ Learn(conf.data.EncryptedKey.key)
    /\ UNCHANGED tree

-----------------------------------------------------------------------------
\* WriteFile, one system call per step; an error ends it and leaves the .tmp

Goto(l) == pc' = l /\ UNCHANGED cf
Abort   == pc' = "idle" /\ cf' = None

OpenTmp ==
    /\ pc = "open"
    /\ \/ tmp = Absent /\ tmp' = File(Torn, FALSE) /\ Goto("write")
       \/ UNCHANGED tmp /\ Abort                \* O_EXCL, or another error
    /\ UNCHANGED <<conf, replaced, tree, drive, syncFailed>>

Write ==
    /\ pc = "write"
    /\ \/ tmp' = File(cf, FALSE) /\ Goto("sync")
       \/ UNCHANGED tmp /\ Abort
    /\ UNCHANGED <<conf, replaced, tree, drive, syncFailed>>

\* Mutation of Sync: there is none
Mut_Sync ==
    /\ pc = "sync"
    /\ Goto("close")
    /\ UNCHANGED <<conf, tmp, replaced, tree, drive, syncFailed>>

\* a failed fsync is logged and otherwise ignored
Sync ==
    /\ pc = "sync"
    /\ \/ tmp' = [tmp EXCEPT !.synced = TRUE] /\ UNCHANGED syncFailed
       \/ syncFailed' = TRUE /\ UNCHANGED tmp
    /\ Goto("close")
    /\ UNCHANGED <<conf, replaced, tree, drive>>

Close ==
    /\ pc = "close"
    /\ Goto("rename") \/ Abort
    /\ UNCHANGED <<conf, tmp, replaced, tree, drive, syncFailed>>

\* a second rename may meet a first one that is not on disk yet
Rename ==
    /\ pc = "rename"
    /\ \/ /\ conf' = tmp /\ tmp' = Absent
          /\ replaced' \in IF replaced = None THEN {conf} ELSE {conf, replaced}
          /\ Learn(cf.EncryptedKey.key)
       \/ UNCHANGED <<conf, tmp, replaced, drive>>
    /\ Abort
    /\ UNCHANGED <<tree, syncFailed>>

-----------------------------------------------------------------------------
\* what the tree takes over from the configuration
Settings(c) ==
    [key |-> c.EncryptedKey.key, hkdf |-> "HKDF" \in c.FeatureFlags,
     longNames |-> "LongNames" \in c.FeatureFlags, raw64 |-> "Raw64" \in c.FeatureFlags]

\* FileTree.Init, on any machine that reaches the drive. The backend cipher is
\* BackendGoGCM whatever the flags say.
Mount(pw) ==
    /\ LoadAndDecrypt(conf, pw)
    /\ tree' = Settings(conf.data)
    /\ Learn(conf.data.EncryptedKey.key)
    /\ UNCHANGED <<conf, tmp, replaced, pc, cf, syncFailed>>

\* environment: everything reaches the disk
Flush ==
    /\ conf' = IF conf = Absent THEN conf ELSE [conf EXCEPT !.synced = TRUE]
    /\ tmp' = IF tmp = Absent THEN tmp ELSE [tmp EXCEPT !.synced = TRUE]
    /\ replaced' = None
    /\ UNCHANGED <<pc, cf, tree, drive, syncFailed>>

\* what may be found of a file after a crash
Survivors(file) ==
    IF file = Absent \/ file.synced THEN {file}
    ELSE {File(file.data, TRUE), File(Torn, TRUE)}

\* environment: power fails in the middle of anything
Crash ==
    /\ \/ conf' \in Survivors(conf) /\ tmp' \in Survivors(tmp)
       \/ replaced # None /\ conf' \in Survivors(replaced) /\ tmp' \in Survivors(conf)
    /\ replaced' = None
    /\ Abort
    /\ UNCHANGED <<tree, drive, syncFailed>>

\* environment: the user removes what an interrupted WriteFile has left
RemoveTmp ==
    /\ pc = "idle" /\ replaced = None
    /\ conf # Absent /\ tmp # Absent
    /\ tmp' = Absent
    /\ UNCHANGED <<conf, replaced, pc, cf, tree, drive, syncFailed>>

Next ==
    \/ \E key \in Keys, pw \in Passwords, logN \in LogNs, p, a, t \in BOOLEAN :
          Create(key, pw, NewFlags(p, a, t), logN)
    \/ \E old, new \in Passwords, logN \in LogNs : ChangePassword(old, new, logN)
    \/ OpenTmp \/ Write \/ Sync \/ Close \/ Rename
    \/ \E pw \in Passwords : Mount(pw)
    \/ Flush \/ Crash \/ RemoveTmp

Spec == Init /\ [][Next]_vars

-----------------------------------------------------------------------------
\* "a password change atomically replaces the file": from the moment a call has
\* succeeded, and at every point of WriteFile, a crash leaves the master key in
\* gocryptfs.conf, or in its .tmp if the first rename was undone, unless an fsync
\* has failed.
KeySurvives ==
    drive # None /\ ~ syncFailed =>
        LET file == IF conf = Absent THEN tmp ELSE conf
        IN  file # Absent /\ file.data # Torn /\ file.data.EncryptedKey.key = drive

\* Whatever Create and EncryptKey write, Load accepts it, and the password it was
\* written with unwraps the key: flags, key derivation and scrypt costs fit.
WrittenIsReadable ==
    drive # None /\ ~ syncFailed /\ conf # Absent =>
        LoadAndDecrypt(conf, conf.data.EncryptedKey.pw)

\* A tree that was mounted once stays right about its drive: later password
\* changes touch neither the key nor the settings that decide how names and
\* contents are read.
TreeMatchesDrive ==
    tree # None /\ ~ syncFailed /\ conf # Absent => tree = Settings(conf.data)

====
