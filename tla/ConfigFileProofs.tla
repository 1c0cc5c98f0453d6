--------------------------- MODULE ConfigFileProofs ---------------------------
(***************************************************************************)
(* Proofs about ConfigFile, for any passwords, master keys, scrypt costs   *)
(* and configurations of other programs: as long as no fsync has failed, a *)
(* crash at any point of a password change leaves the master key, in a     *)
(* file that loads, and mounted trees stay right.                          *)
(***************************************************************************)
EXTENDS ConfigFile, TLAPS

TypeOK ==
    /\ conf \in FileStates \cup {Absent}
    /\ tmp \in FileStates \cup {Absent}
    /\ replaced \in FileStates \cup {Absent, None}
    /\ pc \in {"idle", "open", "write", "sync", "close", "rename"}
    /\ cf \in ConfFile \cup {None}
    /\ pc # "idle" => cf # None
    /\ pc = "sync" => tmp # Absent
    /\ tree \in TreeSettings \cup {None}
    /\ drive \in Keys \cup {None}
    /\ syncFailed \in BOOLEAN

\* A ConfFile that Load accepts and that its own password unwraps.
Sound(c) ==
    /\ c.Version = CurrentVersion
    /\ c.FeatureFlags \subseteq knownFlags
    /\ requiredFlags(c.FeatureFlags) \subseteq c.FeatureFlags
    /\ StrongEnough(c.logN)
    /\ c.EncryptedKey.hkdf = ("HKDF" \in c.FeatureFlags)

\* A file that a crash leaves as it is, with a sound configuration of the drive.
Good(file) ==
    /\ file # Absent /\ file.data # Torn
    /\ file.synced
    /\ Sound(file.data)
    /\ file.data.EncryptedKey.key = drive

\* Where the configuration is: in the .tmp if the first rename was undone.
Home == IF conf = Absent THEN tmp ELSE conf

\* Before the master key is known: only Create writes, and only to a new drive.
Unclaimed ==
    drive = None =>
        /\ replaced = None /\ tree = None
        /\ conf # Absent => conf.synced /\ pc = "idle"

\* Afterwards: the configuration is safe, and if it is only in the .tmp, nobody
\* writes.
Claimed ==
    drive # None =>
        /\ Good(Home)
        /\ tree # None => tree = Settings(Home.data)
        /\ conf = Absent => pc = "idle" /\ replaced = None

\* What an undone rename would bring back is as good and says the same.
ReplacedIsGood ==
    replaced \notin {None, Absent} => Good(replaced) /\ Settings(replaced.data) = Settings(Home.data)

\* What WriteFile is writing is sound and says the same, and it is in the .tmp, on
\* disk, before the rename.
WritingIsSound ==
    /\ pc # "idle" => Sound(cf) /\ (drive # None => Settings(cf) = Settings(Home.data))
    /\ pc = "sync" => tmp # Absent /\ tmp.data = cf
    /\ pc \in {"close", "rename"} => tmp = File(cf, TRUE)

Safe == Unclaimed /\ Claimed /\ ReplacedIsGood /\ WritingIsSound

IInv == TypeOK /\ (~ syncFailed => Safe)

-----------------------------------------------------------------------------
\* EncryptKey wraps a key, in agreement with the flags, and leaves the rest alone.
\* Create passes it a ConfFile that has no key yet.
LEMMA EncryptKeyFacts ==
    ASSUME NEW c \in [Version : Nat, FeatureFlags : SUBSET (knownFlags \cup {"Strange"}),
                      EncryptedKey : WrappedKey \cup {None}, logN : Nat],
           NEW key \in Keys, NEW pw \in Passwords, NEW logN \in LogNs
    PROVE  /\ EncryptKey(c, key, pw, logN) \in ConfFile
           /\ EncryptKey(c, key, pw, logN).Version = c.Version
           /\ EncryptKey(c, key, pw, logN).FeatureFlags = c.FeatureFlags
           /\ EncryptKey(c, key, pw, logN).EncryptedKey.key = key
           /\ EncryptKey(c, key, pw, logN).EncryptedKey.hkdf = ("HKDF" \in c.FeatureFlags)
<1> DEFINE w == [key |-> key, pw |-> pw, hkdf |-> "HKDF" \in c.FeatureFlags]
<1>1. CostOf(logN) \in Nat
  BY ForeignAssumption DEF CostOf, ScryptDefaultLogN
<1>2. w \in WrappedKey /\ w.key = key
  BY DEF WrappedKey
<1>3. w.hkdf = ("HKDF" \in c.FeatureFlags)
  BY Zenon
<1>4. EncryptKey(c, key, pw, logN) = [c EXCEPT !.EncryptedKey = w, !.logN = CostOf(logN)]
  BY DEF EncryptKey
<1> HIDE DEF w
<1> QED
  BY <1>1, <1>2, <1>3, <1>4 DEF ConfFile

\* What Create writes is a ConfFile that Load accepts, whatever it is asked for.
LEMMA CreatedFacts ==
    ASSUME NEW key \in Keys, NEW pw \in Passwords, NEW logN \in LogNs,
           NEW p \in BOOLEAN, NEW a \in BOOLEAN, NEW t \in BOOLEAN,
           StrongEnough(Created(NewFlags(p, a, t), key, pw, logN).logN)
    PROVE  /\ Created(NewFlags(p, a, t), key, pw, logN) \in ConfFile
           /\ Sound(Created(NewFlags(p, a, t), key, pw, logN))
           /\ Created(NewFlags(p, a, t), key, pw, logN).EncryptedKey.key = key
<1> DEFINE flags == NewFlags(p, a, t)
<1>1. flags \subseteq knownFlags /\ requiredFlags(flags) \subseteq flags
  BY DEF NewFlags, knownFlags, requiredFlags, requiredFlagsNormal, requiredFlagsPlaintextNames
<1>2. StrongEnough(Created(flags, key, pw, logN).logN)
  OBVIOUS
<1> HIDE DEF flags
<1>3. /\ Blank(flags) \in [Version : Nat, FeatureFlags : SUBSET (knownFlags \cup {"Strange"}),
                           EncryptedKey : WrappedKey \cup {None}, logN : Nat]
      /\ Blank(flags).Version = CurrentVersion /\ Blank(flags).FeatureFlags = flags
  BY <1>1 DEF Blank, CurrentVersion
<1> QED
  BY <1>1, <1>2, <1>3, EncryptKeyFacts DEF Created, Sound, flags

\* A configuration that LoadAndDecrypt returns the key of is sound, and a sound one
\* is such for its own password.
LEMMA LoadIsSound ==
    ASSUME NEW file \in FileStates \cup {Absent}
    PROVE  /\ \A pw \in Passwords : LoadAndDecrypt(file, pw) =>
                  file # Absent /\ file.data \in ConfFile /\ Sound(file.data)
           /\ file # Absent /\ file.data # Torn /\ Sound(file.data) =>
                  LoadAndDecrypt(file, file.data.EncryptedKey.pw)
BY DEF FileStates, LoadAndDecrypt, Loads, Unwraps, Sound

\* A file's content and whether it is on disk.
LEMMA FileFacts ==
    ASSUME NEW d \in ConfFile \cup {Torn}, NEW b \in BOOLEAN
    PROVE  File(d, b) \in FileStates /\ File(d, b).data = d /\ File(d, b).synced = b
BY DEF File, FileStates

\* fsync changes nothing but that the file is on disk.
LEMMA SyncedFile ==
    ASSUME NEW f \in FileStates, NEW g, g = [f EXCEPT !.synced = TRUE]
    PROVE  g = File(f.data, TRUE)
BY DEF File, FileStates

\* Settings are those of a tree.
LEMMA SettingsType == ASSUME NEW c \in ConfFile PROVE Settings(c) \in TreeSettings
BY DEF ConfFile, WrappedKey, Settings, TreeSettings

\* The invariant holds for a new drive and for one that another program has made.
LEMMA InitIInv == Init => IInv
<1> SUFFICES ASSUME Init PROVE IInv
  OBVIOUS
<1>1. conf \in FileStates \cup {Absent} /\ (conf # Absent => conf.synced = TRUE)
  <2>1. CASE conf # Absent
    <3>1. PICK c \in Foreign : conf = File(c, TRUE)
      BY <2>1 DEF Init
    <3> QED
      BY <3>1, ForeignAssumption DEF File, FileStates
  <2> QED
    BY <2>1
<1>2. TypeOK
  BY <1>1 DEF Init, TypeOK
<1>3. Unclaimed /\ Claimed /\ ReplacedIsGood /\ WritingIsSound
  BY <1>1 DEF Init, Unclaimed, Claimed, ReplacedIsGood, WritingIsSound
<1> QED
  BY <1>2, <1>3 DEF IInv, Safe

\* Every step keeps the types.
LEMMA NextType ==
    ASSUME TypeOK, [Next]_vars
    PROVE  TypeOK'
<1> USE DistinctAssumption
<1>1. ASSUME NEW key \in Keys, NEW pw \in Passwords, NEW logN \in LogNs,
             NEW p \in BOOLEAN, NEW a \in BOOLEAN, NEW t \in BOOLEAN,
             Create(key, pw, NewFlags(p, a, t), logN)
      PROVE  TypeOK'
  <2>1. Created(NewFlags(p, a, t), key, pw, logN) \in ConfFile
    BY <1>1, CreatedFacts DEF Create, StartWrite
  <2> QED
    BY <1>1, <2>1 DEF Create, StartWrite, TypeOK
<1>2. ASSUME NEW old \in Passwords, NEW new \in Passwords, NEW logN \in LogNs,
             ChangePassword(old, new, logN)
      PROVE  TypeOK'
  <2>1. conf.data \in ConfFile
    BY <1>2, LoadIsSound DEF ChangePassword, TypeOK
  <2>2. conf.data.EncryptedKey.key \in Keys
    BY <2>1 DEF ConfFile, WrappedKey
  <2>3. EncryptKey(conf.data, conf.data.EncryptedKey.key, new, logN) \in ConfFile
    BY <2>1, <2>2, EncryptKeyFacts DEF ConfFile
  <2> QED
    BY <1>2, <2>2, <2>3 DEF ChangePassword, StartWrite, Learn, TypeOK
<1>3. CASE OpenTmp
  BY <1>3, FileFacts DEF OpenTmp, Goto, Abort, TypeOK
<1>4. CASE Write
  BY <1>4, FileFacts DEF Write, Goto, Abort, TypeOK
<1>5. CASE Sync
  BY <1>5 DEF Sync, Goto, FileStates, TypeOK
<1>6. CASE Close
  BY <1>6 DEF Close, Goto, Abort, TypeOK
<1>7. CASE Rename
  <2>1. cf.EncryptedKey.key \in Keys
    BY <1>7 DEF Rename, TypeOK, ConfFile, WrappedKey
  <2> QED
    BY <1>7, <2>1 DEF Rename, Learn, Abort, TypeOK
<1>8. ASSUME NEW pw \in Passwords, Mount(pw) PROVE TypeOK'
  <2>1. conf.data \in ConfFile
    BY <1>8, LoadIsSound DEF Mount, TypeOK
  <2>2. conf.data.EncryptedKey.key \in Keys
    BY <2>1 DEF ConfFile, WrappedKey
  <2> QED
    BY <1>8, <2>1, <2>2, SettingsType DEF Mount, Learn, TypeOK
<1>9. CASE Flush
  BY <1>9 DEF Flush, FileStates, TypeOK
<1>10. CASE Crash
  <2>1. \A f \in FileStates \cup {Absent} : Survivors(f) \subseteq FileStates \cup {Absent}
    <3> SUFFICES ASSUME NEW f \in FileStates PROVE Survivors(f) \subseteq FileStates
      BY DEF Survivors
    <3>1. f.data \in ConfFile \cup {Torn}
      BY DEF FileStates
    <3> QED
      BY <3>1, FileFacts DEF Survivors
  <2> QED
    BY <1>10, <2>1 DEF Crash, Abort, TypeOK
<1>11. CASE RemoveTmp
  BY <1>11 DEF RemoveTmp, TypeOK
<1>12. CASE UNCHANGED vars
  BY <1>12 DEF vars, TypeOK
<1> QED
  BY <1>1, <1>2, <1>3, <1>4, <1>5, <1>6, <1>7, <1>8, <1>9, <1>10, <1>11, <1>12 DEF Next

\* Every step keeps what the configuration and its copies owe, unless fsync fails.
LEMMA NextSafe ==
    ASSUME TypeOK, Safe, [Next]_vars, TypeOK', ~ syncFailed, ~ syncFailed'
    PROVE  Safe'
<1> USE DistinctAssumption DEF Safe
<1>1. ASSUME NEW key \in Keys, NEW pw \in Passwords, NEW logN \in LogNs,
             NEW p \in BOOLEAN, NEW a \in BOOLEAN, NEW t \in BOOLEAN,
             Create(key, pw, NewFlags(p, a, t), logN)
      PROVE  Safe'
  <2>1. Sound(Created(NewFlags(p, a, t), key, pw, logN))
    BY <1>1, CreatedFacts DEF Create, StartWrite
  <2> QED
    BY <1>1, <2>1 DEF Create, StartWrite, Unclaimed, Claimed, ReplacedIsGood, WritingIsSound
<1>2. ASSUME NEW old \in Passwords, NEW new \in Passwords, NEW logN \in LogNs,
             ChangePassword(old, new, logN)
      PROVE  Safe'
  <2> DEFINE c == conf.data
             r == EncryptKey(c, c.EncryptedKey.key, new, logN)
  <2>1. /\ conf # Absent /\ c \in ConfFile /\ Sound(c) /\ c # Torn
        /\ pc = "idle" /\ pc' = "open" /\ cf' = r
        /\ drive' = (IF drive = None THEN c.EncryptedKey.key ELSE drive)
        /\ StrongEnough(r.logN)
        /\ UNCHANGED <<conf, tmp, replaced, tree>>
    BY <1>2, LoadIsSound DEF ChangePassword, StartWrite, Learn, TypeOK
  <2>2. c.EncryptedKey.key \in Keys
    BY <2>1 DEF ConfFile, WrappedKey
  <2>3. /\ r.Version = c.Version /\ r.FeatureFlags = c.FeatureFlags
        /\ r.EncryptedKey.key = c.EncryptedKey.key
        /\ r.EncryptedKey.hkdf = ("HKDF" \in c.FeatureFlags)
    BY <2>1, <2>2, EncryptKeyFacts DEF ConfFile
  <2> HIDE DEF r
  <2>4. Sound(r) /\ Settings(r) = Settings(c)
    BY <2>1, <2>3 DEF Sound, Settings
  <2>5. conf.synced /\ drive' # None /\ drive' = c.EncryptedKey.key
    BY <2>1, <2>2 DEF Unclaimed, Claimed, Good, Home
  <2>6. Unclaimed' /\ Claimed'
    BY <2>1, <2>5 DEF Unclaimed, Claimed, Good, Home
  <2>7. ReplacedIsGood'
    BY <2>1, <2>5 DEF ReplacedIsGood, Unclaimed, Good, Home
  <2>8. WritingIsSound'
    BY <2>1, <2>4 DEF WritingIsSound, Home
  <2> QED
    BY <2>6, <2>7, <2>8
<1>3. CASE OpenTmp
  BY <1>3 DEF OpenTmp, Goto, Abort, Unclaimed, Claimed, ReplacedIsGood, WritingIsSound, Good, Home
<1>4. CASE Write
  BY <1>4, FileFacts DEF Write, Goto, Abort, Unclaimed, Claimed, ReplacedIsGood, WritingIsSound, Good, Home, TypeOK
<1>5. CASE Sync
  <2>1. /\ pc = "sync" /\ tmp' = [tmp EXCEPT !.synced = TRUE] /\ pc' = "close"
        /\ tmp \in FileStates /\ tmp.data = cf
        /\ UNCHANGED <<conf, replaced, cf, tree, drive>>
    BY <1>5 DEF Sync, Goto, TypeOK, WritingIsSound
  <2>2. tmp' = File(cf, TRUE)
    BY <2>1, SyncedFile
  <2> QED
    BY <2>1, <2>2 DEF Unclaimed, Claimed, ReplacedIsGood, WritingIsSound, Good, Home
<1>6. CASE Close
  BY <1>6 DEF Close, Goto, Abort, Unclaimed, Claimed, ReplacedIsGood, WritingIsSound, Good, Home
<1>7. CASE Rename
  <2>1. CASE /\ conf' = tmp /\ tmp' = Absent
             /\ replaced' \in IF replaced = None THEN {conf} ELSE {conf, replaced}
             /\ Learn(cf.EncryptedKey.key)
    <3>1. /\ pc = "rename" /\ cf \in ConfFile /\ Sound(cf)
          /\ pc' = "idle" /\ tree' = tree
      BY <1>7 DEF Rename, Abort, TypeOK, WritingIsSound
    <3>2. cf.EncryptedKey.key \in Keys
      BY <3>1 DEF ConfFile, WrappedKey
    <3>3. conf' \in FileStates /\ conf'.data = cf /\ conf'.synced = TRUE
      BY <2>1, <3>1, FileFacts DEF WritingIsSound
    <3>4. drive' # None /\ drive' = cf.EncryptedKey.key
      <4>1. CASE drive = None
        BY <2>1, <3>2, <4>1 DEF Learn
      <4>2. CASE drive # None
        <5>1. Settings(cf) = Settings(Home.data) /\ Home.data.EncryptedKey.key = drive
          BY <3>1, <4>2 DEF WritingIsSound, Claimed, Good
        <5> QED
          BY <2>1, <4>2, <5>1 DEF Learn, Settings
      <4> QED
        BY <4>1, <4>2
    <3>5. drive # None => drive' = drive /\ Settings(cf) = Settings(Home.data) /\ conf = Home
      BY <2>1, <3>1 DEF Learn, WritingIsSound, Claimed, Home
    <3>6. Home' = conf' /\ Good(Home)' /\ Unclaimed'
      BY <3>1, <3>3, <3>4 DEF Home, Good, Unclaimed
    <3>7. Claimed'
      BY <3>1, <3>3, <3>5, <3>6 DEF Claimed, Unclaimed
    <3>8. ReplacedIsGood'
      BY <2>1, <3>1, <3>3, <3>5, <3>6 DEF ReplacedIsGood, Unclaimed, Claimed, Good
    <3>9. WritingIsSound'
      BY <3>1 DEF WritingIsSound
    <3> QED
      BY <3>6, <3>7, <3>8, <3>9
  <2>2. CASE UNCHANGED <<conf, tmp, replaced, drive>>
    BY <1>7, <2>2 DEF Rename, Abort, Unclaimed, Claimed, ReplacedIsGood, WritingIsSound, Good, Home
  <2> QED
    BY <1>7, <2>1, <2>2 DEF Rename
<1>8. ASSUME NEW pw \in Passwords, Mount(pw) PROVE Safe'
  <2>1. /\ conf # Absent /\ conf.data \in ConfFile /\ Sound(conf.data) /\ conf.data # Torn
        /\ tree' = Settings(conf.data)
        /\ drive' = (IF drive = None THEN conf.data.EncryptedKey.key ELSE drive)
        /\ UNCHANGED <<conf, tmp, replaced, pc, cf>>
    BY <1>8, LoadIsSound DEF Mount, Learn, TypeOK
  <2>2. conf.data.EncryptedKey.key \in Keys
    BY <2>1 DEF ConfFile, WrappedKey
  <2>3. conf.synced /\ drive' # None /\ drive' = conf.data.EncryptedKey.key
    BY <2>1, <2>2 DEF Unclaimed, Claimed, Good, Home
  <2>4. Unclaimed' /\ Claimed'
    BY <2>1, <2>3 DEF Unclaimed, Claimed, Good, Home
  <2>5. ReplacedIsGood' /\ WritingIsSound'
    BY <2>1, <2>3 DEF ReplacedIsGood, WritingIsSound, Unclaimed, Good, Home
  <2> QED
    BY <2>4, <2>5
<1>9. CASE Flush
  <2>1. /\ conf' = Absent <=> conf = Absent
        /\ conf # Absent => conf'.data = conf.data /\ conf'.synced = TRUE
        /\ tmp' = Absent <=> tmp = Absent
        /\ tmp # Absent => tmp'.data = tmp.data /\ tmp'.synced = TRUE
        /\ replaced' = None
        /\ UNCHANGED <<pc, cf, tree, drive>>
    BY <1>9 DEF Flush, TypeOK, FileStates
  <2>2. pc \in {"close", "rename"} => tmp' = File(cf, TRUE)
    <3>1. pc \in {"close", "rename"} => tmp \in FileStates /\ tmp.data = cf
      BY FileFacts DEF WritingIsSound, TypeOK
    <3> QED
      BY <1>9, <3>1, SyncedFile DEF Flush
  <2>3. drive # None => Home # Absent /\ Home' # Absent /\ Home'.data = Home.data /\ Home'.synced = TRUE
    BY <2>1 DEF Home, Claimed, Good
  <2>4. Unclaimed' /\ Claimed'
    BY <2>1, <2>3 DEF Unclaimed, Claimed, Good
  <2>5. ReplacedIsGood' /\ WritingIsSound'
    BY <2>1, <2>2, <2>3 DEF ReplacedIsGood, WritingIsSound
  <2> QED
    BY <2>4, <2>5
<1>10. CASE Crash
  <2>1. replaced' = None /\ pc' = "idle" /\ UNCHANGED <<tree, drive>>
    BY <1>10 DEF Crash, Abort
  <2>2. \A f : f = Absent \/ f.synced => Survivors(f) = {f}
    BY DEF Survivors
  <2>3. CASE drive = None
    <3>1. conf = Absent \/ conf.synced
      BY <2>3 DEF Unclaimed
    <3>2. conf' = conf
      BY <1>10, <2>2, <2>3, <3>1 DEF Crash, Unclaimed
    <3> QED
      BY <2>1, <2>3, <3>2 DEF Unclaimed, Claimed, ReplacedIsGood, WritingIsSound
  <2>4. CASE drive # None
    <3>1. /\ Good(Home)
          /\ conf # Absent => conf.synced
          /\ conf = Absent => tmp.synced /\ replaced = None
      BY <2>4 DEF Claimed, Home, Good
    <3>2. /\ Home' # Absent /\ Home'.data # Torn
          /\ Home'.synced /\ Sound(Home'.data)
          /\ Settings(Home'.data) = Settings(Home.data)
          /\ Home'.data.EncryptedKey.key = drive
      <4>1. CASE conf' \in Survivors(conf) /\ tmp' \in Survivors(tmp)
        BY <2>2, <3>1, <4>1 DEF Home, Good
      <4>2. CASE replaced # None /\ conf' \in Survivors(replaced) /\ tmp' \in Survivors(conf)
        <5>1. conf' = replaced /\ tmp' = conf /\ conf # Absent
          BY <2>2, <3>1, <4>2 DEF ReplacedIsGood, Good
        <5> QED
          BY <3>1, <4>2, <5>1 DEF Home, Good, ReplacedIsGood
      <4> QED
        BY <1>10, <4>1, <4>2 DEF Crash
    <3> QED
      BY <2>1, <2>4, <3>2 DEF Unclaimed, Claimed, ReplacedIsGood, WritingIsSound, Good
  <2> QED
    BY <2>3, <2>4
<1>11. CASE RemoveTmp
  BY <1>11 DEF RemoveTmp, Unclaimed, Claimed, ReplacedIsGood, WritingIsSound, Good, Home
<1>12. CASE UNCHANGED vars
  BY <1>12 DEF vars, Unclaimed, Claimed, ReplacedIsGood, WritingIsSound, Good, Home
<1> QED
  BY <1>1, <1>2, <1>3, <1>4, <1>5, <1>6, <1>7, <1>8, <1>9, <1>10, <1>11, <1>12 DEF Next

-----------------------------------------------------------------------------
\* The inductive invariant holds throughout.
THEOREM Invariance == Spec => []IInv
<1>1. IInv /\ [Next]_vars => IInv'
  <2> SUFFICES ASSUME IInv, [Next]_vars PROVE IInv'
    OBVIOUS
  <2>1. TypeOK'
    BY NextType DEF IInv
  <2>2. ~ syncFailed' => ~ syncFailed
    BY DEF IInv, TypeOK, Next, vars, Create, ChangePassword, StartWrite, OpenTmp, Write, Sync,
       Close, Rename, Mount, Flush, Crash, RemoveTmp
  <2> QED
    BY <2>1, <2>2, NextSafe DEF IInv
<1> QED
  BY <1>1, InitIInv, PTL DEF Spec

\* "a password change atomically replaces the file": whatever WriteFile, crashes
\* and renames that come undone interleave to, the master key is on disk.
THEOREM MasterKeySurvives == Spec => []KeySurvives
<1>1. IInv => KeySurvives
  BY DEF IInv, Safe, Claimed, Good, Home, KeySurvives
<1> QED
  BY <1>1, Invariance, PTL

\* Load accepts what Create and EncryptKey have written, and the password unwraps
\* the key, for all flags and scrypt costs that get past validateParams.
THEOREM ConfigIsReadable == Spec => []WrittenIsReadable
<1>1. IInv => WrittenIsReadable
  BY LoadIsSound DEF IInv, Safe, Claimed, Good, Home, TypeOK, WrittenIsReadable
<1> QED
  BY <1>1, Invariance, PTL

\* A FileTree that Init has mounted keeps the key and the settings of its drive.
THEOREM TreesStayRight == Spec => []TreeMatchesDrive
<1>1. IInv => TreeMatchesDrive
  BY DEF IInv, Safe, Unclaimed, Claimed, Home, TreeMatchesDrive
<1> QED
  BY <1>1, Invariance, PTL

====
