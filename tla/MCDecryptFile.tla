---------------------------- MODULE MCDecryptFile ----------------------------
(***************************************************************************)
(* DecryptFile on small files: every size from 0 to MaxSize with every     *)
(* combination of blocks, and larger ones for what needs several blocks.   *)
(***************************************************************************)
EXTENDS DecryptFile, TLC

CONSTANTS MaxSize

CountOf(size) == IF size <= HeaderLen THEN 0 ELSE CipherOffToBlockNo(size - 1) + 1

LastLen(size) == size - BlockNoToCipherOff(CountOf(size) - 1)

\* EncryptBlock seals no empty plaintext, so an "own" block is longer than its
\* overhead
Possible(size, kinds) ==
    kinds # <<>> /\ kinds[Len(kinds)] = "own" => LastLen(size) > BlockOverhead

Header(version, id) == [version |-> version, id |-> id]

\* as RandomHeader makes them, of another version, and overwritten with zeros
Headers == {Header(CurrentVersion, "random"), Header(1, "random"), Header(CurrentVersion, "zeros")}

FilesOfSize(size, headers, kindSet) ==
    {[size |-> size, header |-> h, kinds |-> k] :
        h \in headers,
        k \in {k \in [1..CountOf(size) -> kindSet] : Possible(size, k)}}

\* every file of up to MaxSize bytes
SmallFiles ==
    UNION {FilesOfSize(n, Headers, {"own", "zeros", "alien"}) : n \in 0..MaxSize}

\* One that fills the pooled buffer and starts with a hole, one that outgrows it,
\* and two that turn out damaged after a block was written: by a foreign block,
\* and by a run of zeros too short for a hole.
LargeFiles ==
    {[size |-> PlainSizeToCipherSize(n), header |-> Header(CurrentVersion, "random"), kinds |-> k] :
        <<n, k>> \in {<<pReqSize, <<"zeros", "own">>>>,
                      <<pReqSize + 1, <<"own", "own", "own">>>>,
                      <<pReqSize, <<"own", "alien">>>>,
                      <<pReqSize - 1, <<"own", "zeros">>>>}}

MCFiles == SmallFiles \cup LargeFiles

\* Readers are interchangeable; arrays are not, because of the CHOOSE in Fresh.
Symmetry == Permutations(Readers)

====
