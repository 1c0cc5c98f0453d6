------------------------------ MODULE MCContent ------------------------------
(***************************************************************************)
(* Both directions of package contentenc: readers in decryptFile, or else  *)
(* writers in EncryptBlocks.  They have no state in common, so each        *)
(* behaviour has only the one or the other.                                *)
(***************************************************************************)
EXTENDS MCDecryptFile, EncryptBlocks

CONSTANTS wr1, wr2

\* a write that one goroutine encrypts and one that two share, the second with a
\* block left over
MCPlaintexts == {<<plainBS>>, <<plainBS, plainBS, 1>>}

NoReader == file = [r \in Readers |-> NoFile] /\ Pooled = {} /\ Owned = {} /\ panicked = "no"

MCInit == Init /\ EncryptInit

MCNext ==
    \/ Next /\ calls = 0 /\ UNCHANGED encryptVars
    \/ EncryptNext /\ NoReader /\ UNCHANGED vars

MCSpec == MCInit /\ [][MCNext]_<<vars, encryptVars>>

MCSymmetry == Symmetry \cup Permutations(Writers)

====
