---------------------------- MODULE MCConfigFile ----------------------------
(***************************************************************************)
(* Drives that are new, or were made by other versions of gocryptfs with   *)
(* all combinations of the flags that matter to Load and to mounting.      *)
(***************************************************************************)
EXTENDS ConfigFile

CONSTANTS m1, m2, q1, q2

ForeignFlags == {"PlaintextNames", "DirIV", "EMENames", "GCMIV128", "HKDF", "Strange"}

MCForeign ==
    {[Version |-> v, FeatureFlags |-> flags,
      EncryptedKey |-> [key |-> m1, pw |-> q1, hkdf |-> "HKDF" \in flags], logN |-> n] :
        v \in {1, 2}, flags \in SUBSET ForeignFlags, n \in {9, 10}}

====
