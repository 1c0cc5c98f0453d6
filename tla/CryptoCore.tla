----------------------------- MODULE CryptoCore -----------------------------
(***************************************************************************)
(* Packages cryptocore, siv_aead and stupidgcm: how a key becomes the two  *)
(* ciphers of a CryptoCore, and which arrays hold key material meanwhile   *)
(* and afterwards.                                                         *)
(*                                                                         *)
(* The ciphers of the Go library expand a key when they are made; sivAead  *)
(* keeps a reference to an array and reads it at every Seal and Open.  A   *)
(* key is known by how it was derived.                                     *)
(***************************************************************************)
EXTENDS Naturals

CONSTANTS
    masterkey,      \* the bytes that New is given: master key or scrypt hash
    Zero,           \* an array of zeros, or none
    IVBitLens       \* the lengths of nonces that New is called with

VARIABLES
    mem,            \* array -> the key in it
    core            \* the CryptoCore: its state and ciphers

coreVars == <<mem, core>>

Backends == {"OpenSSL", "GoGCM", "AESSIV", "other"}

\* New's parameter and local variables, and sivAead's private copy
Arrays == {"key", "emeKey", "gcmKey", "key64", "sivAead.key"}

NoCore == [state |-> "none"]

CoreInit ==
    /\ mem = [a \in Arrays |-> IF a = "key" THEN masterkey ELSE Zero]
    /\ core = NoCore

hkdfDerive(key, info) == <<"HKDF-SHA256", key, info>>

\* the key of the EME cipher for names
emeKey(key, useHKDF) == IF useHKDF THEN hkdfDerive(key, "EMENames") ELSE <<"copy", key>>

\* the key of the AEAD cipher for contents
aeadKey(key, backend, useHKDF) ==
    IF backend = "AESSIV"
    THEN IF useHKDF THEN hkdfDerive(key, "SIVContent") ELSE <<"SHA512", key>>
    ELSE IF useHKDF THEN hkdfDerive(key, "GCMContent") ELSE <<"copy", key>>

\* New returns; if not, it panics or, in stupidgcm.New, ends the process
Supported(backend, IVBitLen) ==
    \/ backend = "GoGCM"
    \/ backend = "AESSIV" /\ IVBitLen \div 8 = 16

\* Mutation of new2: no private copy
Mut_new2(key64) == [ref |-> "key64", sivMem |-> Zero]

\* siv_aead.New: the array that the cipher refers to, and its private copy
new2(key64) == [ref |-> "sivAead.key", sivMem |-> key64]

\* New; it zeroes the keys it derived, and leaves its caller's alone
NewCore(backend, IVBitLen, useHKDF) ==
    LET k   == aeadKey(mem["key"], backend, useHKDF)
        siv == new2(k)
    IN
    /\ core = NoCore
    /\ IF ~ Supported(backend, IVBitLen)
       THEN core' = [state |-> "failed"] /\ UNCHANGED mem
       ELSE /\ core' = [state |-> "live", backend |-> backend, useHKDF |-> useHKDF,
                        IVLen |-> IVBitLen \div 8,
                        EMECipher |-> emeKey(mem["key"], useHKDF),
                        AEADCipher |-> IF backend = "AESSIV" THEN siv.ref ELSE k]
            /\ mem' = [mem EXCEPT !["emeKey"] = Zero, !["gcmKey"] = Zero, !["key64"] = Zero,
                                  !["sivAead.key"] = IF backend = "AESSIV" THEN siv.sivMem ELSE Zero]

\* the key with which the AEAD cipher seals and opens
KeyInUse == IF core.backend = "AESSIV" THEN mem[core.AEADCipher] ELSE core.AEADCipher

\* the caller overwrites the key it has passed: Init, DecryptMasterKey, EncryptKey
PurgeKey ==
    /\ core # NoCore
    /\ mem' = [mem EXCEPT !["key"] = Zero]
    /\ UNCHANGED core

\* Wipe, also by way of ContentEnc.Wipe
Wipe ==
    /\ core.state = "live"
    /\ core' = [state |-> "wiped"]
    /\ mem' = IF core.backend = "AESSIV" THEN [mem EXCEPT ![core.AEADCipher] = Zero] ELSE mem

CoreNext ==
    \/ \E b \in Backends, n \in IVBitLens, useHKDF \in BOOLEAN : NewCore(b, n, useHKDF)
    \/ PurgeKey \/ Wipe

-----------------------------------------------------------------------------
\* A CryptoCore that is in use goes on to encrypt with the keys of its drive, also
\* when New has zeroed the keys it derived and the caller the one it passed; and
\* once both the caller has purged its key and Wipe was called, no array holds
\* key material.
KeysLiveAsLongAsCiphers ==
    /\ core.state = "live" =>
          /\ KeyInUse = aeadKey(masterkey, core.backend, core.useHKDF)
          /\ core.EMECipher = emeKey(masterkey, core.useHKDF)
    /\ core.state = "wiped" /\ mem["key"] = Zero => \A a \in Arrays : mem[a] = Zero

====
