---------------------------- MODULE NameTransform ----------------------------
(***************************************************************************)
(* Package nametransform: file names are padded to whole cipher blocks,    *)
(* encrypted with the IV of their directory and written in base64.         *)
(* A name is the sequence of its bytes.  A ciphertext name is whether it   *)
(* starts with longNamePrefix and ends with LongNameSuffix, whether it     *)
(* decodes as base64, the bytes it decodes to or is the hash of, and what  *)
(* decoding ignores of it (loose).  The EME cipher is a parameter: for     *)
(* each IV a permutation of the byte sequences of each length.             *)
(***************************************************************************)
EXTENDS Naturals, Sequences, SequencesExt

CONSTANTS
    BlockSize,          \* aes.BlockSize, 16
    Slash, Dot,         \* the bytes of "/" and "."
    NameMax,            \* longest name that a file can have (255)
    HashLen,            \* length of the prefix and a hash in base64 (63 or 62)
    longNames, raw64,   \* feature flags: hash long names, base64 without "="
    emeEncrypt(_, _),   \* IV, bytes
    emeDecrypt(_, _)

ASSUME BlockAssumption == BlockSize \in Nat \ {0}

ASSUME LongNameAssumption ==
    /\ NameMax \in Nat /\ HashLen \in Nat /\ HashLen <= NameMax
    /\ longNames \in BOOLEAN /\ raw64 \in BOOLEAN

Fail == [err |-> TRUE, bytes |-> <<>>]
Ok(bytes) == [err |-> FALSE, bytes |-> bytes]

\* base64.Encoding: nothing in what it writes is ignored on reading (loose is 0)
EncodeToString(bytes) ==
    [prefix |-> FALSE, suffix |-> FALSE, b64 |-> TRUE, bin |-> bytes, loose |-> 0]

\* ... which is not Strict(): line breaks, and the bits of the last digit that fill no
\* byte, may be anything
DecodeString(cipherName) == IF cipherName.b64 THEN Ok(cipherName.bin) ELSE Fail

-----------------------------------------------------------------------------
\* Mutation of pad16: an aligned name is not padded
Mut_pad16(orig) ==
    LET padLen == (BlockSize - (Len(orig) % BlockSize)) % BlockSize
    IN  orig \o [i \in 1..padLen |-> padLen]

\* of a non-empty name: it panics otherwise
pad16(orig) ==
    LET padLen == BlockSize - (Len(orig) % BlockSize)
    IN  orig \o [i \in 1..padLen |-> padLen]

\* Mutation of unPad16: only the last byte is looked at
Mut_unPad16(padded) ==
    LET oldLen == Len(padded)
        padLen == padded[oldLen]
    IN  IF \/ oldLen = 0
           \/ oldLen % BlockSize # 0
           \/ padLen = 0 \/ padLen > BlockSize \/ padLen >= oldLen
        THEN Fail
        ELSE Ok(SubSeq(padded, 1, oldLen - padLen))

unPad16(padded) ==
    LET oldLen == Len(padded)
        padLen == padded[oldLen]
    IN  IF \/ oldLen = 0
           \/ oldLen % BlockSize # 0
           \/ padLen = 0 \/ padLen > BlockSize \/ padLen >= oldLen
           \/ \E i \in (oldLen - padLen + 1)..oldLen : padded[i] # padLen
        THEN Fail
        ELSE Ok(SubSeq(padded, 1, oldLen - padLen))

\* Mutation of DecryptName: ".." is let through
Mut_DecryptName(cipherName, iv) ==
    LET bin   == DecodeString(cipherName)
        plain == unPad16(emeDecrypt(iv, bin.bytes))
    IN  IF \/ bin.err
           \/ bin.bytes = <<>>
           \/ Len(bin.bytes) % BlockSize # 0
           \/ plain.err
           \/ 0 \in Range(plain.bytes) \/ Slash \in Range(plain.bytes)
           \/ plain.bytes = <<Dot>>
        THEN Fail
        ELSE plain

DecryptName(cipherName, iv) ==
    LET bin   == DecodeString(cipherName)
        plain == unPad16(emeDecrypt(iv, bin.bytes))
    IN  IF \/ bin.err
           \/ bin.bytes = <<>>
           \/ Len(bin.bytes) % BlockSize # 0
           \/ plain.err
           \/ 0 \in Range(plain.bytes) \/ Slash \in Range(plain.bytes)
           \/ plain.bytes \in {<<Dot>>, <<Dot, Dot>>}
        THEN Fail
        ELSE plain

EncryptName(plainName, iv) == EncodeToString(emeEncrypt(iv, pad16(plainName)))

-----------------------------------------------------------------------------
\* Long names: a ciphertext name that is too long is stored in a file "hash.name",
\* and the content of the file in "hash".  SHA-256 is taken to be one-to-one.

\* "." is in the prefix and the suffix, and not in the alphabet of base64
HashLongName(cName) == [cName EXCEPT !.prefix = TRUE, !.b64 = FALSE]

NameType(cName) ==
    IF ~ cName.prefix THEN "LongNameNone"
    ELSE IF cName.suffix THEN "LongNameFilename"
    ELSE "LongNameContent"

\* the number of characters of a ciphertext name as EncodeToString writes it
NameLen(cName) ==
    LET n == Len(cName.bin)
    IN  IF cName.prefix THEN HashLen
        ELSE IF raw64 THEN (4 * n + 2) \div 3
        ELSE 4 * ((n + 2) \div 3)

\* Mutation of EncryptAndHashName: the length of the plaintext name decides
Mut_EncryptAndHashName(name, iv) ==
    LET cName == EncryptName(name, iv)
    IN  IF Len(name) > NameMax THEN [err |-> TRUE]
        ELSE [err |-> FALSE, name |-> cName]

\* the name a file is stored under, or ENAMETOOLONG
EncryptAndHashName(name, iv) ==
    LET cName == EncryptName(name, iv)
    IN  IF Len(name) > NameMax THEN [err |-> TRUE]
        ELSE [err |-> FALSE,
              name |-> IF longNames /\ NameLen(cName) > NameMax THEN HashLongName(cName) ELSE cName]

====
