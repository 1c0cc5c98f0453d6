---------------------------- MODULE FormatsProofs ----------------------------
(***************************************************************************)
(* Proofs about the formats, for any sizes of blocks, headers and names:   *)
(* the sizes of files, their blocks in any range of bytes and what a write *)
(* makes of them, the padding and encryption of names with any cipher that *)
(* is a permutation, and the lives of the keys.                            *)
(***************************************************************************)
EXTENDS MCFormats, FiniteSetTheorems, WellFoundedInduction, TLAPS

\* What the enumerated inputs are.
TypeOK ==
    /\ offset \in Nat /\ length \in Nat
    /\ bytes \in Seq(Bytes) /\ iv \in IVs /\ b64 \in BOOLEAN /\ loose \in {0, 1}

\* What the arrays hold, by the state of the CryptoCore.
KeyState ==
    /\ mem = [a \in Arrays |-> mem[a]]
    /\ \A a \in {"emeKey", "gcmKey", "key64"} : mem[a] = Zero
    /\ core = NoCore => mem["key"] = masterkey
    /\ core = NoCore \/ core.state \in {"live", "wiped", "failed"}
    /\ core.state = "live" =>
          /\ core.EMECipher = emeKey(masterkey, core.useHKDF)
          /\ IF core.backend = "AESSIV"
             THEN /\ core.AEADCipher = "sivAead.key"
                  /\ mem["sivAead.key"] = aeadKey(masterkey, core.backend, core.useHKDF)
             ELSE /\ core.AEADCipher = aeadKey(masterkey, core.backend, core.useHKDF)
                  /\ mem["sivAead.key"] = Zero
    /\ core.state # "live" => mem["sivAead.key"] = Zero

IInv == TypeOK /\ KeyState

\* The cipher for names is, for each IV, a permutation that keeps the length.
EMEIsPermutation ==
    \A v \in IVs : \A s \in Seq(Bytes) :
        /\ emeEncrypt(v, s) \in Seq(Bytes) /\ Len(emeEncrypt(v, s)) = Len(s)
        /\ emeDecrypt(v, s) \in Seq(Bytes) /\ Len(emeDecrypt(v, s)) = Len(s)
        /\ emeDecrypt(v, emeEncrypt(v, s)) = s
        /\ emeEncrypt(v, emeDecrypt(v, s)) = s

-----------------------------------------------------------------------------
\* Quotient and remainder are what they are known by.
LEMMA DivMod ==
    ASSUME NEW a \in Nat, NEW b \in Nat \ {0}
    PROVE  /\ a \div b \in Nat /\ a % b \in 0..(b - 1)
           /\ a = b * (a \div b) + (a % b)
OBVIOUS

LEMMA DivModUnique ==
    ASSUME NEW b \in Nat \ {0}, NEW q \in Nat, NEW r \in 0..(b - 1)
    PROVE  (b * q + r) \div b = q /\ (b * q + r) % b = r
OBVIOUS

-----------------------------------------------------------------------------
\* The size of the ciphertext of n bytes, and back.
LEMMA SizesInvert ==
    ASSUME NEW n \in Nat \ {0}
    PROVE  /\ CipherSizeToPlainSize(PlainSizeToCipherSize(n)) = n
           /\ PlainSizeToCipherSize(n) = CipherPosition(n - 1) + 1 + AuthTagLen
<1> DEFINE k == (n - 1) \div plainBS
           r == (n - 1) % plainBS
           o == IVLen + AuthTagLen
           c == PlainSizeToCipherSize(n)
<1>1. o \in Nat \ {0} /\ cipherBS = plainBS + o /\ BlockOverhead = o /\ cipherBS \in Nat \ {0}
  BY LayoutAssumption DEF cipherBS, BlockOverhead
<1>2. k \in Nat /\ r \in 0..(plainBS - 1) /\ n - 1 = plainBS * k + r
  <2>1. n - 1 \in Nat
    OBVIOUS
  <2> QED
    BY <2>1, DivMod, LayoutAssumption
<1>3. c = n + o * (k + 1) + HeaderLen
  BY <1>1 DEF PlainSizeToCipherSize, PlainOffToBlockNo
<1>4. CipherPosition(n - 1) = HeaderLen + k * cipherBS + IVLen + r
  BY DEF CipherPosition
<1> HIDE DEF k, r, o, c
<1>5. c - 1 - HeaderLen = cipherBS * k + (r + o)
  <2>1. c - 1 - HeaderLen = (n - 1) + (o * k + o)
    BY <1>1, <1>2, <1>3, LayoutAssumption
  <2>2. cipherBS * k = plainBS * k + o * k
    BY <1>1, <1>2, LayoutAssumption
  <2>3. plainBS * k \in Nat /\ o * k \in Nat
    BY <1>1, <1>2, LayoutAssumption
  <2> QED
    BY <1>1, <1>2, <2>1, <2>2, <2>3, LayoutAssumption
<1>6. CipherOffToBlockNo(c - 1) = k
  <2>1. r + o \in 0..(cipherBS - 1)
    BY <1>1, <1>2, LayoutAssumption
  <2>2. (cipherBS * k + (r + o)) \div cipherBS = k
    BY <1>1, <1>2, <2>1, DivModUnique
  <2> QED
    BY <1>5, <2>2 DEF CipherOffToBlockNo
<1>7. o * (k + 1) \in Nat /\ o * (k + 1) = o * k + o /\ o * k \in Nat
  BY <1>1, <1>2
<1>8. CipherSizeToPlainSize(c) = n
  <2>1. BlockOverhead * (CipherOffToBlockNo(c - 1) + 1) + HeaderLen = o * (k + 1) + HeaderLen
    BY <1>1, <1>6
  <2>2. c \in Nat /\ ~ (c <= HeaderLen) /\ ~ (o * (k + 1) + HeaderLen > c)
    BY <1>3, <1>7, LayoutAssumption
  <2>3. c - (o * (k + 1) + HeaderLen) = n
    BY <1>3, <1>7, LayoutAssumption
  <2> QED
    BY <2>1, <2>2, <2>3 DEF CipherSizeToPlainSize
<1>9. c = CipherPosition(n - 1) + 1 + AuthTagLen
  <2>1. k * cipherBS = cipherBS * k /\ cipherBS * k \in Nat
    BY <1>1, <1>2
  <2>2. c = cipherBS * k + (r + o) + 1 + HeaderLen
    BY <1>1, <1>2, <1>3, <1>5, <1>7, <2>1, LayoutAssumption
  <2> QED
    BY <1>2, <1>4, <2>1, <2>2, LayoutAssumption DEF o
<1> QED
  BY <1>8, <1>9 DEF c

-----------------------------------------------------------------------------
(***************************************************************************)
(* Ranges.  ExplodePlainRange and ExplodeCipherRange are recursive         *)
(* functions; both are Blocks below, which solves the equation of their    *)
(* loops (CutExists) and is its only solution (CutIsUnique, by the last    *)
(* offset at which another one could differ).                              *)
(***************************************************************************)
\* A set of natural numbers has a least member.
LEMMA LeastNat ==
    ASSUME NEW T, T \subseteq Nat, T # {}
    PROVE  \E m \in T : \A k \in T : m <= k
<1> DEFINE R == {ss \in Nat \X Nat : ss[1] < ss[2]}
<1>1. IsWellFoundedOn(R, Nat)
  BY NatLessThanWellFounded, Zenon DEF OpToRel
<1>2. PICK x \in T : \A y \in T : ~ (<<y, x>> \in R)
  BY <1>1, WFMin
<1>3. \A y \in T : y < x => <<y, x>> \in R
  OBVIOUS
<1>4. \A y \in T : ~ (y < x)
  BY <1>2, <1>3
<1>5. x \in Nat /\ \A y \in T : y \in Nat
  OBVIOUS
<1> HIDE DEF R
<1> QED
  BY <1>4, <1>5

-----------------------------------------------------------------------------
\* The IntraBlock of a range of l bytes at o, for blocks of B bytes behind h bytes.
BlockAt(h, B, o, l) ==
    LET no   == (o - h) \div B
        skip == o - (h + no * B)
    IN  [BlockNo |-> no, Skip |-> skip, Length |-> MinUint64(l, B - skip)]

\* Where the i-th block of a range from o begins, and all of those up to end.
BlockStart(h, B, o, i) == IF i = 1 THEN o ELSE h + ((o - h) \div B + (i - 1)) * B

BlockCount(h, B, o, end) ==
    IF o = end THEN 0 ELSE ((end - 1 - h) \div B) - ((o - h) \div B) + 1

Blocks(h, B, o, end) ==
    [i \in 1..BlockCount(h, B, o, end) |->
        BlockAt(h, B, BlockStart(h, B, o, i), end - BlockStart(h, B, o, i))]

\* The equation of the loops.
CutsUp(h, B, end, f) ==
    f = [o \in 0..end |->
            IF o = end THEN <<>>
            ELSE <<BlockAt(h, B, o, end - o)>> \o f[o + BlockAt(h, B, o, end - o).Length]]

IntraBlock == [BlockNo : Int, Skip : Int, Length : Int]

\* Offsets may be in the header: their distance from the blocks is negative.
LEMMA DivModInt ==
    ASSUME NEW a \in Int, NEW b \in Nat \ {0}
    PROVE  /\ a \div b \in Int /\ a % b \in 0..(b - 1)
           /\ a = b * (a \div b) + (a % b)
OBVIOUS

LEMMA DivInt ==
    ASSUME NEW b \in Nat \ {0}, NEW q \in Int, NEW r \in 0..(b - 1)
    PROVE  (b * q + r) \div b = q
OBVIOUS

\* What BlockAt is, without quotients.
IsBlock(h, B, o, l, no, r, n) ==
    /\ BlockAt(h, B, o, l) = [BlockNo |-> no, Skip |-> r, Length |-> n]
    /\ no = (o - h) \div B
    /\ o = h + B * no + r
    /\ n <= B - r
    /\ n = l \/ n = B - r

LEMMA BlockFacts ==
    ASSUME NEW h \in Nat, NEW B \in Nat \ {0}, NEW o \in Int, NEW l \in Nat \ {0}
    PROVE  \E no \in Int, r \in 0..(B - 1), n \in 1..l : IsBlock(h, B, o, l, no, r, n)
<1> DEFINE no == (o - h) \div B
           r == (o - h) % B
<1>0. o - h \in Int
  OBVIOUS
<1>1. no \in Int /\ r \in 0..(B - 1) /\ o - h = B * no + r
  BY <1>0, DivModInt
<1>2. no * B = B * no /\ B * no \in Int
  BY <1>1
<1> HIDE DEF no, r
<1>3. o - (h + no * B) = r
  BY <1>1, <1>2
<1>4. BlockAt(h, B, o, l) = [BlockNo |-> no, Skip |-> r, Length |-> MinUint64(l, B - r)]
  BY <1>3 DEF BlockAt, no
<1>5. MinUint64(l, B - r) \in 1..l /\ MinUint64(l, B - r) <= B - r
      /\ (MinUint64(l, B - r) = l \/ MinUint64(l, B - r) = B - r)
  BY <1>1 DEF MinUint64
<1>6. o = h + B * no + r
  BY <1>1, <1>2
<1>7. no = (o - h) \div B
  BY DEF no
<1> DEFINE n == MinUint64(l, B - r)
<1> HIDE DEF n
<1> QED
  BY <1>1, <1>4, <1>5, <1>6, <1>7 DEF n, IsBlock

LEMMA OneAndRest ==
    ASSUME NEW S, NEW x \in S, NEW t \in Seq(S)
    PROVE  <<x>> \o t = [i \in 1..(Len(t) + 1) |-> IF i = 1 THEN x ELSE t[i - 1]]
OBVIOUS

\* The number of a block in the middle.
LEMMA StartFacts ==
    ASSUME NEW h \in Nat, NEW B \in Nat \ {0}, NEW o \in Int, NEW i \in Nat \ {0}
    PROVE  /\ BlockStart(h, B, o, i) \in Int
           /\ (BlockStart(h, B, o, i) - h) \div B = ((o - h) \div B) + (i - 1)
<1> DEFINE no == (o - h) \div B
           k == no + (i - 1)
<1>1. no \in Int /\ k \in Int
  BY DivModInt
<1>2. k * B = B * k /\ B * k \in Int /\ (B * k + 0) \div B = k
  BY <1>1, DivInt
<1> HIDE DEF no
<1>3. CASE i = 1
  BY <1>1, <1>3 DEF BlockStart, no
<1>4. CASE i # 1
  <2>1. BlockStart(h, B, o, i) = h + k * B
    BY <1>4 DEF BlockStart, no
  <2> HIDE DEF k
  <2>2. BlockStart(h, B, o, i) - h = B * k + 0
    BY <1>1, <1>2, <2>1
  <2>3. BlockStart(h, B, o, i) \in Int
    BY <1>1, <1>2, <2>1
  <2> QED
    BY <1>2, <2>2, <2>3 DEF k, no
<1> QED
  BY <1>3, <1>4

LEMMA DivMonotone ==
    ASSUME NEW b \in Nat \ {0}, NEW a \in Int, NEW c \in Int, a <= c
    PROVE  a \div b <= c \div b
<1> DEFINE q == a \div b
           p == c \div b
<1>1. q \in Int /\ p \in Int /\ b * q <= a /\ c < b * p + b
  BY DivModInt
<1>2. b * q < b * (p + 1)
  BY <1>1
<1> HIDE DEF q, p
<1>3. q < p + 1
  BY <1>1, <1>2
<1> QED
  BY <1>1, <1>3 DEF q, p

LEMMA BlockType ==
    ASSUME NEW h \in Nat, NEW B \in Nat \ {0}, NEW o \in Int, NEW l \in Int
    PROVE  BlockAt(h, B, o, l) \in IntraBlock
<1>1. o - h \in Int
  OBVIOUS
<1> DEFINE no == (o - h) \div B
<1>2. no \in Int
  BY <1>1, DivModInt
<1> HIDE DEF no
<1>3. o - (h + no * B) \in Int
  BY <1>2
<1> QED
  BY <1>2, <1>3 DEF BlockAt, no, IntraBlock, MinUint64

\* The loops cut off one block at a time.
LEMMA BlocksStep ==
    ASSUME NEW h \in Nat, NEW B \in Nat \ {0}, NEW end \in Nat, NEW o \in 0..(end - 1)
    PROVE  LET b == BlockAt(h, B, o, end - o) IN
           /\ b.Length \in 1..(end - o)
           /\ Blocks(h, B, o, end) = <<b>> \o Blocks(h, B, o + b.Length, end)
<1> DEFINE b == BlockAt(h, B, o, end - o)
           nxt == o + b.Length
           first == (o - h) \div B
           last == (end - 1 - h) \div B
<1>1. end - o \in Nat \ {0} /\ o \in Int
  OBVIOUS
<1>2. /\ b \in IntraBlock
      /\ b.BlockNo = first
      /\ b.Skip \in 0..(B - 1) /\ o = h + B * first + b.Skip
      /\ b.Length \in 1..(end - o) /\ b.Length <= B - b.Skip
      /\ b.Length = end - o \/ b.Length = B - b.Skip
  <2>0. PICK no \in Int, r \in 0..(B - 1), n \in 1..(end - o) :
              IsBlock(h, B, o, end - o, no, r, n)
    BY <1>1, BlockFacts
  <2>1. /\ b = [BlockNo |-> no, Skip |-> r, Length |-> n]
        /\ no = (o - h) \div B
        /\ o = h + B * no + r
        /\ n <= B - r
        /\ n = end - o \/ n = B - r
    BY <2>0 DEF IsBlock
  <2> HIDE DEF b
  <2>2. b.BlockNo = no /\ b.Skip = r /\ b.Length = n
    BY <2>1
  <2>3. b \in IntraBlock
    BY <2>1, <1>1 DEF IntraBlock
  <2>4. no = first
    BY <2>1
  <2> HIDE DEF first
  <2> QED
    BY <2>1, <2>2, <2>3, <2>4
<1>3. first \in Int /\ last \in Int /\ first <= last
  <2>1. o - h \in Int /\ end - 1 - h \in Int /\ o - h <= end - 1 - h
    OBVIOUS
  <2> QED
    BY <2>1, DivModInt, DivMonotone
<1>4. BlockStart(h, B, o, 1) = o
  BY DEF BlockStart
<1>5. BlockCount(h, B, o, end) = last - first + 1
  BY DEF BlockCount
<1> HIDE DEF first, last, b
<1>6. CASE nxt = end
  <2>1. B * first \in Int
    BY <1>3
  <2> DEFINE r == b.Skip + b.Length - 1
  <2>2. r \in 0..(B - 1) /\ end - 1 - h = B * first + r
    BY <1>2, <1>6, <2>1
  <2> HIDE DEF r
  <2>3. last = first
    BY <1>3, <2>2, DivInt DEF last
  <2>4. BlockCount(h, B, nxt, end) = 0
    BY <1>6 DEF BlockCount
  <2>5. Blocks(h, B, nxt, end) = <<>>
    BY <2>4 DEF Blocks
  <2>6. BlockCount(h, B, o, end) = 1
    BY <1>3, <1>5, <2>3
  <2>7. Blocks(h, B, o, end) = [i \in 1..1 |-> b]
    BY <1>4, <2>6 DEF Blocks, b
  <2>8. Blocks(h, B, o, end) = <<b>> \o <<>>
    BY <2>7
  <2> QED
    BY <1>2, <2>5, <2>8 DEF b
<1>7. CASE nxt # end
  <2>1. nxt \in 0..(end - 1) /\ b.Length = B - b.Skip
    BY <1>2, <1>7
  <2>2. B * first \in Int /\ B * (first + 1) = B * first + B
    BY <1>3
  <2>3. nxt - h = B * (first + 1) + 0
    BY <1>2, <2>1, <2>2
  <2>4. (nxt - h) \div B = first + 1
    BY <1>3, <2>3, DivInt
  <2>5. first + 1 <= last
    <3>1. nxt - h \in Int /\ end - 1 - h \in Int /\ nxt - h <= end - 1 - h
      BY <2>1
    <3> QED
      BY <2>4, <3>1, DivMonotone DEF last
  <2> HIDE DEF nxt
  <2>6. BlockCount(h, B, nxt, end) = last - first
    BY <1>3, <2>1, <2>4 DEF BlockCount, last
  <2> DEFINE m == last - first
             t == Blocks(h, B, nxt, end)
  <2>7. m \in Nat \ {0}
    BY <1>3, <2>5
  <2>8. \A i \in 1..m : BlockStart(h, B, nxt, i) = BlockStart(h, B, o, i + 1)
    <3> SUFFICES ASSUME NEW i \in 1..m PROVE BlockStart(h, B, nxt, i) = BlockStart(h, B, o, i + 1)
      OBVIOUS
    <3>1. BlockStart(h, B, o, i + 1) = h + (first + ((i + 1) - 1)) * B
      BY <2>7 DEF BlockStart, first
    <3>2. (i + 1) - 1 = i
      BY <2>7
    <3>3. CASE i = 1
      <4>1. nxt = h + (first + 1) * B
        BY <1>3, <2>1, <2>2, <2>3
      <4> QED
        BY <3>1, <3>2, <3>3, <4>1 DEF BlockStart
    <3>4. CASE i # 1
      <4>1. BlockStart(h, B, nxt, i) = h + ((first + 1) + (i - 1)) * B
        BY <2>4, <3>4 DEF BlockStart
      <4>2. (first + 1) + (i - 1) = first + i
        BY <1>3, <2>7
      <4> QED
        BY <3>1, <3>2, <4>1, <4>2
    <3> QED
      BY <3>3, <3>4
  <2>9. /\ t = [i \in 1..m |-> t[i]]
        /\ \A i \in 1..m : t[i] = BlockAt(h, B, BlockStart(h, B, o, i + 1), end - BlockStart(h, B, o, i + 1))
    BY <2>6, <2>8 DEF Blocks
  <2>10. \A i \in 1..m : t[i] \in IntraBlock
    <3> SUFFICES ASSUME NEW i \in 1..m PROVE t[i] \in IntraBlock
      OBVIOUS
    <3>1. i + 1 \in Nat \ {0}
      BY <2>7
    <3>2. BlockStart(h, B, o, i + 1) \in Int
      BY <1>1, <3>1, StartFacts
    <3> QED
      BY <2>9, <3>2, BlockType
  <2> HIDE DEF t
  <2>11. t \in Seq(IntraBlock) /\ Len(t) = m
    BY <2>7, <2>9, <2>10
  <2>12. <<b>> \o t = [i \in 1..(m + 1) |-> IF i = 1 THEN b ELSE t[i - 1]]
    BY <1>2, <2>11, OneAndRest
  <2>13. \A i \in 1..(m + 1) :
            (IF i = 1 THEN b ELSE t[i - 1])
              = BlockAt(h, B, BlockStart(h, B, o, i), end - BlockStart(h, B, o, i))
    <3> SUFFICES ASSUME NEW i \in 1..(m + 1)
                 PROVE  (IF i = 1 THEN b ELSE t[i - 1])
                          = BlockAt(h, B, BlockStart(h, B, o, i), end - BlockStart(h, B, o, i))
      OBVIOUS
    <3>1. CASE i = 1
      BY <3>1, <1>4 DEF b
    <3>2. CASE i # 1
      <4>1. i - 1 \in 1..m /\ (i - 1) + 1 = i
        BY <2>7, <3>2
      <4> QED
        BY <2>9, <3>2, <4>1
    <3> QED
      BY <3>1, <3>2
  <2>14. Blocks(h, B, o, end) = [i \in 1..(m + 1) |->
             BlockAt(h, B, BlockStart(h, B, o, i), end - BlockStart(h, B, o, i))]
    BY <1>5 DEF Blocks
  <2>15. Blocks(h, B, o, end) = <<b>> \o t
    BY <2>12, <2>13, <2>14
  <2> QED
    BY <1>2, <2>15 DEF b, t, nxt
<1> QED
  BY <1>6, <1>7

\* So the loops have a solution,
LEMMA CutExists ==
    ASSUME NEW h \in Nat, NEW B \in Nat \ {0}, NEW end \in Nat
    PROVE  CutsUp(h, B, end, [o \in 0..end |-> Blocks(h, B, o, end)])
<1> DEFINE f == [o \in 0..end |-> Blocks(h, B, o, end)]
<1> SUFFICES ASSUME NEW o \in 0..end
             PROVE  f[o] = IF o = end THEN <<>>
                           ELSE <<BlockAt(h, B, o, end - o)>> \o f[o + BlockAt(h, B, o, end - o).Length]
  BY DEF CutsUp
<1>1. CASE o = end
  <2>1. BlockCount(h, B, o, end) = 0
    BY <1>1 DEF BlockCount
  <2> QED
    BY <1>1, <2>1 DEF Blocks
<1>2. CASE o # end
  <2> DEFINE b == BlockAt(h, B, o, end - o)
  <2>1. o \in 0..(end - 1)
    BY <1>2
  <2>2. b.Length \in 1..(end - o) /\ Blocks(h, B, o, end) = <<b>> \o Blocks(h, B, o + b.Length, end)
    BY <2>1, BlocksStep
  <2> HIDE DEF b
  <2>3. o + b.Length \in 0..end
    BY <2>1, <2>2
  <2> QED
    BY <1>2, <2>2, <2>3 DEF b
<1> QED
  BY <1>1, <1>2

\* and only one.
LEMMA CutIsUnique ==
    ASSUME NEW h \in Nat, NEW B \in Nat \ {0}, NEW end \in Nat, NEW f, CutsUp(h, B, end, f),
           NEW o \in 0..end
    PROVE  f[o] = Blocks(h, B, o, end)
<1> DEFINE g == [x \in 0..end |-> Blocks(h, B, x, end)]
           T == {k \in Nat : k \in 0..end /\ f[end - k] # g[end - k]}
<1>1. CutsUp(h, B, end, g)
  BY CutExists
<1> HIDE DEF g
<1>2. T = {}
  <2> SUFFICES ASSUME T # {} PROVE FALSE
    OBVIOUS
  <2>1. T \subseteq Nat
    OBVIOUS
  <2> HIDE DEF T
  <2>2. PICK m \in T : \A k \in T : m <= k
    BY <2>1, LeastNat
  <2>3. m \in 0..end /\ f[end - m] # g[end - m]
    BY DEF T
  <2> DEFINE x == end - m
             b == BlockAt(h, B, x, end - x)
  <2>4. x \in 0..end /\ x # end
    <3>1. x \in 0..end
      BY <2>3
    <3>2. f[end] = <<>> /\ g[end] = <<>>
      BY <1>1 DEF CutsUp
    <3> QED
      BY <2>3, <3>1, <3>2
  <2>5. x \in 0..(end - 1)
    BY <2>4
  <2>6. b.Length \in 1..(end - x)
    BY <2>5, BlocksStep
  <2>7. f[x] = <<b>> \o f[x + b.Length] /\ g[x] = <<b>> \o g[x + b.Length]
    BY <1>1, <2>4 DEF CutsUp
  <2> HIDE DEF b
  <2> DEFINE k == m - b.Length
  <2>8. k \in 0..end /\ k < m /\ end - k = x + b.Length
    BY <2>3, <2>6
  <2>9. f[end - k] = g[end - k]
    BY <2>2, <2>3, <2>8 DEF T
  <2> QED
    BY <2>3, <2>7, <2>8, <2>9
<1>3. end - o \in 0..end /\ end - (end - o) = o
  OBVIOUS
<1>4. \A k \in 0..end : f[end - k] = g[end - k]
  <2>1. \A k \in 0..end : k \in Nat
    OBVIOUS
  <2> QED
    BY <1>2, <2>1, Zenon
<1>5. f[o] = g[o]
  BY <1>3, <1>4
<1> QED
  BY <1>5 DEF g

\* So CHOOSE, which is what a recursive function is, has no choice.
LEMMA ExplodePlain ==
    ASSUME NEW o \in Nat, NEW l \in Nat
    PROVE  ExplodePlainRange(o, l) = Blocks(0, plainBS, o, o + l)
<1> DEFINE end == o + l
           Eq(f) == f = [x \in 0..end |->
                           IF x = end THEN <<>>
                           ELSE <<PlainBlock(x, end - x)>> \o f[x + PlainBlock(x, end - x).Length]]
<1>1. \A x \in 0..end : PlainBlock(x, end - x) = BlockAt(0, plainBS, x, end - x)
  BY LayoutAssumption DEF PlainBlock, BlockAt, PlainOffToBlockNo, BlockNoToPlainOff
<1>2. \A f : Eq(f) <=> CutsUp(0, plainBS, end, f)
  BY <1>1 DEF CutsUp
<1>3. \E f : Eq(f)
  <2>1. end \in Nat /\ 0 \in Nat
    OBVIOUS
  <2>2. CutsUp(0, plainBS, end, [x \in 0..end |-> Blocks(0, plainBS, x, end)])
    BY <2>1, CutExists, LayoutAssumption
  <2> HIDE DEF Eq
  <2> QED
    BY <1>2, <2>2
<1>4. Eq(CHOOSE f : Eq(f))
  BY <1>3, Zenon
<1>5. ExplodePlainRange(o, l) = (CHOOSE f : Eq(f))[o]
  BY Zenon DEF ExplodePlainRange
<1> HIDE DEF Eq
<1> QED
  BY <1>2, <1>4, <1>5, CutIsUnique, LayoutAssumption

LEMMA ExplodeCipher ==
    ASSUME NEW o \in Nat, NEW l \in Nat
    PROVE  ExplodeCipherRange(o, l) = Blocks(HeaderLen, cipherBS, o, o + l)
<1> DEFINE end == o + l
           Eq(f) == f = [x \in 0..end |->
                           IF x = end THEN <<>>
                           ELSE <<CipherBlock(x, end - x)>> \o f[x + CipherBlock(x, end - x).Length]]
<1>0. cipherBS \in Nat \ {0} /\ HeaderLen \in Nat /\ end \in Nat
  BY LayoutAssumption DEF cipherBS
<1>1. \A x \in 0..end : CipherBlock(x, end - x) = BlockAt(HeaderLen, cipherBS, x, end - x)
  BY DEF CipherBlock, BlockAt, CipherOffToBlockNo, BlockNoToCipherOff
<1>2. \A f : Eq(f) <=> CutsUp(HeaderLen, cipherBS, end, f)
  BY <1>1 DEF CutsUp
<1>3. \E f : Eq(f)
  <2>2. CutsUp(HeaderLen, cipherBS, end, [x \in 0..end |-> Blocks(HeaderLen, cipherBS, x, end)])
    BY <1>0, CutExists
  <2> HIDE DEF Eq
  <2> QED
    BY <1>2, <2>2
<1>4. Eq(CHOOSE f : Eq(f))
  BY <1>3, Zenon
<1>5. ExplodeCipherRange(o, l) = (CHOOSE f : Eq(f))[o]
  BY Zenon DEF ExplodeCipherRange
<1> HIDE DEF Eq
<1> QED
  BY <1>0, <1>2, <1>4, <1>5, CutIsUnique

LEMMA TimesMonotone ==
    ASSUME NEW b \in Nat, NEW a \in Int, NEW c \in Int, a <= c
    PROVE  b * a <= b * c /\ b * a \in Int /\ b * c \in Int
OBVIOUS

\* The blocks of a range have consecutive numbers, all but the first begin at their
\* beginning, and all but the last go on to their end.
IsIth(h, B, o, end, i, s, no, r, n) ==
    /\ IsBlock(h, B, s, end - s, no, r, n)
    /\ Blocks(h, B, o, end)[i] = BlockAt(h, B, s, end - s)
    /\ no = ((o - h) \div B) + (i - 1)
    /\ i = 1 => s = o
    /\ i # 1 => r = 0
    /\ i < BlockCount(h, B, o, end) => n = B - r

LEMMA IthBlock ==
    ASSUME NEW h \in Nat, NEW B \in Nat \ {0}, NEW end \in Nat, NEW o \in 0..(end - 1),
           NEW i \in 1..BlockCount(h, B, o, end)
    PROVE  \E s \in o..(end - 1) : \E no \in Int, r \in 0..(B - 1), n \in 1..(end - s) :
              IsIth(h, B, o, end, i, s, no, r, n)
<1> DEFINE first == (o - h) \div B
           last == (end - 1 - h) \div B
           k == first + (i - 1)
           s == BlockStart(h, B, o, i)
<1>1. o - h \in Int /\ end - 1 - h \in Int /\ o - h <= end - 1 - h /\ o \in Int /\ o # end
  OBVIOUS
<1>2. first \in Int /\ last \in Int
  BY <1>1, DivModInt
<1>3. BlockCount(h, B, o, end) = last - first + 1
  BY <1>1 DEF BlockCount
<1>4. i \in Nat \ {0} /\ k \in Int /\ k <= last /\ first <= k
  BY <1>2, <1>3
<1>5. s \in Int /\ (s - h) \div B = k
  BY <1>1, <1>4, StartFacts
<1>6. PICK x \in 0..(B - 1) : o - h = B * first + x
  BY <1>1, DivModInt
<1>7. PICK y \in 0..(B - 1) : end - 1 - h = B * last + y
  BY <1>1, DivModInt
<1>8. B * k <= B * last /\ B * k \in Int /\ B * last \in Int /\ B * first \in Int
  BY <1>2, <1>4, TimesMonotone
<1>9. s = IF i = 1 THEN o ELSE h + B * k
  BY <1>4 DEF BlockStart
<1> HIDE DEF s, k
<1>10. s \in o..(end - 1)
  <2>1. CASE i = 1
    BY <1>1, <1>9, <2>1
  <2>2. CASE i # 1
    <3>1. first + 1 <= k
      BY <1>2, <1>4, <2>2 DEF k
    <3>2. B * (first + 1) <= B * k /\ B * (first + 1) = B * first + B
      BY <1>2, <1>4, <3>1, TimesMonotone
    <3> HIDE DEF first, last
    <3>3. s = h + B * k
      BY <1>9, <2>2
    <3> QED
      BY <1>1, <1>5, <1>6, <1>7, <1>8, <3>2, <3>3
  <2> QED
    BY <2>1, <2>2
<1>11. end - s \in Nat \ {0}
  BY <1>10
<1>12. PICK no \in Int, r \in 0..(B - 1), n \in 1..(end - s) : IsBlock(h, B, s, end - s, no, r, n)
  BY <1>5, <1>11, BlockFacts
<1>13. no = k /\ s = h + B * k + r /\ n <= B - r /\ (n = end - s \/ n = B - r)
  BY <1>5, <1>12 DEF IsBlock
<1>14. Blocks(h, B, o, end)[i] = BlockAt(h, B, s, end - s)
  BY DEF Blocks, s
<1>15. i # 1 => r = 0
  BY <1>8, <1>9, <1>13
<1>16. i < BlockCount(h, B, o, end) => n = B - r
  <2> SUFFICES ASSUME i < BlockCount(h, B, o, end) PROVE n = B - r
    OBVIOUS
  <2>1. k + 1 <= last
    BY <1>2, <1>3 DEF k
  <2>2. B * (k + 1) <= B * last /\ B * (k + 1) = B * k + B
    BY <1>2, <1>4, <2>1, TimesMonotone
  <2> HIDE DEF first, last
  <2>3. B - r < end - s \/ B - r = end - s
    BY <1>5, <1>7, <1>8, <1>13, <2>2
  <2> QED
    BY <1>11, <1>13, <2>3
<1>17. no = ((o - h) \div B) + (i - 1)
  BY <1>13 DEF k
<1>18. i = 1 => s = o
  BY <1>9
<1> HIDE DEF first, last
<1> QED
  BY <1>10, <1>12, <1>14, <1>15, <1>16, <1>17, <1>18 DEF IsIth

\* A sequence of the blocks from first to last, and of these blocks as a whole.
Numbered(bl, first, last) ==
    /\ first \in Int /\ last \in Int /\ first <= last
    /\ DOMAIN bl = 1..(last - first + 1) /\ Len(bl) = last - first + 1
    /\ \A i \in 1..(last - first + 1) : bl[i].BlockNo = first + (i - 1)

Whole(first, last, B) ==
    [i \in 1..(last - first + 1) |-> [BlockNo |-> first + (i - 1), Skip |-> 0, Length |-> B]]

LEMMA BlockNumbers ==
    ASSUME NEW h \in Nat, NEW B \in Nat \ {0}, NEW end \in Nat, NEW o \in 0..(end - 1),
           NEW first, NEW last, first = (o - h) \div B, last = (end - 1 - h) \div B
    PROVE  Numbered(Blocks(h, B, o, end), first, last)
<1> DEFINE bl == Blocks(h, B, o, end)
<1>1. o - h \in Int /\ end - 1 - h \in Int /\ o - h <= end - 1 - h
  OBVIOUS
<1>2. first \in Int /\ last \in Int /\ first <= last
  BY <1>1, DivModInt, DivMonotone
<1>3. BlockCount(h, B, o, end) = last - first + 1
  BY DEF BlockCount
<1>4. DOMAIN bl = 1..(last - first + 1)
  BY <1>3 DEF Blocks
<1>5. Len(bl) = last - first + 1
  <2>1. last - first + 1 \in Nat
    BY <1>2
  <2> QED
    BY <1>3, <2>1 DEF Blocks
<1>6. ASSUME NEW i \in 1..(last - first + 1) PROVE bl[i].BlockNo = first + (i - 1)
  <2>1. i \in 1..BlockCount(h, B, o, end)
    BY <1>3
  <2>2. PICK s \in o..(end - 1) : \E no \in Int, r \in 0..(B - 1), n \in 1..(end - s) :
              IsIth(h, B, o, end, i, s, no, r, n)
    BY <2>1, IthBlock
  <2> QED
    BY <2>2 DEF IsIth, IsBlock
<1> QED
  BY <1>2, <1>4, <1>5, <1>6 DEF Numbered

\* The whole ciphertext blocks with the numbers from first to last.
LEMMA WholeBlocks ==
    ASSUME NEW h \in Nat, NEW B \in Nat \ {0}, NEW first \in Nat, NEW last \in Nat, first <= last
    PROVE  Blocks(h, B, h + first * B, h + last * B + B) = Whole(first, last, B)
<1> DEFINE o == h + first * B
           end == h + last * B + B
           m == last - first + 1
<1>1. B * first <= B * last /\ B * first \in Nat /\ B * last \in Nat
      /\ first * B = B * first /\ last * B = B * last
  BY TimesMonotone
<1>2. end \in Nat /\ o \in 0..(end - 1)
  BY <1>1
<1>3. o - h = B * first + 0 /\ end - 1 - h = B * last + (B - 1) /\ B - 1 \in 0..(B - 1)
  BY <1>1
<1> HIDE DEF o, end
<1>4. (o - h) \div B = first /\ (end - 1 - h) \div B = last
  <2>1. 0 \in 0..(B - 1) /\ first \in Int /\ last \in Int
    OBVIOUS
  <2>2. (B * first + 0) \div B = first /\ (B * last + (B - 1)) \div B = last
    BY <1>3, <2>1, DivInt
  <2> QED
    BY <1>3, <2>2
<1>5. BlockCount(h, B, o, end) = m
  BY <1>2, <1>4 DEF BlockCount
<1>6. ASSUME NEW i \in 1..m
      PROVE  Blocks(h, B, o, end)[i] = [BlockNo |-> first + (i - 1), Skip |-> 0, Length |-> B]
  <2>1. i \in 1..BlockCount(h, B, o, end)
    BY <1>5
  <2>2. PICK s \in o..(end - 1) : \E no \in Int, r \in 0..(B - 1), n \in 1..(end - s) :
              IsIth(h, B, o, end, i, s, no, r, n)
    BY <1>2, <2>1, IthBlock
  <2>3. PICK no \in Int, r \in 0..(B - 1), n \in 1..(end - s) :
              /\ IsBlock(h, B, s, end - s, no, r, n)
              /\ Blocks(h, B, o, end)[i] = BlockAt(h, B, s, end - s)
              /\ no = first + (i - 1)
              /\ i = 1 => s = o
              /\ i # 1 => r = 0
              /\ i < m => n = B - r
    BY <1>4, <1>5, <2>2 DEF IsIth
  <2>4. s = h + B * no + r /\ n <= B - r /\ (n = end - s \/ n = B - r)
    BY <2>3 DEF IsBlock
  <2>5. B * no \in Int
    BY <2>3
  <2>6. r = 0
    <3>1. CASE i = 1
      <4>1. no = first /\ s = o
        BY <2>3, <3>1
      <4> QED
        BY <1>1, <1>3, <2>3, <2>4, <2>5, <4>1
    <3> QED
      BY <2>3, <3>1
  <2>7. n = B
    <3>1. CASE i < m
      BY <2>3, <2>6, <3>1
    <3>2. CASE i = m
      <4>1. no = last
        BY <2>3, <3>2
      <4>2. end - s = B
        BY <1>1, <1>3, <1>2, <2>4, <2>6, <4>1
      <4> QED
        BY <2>4, <2>6, <4>2
    <3> QED
      BY <3>1, <3>2
  <2> QED
    BY <2>3, <2>6, <2>7 DEF IsBlock
<1>7. Blocks(h, B, o, end) = [i \in 1..m |-> Blocks(h, B, o, end)[i]]
  BY <1>5 DEF Blocks
<1>8. Blocks(h, B, o, end) = [i \in 1..m |-> [BlockNo |-> first + (i - 1), Skip |-> 0, Length |-> B]]
  BY <1>6, <1>7
<1> QED
  BY <1>8 DEF o, end, Whole

\* Both joint ranges of a byte range.
LEMMA RangesCover ==
    ASSUME offset \in Nat, length \in Nat
    PROVE  JointRangesCover
<1> SUFFICES ASSUME length > 0 PROVE JointRangesCover
  BY DEF JointRangesCover
<1> DEFINE end == offset + length
           blocks == ExplodePlainRange(offset, length)
           first == offset \div plainBS
           last == (end - 1) \div plainBS
           c == JointCiphertextRange(blocks)
           p == JointPlaintextRange(blocks)
           m == last - first + 1
<1>1. plainBS \in Nat \ {0} /\ cipherBS \in Nat \ {0} /\ HeaderLen \in Nat
      /\ cipherBS = plainBS + IVLen + AuthTagLen /\ IVLen \in Nat /\ AuthTagLen \in Nat \ {0}
  BY LayoutAssumption DEF cipherBS
<1>2. end \in Nat /\ offset \in 0..(end - 1) /\ 0 \in Nat /\ offset - 0 = offset /\ end - 1 - 0 = end - 1
  OBVIOUS
<1>3. blocks = Blocks(0, plainBS, offset, end)
  BY ExplodePlain
<1>4. first \in Nat /\ last \in Nat
  BY <1>1, <1>2, DivMod
<1>5. /\ first <= last /\ DOMAIN blocks = 1..m /\ Len(blocks) = m
      /\ \A i \in 1..m : blocks[i].BlockNo = first + (i - 1)
  <2> DEFINE h == 0
             B == plainBS
  <2>1. h \in Nat /\ B \in Nat \ {0} /\ first = (offset - h) \div B /\ last = (end - 1 - h) \div B
    BY <1>1, <1>2
  <2>2. blocks = Blocks(h, B, offset, end)
    BY <1>3
  <2> HIDE DEF blocks, first, last, end, h, B
  <2>3. Numbered(Blocks(h, B, offset, end), first, last)
    BY <1>2, <2>1, BlockNumbers
  <2> QED
    BY <2>2, <2>3 DEF Numbered
<1> HIDE DEF blocks, first, last, end
<1>6. blocks[1].BlockNo = first /\ blocks[Len(blocks)].BlockNo = last
  BY <1>4, <1>5
<1>7. /\ c = [offset |-> HeaderLen + first * cipherBS,
              length |-> HeaderLen + last * cipherBS + cipherBS - (HeaderLen + first * cipherBS)]
      /\ p = [offset |-> first * plainBS, length |-> last * plainBS + plainBS - first * plainBS]
  BY <1>6 DEF JointCiphertextRange, JointPlaintextRange, BlockNoToCipherOff, BlockNoToPlainOff
<1>8. /\ c.offset = HeaderLen + first * cipherBS
      /\ c.length = HeaderLen + last * cipherBS + cipherBS - (HeaderLen + first * cipherBS)
      /\ p.offset = first * plainBS
      /\ p.length = last * plainBS + plainBS - first * plainBS
  BY <1>7
<1> HIDE DEF c, p
<1>9. /\ first * cipherBS \in Nat /\ last * cipherBS \in Nat /\ first * cipherBS <= last * cipherBS
      /\ first * plainBS \in Nat /\ last * plainBS \in Nat /\ first * plainBS <= last * plainBS
  BY <1>1, <1>4, <1>5
<1>10. /\ c.offset \in Nat /\ c.length \in Nat
       /\ c.offset + c.length = HeaderLen + last * cipherBS + cipherBS
       /\ p.offset \in Nat /\ p.length \in Nat
       /\ p.offset + p.length = last * plainBS + plainBS
  BY <1>1, <1>8, <1>9
<1>11. ASSUME NEW b \in Span(offset, length)
       PROVE  /\ b \in Span(p.offset, p.length)
              /\ CipherPosition(b) \in Span(c.offset, c.length)
              /\ CipherPosition(b) + AuthTagLen \in Span(c.offset, c.length)
  <2> DEFINE q == b \div plainBS
             r == b % plainBS
  <2>1. b \in Nat /\ offset <= b /\ b <= end - 1
    BY DEF Span, end
  <2>2. q \in Nat /\ r \in 0..(plainBS - 1) /\ b = plainBS * q + r
    BY <1>1, <2>1, DivMod
  <2>3. first <= q /\ q <= last
    <3>1. end - 1 \in Int /\ b \in Int /\ offset \in Int
      BY <1>2, <2>1
    <3> QED
      BY <1>1, <2>1, <3>1, DivMonotone DEF first, last
  <2>4. CipherPosition(b) = HeaderLen + q * cipherBS + IVLen + r
    BY DEF CipherPosition
  <2> HIDE DEF q, r
  <2>5. /\ q * cipherBS \in Nat /\ first * cipherBS <= q * cipherBS /\ q * cipherBS <= last * cipherBS
        /\ plainBS * q = q * plainBS
        /\ q * plainBS \in Nat /\ first * plainBS <= q * plainBS /\ q * plainBS <= last * plainBS
    BY <1>1, <1>4, <2>2, <2>3
  <2>6. p.offset <= b /\ b < p.offset + p.length
    BY <1>1, <1>8, <1>9, <1>10, <2>1, <2>2, <2>5
  <2>7. /\ CipherPosition(b) \in Nat
        /\ c.offset <= CipherPosition(b)
        /\ CipherPosition(b) + AuthTagLen < c.offset + c.length
    BY <1>1, <1>8, <1>9, <1>10, <2>2, <2>4, <2>5
  <2> QED
    BY <1>1, <1>10, <2>1, <2>6, <2>7 DEF Span
<1>12. ExplodeCipherRange(c.offset, c.length)
         = [i \in 1..m |-> [BlockNo |-> first + (i - 1), Skip |-> 0, Length |-> cipherBS]]
  <2>1. ExplodeCipherRange(c.offset, c.length)
          = Blocks(HeaderLen, cipherBS, c.offset, c.offset + c.length)
    BY <1>10, ExplodeCipher
  <2>2. Blocks(HeaderLen, cipherBS, c.offset, c.offset + c.length)
          = Blocks(HeaderLen, cipherBS, HeaderLen + first * cipherBS,
                   HeaderLen + last * cipherBS + cipherBS)
    BY <1>8, <1>10
  <2>3. first <= last
    BY <1>5
  <2>4. Blocks(HeaderLen, cipherBS, HeaderLen + first * cipherBS,
               HeaderLen + last * cipherBS + cipherBS)
          = Whole(first, last, cipherBS)
    BY <1>1, <1>4, <2>3, WholeBlocks
  <2> QED
    BY <2>1, <2>2, <2>4 DEF Whole
<1>13. ExplodeCipherRange(c.offset, c.length)
         = [i \in DOMAIN blocks |-> [BlockNo |-> blocks[i].BlockNo, Skip |-> 0, Length |-> cipherBS]]
  BY <1>5, <1>12
<1> QED
  BY <1>11, <1>13 DEF JointRangesCover, blocks, c, p

\* Byte j of a merged block, and how many there are.
IsMerged(m, old, new, r, out) ==
    /\ Len(m) = out /\ DOMAIN m = 1..out
    /\ \A j \in 1..out :
          m[j] = IF j > r /\ j <= r + Len(new) THEN new[j - r]
                 ELSE IF j <= Len(old) THEN old[j]
                 ELSE 0

LEMMA MergeFacts ==
    ASSUME NEW old \in Seq(Nat), NEW new \in Seq(Nat), NEW r \in Nat, NEW out \in Nat,
           out = IF Len(old) < r + Len(new) THEN r + Len(new) ELSE Len(old)
    PROVE  IsMerged(MergeBlocks(old, new, r), old, new, r, out)
<1>1. CASE old = <<>> /\ r = 0
  <2>1. MergeBlocks(old, new, r) = new
    BY <1>1, Zenon DEF MergeBlocks
  <2>2. Len(old) = 0
    <3>1. Len(<<>>) = 0
      OBVIOUS
    <3> QED
      BY <1>1, <3>1, Zenon
  <2>3. r = 0
    BY <1>1, Zenon
  <2>4. out = Len(new)
    BY <2>2, <2>3
  <2>5. \A j \in 1..out : j > r /\ j <= r + Len(new) /\ j - r = j
    BY <2>3, <2>4
  <2>6. DOMAIN new = 1..Len(new)
    OBVIOUS
  <2>7. DOMAIN new = 1..out
    BY <2>4, <2>6, Zenon
  <2>8. \A j \in 1..out : new[j] = IF j > r /\ j <= r + Len(new) THEN new[j - r]
                                   ELSE IF j <= Len(old) THEN old[j]
                                   ELSE 0
    BY <2>5
  <2> QED
    BY <2>1, <2>4, <2>7, <2>8, Zenon DEF IsMerged
<1>2. CASE ~ (old = <<>> /\ r = 0)
  <2>1. MergeBlocks(old, new, r) =
          [j \in 1..out |-> IF j > r /\ j <= r + Len(new) THEN new[j - r]
                            ELSE IF j <= Len(old) THEN old[j]
                            ELSE 0]
    BY <1>2, Zenon DEF MergeBlocks
  <2> QED
    BY <2>1 DEF IsMerged
<1> QED
  BY <1>1, <1>2

\* s is what SubSeq cuts out behind the first a and up to the z-th element.
IsPart(s, f, a, z) ==
    /\ s \in Seq(Nat)
    /\ Len(s) = IF z < a THEN 0 ELSE z - a
    /\ \A j \in 1..(z - a) : s[j] = f[a + j]

LEMMA PartFacts ==
    ASSUME NEW f \in Seq(Nat), NEW a \in Nat, NEW z \in Nat, z <= Len(f)
    PROVE  IsPart(SubSeq(f, a + 1, z), f, a, z)
<1>1. CASE z <= a
  <2>1. SubSeq(f, a + 1, z) = <<>>
    BY <1>1
  <2> QED
    BY <1>1, <2>1 DEF IsPart
<1>2. CASE a < z
  <2>1. a + 1 \in 1..Len(f) /\ z \in 1..Len(f) /\ a + 1 <= z
    BY <1>2
  <2>2. SubSeq(f, a + 1, z) = [j \in 1..(z - a) |-> f[a + j]]
    BY <2>1
  <2>3. \A j \in 1..(z - a) : f[a + j] \in Nat
    BY <2>1
  <2>4. z - a \in Nat
    BY <1>2
  <2> QED
    BY <1>2, <2>2, <2>3, <2>4 DEF IsPart
<1> QED
  BY <1>1, <1>2

\* The lengths: a block of P bytes at start, k bytes of it behind the first r written
\* to, a file of n bytes, the last of them in this block or before it being z.
LEMMA OverlaySizes ==
    ASSUME NEW P \in Nat \ {0}, NEW o \in Nat, NEW end \in Nat, NEW n \in Nat,
           NEW start \in Nat, NEW r \in 0..(P - 1), NEW k \in Nat \ {0},
           o <= start + r, start + r + k <= end, r = 0 \/ start + r = o,
           r + k <= P, start + r + k = end \/ r + k = P,
           NEW z \in Nat, z <= n, z <= start + P, z = n \/ z = start + P,
           NEW L \in Nat, L = IF z < start THEN 0 ELSE z - start,
           NEW out \in Nat, out = IF L < r + k THEN r + k ELSE L,
           NEW rest \in Int, rest = (IF n < end THEN end ELSE n) - start
    PROVE  /\ out = (IF P < rest THEN P ELSE rest)
           /\ r + k = P => out = P
           /\ \A j \in 1..out :
                 /\ (j > r /\ j <= r + k) <=> (start + j > o /\ start + j <= end)
                 /\ j <= L <=> start + j <= n
                 /\ j <= L => j \in 1..(z - start)
<1>1. out = IF P < rest THEN P ELSE rest
  OBVIOUS
<1>2. (r + k = P => out = P) /\ out <= P
  OBVIOUS
<1>3. ASSUME NEW j \in 1..out
      PROVE  /\ (j > r /\ j <= r + k) <=> (start + j > o /\ start + j <= end)
             /\ j <= L <=> start + j <= n
             /\ j <= L => j \in 1..(z - start)
  <2>1. j \in Nat \ {0} /\ j <= P
    BY <1>2
  <2>2. (j > r /\ j <= r + k) => (start + j > o /\ start + j <= end)
    BY <2>1
  <2>3. (start + j > o /\ start + j <= end) => (j > r /\ j <= r + k)
    BY <2>1
  <2>4. j <= L => start + j <= n /\ j \in 1..(z - start)
    BY <2>1
  <2>5. start + j <= n => j <= L
    BY <2>1
  <2> QED
    BY <2>2, <2>3, <2>4, <2>5
<1> QED
  BY <1>1, <1>2, <1>3

\* A block after a write to part of it.
Overlaid(m, n, start) ==
    /\ Len(m) = MinUint64(plainBS, (IF n < offset + length THEN offset + length ELSE n) - start)
    /\ \A j \in DOMAIN m :
          m[j] = IF start + j > offset /\ start + j <= offset + length
                 THEN New[(start + j) - offset]
                 ELSE IF start + j <= n THEN Old(n)[start + j]
                 ELSE 0

LEMMA BlockOverlay ==
    ASSUME offset \in Nat, length \in Nat, NEW n \in Nat,
           NEW no \in Int, NEW r \in 0..(plainBS - 1), NEW k \in Nat \ {0}, NEW start \in Nat,
           start = BlockNoToPlainOff(no),
           offset <= start + r, start + r + k <= offset + length,
           r = 0 \/ start + r = offset,
           r + k <= plainBS, start + r + k = offset + length \/ r + k = plainBS
    PROVE  LET m == MergeBlocks(BlockOf(Old(n), no),
                                SubSeq(New, (start + r - offset) + 1, (start + r - offset) + k), r)
           IN  Overlaid(m, n, start) /\ (r + k = plainBS => Len(m) = plainBS)
<1> DEFINE done == start + r - offset
           new == SubSeq(New, done + 1, done + k)
           old == BlockOf(Old(n), no)
           z == MinUint64(start + plainBS, n)
           m == MergeBlocks(old, new, r)
<1>1. plainBS \in Nat \ {0} /\ done \in Nat /\ done + k \in Nat /\ done + k <= length
      /\ r \in Nat /\ offset + length \in Nat
  BY LayoutAssumption
<1>2. New \in Seq(Nat) /\ Len(New) = length
  <2>1. \A j \in 1..length : 2 * (offset + j) + 1 \in Nat
    OBVIOUS
  <2> QED
    BY <2>1 DEF New
<1>3. Old(n) \in Seq(Nat) /\ Len(Old(n)) = n
  <2>1. \A j \in 1..n : 2 * j \in Nat
    OBVIOUS
  <2> QED
    BY <2>1 DEF Old
<1>4. old = SubSeq(Old(n), start + 1, z)
  <2>1. no * plainBS = start /\ (no + 1) * plainBS = start + plainBS
    BY <1>1 DEF BlockNoToPlainOff
  <2> QED
    BY <1>3, <2>1 DEF BlockOf
<1>5. z \in Nat /\ z <= n /\ z <= start + plainBS /\ (z = n \/ z = start + plainBS)
  BY <1>1 DEF MinUint64
<1> HIDE DEF z, old
<1>6. IsPart(old, Old(n), start, z)
  BY <1>3, <1>4, <1>5, PartFacts
<1>7. IsPart(new, New, done, done + k)
  <2> HIDE DEF done
  <2>1. done + k <= Len(New)
    BY <1>1, <1>2
  <2> QED
    BY <1>1, <1>2, <2>1, PartFacts
<1>8. new \in Seq(Nat) /\ Len(new) = k
  <2> HIDE DEF done, new
  <2>1. Len(new) = IF done + k < done THEN 0 ELSE (done + k) - done
    BY <1>7 DEF IsPart
  <2> QED
    BY <1>1, <1>7, <2>1 DEF IsPart
<1>9. \A j \in 1..k : new[j] = New[done + j]
  <2> HIDE DEF done, new
  <2>1. (done + k) - done = k
    BY <1>1
  <2> QED
    BY <1>7, <2>1 DEF IsPart
<1>10. old \in Seq(Nat) /\ Len(old) = (IF z < start THEN 0 ELSE z - start) /\ Len(old) \in Nat
  BY <1>5, <1>6 DEF IsPart
<1> DEFINE L == Len(old)
           out == IF L < r + k THEN r + k ELSE L
           end == offset + length
<1>11. L \in Nat /\ out \in Nat
  BY <1>1, <1>10
<1>12. L = IF z < start THEN 0 ELSE z - start
  BY <1>10
<1> HIDE DEF new, L
<1>13. out = IF L < r + k THEN r + k ELSE L
  OBVIOUS
<1>14. end \in Nat
  BY <1>1
<1> HIDE DEF out
<1>15. /\ offset <= start + r /\ start + r + k <= end /\ (r = 0 \/ start + r = offset)
       /\ r + k <= plainBS /\ (start + r + k = end \/ r + k = plainBS)
  OBVIOUS
<1> HIDE DEF end
<1>16. /\ out = MinUint64(plainBS, (IF n < end THEN end ELSE n) - start)
       /\ r + k = plainBS => out = plainBS
  <2> DEFINE rest == (IF n < end THEN end ELSE n) - start
  <2>0. rest \in Int /\ rest = (IF n < end THEN end ELSE n) - start
    BY <1>14
  <2> HIDE DEF rest
  <2>1. out = IF plainBS < rest THEN plainBS ELSE rest
    BY <1>1, <1>5, <1>11, <1>12, <1>13, <1>14, <1>15, <2>0, OverlaySizes
  <2>2. r + k = plainBS => out = plainBS
    BY <1>1, <1>5, <1>11, <1>12, <1>13, <1>14, <1>15, OverlaySizes
  <2> QED
    BY <2>1, <2>2 DEF rest, MinUint64
<1>17. \A j \in 1..out :
          /\ (j > r /\ j <= r + k) <=> (start + j > offset /\ start + j <= end)
          /\ j <= L <=> start + j <= n
          /\ j <= L => j \in 1..(z - start)
  BY <1>1, <1>5, <1>11, <1>12, <1>13, <1>14, <1>15, OverlaySizes
<1>18. IsMerged(m, old, new, r, out)
  <2>1. out = IF Len(old) < r + Len(new) THEN r + Len(new) ELSE Len(old)
    BY <1>8, <1>13 DEF L
  <2> QED
    BY <1>1, <1>8, <1>10, <1>11, <2>1, MergeFacts
<1> HIDE DEF m
<1>19. ASSUME NEW j \in 1..out
       PROVE  m[j] = IF start + j > offset /\ start + j <= end
                     THEN New[(start + j) - offset]
                     ELSE IF start + j <= n THEN Old(n)[start + j]
                     ELSE 0
  <2>1. m[j] = IF j > r /\ j <= r + Len(new) THEN new[j - r]
               ELSE IF j <= Len(old) THEN old[j]
               ELSE 0
    BY <1>18 DEF IsMerged
  <2>2. /\ (j > r /\ j <= r + k) <=> (start + j > offset /\ start + j <= end)
        /\ j <= L <=> start + j <= n
        /\ j <= L => j \in 1..(z - start)
    BY <1>17
  <2>3. ASSUME j > r /\ j <= r + k PROVE new[j - r] = New[(start + j) - offset]
    <3>1. j - r \in 1..k /\ done + (j - r) = (start + j) - offset
      BY <1>1, <1>11, <2>3
    <3> HIDE DEF done
    <3> QED
      BY <1>9, <3>1
  <2>4. j \in 1..(z - start) => old[j] = Old(n)[start + j]
    BY <1>6 DEF IsPart
  <2>5. Len(new) = k /\ Len(old) = L
    BY <1>8 DEF L
  <2> QED
    BY <2>1, <2>2, <2>3, <2>4, <2>5, Zenon
<1>20. Overlaid(m, n, start)
  BY <1>16, <1>18, <1>19 DEF Overlaid, IsMerged, end
<1>21. r + k = plainBS => Len(m) = plainBS
  BY <1>16, <1>18 DEF IsMerged
<1> QED
  BY <1>20, <1>21 DEF m, old, new

\* All the blocks of a write.
LEMMA WritesOverlay ==
    ASSUME offset \in Nat, length \in Nat
    PROVE  WriteIsOverlay
<1> DEFINE end == offset + length
           blocks == ExplodePlainRange(offset, length)
           Merged(n, ib) ==
                LET done == BlockNoToPlainOff(ib.BlockNo) + ib.Skip - offset
                IN  MergeBlocks(BlockOf(Old(n), ib.BlockNo), SubSeq(New, done + 1, done + ib.Length), ib.Skip)
<1>1. ASSUME NEW n \in 0..MaxLength, NEW i \in DOMAIN blocks
      PROVE  /\ Overlaid(Merged(n, blocks[i]), n, BlockNoToPlainOff(blocks[i].BlockNo))
             /\ i < Len(blocks) => Len(Merged(n, blocks[i])) = plainBS
  <2>1. plainBS \in Nat \ {0} /\ n \in Nat /\ end \in Nat
    BY LayoutAssumption
  <2> DEFINE h == 0
             B == plainBS
  <2>2. h \in Nat /\ B \in Nat \ {0}
    BY <2>1
  <2>3. blocks = Blocks(h, B, offset, end)
    BY ExplodePlain
  <2> HIDE DEF blocks, h, B, end
  <2>4. i \in 1..BlockCount(h, B, offset, end)
    BY <2>3 DEF Blocks
  <2>5. offset # end
    BY <2>4 DEF BlockCount
  <2>6. offset \in 0..(end - 1)
    BY <2>1, <2>5 DEF end
  <2>7. PICK s \in offset..(end - 1) : \E no \in Int, r \in 0..(B - 1), k \in 1..(end - s) :
              IsIth(h, B, offset, end, i, s, no, r, k)
    BY <2>1, <2>2, <2>4, <2>6, IthBlock
  <2>8. PICK no \in Int, r \in 0..(B - 1), k \in 1..(end - s) :
              /\ IsBlock(h, B, s, end - s, no, r, k)
              /\ Blocks(h, B, offset, end)[i] = BlockAt(h, B, s, end - s)
              /\ i = 1 => s = offset
              /\ i # 1 => r = 0
              /\ i < BlockCount(h, B, offset, end) => k = B - r
    BY <2>7 DEF IsIth
  <2>9. /\ blocks[i] = [BlockNo |-> no, Skip |-> r, Length |-> k]
        /\ s = h + B * no + r /\ k <= B - r /\ (k = end - s \/ k = B - r)
    BY <2>3, <2>8 DEF IsBlock
  <2>10. blocks[i].BlockNo = no /\ blocks[i].Skip = r /\ blocks[i].Length = k
    BY <2>9
  <2> DEFINE start == BlockNoToPlainOff(no)
  <2>11. start \in Int /\ s = start + r
    BY <2>1, <2>9 DEF BlockNoToPlainOff, h, B
  <2> HIDE DEF start
  <2>12. start \in Nat
    <3>1. 0 <= no
      <4>1. B * no + B > 0
        BY <2>1, <2>2, <2>6, <2>9 DEF h
      <4> QED
        BY <2>2, <4>1
    <3> QED
      BY <2>1, <3>1 DEF start, BlockNoToPlainOff
  <2>13. /\ offset <= start + r /\ start + r + k <= end
         /\ r = 0 \/ start + r = offset
         /\ r + k <= plainBS /\ (start + r + k = end \/ r + k = plainBS)
         /\ k \in Nat \ {0} /\ r \in 0..(plainBS - 1)
    BY <2>1, <2>6, <2>8, <2>9, <2>11 DEF B
  <2> DEFINE m == MergeBlocks(BlockOf(Old(n), no),
                              SubSeq(New, (start + r - offset) + 1, (start + r - offset) + k), r)
  <2>14. Overlaid(m, n, start) /\ (r + k = plainBS => Len(m) = plainBS)
    BY <2>1, <2>12, <2>13, BlockOverlay DEF start, end
  <2>15. Merged(n, blocks[i]) = m
    BY <2>10 DEF start
  <2>16. i < Len(blocks) => r + k = plainBS
    <3>1. BlockCount(h, B, offset, end) = Len(blocks)
      <4> DEFINE first == (offset - h) \div B
                 last == (end - 1 - h) \div B
      <4>1. first = (offset - h) \div B /\ last = (end - 1 - h) \div B
        OBVIOUS
      <4>2. BlockCount(h, B, offset, end) = last - first + 1
        BY <2>5 DEF BlockCount
      <4> HIDE DEF first, last
      <4>3. Numbered(Blocks(h, B, offset, end), first, last)
        BY <2>1, <2>2, <2>6, <4>1, BlockNumbers
      <4> QED
        BY <2>3, <4>2, <4>3 DEF Numbered
    <3> QED
      BY <2>1, <2>8, <3>1 DEF B
  <2> HIDE DEF m, Merged
  <2> QED
    BY <2>10, <2>14, <2>15, <2>16 DEF start
<1> HIDE DEF blocks
<1>2. \A n \in 0..MaxLength : \A i \in DOMAIN blocks :
        /\ Len(Merged(n, blocks[i])) = MinUint64(plainBS, (IF n < offset + length THEN offset + length ELSE n)
                                                       - BlockNoToPlainOff(blocks[i].BlockNo))
        /\ \A j \in DOMAIN Merged(n, blocks[i]) :
              Merged(n, blocks[i])[j] =
                  IF BlockNoToPlainOff(blocks[i].BlockNo) + j > offset
                     /\ BlockNoToPlainOff(blocks[i].BlockNo) + j <= offset + length
                  THEN New[(BlockNoToPlainOff(blocks[i].BlockNo) + j) - offset]
                  ELSE IF BlockNoToPlainOff(blocks[i].BlockNo) + j <= n
                       THEN Old(n)[BlockNoToPlainOff(blocks[i].BlockNo) + j]
                  ELSE 0
        /\ i < Len(blocks) => Len(Merged(n, blocks[i])) = plainBS
  <2> HIDE DEF Merged
  <2> QED
    BY <1>1, Zenon DEF Overlaid
<1> QED
  BY <1>2, Zenon DEF WriteIsOverlay, blocks

-----------------------------------------------------------------------------
\* The bytes are numbers, and pad lengths are among them.
LEMMA BytesAreNumbers == Bytes \subseteq Nat /\ 1..BlockSize \subseteq Bytes
<1>1. N \in Nat
  BY AlphabetAssumption, FS_CardinalityType DEF N
<1> QED
  BY <1>1, AlphabetAssumption, BlockAssumption

\* pad16 fills up to whole blocks, by 1 to BlockSize bytes that hold their number.
LEMMA PadFacts ==
    ASSUME NEW s \in Seq(Bytes), NEW p, p = BlockSize - (Len(s) % BlockSize)
    PROVE  /\ p \in 1..BlockSize
           /\ pad16(s) \in Seq(Bytes)
           /\ Len(pad16(s)) = Len(s) + p
           /\ Len(pad16(s)) % BlockSize = 0
           /\ \A i \in 1..Len(s) : pad16(s)[i] = s[i]
           /\ \A i \in (Len(s) + 1)..(Len(s) + p) : pad16(s)[i] = p
<1> DEFINE n == Len(s)
           k == n \div BlockSize
           pad == [i \in 1..p |-> p]
<1>1. n \in Nat
  OBVIOUS
<1>2. k \in Nat /\ n % BlockSize \in 0..(BlockSize - 1) /\ n = BlockSize * k + (n % BlockSize)
  BY <1>1, DivMod, BlockAssumption
<1>3. p \in 1..BlockSize
  BY <1>2, BlockAssumption
<1>4. p \in Bytes
  BY <1>3, BytesAreNumbers
<1>5. pad \in Seq(Bytes) /\ Len(pad) = p /\ \A i \in 1..p : pad[i] = p
  BY <1>3, <1>4
<1>6. pad16(s) = s \o pad
  BY DEF pad16
<1> HIDE DEF pad, k
<1>7. n + p = BlockSize * (k + 1) + 0
  <2>1. BlockSize * (k + 1) = BlockSize * k + BlockSize /\ BlockSize * k \in Nat
    BY <1>2, BlockAssumption
  <2> QED
    BY <1>1, <1>2, <2>1, BlockAssumption
<1>8. (n + p) % BlockSize = 0
  <2>1. 0 \in 0..(BlockSize - 1) /\ k + 1 \in Nat
    BY <1>2, BlockAssumption
  <2>2. (BlockSize * (k + 1) + 0) % BlockSize = 0
    BY <2>1, DivModUnique, BlockAssumption
  <2> QED
    BY <1>7, <2>2
<1>9. /\ s \o pad \in Seq(Bytes) /\ Len(s \o pad) = n + p
      /\ \A i \in 1..n : (s \o pad)[i] = s[i]
      /\ \A i \in (n + 1)..(n + p) : (s \o pad)[i] = p
  BY <1>3, <1>5
<1> QED
  BY <1>3, <1>6, <1>8, <1>9

\* unPad16 takes off again what pad16 added.
LEMMA UnPadOfPad ==
    ASSUME NEW s \in Seq(Bytes), s # <<>>
    PROVE  unPad16(pad16(s)) = Ok(s)
<1> DEFINE p == BlockSize - (Len(s) % BlockSize)
           x == pad16(s)
           n == Len(s)
<1>1. /\ p \in 1..BlockSize /\ x \in Seq(Bytes) /\ Len(x) = n + p
      /\ Len(x) % BlockSize = 0
      /\ \A i \in 1..n : x[i] = s[i]
      /\ \A i \in (n + 1)..(n + p) : x[i] = p
  BY PadFacts
<1> HIDE DEF p, x
<1>2. n \in Nat \ {0}
  OBVIOUS
<1>3. x[n + p] = p /\ Len(x) # 0 /\ ~ (p = 0) /\ ~ (p > BlockSize) /\ ~ (p >= n + p)
  BY <1>1, <1>2, BlockAssumption
<1>4. ~ \E i \in (n + p - p + 1)..(n + p) : x[i] # p
  BY <1>1, <1>2
<1>5. SubSeq(x, 1, n + p - p) = s
  BY <1>1, <1>2
<1>6. Len(x) - x[Len(x)] = n + p - p /\ x[Len(x)] = p
  BY <1>1, <1>3
<1>7. unPad16(x) = Ok(s)
  BY <1>1, <1>3, <1>4, <1>5, <1>6 DEF unPad16
<1> QED
  BY <1>7 DEF x

\* What unPad16 accepts is what pad16 makes of its result.
LEMMA PadOfUnPad ==
    ASSUME NEW x \in Seq(Bytes), ~ unPad16(x).err
    PROVE  /\ unPad16(x).bytes \in Seq(Bytes) /\ unPad16(x).bytes # <<>>
           /\ pad16(unPad16(x).bytes) = x
<1> DEFINE m == Len(x)
           p == x[m]
           s == SubSeq(x, 1, m - p)
           bad == \/ m = 0
                  \/ m % BlockSize # 0
                  \/ p = 0 \/ p > BlockSize \/ p >= m
                  \/ \E i \in (m - p + 1)..m : x[i] # p
<1>1. /\ m # 0 /\ m % BlockSize = 0 /\ ~ (p = 0) /\ ~ (p > BlockSize) /\ ~ (p >= m)
      /\ ~ \E i \in (m - p + 1)..m : x[i] # p
      /\ unPad16(x).bytes = s
  <2>1. unPad16(x) = IF bad THEN Fail ELSE Ok(s)
    BY DEF unPad16
  <2> HIDE DEF bad, s
  <2>2. ~ bad
    BY <2>1 DEF Fail
  <2>3. unPad16(x).bytes = s
    BY <2>1, <2>2 DEF Ok
  <2> QED
    BY <2>2, <2>3 DEF bad
<1>2. m \in Nat \ {0} /\ p \in Bytes /\ p \in Nat
  <2>1. m \in Nat \ {0} /\ p \in Bytes
    BY <1>1
  <2> QED
    BY <2>1, BytesAreNumbers
<1>3. p \in 1..BlockSize /\ p < m
  BY <1>1, <1>2, BlockAssumption
<1>4. /\ s \in Seq(Bytes) /\ Len(s) = m - p /\ m - p \in Nat \ {0}
      /\ \A i \in 1..(m - p) : s[i] = x[i]
  BY <1>2, <1>3
<1>5. BlockSize - ((m - p) % BlockSize) = p
  <2> DEFINE k == m \div BlockSize
  <2>1. k \in Nat /\ m = BlockSize * k
    BY <1>1, <1>2, DivMod, BlockAssumption
  <2> HIDE DEF k
  <2>2. k # 0
    BY <1>2, <2>1, BlockAssumption
  <2>3. k - 1 \in Nat /\ BlockSize * k = BlockSize * (k - 1) + BlockSize /\ BlockSize * (k - 1) \in Nat
    BY <2>1, <2>2, BlockAssumption
  <2>4. CASE p = BlockSize
    <3>1. m - p = BlockSize * (k - 1) + 0 /\ 0 \in 0..(BlockSize - 1)
      BY <1>2, <2>1, <2>3, <2>4, BlockAssumption
    <3>2. (BlockSize * (k - 1) + 0) % BlockSize = 0
      BY <2>3, <3>1, DivModUnique, BlockAssumption
    <3> QED
      BY <2>4, <3>1, <3>2, BlockAssumption
  <2>5. CASE p < BlockSize
    <3>1. m - p = BlockSize * (k - 1) + (BlockSize - p) /\ BlockSize - p \in 0..(BlockSize - 1)
      BY <1>2, <1>3, <2>1, <2>3, <2>5, BlockAssumption
    <3>2. (BlockSize * (k - 1) + (BlockSize - p)) % BlockSize = BlockSize - p
      BY <2>3, <3>1, DivModUnique, BlockAssumption
    <3> QED
      BY <1>3, <3>1, <3>2, BlockAssumption
  <2> QED
    BY <1>3, <2>4, <2>5, BlockAssumption
<1> HIDE DEF s
<1>6. /\ pad16(s) \in Seq(Bytes) /\ Len(pad16(s)) = m - p + p
      /\ \A i \in 1..(m - p) : pad16(s)[i] = s[i]
      /\ \A i \in (m - p + 1)..(m - p + p) : pad16(s)[i] = p
  <2>1. p = BlockSize - (Len(s) % BlockSize)
    BY <1>4, <1>5
  <2>2. /\ pad16(s) \in Seq(Bytes) /\ Len(pad16(s)) = Len(s) + p
        /\ \A i \in 1..Len(s) : pad16(s)[i] = s[i]
        /\ \A i \in (Len(s) + 1)..(Len(s) + p) : pad16(s)[i] = p
    BY <1>4, <2>1, PadFacts
  <2> QED
    BY <1>4, <2>2
<1>7. m - p + p = m /\ Len(pad16(s)) = m
  BY <1>2, <1>3, <1>6
<1>8. ASSUME NEW i \in 1..m PROVE pad16(s)[i] = x[i]
  <2>1. CASE i \in 1..(m - p)
    BY <1>4, <1>6, <2>1
  <2>2. CASE i \in (m - p + 1)..m
    BY <1>1, <1>6, <1>7, <2>2
  <2> QED
    BY <1>2, <1>3, <2>1, <2>2
<1>9. pad16(s) = x
  <2>1. x = [i \in 1..m |-> x[i]] /\ pad16(s) = [i \in 1..m |-> pad16(s)[i]]
    BY <1>6, <1>7
  <2> QED
    BY <1>8, <2>1
<1>10. s # <<>>
  BY <1>4
<1> QED
  BY <1>1, <1>4, <1>9, <1>10

-----------------------------------------------------------------------------
\* Adding the IV and taking it off again, modulo the number of bytes.
LEMMA AddIV ==
    ASSUME NEW x \in Bytes, NEW v \in Bytes
    PROVE  /\ (x + v) % N \in Bytes /\ (x + (N - v)) % N \in Bytes
           /\ (((x + v) % N) + (N - v)) % N = x
           /\ (((x + (N - v)) % N) + v) % N = x
<1>1. N \in Nat \ {0} /\ x \in 0..(N - 1) /\ v \in 0..(N - 1) /\ Bytes = 0..(N - 1)
  BY AlphabetAssumption, FS_CardinalityType DEF N
<1>2. \A r \in 0..(N - 1) : r % N = r /\ (N + r) % N = r
  <2> TAKE r \in 0..(N - 1)
  <2>1. 0 \in Nat /\ 1 \in Nat /\ N * 0 + r = r /\ N * 1 + r = N + r
    BY <1>1
  <2>2. (N * 0 + r) % N = r /\ (N * 1 + r) % N = r
    BY <1>1, DivModUnique
  <2> QED
    BY <2>1, <2>2
<1>3. CASE x + v < N
  <2>1. (x + v) % N = x + v
    BY <1>1, <1>2, <1>3
  <2>2. (x + v) + (N - v) = N + x
    BY <1>1
  <2> QED
    <3>1. CASE v = 0
      BY <1>1, <1>2, <2>1, <2>2, <3>1
    <3>2. CASE x >= v
      <4>1. x - v \in 0..(N - 1) /\ x + (N - v) = N + (x - v) /\ x - v + v = x
        BY <1>1, <3>2
      <4> QED
        BY <1>1, <1>2, <1>3, <2>1, <2>2, <4>1
    <3>3. CASE x < v
      <4>1. x + (N - v) \in 0..(N - 1) /\ x + (N - v) + v = N + x
        BY <1>1, <3>3
      <4> QED
        BY <1>1, <1>2, <1>3, <2>1, <2>2, <4>1
    <3> QED
      BY <1>1, <3>1, <3>2, <3>3
<1>4. CASE x + v >= N
  <2>1. x + v - N \in 0..(N - 1) /\ x + v = N + (x + v - N)
    BY <1>1, <1>4
  <2>2. (x + v) % N = x + v - N
    BY <1>1, <1>2, <2>1
  <2>3. (x + v - N) + (N - v) = x
    BY <1>1
  <2> QED
    <3>1. CASE x >= v
      <4>1. x - v \in 0..(N - 1) /\ x + (N - v) = N + (x - v) /\ x - v + v = x
        BY <1>1, <3>1
      <4> QED
        BY <1>1, <1>2, <2>1, <2>2, <2>3, <4>1
    <3>2. CASE x < v
      <4>1. x + (N - v) \in 0..(N - 1) /\ x + (N - v) + v = N + x
        BY <1>1, <3>2
      <4> QED
        BY <1>1, <1>2, <2>1, <2>2, <2>3, <4>1
    <3> QED
      BY <1>1, <3>1, <3>2
<1> QED
  BY <1>1, <1>3, <1>4

\* There are such ciphers: the stand-in of the runs is a permutation.
LEMMA StandInIsPermutation ==
    ASSUME NEW v \in IVs, NEW s \in Seq(Bytes)
    PROVE  /\ MCencrypt(v, s) \in Seq(Bytes) /\ Len(MCencrypt(v, s)) = Len(s)
           /\ MCdecrypt(v, s) \in Seq(Bytes) /\ Len(MCdecrypt(v, s)) = Len(s)
           /\ MCdecrypt(v, MCencrypt(v, s)) = s
           /\ MCencrypt(v, MCdecrypt(v, s)) = s
<1> DEFINE E(x) == (x + v) % N
           D(x) == (x + (N - v)) % N
           n == Len(s)
<1>1. \A x \in Bytes : E(x) \in Bytes /\ D(x) \in Bytes /\ D(E(x)) = x /\ E(D(x)) = x
  BY AddIV, AlphabetAssumption
<1> HIDE DEF E, D
<1>2. n \in Nat /\ \A i \in 1..n : s[i] \in Bytes /\ s[n - i + 1] \in Bytes
  OBVIOUS
<1>3. \A t \in Seq(Bytes) :
         /\ MCencrypt(v, t) = [i \in 1..Len(t) |-> E(t[Len(t) - i + 1])]
         /\ MCdecrypt(v, t) = [i \in 1..Len(t) |-> D(t[Len(t) - i + 1])]
  BY DEF MCencrypt, MCdecrypt, Reverse, E, D
<1>4. /\ MCencrypt(v, s) \in Seq(Bytes) /\ Len(MCencrypt(v, s)) = n
      /\ \A i \in 1..n : MCencrypt(v, s)[i] = E(s[n - i + 1])
  BY <1>1, <1>2, <1>3
<1>5. /\ MCdecrypt(v, s) \in Seq(Bytes) /\ Len(MCdecrypt(v, s)) = n
      /\ \A i \in 1..n : MCdecrypt(v, s)[i] = D(s[n - i + 1])
  BY <1>1, <1>2, <1>3
<1>6. \A i \in 1..n : n - i + 1 \in 1..n /\ n - (n - i + 1) + 1 = i
  BY <1>2
<1>7. MCdecrypt(v, MCencrypt(v, s)) = [i \in 1..n |-> s[i]]
  <2>1. MCdecrypt(v, MCencrypt(v, s)) = [i \in 1..n |-> D(MCencrypt(v, s)[n - i + 1])]
    BY <1>3, <1>4
  <2>2. \A i \in 1..n : MCencrypt(v, s)[n - i + 1] = E(s[i])
    BY <1>4, <1>6
  <2>3. \A i \in 1..n : D(MCencrypt(v, s)[n - i + 1]) = s[i]
    BY <1>1, <1>2, <2>2
  <2> QED
    BY <2>1, <2>3
<1>8. MCencrypt(v, MCdecrypt(v, s)) = [i \in 1..n |-> s[i]]
  <2>1. MCencrypt(v, MCdecrypt(v, s)) = [i \in 1..n |-> E(MCdecrypt(v, s)[n - i + 1])]
    BY <1>3, <1>5
  <2>2. \A i \in 1..n : MCdecrypt(v, s)[n - i + 1] = D(s[i])
    BY <1>5, <1>6
  <2>3. \A i \in 1..n : E(MCdecrypt(v, s)[n - i + 1]) = s[i]
    BY <1>1, <1>2, <2>2
  <2> QED
    BY <2>1, <2>3
<1> QED
  BY <1>4, <1>5, <1>7, <1>8

-----------------------------------------------------------------------------
\* What DecryptName does with a ciphertext name of whole blocks.
LEMMA DecryptFacts ==
    ASSUME NEW c, NEW v, ~ DecryptName(c, v).err
    PROVE  /\ c.b64 /\ c.bin # <<>>
           /\ DecryptName(c, v) = unPad16(emeDecrypt(v, c.bin))
           /\ ~ unPad16(emeDecrypt(v, c.bin)).err
           /\ LET name == unPad16(emeDecrypt(v, c.bin)).bytes IN
              Range(name) \cap {0, Slash} = {} /\ name \notin {<<Dot>>, <<Dot, Dot>>}
<1> DEFINE plain == unPad16(emeDecrypt(v, c.bin))
           bad == \/ ~ c.b64
                  \/ c.bin = <<>>
                  \/ Len(c.bin) % BlockSize # 0
                  \/ plain.err
                  \/ 0 \in Range(plain.bytes) \/ Slash \in Range(plain.bytes)
                  \/ plain.bytes \in {<<Dot>>, <<Dot, Dot>>}
<1>1. DecryptName(c, v) = IF bad THEN Fail ELSE plain
  <2>1. CASE c.b64
    <3>1. DecodeString(c).err = FALSE /\ DecodeString(c).bytes = c.bin
      BY <2>1 DEF DecodeString, Ok
    <3> QED
      BY <2>1, <3>1 DEF DecryptName
  <2>2. CASE ~ c.b64
    <3>1. DecodeString(c).err
      BY <2>2 DEF DecodeString, Fail
    <3> QED
      BY <2>2, <3>1 DEF DecryptName
  <2> QED
    BY <2>1, <2>2
<1>2. ~ bad
  <2> HIDE DEF bad, plain
  <2> QED
    BY <1>1 DEF Fail
<1> HIDE DEF plain
<1> QED
  BY <1>1, <1>2 DEF plain

\* EncryptName and DecryptName are inverse to each other on legal names.
LEMMA EncryptDecrypt ==
    ASSUME EMEIsPermutation, NEW v \in IVs, NEW s \in Seq(Bytes), Legal(s)
    PROVE  DecryptName(EncryptName(s, v), v) = Ok(s)
<1> DEFINE x == pad16(s)
           c == emeEncrypt(v, x)
           bad == \/ ~ TRUE
                  \/ c = <<>>
                  \/ Len(c) % BlockSize # 0
                  \/ unPad16(emeDecrypt(v, c)).err
                  \/ 0 \in Range(unPad16(emeDecrypt(v, c)).bytes)
                  \/ Slash \in Range(unPad16(emeDecrypt(v, c)).bytes)
                  \/ unPad16(emeDecrypt(v, c)).bytes \in {<<Dot>>, <<Dot, Dot>>}
<1>1. s # <<>> /\ Range(s) \cap {0, Slash} = {} /\ s \notin {<<Dot>>, <<Dot, Dot>>}
  BY DEF Legal
<1>2. x \in Seq(Bytes) /\ Len(x) % BlockSize = 0 /\ x # <<>>
  <2> DEFINE p == BlockSize - (Len(s) % BlockSize)
  <2>1. p \in 1..BlockSize /\ x \in Seq(Bytes) /\ Len(x) = Len(s) + p /\ Len(x) % BlockSize = 0
    BY PadFacts
  <2> HIDE DEF p, x
  <2>2. Len(x) # 0
    BY <2>1, BlockAssumption
  <2> QED
    BY <2>1, <2>2
<1>3. unPad16(x) = Ok(s)
  BY <1>1, UnPadOfPad
<1> HIDE DEF x
<1>4. c \in Seq(Bytes) /\ Len(c) = Len(x) /\ emeDecrypt(v, c) = x
  BY <1>2 DEF EMEIsPermutation
<1>5. c # <<>> /\ Len(c) % BlockSize = 0
  BY <1>2, <1>4
<1>6. DecodeString(EncryptName(s, v)) = Ok(c)
  BY DEF EncryptName, EncodeToString, DecodeString, x
<1> HIDE DEF c
<1>7. Ok(s).err = FALSE /\ Ok(s).bytes = s /\ Ok(c).err = FALSE /\ Ok(c).bytes = c
  BY DEF Ok
<1>8. ~ bad
  BY <1>1, <1>3, <1>4, <1>5, <1>7
<1>9. DecryptName(EncryptName(s, v), v) = IF bad THEN Fail ELSE unPad16(emeDecrypt(v, c))
  BY <1>6, <1>7 DEF DecryptName
<1> HIDE DEF bad
<1> QED
  BY <1>3, <1>4, <1>8, <1>9

-----------------------------------------------------------------------------
LEMMA InitIInv == Init => IInv
<1> SUFFICES ASSUME Init PROVE IInv
  OBVIOUS
<1>1. TypeOK
  BY DEF Init, TypeOK
<1>2. KeyState
  BY DEF Init, CoreInit, KeyState, Arrays, NoCore
<1> QED
  BY <1>1, <1>2 DEF IInv

LEMMA NewCoreStep ==
    ASSUME KeyState, NEW b \in Backends, NEW n, NEW h \in BOOLEAN, NewCore(b, n, h)
    PROVE  KeyState'
<1> DEFINE k == aeadKey(masterkey, b, h)
<1>1. core = NoCore /\ core.state = "none" /\ mem["key"] = masterkey /\ mem["sivAead.key"] = Zero
  BY DEF NewCore, KeyState, NoCore
<1>2. CASE ~ Supported(b, n)
  BY <1>1, <1>2 DEF NewCore, KeyState, NoCore
<1>3. CASE Supported(b, n)
  <2> DEFINE ref == IF b = "AESSIV" THEN "sivAead.key" ELSE k
             own == IF b = "AESSIV" THEN k ELSE Zero
  <2>1. core' = [state |-> "live", backend |-> b, useHKDF |-> h, IVLen |-> n \div 8,
                 EMECipher |-> emeKey(masterkey, h), AEADCipher |-> ref]
    BY <1>1, <1>3 DEF NewCore, new2
  <2>2. mem' = [mem EXCEPT !["emeKey"] = Zero, !["gcmKey"] = Zero, !["key64"] = Zero,
                           !["sivAead.key"] = own]
    BY <1>1, <1>3 DEF NewCore, new2
  <2>3. /\ mem' = [a \in Arrays |-> mem'[a]]
        /\ mem'["emeKey"] = Zero /\ mem'["gcmKey"] = Zero /\ mem'["key64"] = Zero
        /\ mem'["sivAead.key"] = own
    BY <2>2 DEF KeyState, Arrays
  <2>4. /\ core'.state = "live" /\ core'.backend = b /\ core'.useHKDF = h
        /\ core'.EMECipher = emeKey(masterkey, h) /\ core'.AEADCipher = ref
        /\ core' # NoCore
    BY <2>1 DEF NoCore
  <2> QED
    BY <2>3, <2>4 DEF KeyState
<1> QED
  BY <1>2, <1>3

LEMMA NextIInv == IInv /\ [Next]_<<offset, length, bytes, iv, b64, loose, coreVars>> => IInv'
<1> SUFFICES ASSUME IInv, [Next]_<<offset, length, bytes, iv, b64, loose, coreVars>> PROVE IInv'
  OBVIOUS
<1>1. CASE UNCHANGED <<offset, length, bytes, iv, b64, loose, coreVars>>
  BY <1>1 DEF IInv, TypeOK, KeyState, coreVars
<1>2. CASE Lengthen
  <2>1. TypeOK'
    BY <1>2 DEF Lengthen, IInv, TypeOK
  <2>2. KeyState'
    BY <1>2 DEF Lengthen, IInv, KeyState, coreVars
  <2> QED
    BY <2>1, <2>2 DEF IInv
<1>3. CASE Extend
  <2>1. TypeOK'
    BY <1>3 DEF Extend, IInv, TypeOK
  <2>2. KeyState'
    BY <1>3 DEF Extend, IInv, KeyState, coreVars
  <2> QED
    BY <2>1, <2>2 DEF IInv
<1>4. CASE UseKeys
  <2>1. TypeOK'
    BY <1>4 DEF UseKeys, IInv, TypeOK
  <2>2. CASE PurgeKey
    <3>1. core' = core /\ core # NoCore /\ mem' = [mem EXCEPT !["key"] = Zero]
      BY <2>2 DEF PurgeKey
    <3>2. mem' = [a \in Arrays |-> mem'[a]] /\ \A a \in Arrays : a # "key" => mem'[a] = mem[a]
      BY <3>1 DEF IInv, KeyState
    <3> QED
      BY <2>1, <3>1, <3>2 DEF IInv, KeyState, Arrays
  <2>3. CASE Wipe
    <3>1. core' = [state |-> "wiped"] /\ core.state = "live"
      BY <2>3 DEF Wipe
    <3>2. /\ mem' = [a \in Arrays |-> mem'[a]] /\ mem'["sivAead.key"] = Zero
          /\ \A a \in {"emeKey", "gcmKey", "key64"} : mem'[a] = Zero
      BY <2>3 DEF Wipe, IInv, KeyState, Arrays
    <3> QED
      BY <2>1, <3>1, <3>2 DEF IInv, KeyState, NoCore
  <2> QED
    BY <1>4, <2>1, <2>2, <2>3, NewCoreStep DEF UseKeys, CoreNext, IInv
<1> QED
  BY <1>1, <1>2, <1>3, <1>4 DEF Next

\* What the runs enumerate is what it seems, and the arrays hold the keys that
\* the state of the CryptoCore calls for.
THEOREM Invariance == Spec => []IInv
BY InitIInv, NextIInv, PTL DEF Spec

\* CipherSizeToPlainSize inverts PlainSizeToCipherSize, which is where the last
\* byte and its tag end, for every size of file and every layout.
THEOREM SizesAreRight == Spec => []SizesMatchLayout
<1>1. TypeOK => SizesMatchLayout
  <2> SUFFICES ASSUME TypeOK PROVE SizesMatchLayout
    OBVIOUS
  <2>1. CASE length = 0
    BY <2>1, LayoutAssumption DEF SizesMatchLayout, PlainSizeToCipherSize, CipherSizeToPlainSize
  <2>2. CASE length # 0
    BY <2>2, SizesInvert DEF TypeOK, SizesMatchLayout
  <2> QED
    BY <2>1, <2>2
<1> QED
  BY <1>1, Invariance, PTL DEF IInv

\* decryptFile reads all it decrypts: the ciphertext and plaintext ranges of the
\* blocks of a range (JointCiphertextRange, JointPlaintextRange) hold every byte
\* of it and its tag, and both loops cut a file into the same blocks.
THEOREM RangesAreCovered == Spec => []JointRangesCover
<1>1. TypeOK => JointRangesCover
  BY RangesCover DEF TypeOK
<1> QED
  BY <1>1, Invariance, PTL DEF IInv

\* A write block by block (ExplodePlainRange, MergeBlocks) puts the new bytes over
\* the old ones, and nothing else, in a file of any size.
THEOREM WritesAreOverlays == Spec => []WriteIsOverlay
<1>1. TypeOK => WriteIsOverlay
  BY WritesOverlay DEF TypeOK
<1> QED
  BY <1>1, Invariance, PTL DEF IInv

\* A CryptoCore uses the keys of its drive as long as it lives, and leaves none
\* behind, for every backend, with and without HKDF.
THEOREM KeysLive == Spec => []KeysLiveAsLongAsCiphers
<1>1. KeyState => KeysLiveAsLongAsCiphers
  <2> SUFFICES ASSUME KeyState PROVE KeysLiveAsLongAsCiphers
    OBVIOUS
  <2>1. ASSUME core.state = "live" PROVE KeyInUse = aeadKey(masterkey, core.backend, core.useHKDF)
    BY <2>1 DEF KeyState, KeyInUse
  <2>2. ASSUME core.state = "wiped", mem["key"] = Zero PROVE \A a \in Arrays : mem[a] = Zero
    BY <2>2 DEF KeyState, Arrays
  <2> QED
    BY <2>1, <2>2 DEF KeyState, KeysLiveAsLongAsCiphers
<1> QED
  BY <1>1, Invariance, PTL DEF IInv

\* DecryptName restores every legal name from what EncryptName makes of it, if the
\* cipher is a permutation.
THEOREM NamesRoundTrip == ASSUME EMEIsPermutation PROVE Spec => []NameRoundTrip
<1>1. TypeOK => NameRoundTrip
  BY EncryptDecrypt DEF TypeOK, NameRoundTrip
<1> QED
  BY <1>1, Invariance, PTL DEF IInv

\* Whatever bytes the server has for a name, DecryptName fails or returns a name
\* that is not empty, no path and no way out of the directory.
THEOREM NamesAreLegal == ASSUME EMEIsPermutation PROVE Spec => []OnlyLegalNames
<1>1. TypeOK => OnlyLegalNames
  <2> DEFINE c == Stored
             x == emeDecrypt(iv, bytes)
  <2> SUFFICES ASSUME TypeOK, ~ DecryptName(c, iv).err
               PROVE  b64 /\ Legal(DecryptName(c, iv).bytes)
    BY DEF OnlyLegalNames
  <2>1. c.b64 = b64 /\ c.bin = bytes
    BY DEF Stored, EncodeToString
  <2>2. /\ c.b64 /\ DecryptName(c, iv) = unPad16(x) /\ ~ unPad16(x).err
        /\ Range(unPad16(x).bytes) \cap {0, Slash} = {}
        /\ unPad16(x).bytes \notin {<<Dot>>, <<Dot, Dot>>}
    BY <2>1, DecryptFacts
  <2>3. x \in Seq(Bytes)
    BY DEF TypeOK, EMEIsPermutation
  <2>4. unPad16(x).bytes # <<>>
    BY <2>2, <2>3, PadOfUnPad
  <2> QED
    BY <2>1, <2>2, <2>4 DEF Legal
<1> QED
  BY <1>1, Invariance, PTL DEF IInv

\* Every stored name that decrypts is EncryptName's own for the name it shows up as,
\* but for what DecodeString ignores.
THEOREM CanonicalNames == ASSUME EMEIsPermutation PROVE Spec => []OneCanonicalName
<1>1. TypeOK => OneCanonicalName
  <2> DEFINE c == Stored
             x == emeDecrypt(iv, bytes)
  <2> SUFFICES ASSUME TypeOK, ~ DecryptName(c, iv).err
               PROVE  EncryptName(DecryptName(c, iv).bytes, iv) = EncodeToString(DecodeString(Stored).bytes)
    BY DEF OneCanonicalName
  <2>1. c.bin = bytes /\ c.b64 = b64
    BY DEF Stored, EncodeToString
  <2>2. c.b64 /\ DecryptName(c, iv) = unPad16(x) /\ ~ unPad16(x).err
    BY <2>1, DecryptFacts
  <2>3. x \in Seq(Bytes) /\ emeEncrypt(iv, x) = bytes
    BY DEF TypeOK, EMEIsPermutation
  <2>4. pad16(unPad16(x).bytes) = x
    BY <2>2, <2>3, PadOfUnPad
  <2>5. EncryptName(DecryptName(c, iv).bytes, iv) = EncodeToString(bytes)
    BY <2>2, <2>3, <2>4 DEF EncryptName
  <2>6. DecodeString(Stored).bytes = bytes
    BY <2>1, <2>2 DEF DecodeString, Ok
  <2> QED
    BY <2>5, <2>6
<1> QED
  BY <1>1, Invariance, PTL DEF IInv

\* With long names enabled, the name that a file is stored under fits into NameMax
\* and says how to get the plaintext name back.
THEOREM StoredNames == ASSUME EMEIsPermutation, longNames PROVE Spec => []StoredNamesFit
<1>1. TypeOK => StoredNamesFit
  <2> DEFINE c == EncryptName(bytes, iv)
             r == EncryptAndHashName(bytes, iv)
  <2> SUFFICES ASSUME TypeOK, Legal(bytes)
               PROVE  /\ r.err <=> Len(bytes) > NameMax
                      /\ ~ r.err =>
                            /\ NameLen(r.name) <= NameMax
                            /\ \/ NameType(r.name) = "LongNameNone" /\ DecryptName(r.name, iv) = Ok(bytes)
                               \/ NameType(r.name) = "LongNameContent" /\ r.name = HashLongName(c)
    BY DEF StoredNamesFit
  <2>1. /\ c.prefix = FALSE /\ c.suffix = FALSE /\ c.bin = emeEncrypt(iv, pad16(bytes))
    BY DEF EncryptName, EncodeToString
  <2>2. Len(c.bin) \in Nat
    BY <2>1, PadFacts DEF TypeOK, EMEIsPermutation
  <2>3. NameLen(c) \in Nat
    BY <2>1, <2>2 DEF NameLen
  <2>4. HashLongName(c).prefix = TRUE /\ HashLongName(c).suffix = FALSE
    BY DEF HashLongName, EncryptName, EncodeToString
  <2>5. DecryptName(c, iv) = Ok(bytes)
    BY EncryptDecrypt DEF TypeOK
  <2>6. r.err <=> Len(bytes) > NameMax
    BY DEF EncryptAndHashName
  <2>7. CASE ~ (Len(bytes) > NameMax) /\ NameLen(c) > NameMax
    <3>1. r.name = HashLongName(c)
      BY <2>7 DEF EncryptAndHashName
    <3>2. NameLen(r.name) <= NameMax /\ NameType(r.name) = "LongNameContent"
      BY <2>4, <3>1, LongNameAssumption DEF NameLen, NameType
    <3> QED
      BY <2>6, <3>1, <3>2
  <2>8. CASE ~ (Len(bytes) > NameMax) /\ ~ (NameLen(c) > NameMax)
    <3>1. r.name = c
      BY <2>8 DEF EncryptAndHashName
    <3>2. NameLen(r.name) <= NameMax /\ NameType(r.name) = "LongNameNone"
      BY <2>1, <2>3, <2>8, <3>1, LongNameAssumption DEF NameType
    <3> QED
      BY <2>5, <2>6, <3>1, <3>2
  <2> QED
    BY <2>6, <2>7, <2>8
<1> QED
  BY <1>1, Invariance, PTL DEF IInv

====
