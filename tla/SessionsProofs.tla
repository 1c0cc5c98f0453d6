---------------------------- MODULE SessionsProofs ----------------------------
(***************************************************************************)
(* Proofs about Sessions, for any number of peers, any listings and any    *)
(* size of the page that the library asks ListAt for.                      *)
(***************************************************************************)
EXTENDS Sessions, TLAPS

Requests == {"none", "subsystem", "read", "change", "names"}

TypeOK ==
    /\ dir \in [Peers -> [list : Listings, offset : Nat] \cup {None}]
    /\ received = [p \in Peers |-> received[p]]
    /\ reply \in [Peers -> Requests \X {"none", "ok", "error", "eof"}]

\* What a peer got of the directory it has open is what comes before the offset at
\* which the library will go on, and EOF was sent at the end.
InStep(p) ==
    dir[p] # None =>
        /\ dir[p].offset <= Len(dir[p].list)
        /\ received[p] = SubSeq(dir[p].list, 1, dir[p].offset)
        /\ reply[p] = <<"names", "eof">> => dir[p].offset = Len(dir[p].list)

IInv ==
    /\ TypeOK
    /\ \A p \in Peers : InStep(p) /\ reply[p] # <<"change", "ok">>

-----------------------------------------------------------------------------
\* The entries that ListAt copies continue those before the offset, by at least one
\* if there is one, and not beyond the end.
LEMMA PageFacts ==
    ASSUME NEW S, NEW f \in Seq(S), NEW size \in Nat \ {0}, NEW offset \in 0..Len(f)
    PROVE  LET names == ListAt(f, size, offset) IN
           /\ Len(names) \in Nat
           /\ offset + Len(names) <= Len(f)
           /\ SubSeq(f, 1, offset) \o names = SubSeq(f, 1, offset + Len(names))
           /\ names = <<>> => offset = Len(f)
<1> DEFINE m == IF offset + size < Len(f) THEN offset + size ELSE Len(f)
           names == ListAt(f, size, offset)
<1>1. CASE offset = Len(f)
  <2>1. names = <<>> /\ Len(names) = 0
    BY <1>1 DEF ListAt
  <2>2. SubSeq(f, 1, offset) \in Seq(S)
    BY <1>1
  <2>3. SubSeq(f, 1, offset) \o <<>> = SubSeq(f, 1, offset)
    BY <2>2
  <2> QED
    BY <1>1, <2>1, <2>3
<1>2. CASE offset < Len(f)
  <2>1. m \in (offset + 1)..Len(f)
    BY <1>2
  <2>2. names = SubSeq(f, offset + 1, m)
    BY <1>2 DEF ListAt
  <2> HIDE DEF m, names
  <2>3. /\ names \in Seq(S) /\ Len(names) = m - offset
        /\ \A i \in 1..(m - offset) : names[i] = f[offset + i]
    BY <2>1, <2>2
  <2>4. SubSeq(f, 1, offset) \o names = SubSeq(f, 1, m)
    BY <2>1, <2>3
  <2> QED
    BY <2>1, <2>3, <2>4 DEF names
<1> QED
  BY <1>1, <1>2

\* A step that leaves a peer's directory and reply alone.
LEMMA StillInStep ==
    ASSUME NEW p \in Peers, IInv, dir'[p] = dir[p], received'[p] = received[p], reply'[p] = reply[p]
    PROVE  InStep(p)' /\ reply'[p] # <<"change", "ok">>
BY DEF IInv, InStep

\* A reply that is neither EOF nor the success of a change.
LEMMA Replied ==
    ASSUME IInv, NEW p \in Peers, NEW r \in Requests \X {"none", "ok", "error", "eof"},
           r # <<"names", "eof">>, r # <<"change", "ok">>,
           reply' = [reply EXCEPT ![p] = r], UNCHANGED <<dir, received>>
    PROVE  IInv'
<1>1. TypeOK'
  BY DEF IInv, TypeOK
<1>2. ASSUME NEW q \in Peers PROVE InStep(q)' /\ reply'[q] # <<"change", "ok">>
  <2>1. CASE q = p
    BY <2>1 DEF IInv, TypeOK, InStep
  <2>2. CASE q # p
    BY <2>2, StillInStep DEF IInv, TypeOK
  <2> QED
    BY <2>1, <2>2
<1> QED
  BY <1>1, <1>2 DEF IInv

LEMMA InitIInv == SessionInit => IInv
BY DEF SessionInit, IInv, TypeOK, InStep, Requests

LEMMA OpenDirStep ==
    ASSUME IInv, NEW p \in Peers, OpenDir(p)
    PROVE  IInv'
<1>1. CASE reply' = [reply EXCEPT ![p] = <<"read", "error">>] /\ UNCHANGED <<dir, received>>
  BY <1>1, Replied DEF Requests
<1>2. ASSUME NEW l \in Listings,
             reply' = [reply EXCEPT ![p] = <<"read", "ok">>],
             dir' = [dir EXCEPT ![p] = [list |-> l, offset |-> 0]],
             received' = [received EXCEPT ![p] = <<>>]
      PROVE  IInv'
  <2>1. TypeOK'
    BY <1>2 DEF IInv, TypeOK, Requests
  <2>2. ASSUME NEW q \in Peers PROVE InStep(q)' /\ reply'[q] # <<"change", "ok">>
    <3>1. CASE q = p
      <4>1. /\ dir'[p] = [list |-> l, offset |-> 0] /\ received'[p] = <<>>
            /\ reply'[p] = <<"read", "ok">>
        BY <1>2 DEF IInv, TypeOK
      <4>2. SubSeq(l, 1, 0) = <<>> /\ Len(l) \in Nat
        BY ListingsAssumption
      <4> QED
        BY <3>1, <4>1, <4>2 DEF InStep
    <3>2. CASE q # p
      BY <1>2, <3>2, StillInStep DEF IInv, TypeOK
    <3> QED
      BY <3>1, <3>2
  <2> QED
    BY <2>1, <2>2 DEF IInv
<1> QED
  BY <1>1, <1>2 DEF OpenDir

LEMMA ReadNamesStep ==
    ASSUME IInv, NEW p \in Peers, ReadNames(p)
    PROVE  IInv'
<1> DEFINE f == dir[p].list
           o == dir[p].offset
           names == ListAt(f, MaxFilelist, o)
           r == <<"names", IF names = <<>> THEN "eof" ELSE "ok">>
<1>1. /\ dir[p] \in [list : Listings, offset : Nat] /\ f \in Listings /\ o \in Nat
      /\ o <= Len(f) /\ received[p] = SubSeq(f, 1, o)
  BY DEF ReadNames, IInv, TypeOK, InStep
<1>2. f \in Seq(Range(f)) /\ o \in 0..Len(f)
  BY <1>1, ListingsAssumption
<1>3. /\ Len(names) \in Nat /\ o + Len(names) <= Len(f)
      /\ SubSeq(f, 1, o) \o names = SubSeq(f, 1, o + Len(names))
      /\ names = <<>> => o = Len(f)
  BY <1>2, MaxFilelistAssumption, PageFacts
<1>4. /\ received' = [received EXCEPT ![p] = @ \o names]
      /\ dir' = [dir EXCEPT ![p].offset = @ + Len(names)]
      /\ reply' = [reply EXCEPT ![p] = r]
  BY DEF ReadNames
<1>5. r \in Requests \X {"none", "ok", "error", "eof"} /\ r # <<"change", "ok">>
  BY DEF Requests
<1>6. r = <<"names", "eof">> => names = <<>>
  OBVIOUS
<1> HIDE DEF names, r
<1>7. /\ dir'[p] = [list |-> f, offset |-> o + Len(names)]
      /\ received'[p] = SubSeq(f, 1, o) \o names /\ reply'[p] = r
      /\ \A q \in Peers : q # p => dir'[q] = dir[q] /\ received'[q] = received[q] /\ reply'[q] = reply[q]
  BY <1>1, <1>4 DEF IInv, TypeOK
<1>8. TypeOK'
  <2>1. dir' \in [Peers -> [list : Listings, offset : Nat] \cup {None}]
    <3>1. dir' = [q \in Peers |-> dir'[q]]
      BY <1>4 DEF IInv, TypeOK
    <3>2. dir'[p] \in [list : Listings, offset : Nat]
      BY <1>1, <1>3, <1>7
    <3>3. \A q \in Peers : dir'[q] \in [list : Listings, offset : Nat] \cup {None}
      BY <1>7, <3>2 DEF IInv, TypeOK
    <3> QED
      BY <3>1, <3>3
  <2>2. received' = [q \in Peers |-> received'[q]]
    BY <1>4 DEF IInv, TypeOK
  <2> QED
    BY <1>4, <1>5, <2>1, <2>2 DEF IInv, TypeOK
<1>9. ASSUME NEW q \in Peers PROVE InStep(q)' /\ reply'[q] # <<"change", "ok">>
  <2>1. CASE q = p
    <3>1. dir'[p].list = f /\ dir'[p].offset = o + Len(names)
      BY <1>7
    <3>2. reply'[p] = <<"names", "eof">> => o + Len(names) = Len(f)
      BY <1>1, <1>3, <1>6, <1>7
    <3>3. InStep(p)'
      BY <1>3, <1>7, <3>1, <3>2 DEF InStep
    <3> QED
      BY <1>5, <1>7, <2>1, <3>3
  <2>2. CASE q # p
    BY <1>7, <2>2, StillInStep
  <2> QED
    BY <2>1, <2>2
<1> QED
  BY <1>8, <1>9 DEF IInv

LEMMA NextIInv == IInv /\ [SessionNext]_sessionVars => IInv'
<1> SUFFICES ASSUME IInv, [SessionNext]_sessionVars PROVE IInv'
  OBVIOUS
<1>1. CASE UNCHANGED fileVars
  BY <1>1 DEF fileVars, IInv, TypeOK, InStep
<1>2. ASSUME NEW p \in Peers, NEW name, ReplyRequest(p, name) PROVE IInv'
  <2> DEFINE r == <<"subsystem", IF name = "sftp" THEN "ok" ELSE "error">>
  <2>1. /\ r \in Requests \X {"none", "ok", "error", "eof"}
        /\ r # <<"names", "eof">> /\ r # <<"change", "ok">>
    BY DEF Requests
  <2>2. CASE reply' = [reply EXCEPT ![p] = r] /\ UNCHANGED <<dir, received>>
    BY <2>1, <2>2, Replied
  <2>3. CASE Panic
    BY <2>3 DEF Panic, IInv, TypeOK, InStep
  <2> QED
    BY <1>2, <2>2, <2>3 DEF ReplyRequest
<1>3. ASSUME NEW p \in Peers, NEW m \in Methods, Request(p, m) PROVE IInv'
  <2>1. PICK r \in Handle(m) : reply' = [reply EXCEPT ![p] = <<Kind(m), r>>]
    BY <1>3 DEF Request
  <2>2. /\ <<Kind(m), r>> \in Requests \X {"none", "ok", "error", "eof"}
        /\ <<Kind(m), r>> # <<"names", "eof">> /\ <<Kind(m), r>> # <<"change", "ok">>
    BY DEF Handle, Kind, Requests
  <2>3. UNCHANGED <<dir, received>>
    BY <1>3 DEF Request
  <2> QED
    BY <2>1, <2>2, <2>3, Replied
<1>4. ASSUME NEW p \in Peers, ServeEnds(p) PROVE IInv'
  <2>1. TypeOK'
    BY <1>4 DEF ServeEnds, IInv, TypeOK
  <2>2. ASSUME NEW q \in Peers PROVE InStep(q)' /\ reply'[q] # <<"change", "ok">>
    <3>1. CASE q = p
      BY <1>4, <3>1 DEF ServeEnds, IInv, TypeOK, InStep
    <3>2. CASE q # p
      BY <1>4, <3>2, StillInStep DEF ServeEnds, IInv, TypeOK
    <3> QED
      BY <3>1, <3>2
  <2> QED
    BY <2>1, <2>2 DEF IInv
<1>5. ASSUME NEW p \in Peers,
             \/ Connect(p) \/ Accept(p) \/ HangUp(p) \/ HandleChannel(p)
             \/ \E c \in Credentials : LogIn(p, c[1], c[2]) \/ LogInFails(p, c[1], c[2])
             \/ \E t \in {"session", "other"} : OpenChannel(p, t)
             \/ \E end \in {"closing", "broken"} : CloseChannel(p, end)
      PROVE  UNCHANGED fileVars
  BY <1>5 DEF Connect, Accept, LogIn, LogInFails, HangUp, HandleChannel, OpenChannel, CloseChannel
<1>6. CASE UNCHANGED sessionVars
  BY <1>1, <1>6 DEF sessionVars, fileVars
<1> QED
  BY <1>1, <1>2, <1>3, <1>4, <1>5, <1>6, OpenDirStep, ReadNamesStep DEF SessionNext

\* What each peer got and the offset into its listing stay in step.
THEOREM Invariance == SessionSpec => []IInv
BY InitIInv, NextIInv, PTL DEF SessionSpec

\* A peer that has read a directory up to EOF has every entry once and in order,
\* however many pages ListAt made of it, and no change is answered with success.
THEOREM SessionsAreHonest == SessionSpec => []AnswersAreHonest
<1>1. IInv => AnswersAreHonest
  <2> SUFFICES ASSUME IInv, NEW p \in Peers
               PROVE  /\ reply[p] = <<"names", "eof">> /\ dir[p] # None => received[p] = dir[p].list
                      /\ reply[p] # <<"change", "ok">>
    BY DEF AnswersAreHonest
  <2>1. ASSUME NEW l \in Listings PROVE SubSeq(l, 1, Len(l)) = l
    BY ListingsAssumption
  <2>2. dir[p] # None => dir[p].list \in Listings
    BY DEF IInv, TypeOK
  <2> QED
    BY <2>1, <2>2 DEF IInv, InStep
<1> QED
  BY <1>1, Invariance, PTL

====
