---------------------------- MODULE ConnPoolProofs ----------------------------
(***************************************************************************)
(* Proofs about ConnPool, for any number of callers and connections and    *)
(* any capacity of the channel: no two calls share a connection, none is   *)
(* leaked or used after its Close, what lies in the pool is ready for use, *)
(* and one whose SSH link is down does not go back.                        *)
(***************************************************************************)
EXTENDS ConnPool, TLAPS

\* The steps of a call during which it holds a connection.
Holding == {"session", "op", "read", "closefile", "ping", "close", "put"}

TypeOK ==
    /\ conns \in Seq(Conns)
    /\ state \in [Conns -> {"closed", "ssh", "open"}]
    /\ files \subseteq Conns
    /\ pc \in [Callers -> {"idle", "get", "dial"} \cup Holding]
    /\ conn \in [Callers -> Conns \cup {NoConn}]
    /\ wasDown \subseteq Callers

\* A caller has a connection exactly between Get or Dial and Put or Close, and
\* the SFTP session exactly after NewClient.
HeldIsLive ==
    \A t \in Callers :
        /\ pc[t] \in Holding <=> conn[t] # NoConn
        /\ pc[t] = "session" => state[conn[t]] = "ssh"
        /\ pc[t] \in Holding \ {"session"} => state[conn[t]] = "open"

\* A remote file is open only while a ReadFile is between Open and Close.
FilesAreRead ==
    \A c \in files : \E t \in Callers : conn[t] = c /\ pc[t] \in {"read", "closefile"}

\* An SSH link that was down when its connection was handed out stays down, no SFTP
\* session runs without its link, and so the caller is on the way to the Close after
\* the failed ping.
DeadStaysDead ==
    /\ sftp \subseteq up
    /\ \A t \in wasDown : conn[t] \notin up /\ pc[t] \in {"op", "ping", "close"}

IInv ==
    /\ TypeOK
    /\ Exclusive
    /\ NoLeakNoReuse
    /\ PooledIsClean
    /\ HeldIsLive
    /\ FilesAreRead
    /\ DeadStaysDead

-----------------------------------------------------------------------------
\* Get takes the first connection out of the channel and leaves the others.
LEMMA TakeFromPool ==
    ASSUME TypeOK, Exclusive, conns # <<>>, conns' = Tail(conns)
    PROVE  /\ conns' \in Seq(Conns)
           /\ Head(conns) \in Conns
           /\ Head(conns) \in Pooled
           /\ Pooled' = Pooled \ {Head(conns)}
           /\ \A i, j \in 1..Len(conns') : i # j => conns'[i] # conns'[j]
<1>1. /\ conns' \in Seq(Conns)
      /\ Head(conns) = conns[1]
      /\ Len(conns) \in Nat \ {0}
      /\ Len(conns') = Len(conns) - 1
      /\ \A i \in 1..Len(conns') : conns'[i] = conns[i + 1]
      /\ \A i \in 1..Len(conns) : conns[i] \in Conns
  BY DEF TypeOK
<1>2. Pooled' = Pooled \ {Head(conns)}
  <2>1. \A i \in 1..Len(conns') : i + 1 \in 1..Len(conns) /\ conns[i + 1] # conns[1]
    BY <1>1 DEF Exclusive
  <2>2. Pooled' \subseteq Pooled \ {Head(conns)}
    BY <1>1, <2>1 DEF Pooled
  <2>3. ASSUME NEW c \in Pooled, c # Head(conns)
        PROVE  c \in Pooled'
    <3>1. PICK i \in 1..Len(conns) : c = conns[i]
      BY DEF Pooled
    <3>2. i - 1 \in 1..Len(conns') /\ conns'[i - 1] = c
      BY <1>1, <2>3, <3>1
    <3> QED
      BY <3>2 DEF Pooled
  <2> QED
    BY <2>2, <2>3
<1>3. \A i, j \in 1..Len(conns') : i # j => conns'[i] # conns'[j]
  BY <1>1 DEF Exclusive
<1>4. Head(conns) \in Pooled
  BY <1>1 DEF Pooled
<1> QED
  BY <1>1, <1>2, <1>3, <1>4

\* Put adds a connection to the channel that was not in it.
LEMMA GiveToPool ==
    ASSUME TypeOK, Exclusive, NEW c \in Conns, c \notin Pooled, conns' = Append(conns, c)
    PROVE  /\ conns' \in Seq(Conns)
           /\ Pooled' = Pooled \cup {c}
           /\ \A i, j \in 1..Len(conns') : i # j => conns'[i] # conns'[j]
<1>1. /\ conns' \in Seq(Conns)
      /\ Len(conns) \in Nat
      /\ Len(conns') = Len(conns) + 1
      /\ \A i \in 1..Len(conns) : conns'[i] = conns[i]
      /\ conns'[Len(conns) + 1] = c
  BY DEF TypeOK
<1>2. \A i \in 1..Len(conns') : i \in 1..Len(conns) \/ i = Len(conns) + 1
  BY <1>1
<1>3. \A i \in 1..Len(conns) : conns[i] # c
  BY DEF Pooled
<1>4. Pooled' = Pooled \cup {c}
  BY <1>1, <1>2 DEF Pooled
<1>5. \A i, j \in 1..Len(conns') : i # j => conns'[i] # conns'[j]
  BY <1>1, <1>2, <1>3 DEF Exclusive
<1> QED
  BY <1>1, <1>4, <1>5

\* The invariant holds before the first call.
LEMMA InitIInv == Init => IInv
BY PoolAssumption DEF Init, IInv, TypeOK, Exclusive, NoLeakNoReuse, PooledIsClean,
   HeldIsLive, FilesAreRead, DeadStaysDead, Pooled, Holding

\* A step that leaves the channel alone.
LEMMA PoolUntouched == ASSUME conns' = conns PROVE Pooled' = Pooled
BY DEF Pooled

\* newConn, the Provider's methods and Put close a connection and let go of it.
LEMMA CloseKeepsIInv ==
    ASSUME IInv, NEW t \in Callers, pc[t] \in Holding,
           CloseConn(conn[t]), Return(t), conns' = conns
    PROVE  IInv'
<1> USE PoolAssumption DEF IInv
<1>1. /\ conn[t] \in Conns
      /\ conn' = [conn EXCEPT ![t] = NoConn]
      /\ pc' = [pc EXCEPT ![t] = "idle"]
      /\ state' = [state EXCEPT ![conn[t]] = "closed"]
      /\ wasDown' = wasDown \ {t}
      /\ up' = up \ {conn[t]} /\ sftp' = sftp \ {conn[t]} /\ files' = files \ {conn[t]}
      /\ Pooled' = Pooled
  BY PoolUntouched DEF CloseConn, Return, Goto, TypeOK, HeldIsLive
<1>2. \A u \in Callers : u # t => conn[u] # conn[t]
  BY <1>1 DEF Exclusive
<1>3. TypeOK'
  BY <1>1 DEF TypeOK
<1>4. Exclusive'
  BY <1>1, <1>3 DEF Exclusive, TypeOK, Pooled
<1>5. NoLeakNoReuse'
  BY <1>1, <1>2 DEF NoLeakNoReuse, TypeOK, Exclusive
<1>6. PooledIsClean'
  BY <1>1 DEF PooledIsClean, TypeOK, Exclusive
<1>7. HeldIsLive'
  BY <1>1, <1>2 DEF HeldIsLive, TypeOK, Holding
<1>8. FilesAreRead'
  BY <1>1 DEF FilesAreRead, TypeOK
<1>9. DeadStaysDead'
  BY <1>1 DEF DeadStaysDead, TypeOK
<1> QED
  BY <1>3, <1>4, <1>5, <1>6, <1>7, <1>8, <1>9

\* Every step of a call, and the loss of a link or of a session, keeps the invariant.
LEMMA NextIInv ==
    ASSUME IInv, [Next]_vars
    PROVE  IInv'
<1> USE PoolAssumption DEF IInv
<1>1. ASSUME NEW t \in Callers, NEW m \in ProviderMethods, Call(t, m) PROVE IInv'
  BY <1>1, PoolUntouched DEF Call, Goto, remoteVars, TypeOK, Exclusive, NoLeakNoReuse, PooledIsClean,
     HeldIsLive, FilesAreRead, DeadStaysDead, Holding
<1>2. ASSUME NEW t \in Callers, Get(t) PROVE IInv'
  <2>1. CASE conns # <<>>
    <3>1. /\ conns' = Tail(conns)
          /\ conn' = [conn EXCEPT ![t] = Head(conns)]
          /\ pc' = [pc EXCEPT ![t] = "op"]
          /\ wasDown' = IF Head(conns) \in up THEN wasDown ELSE wasDown \cup {t}
          /\ pc[t] = "get"
          /\ UNCHANGED <<state, up, sftp, files, method>>
      BY <1>2, <2>1 DEF Get, Goto, remoteVars
    <3>2. /\ conns' \in Seq(Conns)
          /\ Head(conns) \in Conns /\ Head(conns) \in Pooled
          /\ Pooled' = Pooled \ {Head(conns)}
          /\ \A i, j \in 1..Len(conns') : i # j => conns'[i] # conns'[j]
      BY <2>1, <3>1, TakeFromPool
    <3> QED
      BY <3>1, <3>2 DEF TypeOK, Exclusive, NoLeakNoReuse, PooledIsClean,
         HeldIsLive, FilesAreRead, DeadStaysDead, Holding
  <2>2. CASE conns = <<>>
    BY <1>2, <2>2, PoolUntouched DEF Get, Goto, remoteVars, TypeOK, Exclusive, NoLeakNoReuse, PooledIsClean,
       HeldIsLive, FilesAreRead, DeadStaysDead, Holding
  <2> QED
    BY <2>1, <2>2
<1>3. ASSUME NEW t \in Callers, Dial(t) PROVE IInv'
  <2>1. ASSUME NEW c \in Conns, state[c] = "closed", state' = [state EXCEPT ![c] = "ssh"],
               up' = up \cup {c}, conn' = [conn EXCEPT ![t] = c], Goto(t, "session"),
               UNCHANGED wasDown
        PROVE  IInv'
    <3>1. /\ pc[t] = "dial" /\ pc' = [pc EXCEPT ![t] = "session"]
          /\ Pooled' = Pooled /\ UNCHANGED <<conns, sftp, files>>
          /\ conn[t] = NoConn
      BY <1>3, <2>1, PoolUntouched DEF Dial, Goto, HeldIsLive, Holding
    <3>2. c \notin Pooled /\ \A u \in Callers : conn[u] # c
      BY <2>1 DEF NoLeakNoReuse
    <3>3. TypeOK'
      BY <2>1, <3>1 DEF TypeOK, Holding
    <3>4. Exclusive'
      BY <2>1, <3>1, <3>2, <3>3 DEF Exclusive, TypeOK, Pooled
    <3>5. NoLeakNoReuse'
      BY <2>1, <3>1 DEF NoLeakNoReuse, TypeOK
    <3>6. PooledIsClean'
      BY <2>1, <3>1 DEF PooledIsClean, TypeOK
    <3>7. HeldIsLive'
      BY <2>1, <3>1, <3>2 DEF HeldIsLive, TypeOK, Holding
    <3>8. FilesAreRead' /\ DeadStaysDead'
      BY <2>1, <3>1, <3>2 DEF FilesAreRead, DeadStaysDead, TypeOK
    <3> QED
      BY <3>3, <3>4, <3>5, <3>6, <3>7, <3>8
  <2>2. CASE Return(t) /\ UNCHANGED <<state, up>>
    BY <1>3, <2>2, PoolUntouched DEF Dial, Return, Goto, TypeOK, Exclusive, NoLeakNoReuse, PooledIsClean,
       HeldIsLive, FilesAreRead, DeadStaysDead, Holding
  <2> QED
    BY <1>3, <2>1, <2>2 DEF Dial
<1>4. ASSUME NEW t \in Callers, NewClient(t) PROVE IInv'
  <2>1. CASE /\ state' = [state EXCEPT ![conn[t]] = "open"] /\ sftp' = sftp \cup {conn[t]}
             /\ conn[t] \in up /\ Goto(t, "op") /\ UNCHANGED <<up, files, conn, wasDown>>
    <3>1. /\ pc[t] = "session" /\ conn[t] \in Conns
          /\ pc' = [pc EXCEPT ![t] = "op"]
          /\ Pooled' = Pooled /\ conns' = conns
      BY <1>4, <2>1, PoolUntouched DEF NewClient, Goto, TypeOK, HeldIsLive, Holding
    <3> QED
      BY <2>1, <3>1 DEF TypeOK, Exclusive, NoLeakNoReuse, PooledIsClean,
         HeldIsLive, FilesAreRead, DeadStaysDead, Holding
  <2>2. CASE CloseConn(conn[t]) /\ Return(t)
    BY <1>4, <2>2, CloseKeepsIInv DEF NewClient, Holding
  <2> QED
    BY <1>4, <2>1, <2>2 DEF NewClient
<1>5. ASSUME NEW t \in Callers, Operate(t) PROVE IInv'
  BY <1>5, PoolUntouched DEF Operate, Goto, TypeOK, Exclusive, NoLeakNoReuse, PooledIsClean,
     HeldIsLive, FilesAreRead, DeadStaysDead, Holding
<1>6. ASSUME NEW t \in Callers, Ping(t) PROVE IInv'
  BY <1>6, PoolUntouched DEF Ping, Goto, remoteVars, TypeOK, Exclusive, NoLeakNoReuse, PooledIsClean,
     HeldIsLive, FilesAreRead, DeadStaysDead, Holding
<1>7. ASSUME NEW t \in Callers, Drop(t) PROVE IInv'
  BY <1>7, CloseKeepsIInv DEF Drop, Holding
<1>8. ASSUME NEW t \in Callers, WriteTo(t) PROVE IInv'
  BY <1>8, PoolUntouched DEF WriteTo, Goto, remoteVars, TypeOK, Exclusive, NoLeakNoReuse, PooledIsClean,
     HeldIsLive, FilesAreRead, DeadStaysDead, Holding
<1>9. ASSUME NEW t \in Callers, CloseFile(t) PROVE IInv'
  BY <1>9, PoolUntouched DEF CloseFile, Goto, TypeOK, Exclusive, NoLeakNoReuse, PooledIsClean,
     HeldIsLive, FilesAreRead, DeadStaysDead, Holding
<1>10. ASSUME NEW t \in Callers, Put(t) PROVE IInv'
  <2>1. conn[t] \in Conns /\ conn[t] \notin Pooled
    BY <1>10 DEF Put, TypeOK, Exclusive, HeldIsLive, Holding
  <2>2. CASE Len(conns) < capacity
    <3>1. /\ conns' = Append(conns, conn[t])
          /\ conn' = [conn EXCEPT ![t] = NoConn]
          /\ pc' = [pc EXCEPT ![t] = "idle"]
          /\ wasDown' = wasDown \ {t}
          /\ pc[t] = "put"
          /\ UNCHANGED <<state, up, sftp, files, method>>
      BY <1>10, <2>2 DEF Put, Return, Goto, TypeOK, remoteVars
    <3>2. /\ conns' \in Seq(Conns)
          /\ Pooled' = Pooled \cup {conn[t]}
          /\ \A i, j \in 1..Len(conns') : i # j => conns'[i] # conns'[j]
      BY <2>1, <3>1, GiveToPool
    <3>3. \A u \in Callers : u # t => conn[u] # conn[t]
      BY <2>1 DEF Exclusive
    <3>4. TypeOK'
      BY <3>1, <3>2 DEF TypeOK
    <3>5. Exclusive'
      <4>1. NoConn \notin Pooled
        BY DEF Pooled, TypeOK
      <4> QED
        BY <2>1, <3>1, <3>2, <3>3, <4>1 DEF Exclusive, TypeOK
    <3>6. NoLeakNoReuse'
      BY <2>1, <3>1, <3>2, <3>3 DEF NoLeakNoReuse, TypeOK
    <3>7. conn[t] \notin files /\ state[conn[t]] = "open"
      BY <2>1, <3>1, <3>3 DEF FilesAreRead, HeldIsLive, Holding
    <3>8. PooledIsClean'
      BY <3>1, <3>2, <3>7 DEF PooledIsClean
    <3>9. HeldIsLive' /\ FilesAreRead' /\ DeadStaysDead'
      BY <3>1, <3>3 DEF HeldIsLive, FilesAreRead, DeadStaysDead, TypeOK, Holding
    <3> QED
      BY <3>4, <3>5, <3>6, <3>8, <3>9
  <2>3. CASE Len(conns) >= capacity
    <3>1. CloseConn(conn[t]) /\ Return(t) /\ conns' = conns /\ pc[t] = "put"
      BY <1>10, <2>3 DEF Put, TypeOK
    <3> QED
      BY <3>1, CloseKeepsIInv DEF Holding
  <2> QED
    BY <1>10, <2>2, <2>3 DEF Put
<1>11. ASSUME NEW c \in Conns, LinkDown(c) \/ SessionDown(c) PROVE IInv'
  BY <1>11, PoolUntouched DEF LinkDown, SessionDown, callerVars, TypeOK, Exclusive, NoLeakNoReuse,
     PooledIsClean, HeldIsLive, FilesAreRead, DeadStaysDead
<1>12. CASE UNCHANGED vars
  BY <1>12, PoolUntouched DEF vars, remoteVars, callerVars, TypeOK, Exclusive, NoLeakNoReuse,
     PooledIsClean, HeldIsLive, FilesAreRead, DeadStaysDead
<1> QED
  BY <1>1, <1>2, <1>3, <1>4, <1>5, <1>6, <1>7, <1>8, <1>9, <1>10, <1>11, <1>12
  DEF Next, CallerStep

-----------------------------------------------------------------------------
\* The inductive invariant holds throughout.
THEOREM Invariance == Spec => []IInv
BY InitIInv, NextIInv, PTL DEF Spec

\* "no two concurrent calls will share the same connection": what pool.Get hands
\* out, nobody else has until it is back in the channel, once.
THEOREM ConnectionsAreExclusive == Spec => []Exclusive
<1>1. IInv => Exclusive
  BY DEF IInv
<1> QED
  BY <1>1, Invariance, PTL

\* No error path of newConn, Put or the Provider's methods loses a connection
\* that is not closed, or goes on using one that is.
THEOREM ConnectionsAreNotLeaked == Spec => []NoLeakNoReuse
<1>1. IInv => NoLeakNoReuse
  BY DEF IInv
<1> QED
  BY <1>1, Invariance, PTL

\* What Put gives back has been through sftp.NewClient and has no open file.
THEOREM PoolIsClean == Spec => []PooledIsClean
<1>1. IInv => PooledIsClean
  BY DEF IInv
<1> QED
  BY <1>1, Invariance, PTL

\* A call that Get handed a connection whose SSH link is down gets to the failed
\* ping and Close; one with an ended SFTP session need not (see DeadIsDiscarded).
THEOREM DeadAreDiscarded == Spec => []DeadIsDiscarded
<1>1. IInv => DeadIsDiscarded
  BY DEF IInv, DeadStaysDead, DeadIsDiscarded
<1> QED
  BY <1>1, Invariance, PTL

====
