------------------------------ MODULE ConnPool ------------------------------
(***************************************************************************)
(* Package backend: a Provider that serves ReadFile, ReadDir and Stat from *)
(* a pool of SFTP connections.  The pool is a buffered channel: Get takes  *)
(* an idle connection or dials a new one, Put gives it back or closes it   *)
(* when the channel is full.                                               *)
(*                                                                         *)
(* A step is one channel operation or one exchange with the remote server. *)
(* The network and the remote server are the environment: an SSH link may  *)
(* go down at any time, an SFTP session may end at any time under an SSH   *)
(* link that goes on, neither comes back, and an operation may fail with   *)
(* both working (no such file).                                            *)
(***************************************************************************)
EXTENDS Naturals, Sequences, FiniteSets

CONSTANTS
    Callers,     \* goroutines that call the Provider: the requester's workers
    Conns,       \* connection objects; a closed one may stand for a new one
    capacity,    \* of the channel (32 in the code)
    NoConn       \* no connection

ASSUME PoolAssumption ==
    /\ capacity \in Nat \ {0}
    /\ NoConn \notin Conns

ProviderMethods == {"ReadFile", "ReadDir", "Stat"}

VARIABLES
    conns,       \* the channel of idle connections
    state,       \* per connection: "closed", "ssh" (no SFTP session yet) or "open"
    up,          \* the connections whose SSH link works (sshConn)
    sftp,        \* the connections whose SFTP session works (sftpConn)
    files,       \* the connections with an open remote file
    pc, method, conn,   \* per caller: position, method called, connection held
    wasDown      \* history: callers whose SSH link was down when Get returned it

callerVars == <<pc, method, conn, wasDown>>
remoteVars == <<up, sftp, files>>
vars == <<conns, state, remoteVars, callerVars>>

Init ==
    /\ conns = <<>>
    /\ state = [c \in Conns |-> "closed"]
    /\ up = {}
    /\ sftp = {}
    /\ files = {}
    /\ pc = [t \in Callers |-> "idle"]
    /\ method = [t \in Callers |-> "Stat"]
    /\ conn = [t \in Callers |-> NoConn]
    /\ wasDown = {}

-----------------------------------------------------------------------------
Goto(t, l) == pc' = [pc EXCEPT ![t] = l]

\* the call returns; the connection is no longer the caller's
Return(t) ==
    /\ Goto(t, "idle")
    /\ conn' = [conn EXCEPT ![t] = NoConn]
    /\ wasDown' = wasDown \ {t}

\* conn.Close: the SSH connection goes, the SFTP session and its files with it
CloseConn(c) ==
    /\ state' = [state EXCEPT ![c] = "closed"]
    /\ up' = up \ {c}
    /\ sftp' = sftp \ {c}
    /\ files' = files \ {c}

Call(t, m) ==
    /\ pc[t] = "idle"
    /\ Goto(t, "get")
    /\ method' = [method EXCEPT ![t] = m]
    /\ UNCHANGED <<conns, state, remoteVars, conn, wasDown>>

\* Mutation of Get: the connection handed out stays in the channel
Mut_Get(t) ==
    /\ pc[t] = "get"
    /\ \/ /\ conns # <<>>
          /\ conn' = [conn EXCEPT ![t] = Head(conns)]
          /\ Goto(t, "op")
       \/ /\ conns = <<>>
          /\ Goto(t, "dial")
          /\ UNCHANGED conn
    /\ UNCHANGED <<conns, state, remoteVars, method, wasDown>>

\* pool.Get: an idle connection if there is one
Get(t) ==
    /\ pc[t] = "get"
    /\ \/ /\ conns # <<>>
          /\ conns' = Tail(conns)
          /\ conn' = [conn EXCEPT ![t] = Head(conns)]
          /\ wasDown' = IF Head(conns) \in up THEN wasDown ELSE wasDown \cup {t}
          /\ Goto(t, "op")
       \/ /\ conns = <<>>
          /\ Goto(t, "dial")
          /\ UNCHANGED <<conns, conn, wasDown>>
    /\ UNCHANGED <<state, remoteVars, method>>

\* newConn: ssh.Dial
Dial(t) ==
    /\ pc[t] = "dial"
    /\ \/ \E c \in Conns :
            /\ state[c] = "closed"
            /\ state' = [state EXCEPT ![c] = "ssh"]
            /\ up' = up \cup {c}
            /\ conn' = [conn EXCEPT ![t] = c]
            /\ Goto(t, "session")
            /\ UNCHANGED wasDown
       \/ /\ Return(t)
          /\ UNCHANGED <<state, up>>
    /\ UNCHANGED <<conns, sftp, files, method>>

\* Mutation of NewClient: the SSH connection is not closed on failure
Mut_NewClient(t) ==
    /\ pc[t] = "session"
    /\ \/ /\ conn[t] \in up
          /\ state' = [state EXCEPT ![conn[t]] = "open"]
          /\ sftp' = sftp \cup {conn[t]}
          /\ Goto(t, "op")
          /\ UNCHANGED <<up, files, conn, wasDown>>
       \/ /\ Return(t)
          /\ UNCHANGED <<state, remoteVars>>
    /\ UNCHANGED <<conns, method>>

\* newConn: sftp.NewClient, and sshClient.Close() if it fails
NewClient(t) ==
    /\ pc[t] = "session"
    /\ \/ /\ conn[t] \in up
          /\ state' = [state EXCEPT ![conn[t]] = "open"]
          /\ sftp' = sftp \cup {conn[t]}
          /\ Goto(t, "op")
          /\ UNCHANGED <<up, files, conn, wasDown>>
       \/ /\ CloseConn(conn[t])
          /\ Return(t)
    /\ UNCHANGED <<conns, method>>

\* sftpConn.Open, ReadDir or Stat: no answer without the session
Operate(t) ==
    /\ pc[t] = "op"
    /\ \/ /\ conn[t] \in sftp
          /\ method[t] = "ReadFile"
          /\ files' = files \cup {conn[t]}
          /\ Goto(t, "read")
       \/ /\ conn[t] \in sftp
          /\ method[t] # "ReadFile"
          /\ Goto(t, "put")
          /\ UNCHANGED files
       \/ /\ Goto(t, "ping")
          /\ UNCHANGED files
    /\ UNCHANGED <<conns, state, up, sftp, method, conn, wasDown>>

\* Mutation of Ping: the connection is kept whatever the answer
Mut_Ping(t) ==
    /\ pc[t] = "ping"
    /\ Goto(t, "put")
    /\ UNCHANGED <<conns, state, remoteVars, method, conn, wasDown>>

\* sshConn.SendRequest("ping", true, nil): the SSH link answers it, whether or not
\* the SFTP session over it still works
Ping(t) ==
    /\ pc[t] = "ping"
    /\ Goto(t, IF conn[t] \in up THEN "put" ELSE "close")
    /\ UNCHANGED <<conns, state, remoteVars, method, conn, wasDown>>

\* c.Close() after a failed ping
Drop(t) ==
    /\ pc[t] = "close"
    /\ CloseConn(conn[t])
    /\ Return(t)
    /\ UNCHANGED <<conns, method>>

\* Mutation of WriteTo: the file is not closed before the connection goes back
Mut_WriteTo(t) ==
    /\ pc[t] = "read"
    /\ Goto(t, "put")
    /\ UNCHANGED <<conns, state, remoteVars, method, conn, wasDown>>

\* file.WriteTo(buf): whether it succeeds decides the result, not what follows
WriteTo(t) ==
    /\ pc[t] = "read"
    /\ Goto(t, "closefile")
    /\ UNCHANGED <<conns, state, remoteVars, method, conn, wasDown>>

\* the second defer, which runs first: file.Close(), whose error is dropped. A server
\* that is asked lets go of the handle; the handles of an ended session are gone.
CloseFile(t) ==
    /\ pc[t] = "closefile"
    /\ files' = files \ {conn[t]}
    /\ Goto(t, "put")
    /\ UNCHANGED <<conns, state, up, sftp, method, conn, wasDown>>

\* Mutation of Put: no default case, so that a full channel blocks
Mut_Put(t) ==
    /\ pc[t] = "put"
    /\ Len(conns) < capacity
    /\ conns' = Append(conns, conn[t])
    /\ Return(t)
    /\ UNCHANGED <<state, remoteVars, method>>

\* pool.Put: back into the channel, or closed when that is full
Put(t) ==
    /\ pc[t] = "put"
    /\ \/ /\ Len(conns) < capacity
          /\ conns' = Append(conns, conn[t])
          /\ UNCHANGED <<state, remoteVars>>
       \/ /\ Len(conns) >= capacity
          /\ CloseConn(conn[t])
          /\ UNCHANGED conns
    /\ Return(t)
    /\ UNCHANGED method

\* environment: the SSH link of a connection goes down, and what runs over it
LinkDown(c) ==
    /\ c \in up
    /\ up' = up \ {c}
    /\ sftp' = sftp \ {c}
    /\ files' = files \ {c}
    /\ UNCHANGED <<conns, state, callerVars>>

\* environment: the SFTP session alone ends (the remote sftp-server exits), and its
\* open files with it
SessionDown(c) ==
    /\ c \in sftp
    /\ sftp' = sftp \ {c}
    /\ files' = files \ {c}
    /\ UNCHANGED <<conns, state, up, callerVars>>

CallerStep(t) ==
    \/ Get(t) \/ Dial(t) \/ NewClient(t) \/ Operate(t) \/ Ping(t) \/ Drop(t)
    \/ WriteTo(t) \/ CloseFile(t) \/ Put(t)

Next ==
    \/ \E t \in Callers : CallerStep(t) \/ \E m \in ProviderMethods : Call(t, m)
    \/ \E c \in Conns : LinkDown(c) \/ SessionDown(c)

Spec == Init /\ [][Next]_vars

\* A call in progress goes on: every exchange with the server ends, with an
\* answer or with an error.
Fairness == \A t \in Callers : WF_vars(CallerStep(t))

FairSpec == Spec /\ Fairness

-----------------------------------------------------------------------------
Pooled == {conns[i] : i \in 1..Len(conns)}

\* "no two concurrent calls will share the same connection": a connection is
\* held by one caller, or waits in the pool once, and not both.
Exclusive ==
    /\ \A t, u \in Callers : t # u /\ conn[t] # NoConn => conn[t] # conn[u]
    /\ \A t \in Callers : conn[t] \notin Pooled
    /\ \A i, j \in 1..Len(conns) : i # j => conns[i] # conns[j]

\* A connection that is not closed is in the pool or in somebody's hands, and
\* one that is closed is in neither: no error path of newConn, Put or the
\* Provider's methods leaks one or goes on using one it closed.
NoLeakNoReuse ==
    \A c \in Conns :
        state[c] # "closed" <=> c \in Pooled \/ \E t \in Callers : conn[t] = c

\* A connection in the pool went through sftp.NewClient and has no file of an earlier
\* ReadFile open: the deferred file.Close() comes before the deferred Put.
PooledIsClean ==
    \A c \in Pooled : state[c] = "open" /\ c \notin files

\* A connection whose SSH link is down fails one call and is then discarded: a
\* caller that was handed one never gives it back, since neither its operation nor
\* the ping after it succeeds.  Nothing of the kind holds of a session that ended
\* under a live link: the ping succeeds and Put takes the connection back.
DeadIsDiscarded == \A t \in wasDown : pc[t] \notin {"read", "closefile", "put"}

\* Every call of the Provider returns; neither an empty nor a full pool blocks.
CallsReturn == \A t \in Callers : pc[t] # "idle" ~> pc[t] = "idle"

====
