------------------------------ MODULE Sessions ------------------------------
(***************************************************************************)
(* The server side: main's accept loop with its SSH handshake, one         *)
(* goroutine per connection for its channels (handleChannels) and one per  *)
(* channel (handleChannel), and the SFTP requests that package handlers    *)
(* answers.                                                                *)
(*                                                                         *)
(* The SSH and SFTP libraries are modelled from how they are used; a peer  *)
(* is anyone who connects, does what it likes, and may leave at any time.  *)
(* It has one channel.  What the file tree answers is FileTree's subject:  *)
(* here a request succeeds or fails.                                       *)
(***************************************************************************)
EXTENDS Naturals, Sequences, FiniteSets, SequencesExt

CONSTANTS
    Peers,
    None,
    MaxAuthTries,   \* wrong passwords before the library gives up on a peer
    Listings,       \* what ReadDir may return: sequences of entries
    MaxFilelist     \* entries the library asks ListAt for at a time (100)

ASSUME ListingsAssumption == \A l \in Listings : l \in Seq(Range(l))

\* a page has room for an entry: io.EOF is sent only when nothing is left
ASSUME MaxFilelistAssumption == MaxFilelist \in Nat \ {0}

VARIABLES
    nConn,          \* peer -> "away", "backlog", "handshake", "open" or "gone"
    tries,          \* peer -> failed logins of its handshake
    accepting,      \* the peer whose handshake the accept loop is in, or None
    chan,           \* peer -> its channel: "none", of which type it is asked for
                    \* ("session" or "other"), "serving", "closing", "broken",
                    \* "rejected" or "ended"
    dir,            \* peer -> the directory it has open, [list, offset], or None
    received,       \* peer -> the entries it got of it
    reply           \* peer -> its last request ("subsystem", "read", "change" or "names")
                    \* and the status it was answered with

sessionVars == <<nConn, tries, accepting, chan, dir, received, reply>>

nConnVars == <<nConn, tries, accepting>>
fileVars == <<dir, received, reply>>

SessionInit ==
    /\ nConn = [p \in Peers |-> "away"]
    /\ tries = [p \in Peers |-> 0]
    /\ accepting = None
    /\ chan = [p \in Peers |-> "none"]
    /\ dir = [p \in Peers |-> None]
    /\ received = [p \in Peers |-> <<>>]
    /\ reply = [p \in Peers |-> <<"none", "none">>]

-----------------------------------------------------------------------------
(***************************************************************************)
(* The accept loop.                                                        *)
(***************************************************************************)
Connect(p) ==
    /\ nConn[p] = "away"
    /\ nConn' = [nConn EXCEPT ![p] = "backlog"]
    /\ UNCHANGED <<tries, accepting, chan, fileVars>>

\* listener.Accept(), then NewServerConn; after an error of Accept the loop goes on
Accept(p) ==
    /\ accepting = None
    /\ nConn[p] = "backlog"
    /\ accepting' = p
    /\ nConn' = [nConn EXCEPT ![p] = "handshake"]
    /\ UNCHANGED <<tries, chan, fileVars>>

\* nil, the peer is let in
PasswordCallback(user, pass) == user = "ProxyUser" /\ pass = "ProxyPassword"

\* the peer logs in: NewServerConn returns, and the goroutines of the connection start
LogIn(p, user, pass) ==
    /\ nConn[p] = "handshake"
    /\ PasswordCallback(user, pass)
    /\ nConn' = [nConn EXCEPT ![p] = "open"]
    /\ accepting' = None
    /\ tries' = [tries EXCEPT ![p] = 0]
    /\ UNCHANGED <<chan, fileVars>>

\* Mutation of LogInFails: the error of NewServerConn ends the loop
Mut_LogInFails(p, user, pass) ==
    /\ nConn[p] = "handshake"
    /\ ~ PasswordCallback(user, pass)
    /\ tries' = [tries EXCEPT ![p] = @ + 1]
    /\ IF tries[p] + 1 < MaxAuthTries
       THEN UNCHANGED <<nConn, accepting>>
       ELSE nConn' = [nConn EXCEPT ![p] = "gone"] /\ UNCHANGED accepting
    /\ UNCHANGED <<chan, fileVars>>

\* a wrong password: once more, or NewServerConn fails and the loop goes on
LogInFails(p, user, pass) ==
    /\ nConn[p] = "handshake"
    /\ ~ PasswordCallback(user, pass)
    /\ tries' = [tries EXCEPT ![p] = @ + 1]
    /\ IF tries[p] + 1 < MaxAuthTries
       THEN UNCHANGED <<nConn, accepting>>
       ELSE nConn' = [nConn EXCEPT ![p] = "gone"] /\ accepting' = None
    /\ UNCHANGED <<chan, fileVars>>

\* The peer's connection goes down. NewServerConn, range chans and Serve notice:
\* a channel in use reads io.EOF or, in the middle of a packet, another error.
HangUp(p) ==
    /\ nConn[p] \in {"backlog", "handshake", "open"}
    /\ nConn' = [nConn EXCEPT ![p] = "gone"]
    /\ accepting' = IF accepting = p THEN None ELSE accepting
    /\ \E end \in {"closing", "broken"} :
          chan' = [chan EXCEPT ![p] = IF @ = "serving" THEN end ELSE IF @ \in {"session", "other"} THEN "ended" ELSE @]
    /\ UNCHANGED <<tries, fileVars>>

-----------------------------------------------------------------------------
(***************************************************************************)
(* handleChannels and handleChannel.                                       *)
(***************************************************************************)
OpenChannel(p, t) ==
    /\ nConn[p] = "open"
    /\ chan[p] = "none"
    /\ chan' = [chan EXCEPT ![p] = t]
    /\ UNCHANGED <<nConnVars, fileVars>>

\* handleChannel: any other type is rejected, a session is served at once, whether
\* or not its peer will ask for the sftp subsystem
HandleChannel(p) ==
    /\ chan[p] \in {"session", "other"}
    /\ chan' = [chan EXCEPT ![p] = IF @ = "session" THEN "serving" ELSE "rejected"]
    /\ UNCHANGED <<nConnVars, fileVars>>

\* the process ends, and everybody's connection with it
Panic ==
    /\ nConn' = [p \in Peers |-> "gone"]
    /\ accepting' = None
    /\ chan' = [p \in Peers |-> "ended"]
    /\ dir' = [p \in Peers |-> None]
    /\ received' = [p \in Peers |-> <<>>]
    /\ UNCHANGED <<tries, reply>>

\* A request on the channel, answered by the goroutine that ranges over them.  The
\* subsystem's name is the payload after its first four bytes; a shorter payload is
\* sliced all the same, and nothing recovers from the panic.
ReplyRequest(p, name) ==
    /\ nConn[p] = "open" /\ chan[p] = "serving"
    /\ \/ /\ name = "short"
          /\ Panic
       \/ /\ name # "short"
          /\ reply' = [reply EXCEPT ![p] = <<"subsystem", IF name = "sftp" THEN "ok" ELSE "error">>]
          /\ UNCHANGED <<nConnVars, chan, dir, received>>

\* the peer closes its channel, or sends something the library cannot read
CloseChannel(p, end) ==
    /\ nConn[p] = "open" /\ chan[p] = "serving"
    /\ chan' = [chan EXCEPT ![p] = end]
    /\ UNCHANGED <<nConnVars, fileVars>>

\* server.Serve() returns: after io.EOF the channel is closed, after any other error
\* it is only logged; the goroutine is gone either way
ServeEnds(p) ==
    /\ chan[p] \in {"closing", "broken"}
    /\ chan' = [chan EXCEPT ![p] = "ended"]
    /\ dir' = [dir EXCEPT ![p] = None]
    /\ received' = [received EXCEPT ![p] = <<>>]
    /\ UNCHANGED <<nConnVars, reply>>

-----------------------------------------------------------------------------
(***************************************************************************)
(* The handlers.                                                           *)
(***************************************************************************)
Methods ==
    {"Get", "Put", "Stat", "Readlink", "Setstat", "Rename", "Rmdir", "Remove", "Mkdir", "Symlink"}

Kind(method) == IF method \in {"Get", "Stat", "Readlink"} THEN "read" ELSE "change"

\* Fileread, Filewrite, Filecmd, and Filelist but for List: only ReadFile and Stat
\* of the file tree are called
Handle(method) == IF method \in {"Get", "Stat"} THEN {"ok", "error"} ELSE {"error"}

Request(p, method) ==
    /\ nConn[p] = "open" /\ chan[p] = "serving"
    /\ \E r \in Handle(method) : reply' = [reply EXCEPT ![p] = <<Kind(method), r>>]
    /\ UNCHANGED <<nConnVars, chan, dir, received>>

\* Filelist(List): the listing that ReadDir returns is kept for the handle
OpenDir(p) ==
    /\ nConn[p] = "open" /\ chan[p] = "serving"
    /\ \/ /\ reply' = [reply EXCEPT ![p] = <<"read", "error">>]
          /\ UNCHANGED <<dir, received>>
       \/ /\ reply' = [reply EXCEPT ![p] = <<"read", "ok">>]
          /\ \E l \in Listings : dir' = [dir EXCEPT ![p] = [list |-> l, offset |-> 0]]
          /\ received' = [received EXCEPT ![p] = <<>>]
    /\ UNCHANGED <<nConnVars, chan>>

\* Mutation of ListAt: the copy starts at the first entry
Mut_ListAt(f, size, offset) ==
    IF offset >= Len(f) THEN <<>> ELSE SubSeq(f, 1, IF size < Len(f) THEN size ELSE Len(f))

\* the entries that ListAt copies to a slice of the given size
ListAt(f, size, offset) ==
    IF offset >= Len(f) THEN <<>> ELSE SubSeq(f, offset + 1, IF offset + size < Len(f) THEN offset + size ELSE Len(f))

\* READDIR: the library sends what ListAt copied, or EOF if that is nothing
ReadNames(p) ==
    LET names == ListAt(dir[p].list, MaxFilelist, dir[p].offset) IN
    /\ nConn[p] = "open" /\ chan[p] = "serving"
    /\ dir[p] # None
    /\ reply[p] # <<"names", "eof">>
    /\ received' = [received EXCEPT ![p] = @ \o names]
    /\ dir' = [dir EXCEPT ![p].offset = @ + Len(names)]
    /\ reply' = [reply EXCEPT ![p] = <<"names", IF names = <<>> THEN "eof" ELSE "ok">>]
    /\ UNCHANGED <<nConnVars, chan>>

-----------------------------------------------------------------------------
Credentials == {"ProxyUser", "other"} \X {"ProxyPassword", "other"}

SessionNext ==
    \E p \in Peers :
        \/ Connect(p) \/ Accept(p) \/ HangUp(p)
        \/ \E c \in Credentials : LogIn(p, c[1], c[2]) \/ LogInFails(p, c[1], c[2])
        \/ \E t \in {"session", "other"} : OpenChannel(p, t)
        \/ HandleChannel(p)
        \/ \E name \in {"sftp", "other", "short"} : ReplyRequest(p, name)
        \/ \E end \in {"closing", "broken"} : CloseChannel(p, end)
        \/ ServeEnds(p)
        \/ \E m \in Methods : Request(p, m)
        \/ OpenDir(p) \/ ReadNames(p)

SessionSpec == SessionInit /\ [][SessionNext]_sessionVars

(***************************************************************************)
(* The server's goroutines run: a waiting peer is accepted if the loop     *)
(* comes back to Accept again and again, a channel is handled, Serve       *)
(* returns.  Peers promise nothing: NewServerConn has no deadline, and a   *)
(* peer may stop in the middle of its handshake for ever.                  *)
(***************************************************************************)
SessionFairness ==
    \A p \in Peers :
        /\ SF_sessionVars(Accept(p))
        /\ WF_sessionVars(HandleChannel(p)) /\ WF_sessionVars(ServeEnds(p))

SessionFairSpec == SessionSpec /\ SessionFairness

-----------------------------------------------------------------------------
\* What a session answers is so: a peer that has read a directory up to EOF has got
\* every entry of the listing once and in order (ListAt), and no request to change
\* something, which the proxy cannot do, is answered with success.
AnswersAreHonest ==
    \A p \in Peers :
        /\ reply[p] = <<"names", "eof">> /\ dir[p] # None => received[p] = dir[p].list
        /\ reply[p] # <<"change", "ok">>

\* The server keeps up, as far as peers let it.  A peer leaves the backlog, whoever
\* fails or hangs up before it, unless some other peer's handshake goes on for ever,
\* which the accept loop waits for.  What happens on established connections does
\* not depend on that: a channel is handled, and the goroutine of a session whose
\* channel is closed, or fails, ends.
ServerKeepsUp ==
    \A p \in Peers :
        /\ nConn[p] = "backlog" ~> \/ nConn[p] # "backlog"
                                   \/ \E q \in Peers \ {p} : [](nConn[q] = "handshake")
        /\ chan[p] \in {"session", "other", "closing", "broken"} ~> chan[p] \in {"serving", "rejected", "ended"}

====
