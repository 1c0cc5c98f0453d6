------------------------------ MODULE MCServer ------------------------------
(***************************************************************************)
(* Both ends of the server: the pool of connections to the remote drive,   *)
(* or else the sessions of its own clients.  They have no state in common, *)
(* so each behaviour has only the one or the other.                        *)
(***************************************************************************)
EXTENDS ConnPool, Sessions

\* listings shorter than a page, as long, longer, and empty
MCListings == {[i \in 1..n |-> i] : n \in 0..3}

MCInit == Init /\ SessionInit

MCNext ==
    \/ Next /\ SessionInit /\ UNCHANGED sessionVars
    \/ SessionNext /\ Init /\ UNCHANGED vars

MCSpec ==
    MCInit /\ [][MCNext]_<<vars, sessionVars>> /\ Fairness /\ SessionFairness

====
