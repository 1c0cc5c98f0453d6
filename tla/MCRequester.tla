----------------------------- MODULE MCRequester -----------------------------
(***************************************************************************)
(* Small instances of the request layer for TLC.                           *)
(***************************************************************************)
EXTENDS Requester, TLC

CONSTANTS c1, c2, c3, w1, w2, f

OneKeyCache == (f :> 1)

\* goroutines are interchangeable in the safety runs
Symmetry == Permutations(Clients) \cup Permutations(Workers)

====
