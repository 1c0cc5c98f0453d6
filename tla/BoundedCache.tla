----------------------------- MODULE BoundedCache -----------------------------
(***************************************************************************)
(* What the callers of FastCache may rely on: a map from plaintext to      *)
(* ciphertext paths that holds at most cacheSize entries, answers only     *)
(* with what was stored last for the path asked for, and drops one entry   *)
(* when a new one does not fit.  Which one is left open.                   *)
(***************************************************************************)
EXTENDS Naturals, FiniteSets

CONSTANTS Paths, CPaths, cacheSize, None

VARIABLES
    contents,   \* [Paths -> CPaths \cup {None}]
    call        \* the last call: method, path, mapping found or stored

vars == <<contents, call>>

Cached == {p \in Paths : contents[p] # None}

Called(method, p, m) == [op |-> method, path |-> p, mapping |-> m]

Init ==
    /\ contents = [p \in Paths |-> None]
    /\ call = Called("New", None, None)

\* what Find returns for p
Lookup(p) == IF p \in Cached THEN [plain |-> p, cipher |-> contents[p]] ELSE None

Find(p) ==
    /\ call' = Called("Find", p, Lookup(p))
    /\ UNCHANGED contents

\* what Store(p, c) does to the contents
Put(p, c) ==
    \/ /\ p \in Cached \/ Cardinality(Cached) < cacheSize
       /\ contents' = [contents EXCEPT ![p] = c]
    \/ /\ p \notin Cached
       /\ Cardinality(Cached) = cacheSize
       /\ \E q \in Cached : contents' = [contents EXCEPT ![q] = None, ![p] = c]

Store(p, c) ==
    /\ Put(p, c)
    /\ call' = Called("Store", p, [plain |-> p, cipher |-> c])

Clear ==
    /\ contents' = [p \in Paths |-> None]
    /\ call' = Called("Clear", None, None)

Next ==
    \/ \E p \in Paths : Find(p)
    \/ \E p \in Paths, c \in CPaths : Store(p, c)
    \/ Clear

Spec == Init /\ [][Next]_vars

====
