----------------------------- MODULE MCFastCache -----------------------------
(***************************************************************************)
(* A cache of three entries and four paths, as in fastcache_test.go.       *)
(***************************************************************************)
EXTENDS FastCache

CONSTANTS p1, p2, p3, p4, e1, e2

====
