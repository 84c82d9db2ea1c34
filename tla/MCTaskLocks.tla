---------------------------- MODULE MCTaskLocks ----------------------------
(* Two assignments of a serial actor with keys 2 and 3, one of a parallel  *)
(* actor with the same keys that captures, and one that needs no lock.     *)
EXTENDS TaskLocks, TLC

CONSTANTS s1, s2, cap, free

MCNeeds == (s1 :> {1, 2, 3}) @@ (s2 :> {1, 2, 3}) @@ (cap :> {2, 3}) @@ (free :> {})

=============================================================================
