--------------------------- MODULE ExclusiveTasks ---------------------------
(***************************************************************************)
(* What the locks of an agent promise to the functions it runs: two tasks  *)
(* that need a common lock are never inside their functions together.      *)
(***************************************************************************)
CONSTANTS
    Tasks,
    Needs           \* the locks each task needs

VARIABLE running    \* the tasks inside their functions

Conflict(t, u) == t # u /\ Needs[t] \cap Needs[u] # {}

Init == running = {}

Enter(t) ==
    /\ t \notin running
    /\ \A u \in running : ~Conflict(t, u)
    /\ running' = running \cup {t}

Leave(t) ==
    /\ t \in running
    /\ running' = running \ {t}

Next == \E t \in Tasks : Enter(t) \/ Leave(t)

Spec == Init /\ [][Next]_running

=============================================================================
