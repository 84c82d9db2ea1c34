------------------------------ MODULE Delegation ------------------------------
(***************************************************************************)
(* What a postman promises to the code that delegates a task: the yields   *)
(* of the task in their order, and an end that is the end of the task.     *)
(* Only a lost message of the task excuses a yield that is left out, and   *)
(* whoever leaves a call early, or whose request broke off, is promised    *)
(* nothing more.                                                           *)
(***************************************************************************)
EXTENDS Integers, Sequences

CONSTANT Calls

VARIABLES
    remote,     \* the delegated task: none, running or its end
    yielded,    \* how many yields it has made
    seen,       \* the yields the caller has been given
    told,       \* how the call ended, to the caller
    lost        \* the calls of which a message was lost on the way

vars == <<remote, yielded, seen, told, lost>>

Ends == {"completed", "failed", "cancelled", "interrupted"}

Init ==
    /\ remote = [c \in Calls |-> "none"]
    /\ yielded = [c \in Calls |-> 0]
    /\ seen = [c \in Calls |-> <<>>]
    /\ told = [c \in Calls |-> "nothing"]
    /\ lost = {}

Last(c) == IF seen[c] = <<>> THEN 0 ELSE seen[c][Len(seen[c])]

Run(c) ==
    /\ remote[c] = "none"
    /\ remote' = [remote EXCEPT ![c] = "running"]
    /\ UNCHANGED <<yielded, seen, told, lost>>

\* What the task sends may be lost, at once or on its way.
Yield(c) ==
    /\ remote[c] = "running"
    /\ yielded' = [yielded EXCEPT ![c] = @ + 1]
    /\ lost' \in {lost, lost \cup {c}}
    /\ UNCHANGED <<remote, seen, told>>

End(c, kind) ==
    /\ remote[c] = "running"
    /\ remote' = [remote EXCEPT ![c] = kind]
    /\ lost' \in {lost, lost \cup {c}}
    /\ UNCHANGED <<yielded, seen, told>>

Lose ==
    /\ \E cs \in SUBSET Calls : lost' = lost \cup cs
    /\ UNCHANGED <<remote, yielded, seen, told>>

\* The next yield, or a later one if something was lost.
See(c, n) ==
    /\ told[c] = "nothing"
    /\ n > Last(c) /\ n <= yielded[c] /\ (c \notin lost => n = Last(c) + 1)
    /\ seen' = [seen EXCEPT ![c] = Append(@, n)]
    /\ UNCHANGED <<remote, yielded, told, lost>>

Tell(c, end) ==
    /\ told[c] = "nothing"
    /\ told' = [told EXCEPT ![c] = end]
    /\ UNCHANGED <<remote, yielded, seen, lost>>

\* The task has completed, and the caller has been given everything.
Return(c) ==
    /\ remote[c] = "completed" /\ (c \notin lost => Last(c) = yielded[c])
    /\ Tell(c, "completed")

Raise(c) == remote[c] \in Ends \ {"completed"} /\ Tell(c, "critical")

Refuse(c) == remote[c] = "none" /\ Tell(c, "refused")

\* The request broke off, with or without a task: nothing is promised.
BreakOff(c) == Tell(c, "unanswered")

\* The caller leaves, or is cancelled; also while it holds a yield.
Leave(c) == \E end \in {"cancelled", "abandoned"} : Tell(c, end)

Next ==
    \/ Lose
    \/ \E c \in Calls :
        \/ Run(c) \/ Yield(c) \/ Return(c) \/ Raise(c) \/ Refuse(c)
        \/ BreakOff(c) \/ Leave(c)
        \/ \E kind \in Ends : End(c, kind)
        \/ \E n \in 1..yielded[c] : See(c, n)

Spec == Init /\ [][Next]_vars

-----------------------------------------------------------------------------
(* What a caller may rely on. *)

\* The caller is given the yields in their order and none twice, and none is
\* skipped unless a message of the task was lost.
SeenInOrder ==
    \A c \in Calls : \A i \in DOMAIN seen[c] :
        /\ \A j \in DOMAIN seen[c] : i < j => seen[c][i] < seen[c][j]
        /\ c \notin lost => seen[c][i] = i

\* A call that returns stands for a task that completed, of which the caller
\* has seen every yield; one that raises for a task that failed or was killed.
EndIsTrue ==
    \A c \in Calls :
        /\ told[c] = "completed" =>
              remote[c] = "completed" /\ (c \notin lost => Len(seen[c]) = yielded[c])
        /\ told[c] = "critical" => remote[c] \in Ends \ {"completed"}
=============================================================================
