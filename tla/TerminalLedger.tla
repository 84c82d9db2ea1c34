--------------------------- MODULE TerminalLedger ---------------------------
(***************************************************************************)
(* What the agent promises about its terminal reports (completed, failed,  *)
(* critical, cancelled, interrupted), whatever happens to the connection:  *)
(* a report is first made, then made durable by the backend, and only then *)
(* may the agent forget it.  This is the persist-then-ack contract that    *)
(* messages.py (EventAck) and agents/base.py (_adispatch) describe; the    *)
(* module ReportStream is shown to implement it.                           *)
(***************************************************************************)
CONSTANT Terminals          \* the terminal reports

VARIABLES
    reported,               \* reports the agent has made
    durable,                \* reports the backend has persisted
    forgotten               \* reports the agent no longer retains

ledger == <<reported, durable, forgotten>>

Init ==
    /\ reported = {}
    /\ durable = {}
    /\ forgotten = {}

Report(r) ==
    /\ r \notin reported
    /\ reported' = reported \cup {r}
    /\ UNCHANGED <<durable, forgotten>>

\* Persisting is idempotent: the backend dedups what it receives twice.
Persist(r) ==
    /\ r \in reported
    /\ durable' = durable \cup {r}
    /\ UNCHANGED <<reported, forgotten>>

Forget(r) ==
    /\ r \in durable \ forgotten
    /\ forgotten' = forgotten \cup {r}
    /\ UNCHANGED <<reported, durable>>

Next == \E r \in Terminals : Report(r) \/ Persist(r) \/ Forget(r)

Spec == Init /\ [][Next]_ledger

=============================================================================
