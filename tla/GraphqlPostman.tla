---------------------------- MODULE GraphqlPostman ----------------------------
(***************************************************************************)
(* Calls over the GraphQL API: GraphQLPostman.aassign, one coroutine per   *)
(* call, and the one watcher that routes the change feed of the client's   *)
(* tasks to their queues.  A queue belongs to the reference of a call, the *)
(* feed names the task; the task is named after the call, and `bound` are  *)
(* the calls whose task and reference the postman has related.             *)
(*                                                                         *)
(* The consumer is remote._astream_raw.                                    *)
(***************************************************************************)
EXTENDS Integers, Sequences, Functions

CONSTANTS
    Calls,
    Escalating,     \* the calls made with escalate_to_interrupt
    Outcomes,       \* the ends a task comes to on its own, or by others
    MaxYields,      \* bound: how often each task yields
    MayFail         \* whether the feed may break

ASSUME GraphqlAssumption ==
    /\ Escalating \subseteq Calls
    /\ Outcomes \subseteq {"completed", "failed", "cancelled", "interrupted"}
    /\ MaxYields \in [Calls -> Nat] /\ MayFail \in BOOLEAN

VARIABLES
    watching,       \* _watching
    watcher,        \* _watch_tasks_task: none; starting, until the backend
                    \* has its subscription; alive or dead
    feed,           \* changes on their way to the watcher
    missed,         \* history: the calls of which an event was published
                    \* without a subscription, or lost with it
    phase,          \* where the coroutine of each call is
    queues,         \* the calls with an entry in _ass_update_queues
    queue,          \* the events in that entry
    bound,          \* _task_to_reference and its inverse
    orphans,        \* _orphan_events_by_task
    seen,           \* the yields the caller has been given
    told,           \* how the call ended, to the caller
    confirmed,      \* the calls whose cancellation was confirmed
    remote,         \* the task at the backend: none, running or its end
    created,        \* the calls whose create change was sent
    yielded         \* how many yields it has made

watchVars == <<watching, watcher>>
feedVars == <<feed, missed>>
tableVars == <<queues, queue, bound, orphans>>
callerVars == <<phase, seen, told, confirmed>>
backendVars == <<remote, created, yielded>>
vars == <<watchVars, feedVars, tableVars, callerVars, backendVars>>

Ends == {"completed", "failed", "cancelled", "interrupted"}
Phases == {"idle", "requested", "streaming", "consuming", "cancelling",
           "confirming", "interrupting", "escalated", "closing", "over"}

Event(c, k) == [type |-> "event", call |-> c, kind |-> k, n |-> yielded[c]]
Created(c) == [type |-> "create", call |-> c, kind |-> "create", n |-> 0]

Init ==
    /\ watching = FALSE /\ watcher = "none"
    /\ feed = <<>> /\ missed = {}
    /\ phase = [c \in Calls |-> "idle"]
    /\ queues = {} /\ bound = {}
    /\ queue = [c \in Calls |-> <<>>]
    /\ orphans = [c \in Calls |-> <<>>]
    /\ seen = [c \in Calls |-> <<>>]
    /\ told = [c \in Calls |-> "nothing"]
    /\ confirmed = {}
    /\ remote = [c \in Calls |-> "none"]
    /\ created = {}
    /\ yielded = [c \in Calls |-> 0]

Goto(c, p) == phase' = [phase EXCEPT ![c] = p]

\* Mutation: the events that were kept stay where they are.
BindForgets(c) ==
    /\ bound' = bound \cup {c}
    /\ orphans' = [orphans EXCEPT ![c] = <<>>]
    /\ UNCHANGED queue

\* _bind: relate task and reference, and flush the events that came before.
Bind(c) ==
    /\ bound' = bound \cup {c}
    /\ orphans' = [orphans EXCEPT ![c] = <<>>]
    /\ queue' = IF c \in queues THEN [queue EXCEPT ![c] = @ \o orphans[c]] ELSE queue

\* _cleanup_reference.
Cleanup(c) ==
    /\ queues' = queues \ {c}
    /\ queue' = [queue EXCEPT ![c] = <<>>]
    /\ bound' = bound \ {c}
    /\ orphans' = IF c \in bound THEN [orphans EXCEPT ![c] = <<>>] ELSE orphans

-----------------------------------------------------------------------------
(* aassign. *)

\* The first call starts the task of the watcher, which is never started again,
\* whatever becomes of it; nobody waits for its subscription.  The queue is
\* made, and the request sent.
Call(c) ==
    /\ phase[c] = "idle"
    /\ Goto(c, "requested")
    /\ watching' = TRUE
    /\ watcher' = IF watching THEN watcher ELSE "starting"
    /\ queues' = queues \cup {c}
    /\ UNCHANGED <<feedVars, queue, bound, orphans, seen, told, confirmed, backendVars>>

\* The request is answered with the task ...
Accepted(c) ==
    /\ phase[c] = "requested" /\ remote[c] # "none"
    /\ Goto(c, "streaming")
    /\ Bind(c)
    /\ UNCHANGED <<watchVars, feedVars, queues, seen, told, confirmed, backendVars>>

\* ... or fails: any exception of the HTTP call becomes a PostmanException,
\* whether the backend refused, or has the task and the answer was lost, or
\* will have it.  The queue stays.
RequestFails(c) ==
    /\ phase[c] = "requested"
    /\ Goto(c, "over")
    /\ told' = [told EXCEPT ![c] = "unanswered"]
    /\ UNCHANGED <<watchVars, feedVars, tableVars, seen, confirmed, backendVars>>

\* The next event: a yield is handed to the caller; completed and failed make
\* the consumer stop; it waits on after the others.
Deliver(c) ==
    /\ phase[c] = "streaming" /\ queue[c] # <<>>
    /\ queue' = [queue EXCEPT ![c] = Tail(@)]
    /\ LET e == Head(queue[c]) IN
        \/ /\ e.kind = "yield" /\ Goto(c, "consuming")
           /\ seen' = [seen EXCEPT ![c] = Append(@, e.n)]
           /\ UNCHANGED told
        \/ /\ e.kind \in {"completed", "failed"} /\ Goto(c, "closing")
           /\ told' = [told EXCEPT ![c] =
                          IF e.kind = "completed" THEN "completed" ELSE "critical"]
           /\ UNCHANGED seen
        \/ /\ e.kind \in {"cancelled", "interrupted"}
           /\ UNCHANGED <<phase, seen, told>>
    /\ UNCHANGED <<watchVars, feedVars, queues, bound, orphans, confirmed, backendVars>>

Consumed(c) ==
    /\ phase[c] = "consuming"
    /\ Goto(c, "streaming")
    /\ UNCHANGED <<watchVars, feedVars, tableVars, seen, told, confirmed, backendVars>>

\* The caller leaves its loop over the yields.
Abandon(c) ==
    /\ phase[c] = "consuming"
    /\ Goto(c, "closing")
    /\ told' = [told EXCEPT ![c] = "abandoned"]
    /\ UNCHANGED <<watchVars, feedVars, tableVars, seen, confirmed, backendVars>>

\* The suspended generator is closed: GeneratorExit is not a cancellation, so
\* nothing is cancelled and nothing cleaned up.
Close(c) ==
    /\ phase[c] = "closing"
    /\ Goto(c, "over")
    /\ UNCHANGED <<watchVars, feedVars, tableVars, seen, told, confirmed, backendVars>>

-----------------------------------------------------------------------------
(* Cancellation of the calling task. *)

\* During the request nothing is cleaned up; a call that streams asks for the
\* cancellation; one that waits for it gives up.
Cancel(c) ==
    /\ \/ /\ phase[c] = "requested" /\ Goto(c, "over")
          /\ UNCHANGED tableVars
       \/ /\ phase[c] = "consuming" /\ Goto(c, "closing")
          /\ UNCHANGED tableVars
       \/ /\ phase[c] = "streaming" /\ Goto(c, "cancelling")
          /\ UNCHANGED tableVars
       \/ /\ phase[c] \in {"cancelling", "confirming", "interrupting", "escalated"}
          /\ Goto(c, "over") /\ Cleanup(c)
    /\ told' = [told EXCEPT ![c] = IF @ = "nothing" THEN "cancelled" ELSE @]
    /\ UNCHANGED <<watchVars, feedVars, seen, confirmed, backendVars>>

\* Whatever acancel and ainterrupt do, within the time-out or not, the
\* confirmation is waited for next.
Requested(c) ==
    /\ phase[c] \in {"cancelling", "interrupting"}
    /\ Goto(c, IF phase[c] = "cancelling" THEN "confirming" ELSE "escalated")
    /\ UNCHANGED <<watchVars, feedVars, tableVars, seen, told, confirmed, backendVars>>

Awaited(c) ==
    IF phase[c] = "confirming" THEN {"cancelled"} ELSE {"cancelled", "interrupted"}

\* Mutation: any event is taken for the confirmation.
ConfirmAny(c) ==
    /\ phase[c] \in {"confirming", "escalated"} /\ queue[c] # <<>>
    /\ Cleanup(c) /\ Goto(c, "over") /\ confirmed' = confirmed \cup {c}
    /\ UNCHANGED <<watchVars, feedVars, seen, told, backendVars>>

\* _await_kind drops every event but the awaited one.
Confirm(c) ==
    /\ phase[c] \in {"confirming", "escalated"} /\ queue[c] # <<>>
    /\ IF Head(queue[c]).kind \in Awaited(c)
       THEN Cleanup(c) /\ Goto(c, "over") /\ confirmed' = confirmed \cup {c}
       ELSE /\ queue' = [queue EXCEPT ![c] = Tail(@)]
            /\ UNCHANGED <<phase, queues, bound, orphans, confirmed>>
    /\ UNCHANGED <<watchVars, feedVars, seen, told, backendVars>>

\* The wait is over: once it may be escalated, then nobody waits any more.
TimeOut(c) ==
    /\ phase[c] \in {"confirming", "escalated"}
    /\ IF phase[c] = "confirming" /\ c \in Escalating
       THEN Goto(c, "interrupting") /\ UNCHANGED tableVars
       ELSE Goto(c, "over") /\ Cleanup(c)
    /\ UNCHANGED <<watchVars, feedVars, seen, told, confirmed, backendVars>>

-----------------------------------------------------------------------------
(* watch_tasks. *)

Take == watcher = "alive" /\ feed # <<>> /\ feed' = Tail(feed) /\ UNCHANGED missed

\* Mutation: an event of a task that is not bound yet is dropped.
WatchEventDrops ==
    /\ Take /\ Head(feed).type = "event"
    /\ LET c == Head(feed).call IN
        queue' = IF c \in bound /\ c \in queues
                 THEN [queue EXCEPT ![c] = Append(@, Head(feed))] ELSE queue
    /\ UNCHANGED <<watchVars, queues, bound, orphans, callerVars, backendVars>>

WatchCreate ==
    /\ Take /\ Head(feed).type = "create"
    /\ Bind(Head(feed).call)
    /\ UNCHANGED <<watchVars, queues, callerVars, backendVars>>

\* To the queue of the reference, or to the orphans of the task.
WatchEvent ==
    /\ Take /\ Head(feed).type = "event"
    /\ LET c == Head(feed).call IN
        IF c \in bound /\ c \in queues
        THEN queue' = [queue EXCEPT ![c] = Append(@, Head(feed))] /\ UNCHANGED orphans
        ELSE orphans' = [orphans EXCEPT ![c] = Append(@, Head(feed))] /\ UNCHANGED queue
    /\ UNCHANGED <<watchVars, queues, bound, callerVars, backendVars>>

\* The subscription of the new watcher has reached the backend.
Subscribe ==
    /\ watcher = "starting" /\ watcher' = "alive"
    /\ UNCHANGED <<watching, feedVars, tableVars, callerVars, backendVars>>

\* It fails, or the feed breaks: the error is logged, and nothing watches any
\* more.
WatcherDies ==
    /\ MayFail /\ watcher \in {"starting", "alive"}
    /\ watcher' = "dead" /\ feed' = <<>>
    /\ missed' = missed \cup {m.call : m \in {m \in Range(feed) : m.type = "event"}}
    /\ UNCHANGED <<watching, tableVars, callerVars, backendVars>>

-----------------------------------------------------------------------------
(* The backend (external). *)

\* A change is published to the subscription, if there is one.
Changed(change) ==
    IF watcher = "alive"
    THEN feed' = Append(feed, change) /\ UNCHANGED missed
    ELSE /\ missed' = IF change.type = "event" THEN missed \cup {change.call} ELSE missed
         /\ UNCHANGED feed

\* The task is created, even if the call has given up on its request; the
\* answer and the create change race.
BackendCreate(c) ==
    /\ remote[c] = "none" /\ phase[c] # "idle"
    /\ remote' = [remote EXCEPT ![c] = "running"]
    /\ UNCHANGED <<watchVars, feedVars, tableVars, callerVars, created, yielded>>

BackendAnnounce(c) ==
    /\ remote[c] # "none" /\ c \notin created
    /\ created' = created \cup {c}
    /\ Changed(Created(c))
    /\ UNCHANGED <<watchVars, tableVars, callerVars, remote, yielded>>

\* The feed need not have the create of a task before its events.
BackendYield(c) ==
    /\ remote[c] = "running" /\ yielded[c] < MaxYields[c]
    /\ yielded' = [yielded EXCEPT ![c] = @ + 1]
    /\ Changed([Event(c, "yield") EXCEPT !.n = @ + 1])
    /\ UNCHANGED <<watchVars, tableVars, callerVars, remote, created>>

BackendEnd(c, kind) ==
    /\ remote[c] = "running"
    /\ remote' = [remote EXCEPT ![c] = kind]
    /\ Changed(Event(c, kind))
    /\ UNCHANGED <<watchVars, tableVars, callerVars, created, yielded>>

BackendFinish(c) == \E kind \in Outcomes : BackendEnd(c, kind)

\* The request to cancel or interrupt has reached the executor.
BackendControl(c) ==
    \/ phase[c] \in {"cancelling", "confirming"} /\ BackendEnd(c, "cancelled")
    \/ phase[c] \in {"interrupting", "escalated"} /\ BackendEnd(c, "interrupted")

-----------------------------------------------------------------------------
Coroutine(c) ==
    \/ Accepted(c) \/ Deliver(c) \/ Consumed(c) \/ Close(c) \/ Requested(c)
    \/ Confirm(c)

Watch == WatchCreate \/ WatchEvent

Next ==
    \/ \E c \in Calls :
        \/ Call(c) \/ Coroutine(c) \/ RequestFails(c) \/ TimeOut(c) \/ Abandon(c) \/ Cancel(c)
        \/ BackendCreate(c) \/ BackendAnnounce(c) \/ BackendYield(c)
        \/ BackendFinish(c) \/ BackendControl(c)
    \/ Watch \/ Subscribe \/ WatcherDies

Spec == Init /\ [][Next]_vars

\* The event loop runs every task that can run, and a wait_for times out.
Fairness ==
    /\ WF_vars(Watch)
    /\ \A c \in Calls : WF_vars(Coroutine(c)) /\ WF_vars(TimeOut(c))

FairSpec == Spec /\ Fairness

-----------------------------------------------------------------------------
(* Properties. *)

\* The caller gets what a postman promises, whichever of answer, create change
\* and events comes first: the yields in order and the true end.  An event is
\* lost if it is published before the watcher's subscription, or after the
\* feed broke, or was in the feed then; a call of which none was is promised
\* everything.
D == INSTANCE Delegation WITH lost <- missed

ImplementsDelegation == D!Spec

\* A cancellation that the backend has confirmed leaves no queue and no event,
\* whatever was still on its way (_cleanup_reference).  The binding may come
\* back: a create change that is heard later makes it again.
ConfirmedLeavesNothing ==
    \A c \in confirmed : c \notin queues /\ queue[c] = <<>> /\ orphans[c] = <<>>

\* A call whose task has come to an end the consumer knows hears of it, if the
\* watcher was subscribed, and stayed so, when the task's events were
\* published.  One that missed an event may wait for ever: also the first call,
\* with a watcher that is alive.
EndIsHeard ==
    \A c \in Calls :
        (phase[c] = "streaming" /\ remote[c] \in {"completed", "failed"})
            ~> (told[c] # "nothing" \/ c \in missed)
=============================================================================
