---------------------------- MODULE CallerPostman ----------------------------
(***************************************************************************)
(* Calls that a running task makes over the agent's own socket:            *)
(* AgentPostman.aassign, one coroutine per call, and the handlers through  *)
(* which the message loop feeds it.  The task a call is given by the       *)
(* backend is named after the call.  While the loop cancels a task it      *)
(* waits for it (Assignments), and feeds nobody.                           *)
(*                                                                         *)
(* The consumer is remote._astream_raw, which leaves the generator where   *)
(* it has yielded the end of the call; asyncio then closes it.             *)
(***************************************************************************)
EXTENDS Integers, Sequences, SequencesExt

CONSTANTS
    Calls,
    Escalating,     \* the calls made with escalate_to_interrupt
    Reading,        \* the loop waits for the next message
    Outcomes,       \* the ends a task comes to on its own, or by others
    MaxYields,      \* bound: how often each task yields
    MaxLost         \* bound: how many messages disconnects swallow

ASSUME CallerAssumption ==
    /\ Escalating \subseteq Calls
    /\ Reading \notin Calls
    /\ Outcomes \subseteq {"completed", "failed", "cancelled", "interrupted"}
    /\ MaxYields \in [Calls -> Nat] /\ MaxLost \in Nat

VARIABLES
    toBackend,      \* requests on their way
    toAgent,        \* responses and event mirrors on their way
    lost,
    loop,           \* Reading, or the call whose task a Cancel awaits
    phase,          \* where the coroutine of each call is
    response,       \* the future in _pending_responses, and its result
    queues,         \* the calls with an entry in _task_queues
    queue,          \* the mirrors in that entry
    orphans,        \* _orphan_by_task
    seen,           \* the yields the caller has been given
    told,           \* how the call ended, to the caller
    remote,         \* the task at the backend: none, running or its end
    responded,      \* the backend has answered the request
    yielded         \* how many yields it has mirrored

wireVars == <<toBackend, toAgent, lost>>
tableVars == <<response, queues, queue, orphans>>
callerVars == <<phase, seen, told>>
backendVars == <<remote, responded, yielded>>
vars == <<wireVars, loop, tableVars, callerVars, backendVars>>

Ends == {"completed", "failed", "cancelled", "interrupted"}
Phases == {"idle", "requested", "streaming", "consuming", "confirming",
           "escalated", "closing", "over"}

Event(c, k) == [type |-> "event", call |-> c, kind |-> k, n |-> yielded[c]]
Request(c, type) == [type |-> type, call |-> c]

Init ==
    /\ toBackend = <<>> /\ toAgent = <<>> /\ lost = 0
    /\ loop = Reading
    /\ phase = [c \in Calls |-> "idle"]
    /\ response = [c \in Calls |-> "none"]
    /\ queues = {}
    /\ queue = [c \in Calls |-> <<>>]
    /\ orphans = [c \in Calls |-> <<>>]
    /\ seen = [c \in Calls |-> <<>>]
    /\ told = [c \in Calls |-> "nothing"]
    /\ remote = [c \in Calls |-> "none"]
    /\ responded = {}
    /\ yielded = [c \in Calls |-> 0]

Goto(c, p) == phase' = [phase EXCEPT ![c] = p]

-----------------------------------------------------------------------------
(* aassign. *)

\* A request with its response future.
Call(c) ==
    /\ phase[c] = "idle"
    /\ Goto(c, "requested")
    /\ response' = [response EXCEPT ![c] = "pending"]
    /\ toBackend' = Append(toBackend, Request(c, "assign"))
    /\ UNCHANGED <<toAgent, lost, loop, queues, queue, orphans, seen, told,
                   backendVars>>

\* Mutation: only the pending response is dropped.
CleanupResponseOnly(c) ==
    /\ response' = [response EXCEPT ![c] = "none"]
    /\ UNCHANGED <<queues, queue, orphans>>

\* The finally block; the task is known once the response has been read.
Cleanup(c) ==
    /\ response' = [response EXCEPT ![c] = "none"]
    /\ IF phase[c] = "requested"
       THEN UNCHANGED <<queues, queue, orphans>>
       ELSE /\ queues' = queues \ {c}
            /\ queue' = [queue EXCEPT ![c] = <<>>]
            /\ orphans' = [orphans EXCEPT ![c] = <<>>]

\* Mutation: the call makes a queue of its own.
AcceptedNewQueue(c) ==
    /\ phase[c] = "requested" /\ response[c] = "assigned"
    /\ Goto(c, "streaming")
    /\ queues' = queues \cup {c}
    /\ queue' = [queue EXCEPT ![c] = orphans[c]]
    /\ orphans' = [orphans EXCEPT ![c] = <<>>]
    /\ UNCHANGED <<wireVars, loop, response, seen, told, backendVars>>

\* The response is read: the call takes over the queue of its task.
Accepted(c) ==
    /\ phase[c] = "requested" /\ response[c] = "assigned"
    /\ Goto(c, "streaming")
    /\ queues' = queues \cup {c}
    /\ queue' = [queue EXCEPT ![c] = @ \o orphans[c]]
    /\ orphans' = [orphans EXCEPT ![c] = <<>>]
    /\ UNCHANGED <<wireVars, loop, response, seen, told, backendVars>>

\* The response is an error: AssignException.
Refused(c) ==
    /\ phase[c] = "requested" /\ response[c] = "refused"
    /\ Cleanup(c)
    /\ Goto(c, "over")
    /\ told' = [told EXCEPT ![c] = "refused"]
    /\ UNCHANGED <<wireVars, loop, seen, backendVars>>

\* _adapt and _astream_raw: a delegated task that failed or was killed is an
\* error for the caller.
Adapt(kind) == IF kind = "completed" THEN "completed" ELSE "critical"

\* The next mirror: a yield is handed to the caller; the end makes the caller
\* stop, and leaves the generator to be closed.
Deliver(c) ==
    /\ phase[c] = "streaming" /\ queue[c] # <<>>
    /\ queue' = [queue EXCEPT ![c] = Tail(@)]
    /\ LET e == Head(queue[c]) IN
        IF e.kind = "yield"
        THEN /\ Goto(c, "consuming")
             /\ seen' = [seen EXCEPT ![c] = Append(@, e.n)]
             /\ UNCHANGED told
        ELSE /\ Goto(c, "closing")
             /\ told' = [told EXCEPT ![c] = Adapt(e.kind)]
             /\ UNCHANGED seen
    /\ UNCHANGED <<wireVars, loop, response, queues, orphans, backendVars>>

\* The caller asks for more ...
Consumed(c) ==
    /\ phase[c] = "consuming"
    /\ Goto(c, "streaming")
    /\ UNCHANGED <<wireVars, loop, tableVars, seen, told, backendVars>>

\* ... or leaves its loop over the yields.
Abandon(c) ==
    /\ phase[c] = "consuming"
    /\ Goto(c, "closing")
    /\ told' = [told EXCEPT ![c] = "abandoned"]
    /\ UNCHANGED <<wireVars, loop, tableVars, seen, backendVars>>

\* The suspended generator is closed (GeneratorExit): a CancelRequest, without
\* waiting for an answer.
Close(c) ==
    /\ phase[c] = "closing"
    /\ toBackend' = Append(toBackend, Request(c, "cancel"))
    /\ Cleanup(c)
    /\ Goto(c, "over")
    /\ UNCHANGED <<toAgent, lost, loop, seen, told, backendVars>>

-----------------------------------------------------------------------------
(* Cancellation of the calling task. *)

\* The CancelledError reaches the call: before the response is read there is
\* no task to cancel, not even if the response is there; a call whose caller
\* holds a yield is closed later; one that streams asks for the cancellation
\* and waits for it; one that waits already gives up.
Interrupted(c) ==
    \/ /\ phase[c] = "requested"
       /\ Cleanup(c) /\ Goto(c, "over")
       /\ UNCHANGED toBackend
    \/ /\ phase[c] = "consuming"
       /\ Goto(c, "closing")
       /\ UNCHANGED <<toBackend, tableVars>>
    \/ /\ phase[c] = "streaming"
       /\ Goto(c, "confirming")
       /\ toBackend' = Append(toBackend, Request(c, "cancel"))
       /\ UNCHANGED tableVars
    \/ /\ phase[c] \in {"confirming", "escalated"}
       /\ Cleanup(c) /\ Goto(c, "over")
       /\ UNCHANGED toBackend

\* By other code of the same process (a timeout, a task group) ...
CancelLocally(c) ==
    /\ told[c] = "nothing" /\ Interrupted(c)
    /\ told' = [told EXCEPT ![c] = "cancelled"]
    /\ UNCHANGED <<toAgent, lost, loop, seen, backendVars>>

\* ... or by the loop, which then waits for the calling task.
CancelByLoop(c) ==
    /\ loop = Reading /\ Interrupted(c)
    /\ loop' = c
    /\ told' = [told EXCEPT ![c] = "cancelled"]
    /\ UNCHANGED <<toAgent, lost, seen, backendVars>>

\* The calling task has ended.
LoopGoesOn(c) ==
    /\ loop = c /\ phase[c] \in {"closing", "over"}
    /\ loop' = Reading
    /\ UNCHANGED <<wireVars, tableVars, callerVars, backendVars>>

Awaited(c) ==
    IF phase[c] = "confirming" THEN {"cancelled"} ELSE {"cancelled", "interrupted"}

\* _await_terminal drops every mirror but the awaited confirmation.
Confirm(c) ==
    /\ phase[c] \in {"confirming", "escalated"} /\ queue[c] # <<>>
    /\ IF Head(queue[c]).kind \in Awaited(c)
       THEN Cleanup(c) /\ Goto(c, "over")
       ELSE /\ queue' = [queue EXCEPT ![c] = Tail(@)]
            /\ UNCHANGED <<phase, response, queues, orphans>>
    /\ UNCHANGED <<wireVars, loop, seen, told, backendVars>>

\* Mutation: an interrupt that is not confirmed is sent again.
TimeOutRetries(c) ==
    /\ phase[c] \in {"confirming", "escalated"}
    /\ IF c \in Escalating
       THEN /\ Goto(c, "escalated")
            /\ toBackend' = IF phase[c] = "confirming"
                            THEN Append(toBackend, Request(c, "interrupt")) ELSE toBackend
            /\ UNCHANGED tableVars
       ELSE Cleanup(c) /\ Goto(c, "over") /\ UNCHANGED toBackend
    /\ UNCHANGED <<toAgent, lost, loop, seen, told, backendVars>>

\* No confirmation in time: escalate once, if asked to, or give up.
TimeOut(c) ==
    /\ phase[c] \in {"confirming", "escalated"}
    /\ IF phase[c] = "confirming" /\ c \in Escalating
       THEN /\ Goto(c, "escalated")
            /\ toBackend' = Append(toBackend, Request(c, "interrupt"))
            /\ UNCHANGED tableVars
       ELSE Cleanup(c) /\ Goto(c, "over") /\ UNCHANGED toBackend
    /\ UNCHANGED <<toAgent, lost, loop, seen, told, backendVars>>

-----------------------------------------------------------------------------
(* The message loop (BaseAgent.process). *)

Take == loop = Reading /\ toAgent # <<>> /\ toAgent' = Tail(toAgent)

\* Mutation: the mirrors that came before the response are forgotten.
HandleAssignResponseForgets ==
    /\ Take /\ Head(toAgent).type = "response"
    /\ LET c == Head(toAgent).call IN
        /\ IF Head(toAgent).kind = "assigned"
           THEN /\ queues' = queues \cup {c}
                /\ orphans' = [orphans EXCEPT ![c] = <<>>]
           ELSE UNCHANGED <<queues, orphans>>
        /\ response' = IF response[c] = "pending"
                       THEN [response EXCEPT ![c] = Head(toAgent).kind] ELSE response
    /\ UNCHANGED <<toBackend, lost, loop, queue, callerVars, backendVars>>

\* Mutation: they are delivered and kept.
HandleAssignResponseKeeps ==
    /\ Take /\ Head(toAgent).type = "response"
    /\ LET c == Head(toAgent).call IN
        /\ IF Head(toAgent).kind = "assigned"
           THEN /\ queues' = queues \cup {c}
                /\ queue' = [queue EXCEPT ![c] = @ \o orphans[c]]
           ELSE UNCHANGED <<queues, queue>>
        /\ response' = IF response[c] = "pending"
                       THEN [response EXCEPT ![c] = Head(toAgent).kind] ELSE response
    /\ UNCHANGED <<toBackend, lost, loop, orphans, callerVars, backendVars>>

\* handle_assign_response: make the queue, fill it with what came before the
\* response, and resolve the future, if the call still waits.
HandleAssignResponse ==
    /\ Take /\ Head(toAgent).type = "response"
    /\ LET c == Head(toAgent).call IN
        /\ IF Head(toAgent).kind = "assigned"
           THEN /\ queues' = queues \cup {c}
                /\ queue' = [queue EXCEPT ![c] = @ \o orphans[c]]
                /\ orphans' = [orphans EXCEPT ![c] = <<>>]
           ELSE UNCHANGED <<queues, queue, orphans>>
        /\ response' = IF response[c] = "pending"
                       THEN [response EXCEPT ![c] = Head(toAgent).kind] ELSE response
    /\ UNCHANGED <<toBackend, lost, loop, callerVars, backendVars>>

\* handle_execution_event: to the queue of its task, or to the orphans.
HandleExecutionEvent ==
    /\ Take /\ Head(toAgent).type = "event"
    /\ LET c == Head(toAgent).call IN
        IF c \in queues
        THEN queue' = [queue EXCEPT ![c] = Append(@, Head(toAgent))] /\ UNCHANGED orphans
        ELSE orphans' = [orphans EXCEPT ![c] = Append(@, Head(toAgent))] /\ UNCHANGED queue
    /\ UNCHANGED <<toBackend, lost, loop, response, queues, callerVars, backendVars>>

-----------------------------------------------------------------------------
(* The connection and the backend (external). *)

\* A disconnect swallows a message.
LoseMirror ==
    /\ lost < MaxLost /\ toAgent # <<>>
    /\ toAgent' = Tail(toAgent) /\ lost' = lost + 1
    /\ UNCHANGED <<toBackend, loop, tableVars, callerVars, backendVars>>

LoseRequest ==
    /\ lost < MaxLost /\ toBackend # <<>>
    /\ toBackend' = Tail(toBackend) /\ lost' = lost + 1
    /\ UNCHANGED <<toAgent, loop, tableVars, callerVars, backendVars>>

TakeRequest(type) ==
    /\ toBackend # <<>> /\ Head(toBackend).type = type
    /\ toBackend' = Tail(toBackend)
    /\ UNCHANGED <<lost, loop, tableVars, callerVars>>

Response(c, kind) == [type |-> "response", call |-> c, kind |-> kind, n |-> 0]

BackendAccept ==
    /\ TakeRequest("assign")
    /\ remote' = [remote EXCEPT ![Head(toBackend).call] = "running"]
    /\ UNCHANGED <<toAgent, responded, yielded>>

BackendRefuse ==
    /\ TakeRequest("assign")
    /\ toAgent' = Append(toAgent, Response(Head(toBackend).call, "refused"))
    /\ responded' = responded \cup {Head(toBackend).call}
    /\ UNCHANGED <<remote, yielded>>

\* The response and the mirrors come over different routes, in any order.
BackendRespond(c) ==
    /\ remote[c] # "none" /\ c \notin responded
    /\ responded' = responded \cup {c}
    /\ toAgent' = Append(toAgent, Response(c, "assigned"))
    /\ UNCHANGED <<toBackend, lost, loop, tableVars, callerVars, remote, yielded>>

BackendYield(c) ==
    /\ remote[c] = "running" /\ yielded[c] < MaxYields[c]
    /\ yielded' = [yielded EXCEPT ![c] = @ + 1]
    /\ toAgent' = Append(toAgent, [Event(c, "yield") EXCEPT !.n = @ + 1])
    /\ UNCHANGED <<toBackend, lost, loop, tableVars, callerVars, remote, responded>>

BackendEnd(c, kind) ==
    /\ remote[c] = "running"
    /\ remote' = [remote EXCEPT ![c] = kind]
    /\ toAgent' = Append(toAgent, Event(c, kind))
    /\ UNCHANGED <<responded, yielded>>

BackendFinish(c) ==
    /\ \E kind \in Outcomes : BackendEnd(c, kind)
    /\ UNCHANGED <<toBackend, lost, loop, tableVars, callerVars>>

\* A control request ends a running task, unless its executor cannot.
BackendControl ==
    \E type \in {"cancel", "interrupt"} :
        /\ TakeRequest(type)
        /\ \/ BackendEnd(Head(toBackend).call,
                         IF type = "cancel" THEN "cancelled" ELSE "interrupted")
           \/ UNCHANGED <<toAgent, backendVars>>

-----------------------------------------------------------------------------
Coroutine(c) ==
    \/ Accepted(c) \/ Refused(c) \/ Deliver(c) \/ Consumed(c) \/ Close(c)
    \/ Confirm(c) \/ LoopGoesOn(c)

Process == HandleAssignResponse \/ HandleExecutionEvent

Backend ==
    \/ BackendAccept \/ BackendRefuse \/ BackendControl
    \/ \E c \in Calls : BackendRespond(c)

Next ==
    \/ \E c \in Calls :
        \/ Call(c) \/ Coroutine(c) \/ TimeOut(c) \/ Abandon(c)
        \/ CancelLocally(c) \/ CancelByLoop(c)
        \/ BackendYield(c) \/ BackendFinish(c)
    \/ Process \/ LoseMirror \/ LoseRequest \/ Backend

Spec == Init /\ [][Next]_vars

\* Every task of the event loop that can run does, a wait_for times out, and
\* the backend answers.  Nothing obliges a task to end.
Fairness ==
    /\ WF_vars(Process) /\ WF_vars(Backend)
    /\ \A c \in Calls : WF_vars(Coroutine(c)) /\ WF_vars(TimeOut(c))

FairSpec == Spec /\ Fairness

-----------------------------------------------------------------------------
(* Properties. *)

Message ==
    [type : {"event"}, call : Calls, kind : Ends \cup {"yield"}, n : Nat]
        \cup [type : {"response"}, call : Calls, kind : {"assigned", "refused"}, n : {0}]

\* Every variable has its type, and a task has a queue or orphans, not both.
TypeOK ==
    /\ toBackend \in Seq([type : {"assign", "cancel", "interrupt"}, call : Calls])
    /\ toAgent \in Seq(Message) /\ lost \in 0..MaxLost
    /\ loop \in Calls \cup {Reading}
    /\ phase \in [Calls -> Phases]
    /\ response \in [Calls -> {"none", "pending", "assigned", "refused"}]
    /\ queues \subseteq Calls
    /\ queue \in [Calls -> Seq(Message)] /\ orphans \in [Calls -> Seq(Message)]
    /\ \A c \in Calls : IF c \in queues THEN orphans[c] = <<>> ELSE queue[c] = <<>>
    /\ seen \in [Calls -> Seq(Nat)]
    /\ told \in [Calls -> {"nothing", "refused", "completed", "critical",
                           "cancelled", "abandoned"}]
    /\ remote \in [Calls -> Ends \cup {"none", "running"}]
    /\ responded \subseteq Calls
    /\ \A c \in Calls : yielded[c] \in 0..MaxYields[c]

\* The caller gets what a postman promises, whatever order response and mirrors
\* come in, before and after the call has read its response: the yields in
\* their order, and the true end (Delegation).  A disconnect may have taken a
\* message of any call.
Lossy == IF lost = 0 THEN {} ELSE Calls

D == INSTANCE Delegation WITH lost <- Lossy

ImplementsDelegation == D!Spec

\* A call that has come to its end, however response and mirrors crossed,
\* leaves nothing behind in the tables of the postman.
NothingLeft ==
    \A c \in Calls :
        phase[c] = "over" /\ told[c] \in {"completed", "critical", "refused"} =>
            /\ response[c] = "none" /\ c \notin queues
            /\ queue[c] = <<>> /\ orphans[c] = <<>>

\* The message loop is never held up for good by a task whose call waits for
\* a confirmation that the held-up loop itself would have to deliver.
LoopIsFreed == (loop # Reading) ~> (loop = Reading)

\* A call whose task has ended hears of it, unless a message was lost.
EndIsHeard ==
    \A c \in Calls :
        (phase[c] = "streaming" /\ remote[c] \in Ends) ~> (told[c] # "nothing" \/ lost > 0)
=============================================================================
