----------------------------- MODULE Assignments -----------------------------
(***************************************************************************)
(* The life of a task inside the agent: the message loop (BaseAgent.process *)
(* and Actor.aprocess) and the asyncio task of each assignment             *)
(* (FunctionalActor.on_assign with its breakpoints) run interleaved.       *)
(*                                                                         *)
(* The loop handles one message at a time and, on a Cancel, waits for the  *)
(* task to end.  The sends of the websocket transport never suspend, so a  *)
(* task is only interrupted where the code awaits something else: before   *)
(* its first step, at a lock, in the user's function, at a breakpoint.     *)
(* Pause and resume hooks, log and progress messages are left out.         *)
(***************************************************************************)
EXTENDS Integers, Sequences, SequencesExt

CONSTANTS
    Tasks,          \* the tasks of this process
    Foreign,        \* tasks the backend still knows from an earlier process
    Stubborn,       \* the tasks whose function may swallow a CancelledError
    InterfaceOf,    \* the interface each task is assigned to
    Buildable,      \* the interfaces the app registry has a builder for
    Serial,         \* those whose actor runs one assignment at a time
    Reading,        \* the loop waits for the next message
    Dead,           \* the loop has ended with an exception
    MaxMessages,    \* bound: how many messages the backend sends
    MaxInbox        \* bound: how many of them wait at once

ASSUME AssignmentsAssumption ==
    /\ Tasks \cap Foreign = {}
    /\ Stubborn \subseteq Tasks
    /\ {Reading, Dead} \cap Tasks = {} /\ Reading # Dead
    /\ MaxMessages \in Nat /\ MaxInbox \in Nat

Known == Tasks \cup Foreign

VARIABLES
    inbox,          \* messages received, not yet processed
    sentMessages,   \* how many the backend has sent
    loop,           \* Reading, Dead, or the task whose end a Cancel awaits
    actors,         \* managed_actors: the interfaces with a spawned actor
    managed,        \* managed_assignments (never shrinks)
    tracked,        \* _running_asyncio_tasks
    gate,           \* _break_futures: the number of the future, 0 for none
    gateDead,       \* that future has been cancelled
    gates,          \* how many futures were made for the task
    stage,          \* where the asyncio task of the assignment is
    waitsOn,        \* the future a paused task awaits
    outcome,        \* how the execution ended
    ends            \* the terminal reports sent about the task, in order

loopVars == <<loop, actors, managed, tracked>>
gateVars == <<gate, gateDead, gates>>
taskVars == <<stage, waitsOn, outcome>>
vars == <<inbox, sentMessages, loopVars, gateVars, taskVars, ends>>

Stages == {"none", "scheduled", "waiting", "body", "paused", "resumed",
           "unwinding", "aborting", "done"}
Terminal == {"completed", "failed", "critical", "cancelled"}

Message ==
    [type : {"assign", "resume"}, task : Known, step : BOOLEAN]
        \cup [type : {"cancel", "pause", "inquiry"}, task : Known]
        \cup [type : {"interrupt", "protocol_error"}]

Init ==
    /\ inbox = <<>> /\ sentMessages = 0
    /\ loop = Reading
    /\ actors = {} /\ managed = {} /\ tracked = {}
    /\ gate = [t \in Known |-> 0]
    /\ gateDead = [t \in Known |-> FALSE]
    /\ gates = [t \in Known |-> 0]
    /\ stage = [t \in Known |-> "none"]
    /\ waitsOn = [t \in Known |-> 0]
    /\ outcome = [t \in Known |-> "none"]
    /\ ends = [t \in Known |-> <<>>]

Done(t) == stage[t] = "done"

\* _adispatch of a terminal report (what happens to it next: ReportStream).
Report(t, kind) == ends' = [ends EXCEPT ![t] = Append(@, kind)]

-----------------------------------------------------------------------------
(* The backend (external). *)

WasAssigned(t) ==
    \/ t \in Foreign \cup managed \/ ends[t] # <<>>
    \/ \E i \in 1..Len(inbox) : inbox[i].type = "assign" /\ inbox[i].task = t

\* A task is assigned once; only then, or in an earlier process, does the
\* backend control it.  The inquiry stands for an Init after a reconnect that
\* asks about the task.
BackendSends(m) ==
    /\ sentMessages < MaxMessages /\ Len(inbox) < MaxInbox
    /\ m.type = "assign" => m.task \in Tasks /\ ~WasAssigned(m.task)
    /\ m.type \in {"cancel", "pause", "resume", "inquiry"} => WasAssigned(m.task)
    /\ inbox' = Append(inbox, m)
    /\ sentMessages' = sentMessages + 1
    /\ UNCHANGED <<loopVars, gateVars, taskVars, ends>>

-----------------------------------------------------------------------------
(* The message loop. *)

\* The loop takes the next message, of one of these types.
Take(types) ==
    /\ loop = Reading
    /\ inbox # <<>> /\ Head(inbox).type \in types
    /\ inbox' = Tail(inbox)
    /\ UNCHANGED <<sentMessages>>

\* A new break future for the task.
Arm(t) ==
    /\ gates' = [gates EXCEPT ![t] = @ + 1]
    /\ gate' = [gate EXCEPT ![t] = gates[t] + 1]
    /\ gateDead' = [gateDead EXCEPT ![t] = FALSE]

\* Assign: the actor is spawned if need be, and the task scheduled; in step
\* mode its break future exists before it runs.
ProcessAssign ==
    /\ Take({"assign"})
    /\ LET t == Head(inbox).task IN
        /\ InterfaceOf[t] \in actors \cup Buildable
        /\ actors' = actors \cup {InterfaceOf[t]}
        /\ managed' = managed \cup {t}
        /\ tracked' = tracked \cup {t}
        /\ stage' = [stage EXCEPT ![t] = "scheduled"]
        /\ IF Head(inbox).step THEN Arm(t) ELSE UNCHANGED gateVars
    /\ UNCHANGED <<loop, waitsOn, outcome, ends>>

\* Assign to an interface without a builder: Critical, and the exception is
\* raised again, through the loop.
ProcessAssignUnknown ==
    /\ Take({"assign"})
    /\ InterfaceOf[Head(inbox).task] \notin actors \cup Buildable
    /\ Report(Head(inbox).task, "critical")
    /\ loop' = Dead
    /\ UNCHANGED <<actors, managed, tracked, gateVars, taskVars>>

\* A control message for a task this process does not manage.
ProcessControlUnmanaged ==
    /\ Take({"cancel", "pause", "resume"})
    /\ Head(inbox).task \notin managed
    /\ Report(Head(inbox).task, "critical")
    /\ UNCHANGED <<loopVars, gateVars, taskVars>>

\* Mutation: Cancelled is reported without waiting for the task to end.
ProcessCancelRunningAtOnce ==
    /\ Take({"cancel"})
    /\ LET t == Head(inbox).task IN
        /\ t \in managed \cap tracked /\ ~Done(t)
        /\ stage' = [stage EXCEPT ![t] =
                        IF @ \in {"scheduled", "waiting"} THEN "aborting" ELSE "unwinding"]
        /\ gateDead' = [gateDead EXCEPT ![t] = @ \/ stage[t] = "paused"]
        /\ tracked' = tracked \ {t}
        /\ Report(t, "cancelled")
    /\ UNCHANGED <<loop, actors, managed, gate, gates, waitsOn, outcome>>

\* Mutation: a paused task is not cancelled, for it is not running.
ProcessCancelRunningSparesPaused ==
    /\ Take({"cancel"})
    /\ LET t == Head(inbox).task IN
        /\ t \in managed \cap tracked /\ ~Done(t)
        /\ loop' = t
        /\ stage' = [stage EXCEPT ![t] =
                        IF @ \in {"scheduled", "waiting"} THEN "aborting"
                        ELSE IF @ = "paused" THEN @ ELSE "unwinding"]
    /\ UNCHANGED <<actors, managed, tracked, gateVars, waitsOn, outcome, ends>>

\* Cancel of a running task: task.cancel(), which also cancels the break
\* future a paused task awaits, and the loop awaits the task.  Only a task in
\* the user's function can react to the CancelledError.
ProcessCancelRunning ==
    /\ Take({"cancel"})
    /\ LET t == Head(inbox).task IN
        /\ t \in managed \cap tracked /\ ~Done(t)
        /\ loop' = t
        /\ stage' = [stage EXCEPT ![t] =
                        IF @ \in {"scheduled", "waiting"} THEN "aborting" ELSE "unwinding"]
        /\ gateDead' = [gateDead EXCEPT ![t] = @ \/ stage[t] = "paused"]
    /\ UNCHANGED <<actors, managed, tracked, gate, gates, waitsOn, outcome, ends>>

\* The awaited task has ended.  If it let the CancelledError through it is
\* untracked and Cancelled is reported; otherwise it has reported its own end.
CancelReturns(t) ==
    /\ loop = t /\ Done(t)
    /\ loop' = Reading
    /\ IF outcome[t] = "cancelled"
       THEN tracked' = tracked \ {t} /\ Report(t, "cancelled")
       ELSE UNCHANGED <<tracked, ends>>
    /\ UNCHANGED <<inbox, sentMessages, actors, managed, gateVars, taskVars>>

\* Cancel of a task that is done already: Cancelled is reported all the same.
ProcessCancelDone ==
    /\ Take({"cancel"})
    /\ Head(inbox).task \in managed \cap tracked /\ Done(Head(inbox).task)
    /\ Report(Head(inbox).task, "cancelled")
    /\ UNCHANGED <<loopVars, gateVars, taskVars>>

\* Cancel of a task whose cancellation was confirmed before: only a log.
ProcessCancelUntracked ==
    /\ Take({"cancel"})
    /\ Head(inbox).task \in managed \ tracked
    /\ UNCHANGED <<loopVars, gateVars, taskVars, ends>>

\* Mutation: a second Pause replaces the break future.
ProcessPauseAlways ==
    /\ Take({"pause"})
    /\ Head(inbox).task \in managed
    /\ Arm(Head(inbox).task)
    /\ UNCHANGED <<loopVars, taskVars, ends>>

\* Pause: the task will stop at its next breakpoint.
ProcessPause ==
    /\ Take({"pause"})
    /\ Head(inbox).task \in managed
    /\ IF gate[Head(inbox).task] = 0 THEN Arm(Head(inbox).task) ELSE UNCHANGED gateVars
    /\ UNCHANGED <<loopVars, taskVars, ends>>

\* Resume: resolve the break future; a step arms the next one at once.
ProcessResume ==
    /\ Take({"resume"})
    /\ LET t == Head(inbox).task IN
        /\ t \in managed
        /\ gate[t] # 0 /\ ~gateDead[t]
        /\ stage' = [stage EXCEPT ![t] =
                        IF @ = "paused" /\ waitsOn[t] = gate[t] THEN "resumed" ELSE @]
        /\ IF Head(inbox).step
           THEN Arm(t)
           ELSE gate' = [gate EXCEPT ![t] = 0] /\ UNCHANGED <<gateDead, gates>>
    /\ UNCHANGED <<loopVars, waitsOn, outcome, ends>>

\* Resume without a break future: only a warning.
ProcessResumeNotPaused ==
    /\ Take({"resume"})
    /\ Head(inbox).task \in managed /\ gate[Head(inbox).task] = 0
    /\ UNCHANGED <<loopVars, gateVars, taskVars, ends>>

\* Resume of a break future that a Cancel has cancelled: set_result raises
\* InvalidStateError, through the loop.
ProcessResumeCancelled ==
    /\ Take({"resume"})
    /\ LET t == Head(inbox).task IN t \in managed /\ gate[t] # 0 /\ gateDead[t]
    /\ loop' = Dead
    /\ UNCHANGED <<actors, managed, tracked, gateVars, taskVars, ends>>

\* Mutation: only a task inside the user's function counts as running.
ProcessInquiryQueuedIsGone ==
    /\ Take({"inquiry"})
    /\ LET t == Head(inbox).task IN
        IF stage[t] \in {"body", "paused", "resumed"}
        THEN UNCHANGED ends
        ELSE Report(t, "critical")
    /\ UNCHANGED <<loopVars, gateVars, taskVars>>

\* An inquiry of an Init: a tracked task is answered as still running, any
\* other gets Critical.
ProcessInquiry ==
    /\ Take({"inquiry"})
    /\ LET t == Head(inbox).task IN
        IF t \in managed \cap tracked
        THEN UNCHANGED ends
        ELSE Report(t, "critical")
    /\ UNCHANGED <<loopVars, gateVars, taskVars>>

\* ProtocolError raises; so does Interrupt, for which process has no branch.
ProcessFatal ==
    /\ Take({"interrupt", "protocol_error"})
    /\ loop' = Dead
    /\ UNCHANGED <<actors, managed, tracked, gateVars, taskVars, ends>>

-----------------------------------------------------------------------------
(* The asyncio task of an assignment. *)

InSyncContext(t) == stage[t] \in {"body", "paused", "resumed", "unwinding"}

\* The locks of sync_context are free (in full: TaskLocks).
MayEnter(t) ==
    InterfaceOf[t] \in Serial =>
        \A u \in Tasks : InterfaceOf[u] = InterfaceOf[t] => ~InSyncContext(u)

Goto(t, s) ==
    /\ stage' = [stage EXCEPT ![t] = s]
    /\ UNCHANGED <<inbox, sentMessages, loopVars>>

\* The task ends with this outcome.
End(t, o) ==
    /\ Goto(t, "done")
    /\ outcome' = [outcome EXCEPT ![t] = o]
    /\ UNCHANGED <<gateVars, waitsOn>>

\* on_assign starts and asks for its locks.
Start(t) ==
    /\ stage[t] = "scheduled"
    /\ Goto(t, "waiting")
    /\ UNCHANGED <<gateVars, waitsOn, outcome, ends>>

\* With the locks held the inputs expand and the user's function is called ...
Enter(t) ==
    /\ stage[t] = "waiting" /\ MayEnter(t)
    /\ Goto(t, "body")
    /\ UNCHANGED <<gateVars, waitsOn, outcome, ends>>

\* ... or the inputs do not expand: Failed ...
ExpandFails(t) ==
    /\ stage[t] = "waiting" /\ MayEnter(t)
    /\ End(t, "failed")
    /\ Report(t, "failed")

\* ... or collecting the locals raises, outside the try: nothing is reported.
LocalsFail(t) ==
    /\ stage[t] = "waiting" /\ MayEnter(t)
    /\ End(t, "silent")
    /\ UNCHANGED ends

\* abreak: a breakpoint reached while a break future is set.  A cancelled
\* future raises CancelledError there instead of waiting.
Break(t) ==
    /\ stage[t] = "body" /\ gate[t] # 0
    /\ Goto(t, IF gateDead[t] THEN "unwinding" ELSE "paused")
    /\ waitsOn' = [waitsOn EXCEPT ![t] = gate[t]]
    /\ UNCHANGED <<gateVars, outcome, ends>>

WakeUp(t) ==
    /\ stage[t] = "resumed"
    /\ Goto(t, "body")
    /\ waitsOn' = [waitsOn EXCEPT ![t] = 0]
    /\ UNCHANGED <<gateVars, outcome, ends>>

Complete(t) ==
    /\ stage[t] = "body"
    /\ End(t, "completed")
    /\ Report(t, "completed")

ShrinkFails(t) ==
    /\ stage[t] = "body"
    /\ End(t, "failed")
    /\ Report(t, "failed")

\* The function raises, on its own or in answer to a CancelledError.
BodyFails(t) ==
    /\ stage[t] \in {"body", "unwinding"}
    /\ End(t, "critical")
    /\ Report(t, "critical")

\* The CancelledError passes on_assign: except Exception does not catch it.
Unwind(t) ==
    /\ stage[t] \in {"unwinding", "aborting"}
    /\ End(t, "cancelled")
    /\ UNCHANGED ends

\* The function swallows the CancelledError and goes on.
Swallow(t) ==
    /\ t \in Stubborn /\ stage[t] = "unwinding"
    /\ Goto(t, "body")
    /\ waitsOn' = [waitsOn EXCEPT ![t] = 0]
    /\ UNCHANGED <<gateVars, outcome, ends>>

-----------------------------------------------------------------------------
Process ==
    \/ ProcessAssign \/ ProcessAssignUnknown
    \/ ProcessControlUnmanaged
    \/ ProcessCancelRunning \/ ProcessCancelDone \/ ProcessCancelUntracked
    \/ ProcessPause
    \/ ProcessResume \/ ProcessResumeNotPaused \/ ProcessResumeCancelled
    \/ ProcessInquiry
    \/ ProcessFatal
    \/ \E t \in Tasks : CancelReturns(t)

Run(t) ==
    \/ Start(t) \/ Enter(t) \/ ExpandFails(t) \/ LocalsFail(t)
    \/ Break(t) \/ WakeUp(t)
    \/ Complete(t) \/ ShrinkFails(t) \/ BodyFails(t)
    \/ Unwind(t) \/ Swallow(t)

Next ==
    \/ \E m \in Message : BackendSends(m)
    \/ Process
    \/ \E t \in Tasks : Run(t)

Spec == Init /\ [][Next]_vars

\* The event loop runs every ready task.  The user's function need not end,
\* but one that does not swallow a CancelledError is left by it.
Fairness ==
    /\ WF_vars(Process)
    /\ \A t \in Tasks :
        /\ WF_vars(Start(t)) /\ WF_vars(WakeUp(t)) /\ WF_vars(Unwind(t))

FairSpec == Spec /\ Fairness

-----------------------------------------------------------------------------
(* Properties. *)

\* Every variable has its type.
TypeOK ==
    /\ inbox \in Seq(Message) /\ Len(inbox) <= MaxInbox
    /\ sentMessages \in 0..MaxMessages
    /\ loop \in {Reading, Dead} \cup Tasks
    /\ actors \subseteq Buildable
    /\ managed \subseteq Tasks /\ tracked \subseteq managed
    /\ gates \in [Known -> Nat] /\ gate \in [Known -> Nat]
    /\ waitsOn \in [Known -> Nat]
    /\ gateDead \in [Known -> BOOLEAN]
    /\ stage \in [Known -> Stages]
    /\ outcome \in [Known -> Terminal \cup {"none", "silent"}]
    /\ ends \in [Known -> Seq(Terminal)]

\* Once the agent has reported a task as cancelled, the task has left the
\* user's function and its locks: the loop waited for it (Actor.aprocess,
\* Cancel), also when it was paused or swallowed the cancellation.
CancelledMeansStopped ==
    \A t \in managed : "cancelled" \in Range(ends[t]) => Done(t)

\* While a cancellation is under way the loop handles nothing else: a task in
\* which a CancelledError is raised, be it by a cancelled break future at a
\* later breakpoint, is the task the loop awaits.
CancellationIsAwaited ==
    \A t \in Tasks : stage[t] \in {"unwinding", "aborting"} => loop = t

\* The first end the backend hears of a task of this process is the one that
\* happened, whichever of the loop and the task reports it.
FirstEndIsTrue ==
    \A t \in managed :
        ends[t] # <<>> => outcome[t] \in {Head(ends[t]), "silent"}

\* No pause is lost: a paused task awaits the very future that the next
\* Resume will resolve, whatever pauses, resumes and steps came before.
PausedCanResume ==
    \A t \in Tasks :
        stage[t] = "paused" => waitsOn[t] = gate[t] /\ ~gateDead[t] /\ t \in managed

LoopGone == loop = Dead \/ loop \in Stubborn

\* A Cancel that was sent takes effect: the task ends, running or paused or
\* queued for its locks, unless the loop itself was stopped by an earlier
\* message or is held up by a task that swallows its cancellation.
CancelTakesEffect ==
    \A t \in Tasks \ Stubborn :
        (\E i \in 1..Len(inbox) : inbox[i].type = "cancel" /\ inbox[i].task = t)
            ~> (Done(t) \/ LoopGone)

\* on_resume only warns of a Resume that finds nothing to resume ("was resumed
\* but no break future was found"): a Resume does not stop the agent.
ResumeNeverStopsTheLoop ==
    [][(loop = Reading /\ inbox # <<>> /\ Head(inbox).type = "resume" /\ inbox' = Tail(inbox))
          => loop' # Dead]_vars

=============================================================================
