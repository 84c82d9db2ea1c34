---------------------------- MODULE AgentLifecycle ----------------------------
(***************************************************************************)
(* A run of an agent, from __aenter__ over aprovide to __aexit__: startup  *)
(* hooks, states, patch loop and background workers, the transport, the    *)
(* message loop, and the teardown, which is entered again by aprovide when *)
(* a cancellation comes back to it and by __aexit__ in any case.           *)
(*                                                                         *)
(* `level` says who tears down: aconnect or aloop (1), aprovide (2) or     *)
(* __aexit__ (3).  An exception that leaves a teardown goes to the next.   *)
(***************************************************************************)
EXTENDS Integers, Sequences

CONSTANTS
    Workers,        \* the background workers
    Startups,       \* how many startup hooks there are
    Shutdowns,      \* how many shutdown hooks
    MaxQueue,       \* bound: patches in the queue
    MaxCancels,     \* bound: cancellations from outside
    MaxRuns         \* bound: runs of the agent

ASSUME LifecycleAssumption ==
    /\ Startups \in Nat \ {0} /\ Shutdowns \in Nat
    /\ MaxQueue \in Nat /\ MaxCancels \in Nat /\ MaxRuns \in Nat

VARIABLES
    pc,             \* where the runner is
    level, error,   \* who tears down, and the exception it has at hand
    runs, cancels,
    started,        \* startup hooks that have returned
    ran,            \* _ran_startup_hooks
    hook,           \* the shutdown hook that runs, 0 if none
    hooksRun,       \* history: the shutdown hooks begun in this run
    prepared,       \* history: this run has got past its states
    workers,        \* each background worker
    working,        \* whether an assignment of an actor runs
    queue,          \* _event_queue: how many patches, or -1 if there is none
    processor,      \* the patch loop: none, running, stopped or failed
    connection,     \* the connection task: closed or open
    connected,      \* _connected_event
    consumer,       \* the task that consumes the messages
    torn,           \* history: a teardown of this run was completed
    clean           \* history: one of the last run was

runnerVars == <<pc, level, error, runs, cancels, torn, clean>>
hookVars == <<started, ran, hook, hooksRun, prepared>>
loopVars == <<queue, processor>>
wireVars == <<connection, connected, consumer>>
vars == <<runnerVars, hookVars, workers, working, loopVars, wireVars>>

TearingDown == {"workers", "hooks", "joining", "processor", "disconnecting"}
NoQueue == -1

Init ==
    /\ pc = "left" /\ level = 0 /\ error = "none"
    /\ runs = 0 /\ cancels = 0 /\ torn = TRUE /\ clean = TRUE
    /\ started = 0 /\ ran = FALSE /\ hook = 0 /\ hooksRun = <<>> /\ prepared = FALSE
    /\ workers = [w \in Workers |-> "none"] /\ working = FALSE
    /\ queue = NoQueue /\ processor = "none"
    /\ connection = "closed" /\ connected = FALSE /\ consumer = "none"

-----------------------------------------------------------------------------
(* atear_down is entered, completed or left. *)

\* Every background worker is cancelled.
TearDown(l) ==
    /\ pc' = "workers" /\ level' = l
    /\ workers' = [w \in Workers |->
                      IF workers[w] = "running" THEN "cancelling" ELSE workers[w]]

\* A teardown at the first level ends with its exception raised again; only
\* aprovide catches it, if it is a cancellation.
Onwards(exception) ==
    IF level = 1 /\ exception = "cancelled" THEN TearDown(2)
    ELSE /\ pc' = IF level = 3 THEN "left" ELSE "provided"
         /\ UNCHANGED <<level, workers>>

Raise(exception) ==
    /\ Onwards(exception) /\ error' = exception
    /\ UNCHANGED <<runs, torn, clean>>

Fail(exception) ==
    /\ TearDown(1) /\ error' = exception
    /\ UNCHANGED <<runs, cancels, torn, clean>>

-----------------------------------------------------------------------------
(* astart and aconnect. *)

\* __aenter__ and aprovide; the flags are as the last run left them.
Provide ==
    /\ pc = "left" /\ runs < MaxRuns
    /\ pc' = "starting" /\ runs' = runs + 1 /\ error' = "none"
    /\ torn' = FALSE /\ clean' = torn
    /\ started' = 0 /\ hooksRun' = <<>> /\ prepared' = FALSE
    /\ consumer' = "none"
    /\ UNCHANGED <<level, cancels, ran, hook, workers, loopVars, connection, connected, working>>

\* Mutation: the flag is set before the hooks have run.
StartupHookEarly ==
    /\ pc = "starting"
    /\ started' = started + 1
    /\ ran' = TRUE
    /\ pc' = IF started' = Startups THEN "states" ELSE pc
    /\ UNCHANGED <<level, error, runs, cancels, torn, clean, hook, hooksRun, prepared,
                   workers, loopVars, wireVars, working>>

\* A startup hook returns; after the last one teardown owes the shutdown hooks.
StartupHook ==
    /\ pc = "starting"
    /\ started' = started + 1
    /\ ran' = IF started' = Startups THEN TRUE ELSE ran
    /\ pc' = IF started' = Startups THEN "states" ELSE pc
    /\ UNCHANGED <<level, error, runs, cancels, torn, clean, hook, hooksRun, prepared,
                   workers, loopVars, wireVars, working>>

\* ainit_states has published the snapshot: the queue, the patch loop and the
\* workers are started, and the transport is opened.
StatesReady ==
    /\ pc = "states"
    /\ pc' = "acknowledging" /\ prepared' = TRUE
    /\ queue' = 0 /\ processor' = "running"
    /\ workers' = [w \in Workers |-> "running"]
    /\ connection' = "open"
    /\ UNCHANGED <<level, error, runs, cancels, torn, clean, started, ran, hook, hooksRun,
                   connected, consumer, working>>

\* A hook raises or takes too long, or gives what is no state or context, or
\* one that another hook has given.
StartupHookFails ==
    /\ pc = "starting"
    /\ Fail("error")
    /\ UNCHANGED <<hookVars, loopVars, wireVars, working>>

\* A registered state that no hook has given, or that cannot be shrunk.
StatesFail ==
    /\ pc = "states"
    /\ Fail("error")
    /\ UNCHANGED <<hookVars, loopVars, wireVars, working>>

\* The stream ends with an error, or the time-out of aconnect is over.
ConnectFails ==
    /\ pc = "acknowledging"
    /\ Fail("error")
    /\ UNCHANGED <<hookVars, loopVars, wireVars, working>>

ReceiveInit ==
    /\ pc = "acknowledging" /\ connection = "open"
    /\ connected' = TRUE
    /\ UNCHANGED <<runnerVars, hookVars, workers, loopVars, connection, consumer, working>>

\* The drain returns with the Init, or because the stream is at its end; aloop
\* makes the consumer.
Acknowledged ==
    /\ pc = "acknowledging" /\ (connected \/ connection = "closed")
    /\ pc' = "looping" /\ consumer' = "running"
    /\ UNCHANGED <<level, error, runs, cancels, torn, clean, hookVars, workers, loopVars,
                   connection, connected, working>>

-----------------------------------------------------------------------------
(* aloop. *)

\* The server, or the retry budget, ends the connection: with an error or not.
ConnectionCloses ==
    /\ connection = "open" /\ connection' = "closed"
    /\ UNCHANGED <<runnerVars, hookVars, workers, loopVars, connected, consumer, working>>

\* A message raises, or the stream does.
ConsumerFails ==
    /\ pc = "looping" /\ consumer = "running"
    /\ consumer' = "done"
    /\ Fail("error")
    /\ UNCHANGED <<hookVars, loopVars, connection, connected, working>>

\* The stream is at its end without an error: aloop returns, and aprovide.
ConsumerEnds ==
    /\ pc = "looping" /\ consumer = "running" /\ connection = "closed"
    /\ consumer' = "done" /\ pc' = "provided"
    /\ UNCHANGED <<level, error, runs, cancels, torn, clean, hookVars, workers, loopVars,
                   connection, connected, working>>

\* _astop_consume_task: the cancelled consumer unwinds ...
ConsumerUnwinds ==
    /\ consumer = "cancelling" /\ consumer' = "done"
    /\ UNCHANGED <<runnerVars, hookVars, workers, loopVars, connection, connected, working>>

ConsumerStopped ==
    /\ pc = "stopping" /\ consumer = "done"
    /\ Fail(error)
    /\ UNCHANGED <<hookVars, loopVars, wireVars, working>>

\* ... or it is left behind, with the transport disconnected to release it.
ConsumerStuck ==
    /\ pc = "stopping" /\ consumer = "cancelling"
    /\ Fail(error)
    /\ connection' = "closed"
    /\ UNCHANGED <<hookVars, loopVars, connected, consumer, working>>

-----------------------------------------------------------------------------
(* Workers, patches and hooks run beside the runner. *)

\* It returns, raises, or lacks a state or context that it needs: all the same.
WorkerEnds(w) ==
    /\ workers[w] \in {"running", "cancelling"}
    /\ workers' = [workers EXCEPT ![w] = "ended"]
    /\ UNCHANGED <<runnerVars, hookVars, loopVars, wireVars, working>>

\* A worker that answers its cancellation with an exception of its own.
WorkerRaises(w) ==
    /\ workers[w] = "cancelling"
    /\ workers' = [workers EXCEPT ![w] = "raised"]
    /\ UNCHANGED <<runnerVars, hookVars, loopVars, wireVars, working>>

\* A worker, a hook or an assignment mutates a state.
Publish ==
    /\ queue \in 0..(MaxQueue - 1)
    /\ \/ \E w \in Workers : workers[w] \in {"running", "cancelling"}
       \/ hook > 0 \/ working
    /\ queue' = queue + 1
    /\ UNCHANGED <<runnerVars, hookVars, workers, processor, wireVars, working>>

\* An assignment comes, and runs for as long as it likes: the table of tasks
\* that a teardown cancels (managed_actor_tasks) is never filled.
Assigned ==
    /\ consumer = "running" /\ ~working /\ working' = TRUE
    /\ UNCHANGED <<runnerVars, hookVars, workers, loopVars, wireVars>>

AssignmentEnds ==
    /\ working /\ working' = FALSE
    /\ UNCHANGED <<runnerVars, hookVars, workers, loopVars, wireVars>>

TakePatch ==
    /\ processor = "running" /\ queue > 0
    /\ queue' = queue - 1
    /\ UNCHANGED <<runnerVars, hookVars, workers, processor, wireVars, working>>

\* A patch that cannot be shrunk, applied or published ends the loop.
PatchFails ==
    /\ processor = "running" /\ queue > 0
    /\ queue' = queue - 1 /\ processor' = "failed"
    /\ UNCHANGED <<runnerVars, hookVars, workers, wireVars, working>>

-----------------------------------------------------------------------------
(* atear_down. *)

\* Mutation: a worker is not waited for.
WorkersStoppedAtOnce ==
    /\ pc = "workers"
    /\ pc' = "hooks"
    /\ ran' = FALSE
    /\ hook' = IF ran THEN Shutdowns ELSE 0
    /\ hooksRun' = IF hook' > 0 THEN Append(hooksRun, hook') ELSE hooksRun
    /\ UNCHANGED <<level, error, runs, cancels, torn, clean, started, prepared, workers,
                   loopVars, wireVars, working>>

\* Every worker has ended; the shutdown hooks begin with the last one, if they
\* are owed (arun_shutdown_hooks).
WorkersStopped ==
    /\ pc = "workers"
    /\ \A w \in Workers : workers[w] \in {"none", "ended"}
    /\ pc' = "hooks"
    /\ ran' = FALSE
    /\ hook' = IF ran THEN Shutdowns ELSE 0
    /\ hooksRun' = IF hook' > 0 THEN Append(hooksRun, hook') ELSE hooksRun
    /\ UNCHANGED <<level, error, runs, cancels, torn, clean, started, prepared, workers,
                   loopVars, wireVars, working>>

\* The exception of a worker ends the teardown; the worker has left the table.
WorkerErrorRaised(w) ==
    /\ pc = "workers" /\ workers[w] = "raised"
    /\ pc' = IF level = 3 THEN "left" ELSE "provided"
    /\ error' = "error"
    /\ workers' = [workers EXCEPT ![w] = "ended"]
    /\ UNCHANGED <<level, runs, cancels, torn, clean, hookVars, loopVars, wireVars, working>>

\* The hook returns, fails or takes too long; the one before it is next.
ShutdownHook ==
    /\ pc = "hooks" /\ hook > 0
    /\ hook' = hook - 1
    /\ hooksRun' = IF hook' > 0 THEN Append(hooksRun, hook') ELSE hooksRun
    /\ UNCHANGED <<runnerVars, started, ran, prepared, workers, loopVars, wireVars, working>>

HooksDone ==
    /\ pc = "hooks" /\ hook = 0
    /\ pc' = "joining"
    /\ UNCHANGED <<level, error, runs, cancels, torn, clean, hookVars, workers, loopVars,
                   wireVars, working>>

\* Mutation: there is no time-out.
JoinedOnly ==
    /\ pc = "joining" /\ queue \in {NoQueue, 0}
    /\ pc' = "processor"
    /\ UNCHANGED <<level, error, runs, cancels, torn, clean, hookVars, workers, loopVars,
                   wireVars, working>>

\* The queue is joined, or the time-out is over.
Joined ==
    /\ pc = "joining"
    /\ pc' = "processor"
    /\ UNCHANGED <<level, error, runs, cancels, torn, clean, hookVars, workers, loopVars,
                   wireVars, working>>

\* The patch loop is cancelled and its queue closed.
ProcessorStopped ==
    /\ pc = "processor" /\ processor # "failed"
    /\ processor' = IF processor = "none" THEN "none" ELSE "stopped"
    /\ queue' = NoQueue
    /\ pc' = "disconnecting"
    /\ UNCHANGED <<level, error, runs, cancels, torn, clean, hookVars, workers, wireVars, working>>

\* The exception of a loop that has failed is raised again, every time.
ProcessorErrorRaised ==
    /\ pc = "processor" /\ processor = "failed"
    /\ Raise("error")
    /\ UNCHANGED <<cancels, hookVars, loopVars, wireVars, working>>

\* adisconnect: the queue is flushed and the socket closed, in bounded time.
Disconnected ==
    /\ pc = "disconnecting"
    /\ connection' = "closed" /\ connected' = FALSE
    /\ torn' = TRUE
    /\ Onwards(error)
    /\ UNCHANGED <<error, runs, cancels, clean, hookVars, loopVars, consumer, working>>

-----------------------------------------------------------------------------
(* Cancellation from outside, and the end. *)

\* Where the runner awaits a worker, a task it has cancelled or the consumer,
\* the cancellation is taken for theirs and lost.  One that reaches the teardown
\* of __aexit__ leaves it as it is: nobody tears down after it.
Cancel ==
    /\ cancels < MaxCancels /\ cancels' = cancels + 1
    /\ \/ /\ pc \in {"starting", "states", "acknowledging"}
          /\ TearDown(1) /\ error' = "cancelled"
          /\ UNCHANGED <<runs, torn, clean, hook, wireVars>>
       \/ /\ pc = "looping"
          /\ pc' = "stopping" /\ error' = "cancelled" /\ consumer' = "cancelling"
          /\ UNCHANGED <<level, runs, torn, clean, hook, workers, connection, connected>>
       \/ /\ pc \in {"hooks", "joining", "disconnecting"}
          /\ Raise("cancelled") /\ hook' = 0
          /\ UNCHANGED wireVars
       \/ /\ pc \in {"stopping", "workers", "processor", "disconnecting"}
          /\ UNCHANGED <<pc, level, error, runs, torn, clean, hook, workers, wireVars>>
    /\ UNCHANGED <<started, ran, hooksRun, prepared, loopVars, working>>

\* __aexit__.
Exit ==
    /\ pc = "provided"
    /\ TearDown(3) /\ error' = "none"
    /\ UNCHANGED <<runs, cancels, torn, clean, hookVars, loopVars, wireVars, working>>

-----------------------------------------------------------------------------
Start ==
    \/ Provide \/ StartupHook \/ StartupHookFails \/ StatesReady \/ StatesFail
    \/ ReceiveInit \/ ConnectFails \/ Acknowledged

Consume ==
    \/ ConnectionCloses \/ ConsumerFails \/ ConsumerEnds \/ ConsumerUnwinds

TearDownStep ==
    \/ ConsumerStopped \/ ConsumerStuck
    \/ WorkersStopped \/ \E w \in Workers : WorkerErrorRaised(w)
    \/ ShutdownHook \/ HooksDone \/ Joined \/ ProcessorStopped \/ ProcessorErrorRaised
    \/ Disconnected \/ Exit

Beside ==
    \/ \E w \in Workers : WorkerEnds(w) \/ WorkerRaises(w)
    \/ Assigned \/ AssignmentEnds \/ Publish \/ TakePatch \/ PatchFails

Next == Start \/ Consume \/ TearDownStep \/ Beside \/ Cancel

Spec == Init /\ [][Next]_vars

\* The event loop runs the runner; its waits are bounded, but for the one for
\* the workers, which nothing obliges to end.
Fairness == WF_vars(TearDownStep)

FairSpec == Spec /\ Fairness

-----------------------------------------------------------------------------
(* Properties. *)

\* Every variable has its type.
TypeOK ==
    /\ pc \in {"starting", "states", "acknowledging", "looping", "stopping",
               "provided", "left"} \cup TearingDown
    /\ level \in 0..3 /\ error \in {"none", "error", "cancelled"}
    /\ runs \in 0..MaxRuns /\ cancels \in 0..MaxCancels
    /\ started \in 0..Startups /\ ran \in BOOLEAN
    /\ hook \in 0..Shutdowns /\ hooksRun \in Seq(1..Shutdowns)
    /\ prepared \in BOOLEAN /\ torn \in BOOLEAN /\ clean \in BOOLEAN
    /\ workers \in [Workers -> {"none", "running", "cancelling", "raised", "ended"}]
    /\ working \in BOOLEAN
    /\ queue \in -1..MaxQueue
    /\ processor \in {"none", "running", "stopped", "failed"}
    /\ connection \in {"closed", "open"} /\ connected \in BOOLEAN
    /\ consumer \in {"none", "running", "cancelling", "done"}

\* Whoever leaves the context of an agent leaves nothing running, however often
\* the run was cancelled and whichever teardown was cut short: no worker, no
\* patch loop, no queue and no connection; unless no teardown was completed, for
\* the patch loop failed, or each was cut short, the last one too (__aexit__).
LeftMeansDown ==
    pc = "left" /\ torn =>
        /\ \A w \in Workers : workers[w] \in {"none", "ended"}
        /\ processor \in {"none", "stopped"} /\ queue = NoQueue
        /\ connection = "closed" /\ ~connected

\* Shutdown hooks run at most once per run, the last one first, after every
\* startup hook has returned (but for what a teardown that was cut short in the
\* last run still owes), and while the workers are gone and the patch loop
\* has its queue: what a hook publishes can get out (arun_shutdown_hooks).
HooksUnwind ==
    /\ \A i \in DOMAIN hooksRun : hooksRun[i] = Shutdowns - i + 1
    /\ hooksRun # <<>> /\ clean => started = Startups
    /\ hook > 0 =>
          /\ \A w \in Workers : workers[w] \in {"none", "ended"}
          /\ prepared => queue # NoQueue /\ processor \in {"running", "failed"}

\* A cancelled run comes to its end, whatever fails on the way and even when it
\* is cancelled again; only a worker that does not stop can hold it up (aloop,
\* atear_down).
TeardownEnds ==
    [](pc = "stopping" =>
          (<>(pc = "left") \/ <>[](\E w \in Workers : workers[w] = "cancelling")))
=============================================================================
