# A TLA+ verification of the rekuest agent runtime

`rekuest_next` is the Python runtime of an *agent*: a process that offers functions to a
backend, runs the tasks it is assigned, reports on them over one websocket, and may itself
delegate work to other agents. This directory holds TLA+ models of that runtime, the TLC
configurations that check them on small instances, and proofs, checked by TLAPS, of what
holds for instances of every size.

Everything runs on one asyncio event loop. Two steps interleave only where the code awaits
something that suspends; an `await` that never suspends (`asend` of the websocket transport
only puts into an unbounded queue) is part of the atomic step around it. That is the
granularity of every action in these modules.

## The system

| Component | Source (`src/rekuest_next/`) | State | Operations | Hard part |
|---|---|---|---|---|
| Message loop | `agents/base.py` (`process`, `aloop`) | managed actors and assignments | handle one inbound message at a time | waits for the task it cancels; an exception ends it for every task |
| Report stream | `agents/base.py` (`_adispatch`), `agents/transport/websocket.py` | sequence number, retained terminal reports, send and receive queues, the socket | dispatch, resend and answer inquiries on Init, release on EventAck, connect, send, receive, reconnect | drops at any step, lost acknowledgements, duplicates, the sender's message in hand |
| Assignment lifecycle | `actors/base.py`, `actors/functional.py`, `actors/helper.py` | one asyncio task and one break future per assignment | assign, cancel, pause, resume, step, inquire; run, break, yield, end | every control message meets the task in any stage |
| Locks and capture | `agents/lock.py`, `actors/base.py` (`sync_context`), `actors/debug.py` | an asyncio lock per key and per serial actor, what clients were told, the capture flag | acquire, announce, release, capture | cancellation at every await, failing notifications, cycles |
| Agent postman | `agents/caller.py`, `remote.py` | pending responses, a queue per task, orphans | call, stream, cancel, escalate, close; handle response and mirrors | response and mirrors cross; the loop that feeds a call may be waiting for it |
| GraphQL postman | `postmans/graphql.py` | a queue per reference, which task belongs to which reference, the watcher | call, stream, cancel, confirm, interrupt; subscribe to and watch the change feed | events before the subscription or the reply, a reply that is lost, a cancellation before the creation, the watcher dies |
| Agent lifecycle | `agents/base.py` (`astart`, `aconnect`, `aloop`, `atear_down`), `agents/hooks/` | connected, hooks owed, background workers, patch loop, queue | start, connect, drain, loop, tear down at three levels | a cancellation or an exception at every await, also in a teardown |
| Observable state | `state/observable.py`, `state/publish.py`, `agents/base.py` (patch loop) | evented containers, patch queue, shrunk copy, revision | mutate, publish, shrink, snapshot | patches carry live values; an error ends the loop |
| FastAPI agent | `contrib/fastapi/agent.py`, `detail_routes/states.py` | client connections and subscriptions, the session | broadcast, subscribe, check out | first message against live patches |
| Persistence | `contrib/sql_lite/`, `contrib/fastapi/sink/`, `contrib/fastapi/retriever/` | patches and snapshots, on disk or in memory | write, catch up, retrieve | two retrievers must give one past |
| Definitions and registration | `definition/`, `declare.py`, `register.py`, `app.py`, `annotations/`, `state/decorator.py` | what is registered at which interface | signature to ports, declare, demand | what a port does not tell apart |
| Structures and serialization | `structures/`, `structures/serialization/` | a registry of classes on each side, the shelf | register, shrink, expand, predicate | four routes, defaults, unions, objects that stay behind |
| Blok, API client, uploads, Qt, test kit | `blok/`, `api/`, `rath.py`, `io/`, `links/`, `qt/`, `contrib/fastapi/testing.py` | none of their own | parsing, generated code, I/O | not modelled |

How they interact: the transport's connection task puts inbound messages into a queue that
the message loop consumes. The loop calls actors directly (`apass`), and an actor starts one
asyncio task per assignment. That task takes its locks, runs the user's function, and
reports through `agent.asend`, `_adispatch` and the transport's send queue. A function that
calls other agents goes through the agent postman, which sends over the same transport and
is fed by the same loop; outside an agent, the GraphQL postman does the same over a
subscription. What a call carries is shrunk by the caller and expanded by the agent, by the
definition that the agent derived from the function's signature. State changes of a function
are queued as patches and published by a task of their own, to websocket clients and to a
sink that retrievers read. `atear_down` ends all of it.

What makes each component correct:

- *Report stream*: no terminal report is lost, released before it is durable, or overtaken
  by what its task reported before; every one becomes durable and is released in the end.
- *Assignment lifecycle*: what is reported is what happened; a cancelled task has stopped; a
  paused task can be resumed; a cancellation takes effect.
- *Locks*: tasks that share a key exclude each other, nobody waits in a cycle, every path
  releases, clients see the true holder, nobody starves.
- *Both postmen*: the caller sees the yields in order and the true end (`Delegation`), the
  tables are cleaned where the code means to clean them, every end is heard, and the message
  loop is never held up for good.
- *State*: the shrunk copy becomes what the state is; every client has what the agent published; the
  sink is given every patch once and in order; what is retrieved for a revision is what the states
  were; what shutdown hooks wrote gets out.
- *Lifecycle*: whoever leaves an agent with a completed teardown leaves nothing running; shutdown
  hooks unwind what startup hooks set up, once, in reverse, while they can still publish; a
  cancelled run ends.
- *Calls*: a value of the declared type arrives as it was given and comes back as it was
  returned, or is refused for a reason that can be named; only a function that fits is called
  through a declared protocol.

## Modules

| Module | What it is |
|---|---|
| `TerminalLedger` | abstract: a terminal report is made, then durable, then forgotten |
| `ReportStream` | agent, websocket transport and backend; implements `TerminalLedger` |
| `Assignments` | message loop and assignment tasks |
| `ExclusiveTasks` | abstract: tasks with a common lock are never inside together |
| `TaskLocks` | `sync_context`, `LockGroup`, `TaskLock`, `capture_to_list`; implements `ExclusiveTasks` |
| `Delegation` | abstract: what a postman promises to the code that delegates a task |
| `CallerPostman` | delegated calls over the agent socket, the handlers that feed them, their consumer; implements `Delegation` |
| `GraphqlPostman` | the same over the GraphQL change feed; implements `Delegation` |
| `AgentLifecycle` | a run of an agent from `__aenter__` to `__aexit__` |
| `EventedState` | operators: evented lists, dicts and dataclasses, their patches, and jsonpatch |
| `TreePatch` | constants: what a patch makes of the tree of a state |
| `StateOperations` | operators: the states when they are made, and every outcome of a mutation by user code |
| `StatePatches` | the patch queue and the patch loop, for any states and any mutations |
| `ClientBroadcast` | websocket clients of a FastAPI agent |
| `StateHistory` | operators: what the sinks keep and what the retrievers answer |
| `AgentState` | the composition of `StatePatches`, `ClientBroadcast` and `StateHistory`: a FastAPI agent with its states, clients and sink |
| `PyValues` | operators: Python values and their built-in conversions |
| `Definitions` | operators: the structure registry, annotations to ports, signatures to definitions |
| `Demands` | operators: what a declared protocol demands and what satisfies it |
| `Serialization` | operators: predicates, shrinking and expanding on all routes |
| `Calls` | registration, declaration and typed calls from end to end |
| `MC*` | instances for TLC |
| `SequenceLemmas` | facts about `Append`, `Tail`, `RemoveAt`, `\o`, sequences without repetition, ordered streams of events and the yields seen of one |
| `ReportStreamProofs`, `AssignmentsProofs`, `TaskLocksProofs`, `CallerPostmanProofs`, `GraphqlPostmanProofs`, `AgentLifecycleProofs`, `AgentStateProofs` | the proofs |

**ReportStream.** `Adispatch` is `_adispatch`: number, retain if terminal, queue; an actor gets
there by `Dispatch`, the agent itself by `AnswerInquiry`. `ProcessInit` and `ProcessEventAck`
are the branches of `process`. An Init resends what is retained and then goes through its
inquiries (`asking`), one `AnswerInquiry` each: Progress "Actor is still running" for a task
that the agent manages and its actor tracks (`Tracked`), Critical for any other. A task is
tracked until a Cancel has stopped it, so that one that ended is answered as running, behind its
own resent end. `process` awaits once per inquiry; over the websocket transport none of these
awaits suspends, so that the model, which lets other steps come between two answers, allows more
than the code does. When
actors report is `MayDispatch`: what a task reports on its way comes before its end, and after
an end only the second one of a Cancel that came too late. `SenderTake` and
`SenderSend` are the two halves of the loop in `sending`, between which the message is in
neither queue. `Drop` is a lost socket that the transport survives: the sender is cancelled
and what it holds is lost, both queues stay. `SenderFails` is the case in which the sender's
own `client.send` raises first; its error leaves `_aconnect_and_receive` and `over` records
that nobody reconnects. The backend persists and then acknowledges, and answers a Register
with an Init. `_unacked_events` is a sequence, for a Python dict keeps insertion order.

**Assignments.** The loop is a variable: reading, dead, or waiting for the end of a task it
cancels. The stage of a task is where its coroutine is suspended. A break future is a number,
so that the future a paused task awaits and the one registered for it can differ, as they do
in the code. A Cancel cancels the awaited future together with the task. A task is
interrupted where it suspends: not yet started, at a lock or while its inputs expand
(`aborting`), in the function or at a breakpoint (`unwinding`, where the function may react).
Locks are abstracted to the serial lock here and modelled in full in `TaskLocks`.

**TaskLocks.** Locks are numbers in the order in which they are taken. `Ask` and `Granted`
follow `asyncio.Lock`: first come, first served, and a newcomer does not pass the queue.
`alock` and `aunlock` suspend, as those of `FastApiAgent` do; `Notified`, `NotifyFails`,
`Unnotified` are their outcomes, and `view` is the last thing clients were told. The five
`Cancel*` actions are the CancelledError at each await, following the `except`, `finally`
and `__aexit__` of that place.

**CallerPostman.** `phase` is where the coroutine of a call is suspended. The consumer
matters: `remote._astream_raw` leaves the generator at the yield of the terminal event, so
that a call that ends goes through the closing branch (`Close`). `CancelByLoop` is a Cancel
of the calling task, during which the loop feeds nobody; `CancelLocally` one by code of the
same process. Response and mirrors take different routes in the backend and come in any
order, the mirrors of one task in theirs.

**Delegation, GraphqlPostman.** `Delegation` allows a caller to be given the next yield of
its task, to be told an end that is the task's, to be refused, to have its request broken off
with or without a task, or to leave; a lost message of its own task excuses a yield that is left
out (`lost` is a set of calls). `CallerPostman` excuses every call once a mirror was lost, for a
disconnect takes what is in flight; `GraphqlPostman` maps `missed`, the calls of which an event
was published while the backend had no subscription, or was in the feed when it broke. The first
call starts the task of the watcher (`Call`, "starting") and sends its request at once; when the
subscription is there is up to `Subscribe`, and until then `Changed` has nobody to publish to.
`RequestFails` is any exception of the HTTP call: the backend may have refused, may have the
task, or may still create it. In `GraphqlPostman` the reply to `assign`, the
create change and the events of the task are three channels; `WatchCreate` and `WatchEvent`
are the two branches of `watch_tasks`, which bind a task to its reference, put aside the
events of an unknown task (`orphans`) and hand them over when it is bound. The actions of a
cancellation are the awaits of `_confirm_cancellation`; `Confirm` and `TimeOut` race.

**AgentLifecycle.** `pc` is where the coroutine that runs the agent is suspended, `level`
which of `aloop`, `aprovide` and `__aexit__` tears down, and `Onwards` how an exception
travels between them: `aprovide` catches a cancellation and tears down again, `__aexit__`
tears down in any case. `Cancel` is a cancellation wherever the runner is suspended, in the
teardown of `__aexit__` too, which it cuts short with nobody to tear down after it; where the
runner awaits a task that it has cancelled itself, the code takes the outer cancellation for that
task's and loses it. Workers, the patch loop, assignments and the connection run beside it;
`ran` is the flag that says shutdown hooks are owed and is not reset between runs.

**EventedState, StateOperations, StatePatches.** Evented containers have identity and remember the
path at which they were put; a patch carries the container, not a copy. So the live state is a heap,
and one operator per method of `EventedList`, `EventedDict` and the `setattr` hook gives the new
heap and the patches, in the order in which the code emits them, with the reindexing that the code
does or leaves out. `Wrap` is `make_evented`: a list or a dict is copied, one that is evented
already too; a dataclass becomes an evented one itself, and one that is so already keeps its path
and port, while its fields are wrapped at the new path. `ApplyPatch` is the jsonpatch library
(external). `StatePatches` and all above it do not look into a state: what fresh states are
(`InitialHeap`), what shrinking makes of them (`ShrinkStates`, `ShrinkValue`), what user code may do
to them (`Outcomes`) and what a patch does to a tree (`Apply`) are constants. Everyday code, as
`StateOperations!Reached` has it, changes no container that a queued patch still carries, nothing
below an item that has moved, and puts no evented dataclass in a second time. The configurations
give them the definitions of `StateOperations` and `EventedState`; the proofs leave them open.
`TakePatch` is one turn of the patch loop up to its first await: shrink, apply to the shrunk copy,
count the revision; the stages after it are the sends and the write to the sink.

**ClientBroadcast, StateHistory, AgentState.** A broadcast holds the manager's lock and suspends at
each send; `Connect` is the registration together with the first message, for nothing suspends
between them once the lock is taken. `StateHistory` gives for both retrievers what they answer, by
what the queries select and in which order. `RetrieversAgree` compares the answers row by row, where
they are alike: not for `before=0`, which the route allows (`detail_routes/states.py:261`), for
`memory_retriever.py:158` slices `[-0:]` and gives all earlier snapshots, SQL's `LIMIT 0` none; and
with each revision told once, for a start dumps two snapshots of revision 0, which memory gives
twice and SQL's `INSERT OR IGNORE` keeps once. `AgentState` has the steps of `apublish_patch`,
`apublish_snapshot` and `atear_down` with shutdown hooks that write, the bounded join and the
catch-up of the sink; a stopped agent may be started again, with a new session, new states and the
connections it had. `truth` is a history variable, the states at each revision of the session, and
`joined` says in which session a client got its first message.

**PyValues, Definitions, Demands, Serialization, Calls.** The conversions are operators, over
annotations and values as records. A signature becomes a definition (`prepare_definition`)
while the registry learns the classes it names; values are tagged with what `isinstance`
tells apart, numbers carry their amount, so that `1`, `True` and `1.0` can be confused where
Python confuses them. `Calls` puts them to work: functions are registered with the agent, the
caller knows the published definition or the one of the protocol it declares, and a call goes
through `ShrinkCall`, `ExpandInputs`, `Return`, `ExpandReturns`, any of which may refuse. The
properties are stated over annotations, without ports, so that they do not repeat the code.

## Runs

| Run | Instance | Shows |
|---|---|---|
| `report_stream` | a task that yields before it completes or is cancelled, and one of an earlier process; Inits that ask about either or both; two drops | see *Report stream* above |
| `assignments` | two tasks of a serial actor, one of which may swallow its cancellation, one task for an unknown interface, one of an earlier process; four messages, two of them in the inbox | see *Assignment lifecycle* |
| `task_locks` | two tasks with a serial lock and two keys, a capturing one with the same keys, one without locks | see *Locks* |
| `caller_postman` | two calls, one whose task yields twice, one that escalates; ends "completed" and "cancelled"; one lost message | see *Both postmen* |
| `graphql_postman` | two calls, one whose task yields twice, one that escalates; tasks complete unless they are killed; a late subscription, requests that fail, and a watcher that may die | see *Both postmen* |
| `agent_state` | two states, one with a dict and a list of dataclasses that have a list each, one with a number; two mutations, a snapshot every second revision; two clients, one of which subscribes to one state; a task and shutdown hooks that write | see *State* |
| `agent_lifecycle` | two workers, two hooks of each kind, two runs, four cancellations, two queued patches | see *Lifecycle* |
| `calls` | 21 functions, 12 classes (two models and two literals that share an identifier), two protocols; two registrations, one declaration, three calls | see *Calls* |
| `stream_retry`, `assignments_resume`, `locks_leak`, `state_dict` | the same instances | one property each that a comment, docstring or test states and the code does not keep |

Why the bounds are enough. In `report_stream`, the terminal reports of a task, its Completed, the
Cancelled of a Cancel that came too late and the Critical of the agent, make order and the selection
of the acknowledged one matter; the yield is what must not come after an end, and two drops lose
both a report and, later, the acknowledgement of its resent copy. Each task is asked about once: an
answer is a report like others, which the next Init finds retained or forgotten. In `assignments`,
four messages are assign plus any three controls of one task, or two tasks with a control each; each
problem the mutations plant needs at most four, and five were run once by hand. In `task_locks`,
every task pair either shares a serial actor and keys, keys only, or nothing; three tasks on one key
give a waiter behind a waiter; each task can be cancelled once at every await. In `caller_postman`,
two yields are needed for order and loss, and a second call for a loop that waits for one call while
the other is to be fed; the same in `graphql_postman`. In `graphql_postman`, the second call meets a
watcher that is starting, subscribed or dead. In `agent_state`, two mutations are one patch behind
another, whose path the first has moved, or a mutation during the publication of the one before, and
a snapshot between the two; the second client makes a broadcast that is half sent. There is one
session (`MaxStarts`): with a second one 2.4 million states do not fit a run with liveness, and
`RetrievedIsTrue` and `RetrieversAgree` do not hold (below). All other safety properties of the run
were checked over two sessions by hand, and three of them are proved for any number. In `agent_lifecycle`, four
cancellations cut short a run and the teardowns of all three levels; the second run meets the flags
of a first one that was cut short; two hooks have an order. In `calls`, two registrations let a
second function or class replace or shadow the first, and between three calls the shelf can be
filled, referenced and collected; each kind of port occurs with a value, with none, with a default,
and inside a container or a union. All counters that could grow (`MaxDrops`, `MaxMessages`,
`MaxInbox`, `MaxYields`, `MaxLost`, `MaxMutations`, `MaxStarts`, `MaxCancels`, `MaxRuns`,
`MaxQueue`, `MaxRegistered`, `MaxDeclared`, `MaxCalls`) are bounded in guards of actions of the
environment only.

`CHECK_DEADLOCK FALSE` is set in every run: with the bounded environment used up and all
tasks done, the system rests, and in `report_stream` and `assignments` the code itself may
stop (`over`, `Dead`).

### Fairness

Weak fairness only, and only for what the event loop schedules: a coroutine whose await has
been resolved runs, the message loop takes the next message, the transport reconnects while
its connection task lives, a `wait_for` times out, and the backend works off what it
receives. Nothing obliges a user to send, a function to return, a socket to drop or to stay
up. Two liveness properties need more than the event loop: in `Served`, functions return
(`Finish` is part of `Step`); in `CancelTakesEffect`, a function that does not swallow a
CancelledError is left by it (`Unwind`), for all tasks but the `Stubborn` ones. In
`AllPublished` the loop and the sends are fair, and a client either takes what is sent to it or
fails. `TeardownEnds` has fairness for the steps of a teardown only, for each of which the
code has a time-out, except the wait for a cancelled worker: the property names that case. In
`GraphqlPostman` the watcher and each coroutine are fair, nothing obliges the subscription to
come, and `EndIsHeard` excuses a call that missed an event, and no other.

### Where code and documentation differ

1. `stream_retry`: `await send_task` in the `finally` block replaces the retryable error
   by the sender's own, and the agent loop ends.
2. `assignments_resume`: cancel a paused task, then resume it: `set_result` on the cancelled
   future raises through the loop.
3. `locks_leak`: a CancelledError inside `aunlock` leaves the loop of `LockGroup.release`,
   which catches `Exception`. It needs an `aunlock` that suspends, as `FastApiAgent`'s does.
4. `state_dict`: an item set in an `EventedDict` has no port, and shrinking its patch ends the
   patch loop.

### Known by reading, kept in the models or excluded by name, and without a run

- *Stream*: a task that has ended is answered to an inquiry as "still running"
  (`agents/base.py:519`), behind its resent end, for `_running_asyncio_tasks` keeps it
  (`actors/base.py:324`, `339`), though `acheck_task` promises "True if the assignment is still
  running" (`actors/base.py:294`); `NothingAfterTheEnd` excepts these answers by name. A Critical
  that answers an inquiry, or the late Cancelled of a completed task, is retained behind an end that
  was lost and may become durable before its resent copy. A retained report is resent with its old
  `seq` behind newer ones, though `messages.py:152` calls `seq` monotonic and meant for dedup.
  `retry` is compared before it is incremented, one attempt more than `max_retries`
  (`websocket.py:329`). With the FastAPI transport nothing acknowledges, and the retained reports
  grow.
- *Locks*: a capture does not wait for normal assignments that already run (`debug.py:46`). A
  task cancelled while it announces a key sends no Unlock. Explicit duplicate locks of one
  implementation block themselves.
- *Postmen*: a call that has heard its end sends a CancelRequest when its generator is closed
  (`caller.py:211`). Over GraphQL, queue and binding of a completed call stay, closing the
  generator cancels nothing, a late create change binds a cancelled call again, and nothing
  restarts the watcher. Nobody waits for its subscription: what a task publishes before it is
  lost with the watcher alive, and the first call may wait for ever (`graphql.py:252-257`, `101`).
  A reply that is lost is reported as "Cannot Assign" while the task runs (`graphql.py:100-103`).
- *Lifecycle*: `managed_actor_tasks` is never filled, so assignments survive a teardown. The
  exception of a failed patch loop is raised by every teardown, so the transport is never
  disconnected then. A worker that answers its cancellation with an exception ends the
  teardown before the hooks. A stream that ends without an error returns from `aloop` without
  a teardown; `__aexit__` makes up for it.
- *State* (the constant `Uses` admits these mutations; the passing run has none of them, and
  each makes `Converged` fail): items set at a negative index, `setdefault`, `update` and `|=`
  of a dict, slice assignment, a container that is changed while its own patch is still
  queued (`"live"`; also while it is shrunk, for `asyncio.gather` suspends), a container below an
  item that an insertion, a deletion or a reversal has moved (`"displaced"`: `_reindex_items`,
  `observable.py:292`, corrects the paths of the items only, so that the change is published for
  another item), and an evented dataclass that is put in again (`"moved"`: it keeps
  `_event_path`; `*=` of a list of dataclasses is the same, and makes one object of several
  items). Containers that user code keeps after they left the state publish at stale
  paths; they are outside of `Mutate`.
- *Restarts*: `ainit_states` of a restarted agent publishes its snapshot (`base.py:797`) before
  `astart` resets `global_revision` (`base.py:951`). The sink has the initial states of the new
  session at the last revision of the old one, and once the new session is past that revision
  both retrievers start from there: with `MaxStarts = 2`, TLC finds `RetrievedIsTrue` violated
  in ten steps. `RetrieversAgree` is, in nineteen: a later snapshot has the same revision again,
  and SQL keeps the first of the two, while memory gives the last for `before=1`. A client that
  stays connected while the agent is restarted gets no first message of the new session and takes
  its patches, whose revisions start again, for old ones; `ClientFollows` speaks of clients that
  joined in the current session.
- *FastAPI*: `_buffer_or_broadcast_state_message` and what it calls (`agent.py:215-303`) have
  no caller, though `models.py:125` and the docstring of `handle_websocket` promise that
  `state_update_intervals` debounces.
- *Calls*: `ArgumentLimit`, `InputLimit` and `ReturnLimit` list what a well-typed call is
  refused for. Beyond them: an int default makes the port of a float an INT, which narrows
  (`Narrowed`); an empty list, and any default of a model, structure or memory structure, is
  dropped, and the function is called with None (`KeptDefault`), though `actor.py:1276` says
  "defaults will be set by the agent"; an explicit None is replaced by the default; a function
  that returns None as the `Optional` it declares ends in Critical; two classes with one
  identifier shadow each other, though `fullfill_registration` says it will raise; a second
  registration at an interface replaces the first; collecting an unknown drawer raises through
  the message loop.
- *Demands*: port matches omit the dimension of a quantity, the choices of an enum and
  defaults; required parameters beyond the declared ones are not excluded unless the length is
  forced. `AlikeCores` and `SlotsAreAlike` say so.

## Proofs

TLAPS proves the following for all values of the constants that satisfy `StreamAssumption`,
`AssignmentsAssumption`, `LocksAssumption`, `CallerAssumption`, `GraphqlAssumption`,
`LifecycleAssumption`, `PatchesAssumption` and `StartsAssumption` (TLC evaluates them in the passing
runs). `Reports`, `Tasks`, `Locks`, `Workers` and `Calls` may be of any size, also infinite; hooks,
messages, yields, losses, cancellations, runs, mutations and sessions are bounded by any naturals.
The invariant of every component was first checked by TLC on the instance of its run (for the two
postmen with the `Nat` in `Whole` cut at the yields that were made).

**ReportStreamProofs.** `TypeOK` and `RetainedUntilDurable` are not inductive: when an
acknowledgement is processed, nothing in them says that the report it names is durable. The
invariant `IInv` adds that every acknowledgement, on the wire or in the receive queue, is of a
durable report, and that every report in the queue, in the sender's hand, on the wire, or retained
has been dispatched. Each action has a lemma; `Drop` and `SenderFails` share one. From `IInv` follow
`StreamInvariant`, `StreamTypeOK`, `TerminalsRetained`, and, with a lemma per kind of step (a
dispatch reports, an acknowledgement forgets or stutters, the backend persists, all others stutter),
the refinement `StreamImplementsLedger`. `NothingFollowsTheEnd` needs more, `InOrder`: on the way
from the send queue over the sender's hand and the wire to what is durable, no report stands behind
the end of its task. A resend appends only ends, which are never late; a task reports on its way
only if no end of it was dispatched, neither its own nor a Critical of the agent, which answers for
a task of its own only after a Cancelled (`AnsweredIsOver`); and everything on the way was
dispatched. The statement is about what tasks report: an answer to an inquiry may follow an end, and
the model lets it.

**AssignmentsProofs.** The four safety properties tie the task, its break future, the table of
tasks and the loop to each other, and none is inductive: a Cancel marks the future of a paused
task dead and the task only meets it later, a task reports its own end, and the loop one for
the task it has awaited. `IInv` adds what holds in between: a new assignment is of a task that
is not managed yet, and waits once (`AssignedOnce`); whatever controls a task comes behind its
assignment (`ControlFollows`); the loop awaits a task it tracks, and stops tracking only what
is done (`ManagedIsScheduled`); a running task has no end reported, nor has a cancelled one
whose end the loop has yet to see (`EndsAreTrue`); and a dead break future belongs to the task
the loop awaits or to one that is done (`GatesAreSound`). `TakeKeepsInbox` carries the first
two over every message that is handled. Theorems: `AssignmentsInvariant`,
`AssignmentsTypeOK`, `CancelledTasksStopped`, `CancellationsAwaited`, `FirstReportIsTrue`,
`PausesAreNotLost`.

**TaskLocksProofs.** `IInv` consists of `TypeOK` and six parts: a task waits at most once in
a queue (`WaitsOnce`); it waits for, or announces, the least lock it misses (`InOrder`); what
is on its exit stack is owned by it and nothing else is, but for a key it announces
(`HoldsWhatItAcquired`); it acquires only what it needs (`AcquiresWhatItNeeds`); every key it
has acquired is shown as its own (`AcquiredIsShown`); and a running capture is the one that
`captureActive` stands for (`OneCapture`). Mutual exclusion follows from ownership:
an entering task owns all it needs, and a lock has one owner. `WaitingIsOrdered` is the
deadlock argument of `lock.py` in checkable form: along a chain of waiting tasks the locks
grow, so no chain closes. Theorems: `LocksInvariant`, `LocksTypeOK`, `WaitingIsOrdered`,
`LocksAreReleased`, `HolderIsShown`, `LocksExclude` (refinement of `ExclusiveTasks`),
`CaptureKeepsOut`.

**AgentLifecycleProofs.** `LeftMeansDown` speaks of the end of a run, `HooksUnwind` of the
middle of a teardown; neither is inductive. `LifecycleInv` adds what each part of a teardown
leaves for the later ones, whoever is cancelled (`DoneStaysDone`: past the workers all workers
have ended and no hooks are owed; past the patch loop there is no queue), what has not happened
before the first teardown (`NothingTornYet`), which hooks have begun (`HooksInReverse`), and to
whom shutdown hooks are owed (`HooksAreOwed`: the flag is raised only after the last startup
hook, and survives a teardown that never reached the hooks, whence the exception for a run
after such a one). One step per action; a lemma carries the order of hooks over an `Append`.
Theorems: `LifecycleInvariant`, `LifecycleTypeOK`, `LeftIsDown`, `HooksUnwindInReverse`.

**CallerPostmanProofs, GraphqlPostmanProofs.** Both postmen implement `Delegation`. The heart of
both invariants is one statement, `Flows`: queue, orphans and channel of a call, read as one
sequence (`Pipe`), hold events of its task in their order, after the last yield the caller was
given, with the end of the task behind all yields (`InStream`); and all of them, while the caller
listens and nothing of this call was lost (`Whole`, and `WholePart` for a feed that breaks). Handing
an event from one table to the next leaves the pipe as it is (`MoveHead`, `TakeFirst`), cleaning up
or losing a message removes from it (`StreamRemove`), a yield or an end of the task joins at its end
(`StreamYield`, `StreamEnd`), and what is delivered is its head (`StreamArrives`); these lemmas are
in `SequenceLemmas`. Around it, `CallerPostman` needs that a call is requested once and answered
once, truly, before it reads anything else (`RequestOK`, `ResponseOK`), that a task nobody has
created has left no trace (`TableOK`), and that nothing is on its way to a call that has been told
its end (`EndOK`), which is why a closed call leaves nothing behind; `GraphqlPostman` that its
tables agree with what has been heard (`TableOK`) and that a confirmed cancellation is the last
thing that is ever heard of a call (`ConfirmedIsOver`). `CallerPostman` has one lemma for a step of
which all other calls see at most the channels (`OneCall`), so that each action is proved for the
call that acts. Theorems: `CallerInvariant`, `CallerTypeOK`, `CallLeavesNothing`,
`GraphqlInvariant`, `ConfirmedIsGone`, the refinements `CallerImplementsDelegation` and
`GraphqlImplementsDelegation`, and, in both modules, `CallerGetsWhatIsTrue`: what `Delegation` says
of a caller holds of the code. Its invariant (`PromiseInv`) adds that nobody has seen a yield that
was not made, and that the last yield seen counts those seen while nothing was lost (`SeenLast`,
`SeenAppend`); it is carried by the steps of `Delegation`, which `StepDelegates` shows the steps of
the postman to be.

**AgentStateProofs.** `ClientFollows`, `LogInOrder` and `FlushedIsOut` do not depend on what a
state is or a patch does to it, only on who gets which patch when, so they are proved for any
states, any user code and any effect of a patch. `StateInv` has five parts. `TruthOK`: the shrunk
copy is the last of the recorded revisions, and while a patch is in hand it is the one before with
that patch applied. `SendingOK`: what is under broadcast is the patch in hand, on its way only to
connections that asked for its state. `ClientsOK`: a served client has seen no revision that is
not there, and has the states before the patch in hand as long as the patch is still to be sent to
it (`Awaits`), the last ones otherwise, but for a loop that was cut off (`Cut`). `LogOK`: every
revision up to the last that must be in the sink is there (`Durable`), none beyond the last that
may be (`Given`), each once and in order. `SessionOK` ties session, agent and patch loop. The
properties alone are not inductive: that a client has the states at some revision says nothing of
whether it will get the next patch; that everything is out at the end of a teardown rests on what
was owed at every step before. `ViewsFollow` is the heart: a client that applies the patch to its
part of the states has its part of the states after the patch. `LogAppend`, `LogSnapshot`,
`LogPatch` and `LogStart` carry the log over each kind of write, `LogStays` and `ClientsStay` over
all other steps; each action has a lemma. Theorems: `AgentStateInvariant`, `ClientsFollow`,
`LogOrdered`, `FlushedAndOut`. TLC checked `StateInv` on the instance of `agent_state` and
over two sessions of a single state before it was proved.

Only model-checked: all liveness properties (fairness and ENABLED are out of the prover's
reach): `EventuallyDurable`, `EventuallyForgotten`, `CancelTakesEffect`, `Served`,
`LoopIsFreed`, `EndIsHeard`, `AllPublished`, `TeardownEnds`; and the safety properties that are
induction over data: `Converged` (the tree of a heap against the fold of the patches of every
mutation), `RetrievedIsTrue` and `RetrieversAgree` (sorting and folding of rows), and those of
`Calls`. Every other safety property of a passing run is a theorem; `TypeOK` of `Assignments` is one
that no run checks. Where a sequence is changed,
the lemmas of `SequenceLemmas` state what the change keeps. RECURSIVE operators occur in
`EventedState`, `StateOperations`, `Definitions`, `Demands`, `Serialization` and `Calls`; no module
with a theorem reaches one.

## Not modelled

Wording, logging, progress and log reports, heartbeats, pause and resume hooks, Kick and
Bounce, `Actor.acancel` (called by nobody), the branch of `process` for `AssignInquiry`
(never on its own on the wire: inquiries come inside Init), `ControlResponse` (its table is
never filled), gap detection in `handle_execution_event` (it logs), threads in which
synchronous functions run, the count of the transport's retry budget, the dead buffering of
the FastAPI agent, and the HTTP routes that create tasks (they put messages into the loop of
`Assignments`). Of definitions: widgets, validators, effects, descriptions, test declarations,
hashes and versions. The backend, the GraphQL API, jsonpatch, pint and SQLite are external and
modelled from how the code uses them. The components without a module (blok, the generated API
client, uploads and the data layer, the Qt builders, the test kit) are listed in `PROJECT.json`
with the reason: generated code, pure I/O, or text processing without state.

## Plan

Done: all components with state of their own, the composition of agent, clients and
persistence, typed calls from end to end, and the proofs of all safety properties of the report
stream, the assignments, the locks, both postmen and the lifecycle, and of what clients and sink
are given of the states.

What is left, in this order:

1. The refinement mapping of `TaskLocks` for more than exclusion: that a lock is handed on in
   the order in which it was asked for.
2. What a retriever rebuilds, as a theorem: the anchors and rows that it selects lead to
   `truth`, given that its fold replays them; the fold itself is induction over data.
3. Pause and resume hooks and the threads of synchronous functions in `Assignments`.
