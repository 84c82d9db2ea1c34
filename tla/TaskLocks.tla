------------------------------ MODULE TaskLocks ------------------------------
(***************************************************************************)
(* The resources an assignment holds while its function runs:              *)
(* Actor.sync_context takes the actor's serial lock, then the shared keys  *)
(* in sorted order through a LockGroup of TaskLocks, each of which tells   *)
(* the agent (alock, aunlock) while it is held; capture_to_list then waits *)
(* for a capturing assignment to end.  A Cancel can strike wherever the    *)
(* task is suspended.                                                      *)
(*                                                                         *)
(* Locks are numbers, in the order in which they are taken: serial locks   *)
(* come before every shared key.  An asyncio.Lock serves its waiters first *)
(* come, first served.  alock and aunlock send to the clients, and suspend  *)
(* meanwhile, as FastApiAgent's do; those of the base agent return at once. *)
(***************************************************************************)
EXTENDS Integers, Sequences, SequencesExt

CONSTANTS
    Tasks,
    Locks,          \* numbers: the serial locks, then the shared keys
    SerialLocks,
    Needs,          \* the locks each task takes
    Capturing,      \* the tasks assigned with capture
    NoTask

ASSUME LocksAssumption ==
    /\ Locks \subseteq Nat /\ SerialLocks \subseteq Locks
    /\ \A s \in SerialLocks, k \in Locks \ SerialLocks : s < k
    /\ Needs \in [Tasks -> SUBSET Locks]
    /\ Capturing \subseteq Tasks
    /\ NoTask \notin Tasks

Keys == Locks \ SerialLocks

VARIABLES
    pc,             \* where each task is in on_assign
    at,             \* the lock it is waiting for, announcing or handing back
    owner,          \* who holds the asyncio.Lock
    waiters,        \* who waits for it, in order
    acquired,       \* what a task has on its exit stack and in its LockGroup
    lockingTask,    \* TaskLock.locking_task
    view,           \* what the clients were told: the last Lock or Unlock
    captureActive,  \* capture_active
    hit             \* where a Cancel struck the task

lockVars == <<owner, waiters, acquired>>
shownVars == <<lockingTask, view>>
vars == <<pc, at, lockVars, shownVars, captureActive, hit>>

PC == {"idle", "asking", "queued", "notifying", "running",
       "releasing", "unnotifying", "done"}

Init ==
    /\ pc = [t \in Tasks |-> "idle"]
    /\ at = [t \in Tasks |-> 0]
    /\ owner = [l \in Locks |-> NoTask]
    /\ waiters = [l \in Locks |-> <<>>]
    /\ acquired = [t \in Tasks |-> {}]
    /\ lockingTask = [l \in Locks |-> NoTask]
    /\ view = [l \in Locks |-> NoTask]
    /\ captureActive = FALSE
    /\ hit = [t \in Tasks |-> "none"]

Goto(t, s) == pc' = [pc EXCEPT ![t] = s]

Missing(t) == Needs[t] \ acquired[t]

-----------------------------------------------------------------------------
(* Acquiring. *)

Begin(t) ==
    /\ pc[t] = "idle"
    /\ Goto(t, "asking")
    /\ UNCHANGED <<at, lockVars, shownVars, captureActive, hit>>

\* Mutation: the keys are taken in the order they were declared, here the
\* tasks that capture in the reverse order.
IsNextUnsorted(t, l) ==
    /\ l \in Missing(t)
    /\ l \in SerialLocks \/ Missing(t) \cap SerialLocks = {}
    /\ \A m \in Missing(t) \ SerialLocks : IF t \in Capturing THEN m <= l ELSE l <= m

\* The serial lock first, then sorted(self.locks, key=lock_key).
IsNext(t, l) == l \in Missing(t) /\ \A m \in Missing(t) : l <= m

\* The asyncio.Lock is the task's: a serial lock is then held, a shared key is
\* announced first.
Took(t, l) ==
    /\ owner' = [owner EXCEPT ![l] = t]
    /\ at' = [at EXCEPT ![t] = l]
    /\ IF l \in SerialLocks
       THEN /\ acquired' = [acquired EXCEPT ![t] = @ \cup {l}]
            /\ Goto(t, "asking")
            /\ UNCHANGED shownVars
       ELSE /\ lockingTask' = [lockingTask EXCEPT ![l] = t]
            /\ Goto(t, "notifying")
            /\ UNCHANGED <<acquired, view>>

\* Mutation: a lock that looks free is taken, past those who wait for it.
AskBarges(t, l) ==
    /\ pc[t] = "asking" /\ IsNext(t, l)
    /\ IF owner[l] = NoTask \/ l \notin SerialLocks
       THEN Took(t, l) /\ UNCHANGED waiters
       ELSE /\ waiters' = [waiters EXCEPT ![l] = Append(@, t)]
            /\ at' = [at EXCEPT ![t] = l]
            /\ Goto(t, "queued")
            /\ UNCHANGED <<owner, acquired, shownVars>>
    /\ UNCHANGED <<captureActive, hit>>

\* lock.acquire(): at once, or behind those who wait already.
Ask(t, l) ==
    /\ pc[t] = "asking" /\ IsNext(t, l)
    /\ IF owner[l] = NoTask /\ waiters[l] = <<>>
       THEN Took(t, l) /\ UNCHANGED waiters
       ELSE /\ waiters' = [waiters EXCEPT ![l] = Append(@, t)]
            /\ at' = [at EXCEPT ![t] = l]
            /\ Goto(t, "queued")
            /\ UNCHANGED <<owner, acquired, shownVars>>
    /\ UNCHANGED <<captureActive, hit>>

\* The lock has become free for the first of its waiters.
Granted(t) ==
    /\ pc[t] = "queued"
    /\ owner[at[t]] = NoTask
    /\ waiters[at[t]] # <<>> /\ Head(waiters[at[t]]) = t
    /\ waiters' = [waiters EXCEPT ![at[t]] = Tail(@)]
    /\ Took(t, at[t])
    /\ UNCHANGED <<captureActive, hit>>

\* alock has returned, the clients have its Lock: the key joins the group.
Notified(t) ==
    /\ pc[t] = "notifying"
    /\ view' = [view EXCEPT ![at[t]] = t]
    /\ acquired' = [acquired EXCEPT ![t] = @ \cup {at[t]}]
    /\ Goto(t, "asking")
    /\ UNCHANGED <<at, owner, waiters, lockingTask, captureActive, hit>>

\* The announcement may have reached the clients or not.
MaybeShown(t, holder) ==
    \E v \in {view[at[t]], holder} : view' = [view EXCEPT ![at[t]] = v]

\* alock has failed: TaskLock.acquire gives the local lock back.
NotifyFails(t) ==
    /\ pc[t] = "notifying"
    /\ owner' = [owner EXCEPT ![at[t]] = NoTask]
    /\ lockingTask' = [lockingTask EXCEPT ![at[t]] = NoTask]
    /\ MaybeShown(t, t)
    /\ Goto(t, "releasing")
    /\ UNCHANGED <<at, waiters, acquired, captureActive, hit>>

-----------------------------------------------------------------------------
(* Running. *)

\* Mutation: a capture waits for other captures only.
EnterPastCapture(t) ==
    /\ pc[t] = "asking" /\ Missing(t) = {}
    /\ t \in Capturing => ~captureActive
    /\ captureActive' = (captureActive \/ t \in Capturing)
    /\ Goto(t, "running")
    /\ UNCHANGED <<at, lockVars, shownVars, hit>>

\* With every lock held, capture_to_list waits for the active capture to end;
\* a capturing task becomes the active one.
Enter(t) ==
    /\ pc[t] = "asking" /\ Missing(t) = {}
    /\ ~captureActive
    /\ captureActive' = (t \in Capturing)
    /\ Goto(t, "running")
    /\ UNCHANGED <<at, lockVars, shownVars, hit>>

\* The function has returned or raised; a capture ends.
Finish(t) ==
    /\ pc[t] = "running"
    /\ captureActive' = (captureActive /\ t \notin Capturing)
    /\ Goto(t, "releasing")
    /\ UNCHANGED <<at, lockVars, shownVars, hit>>

-----------------------------------------------------------------------------
(* Releasing, in reverse order. *)

IsLast(t, l) == l \in acquired[t] /\ \A m \in acquired[t] : m <= l

\* Mutation: the local lock is given up before the agent is told.
ReleaseBeforeNotify(t, l) ==
    /\ pc[t] = "releasing" /\ IsLast(t, l)
    /\ owner' = [owner EXCEPT ![l] = NoTask]
    /\ IF l \in SerialLocks
       THEN /\ acquired' = [acquired EXCEPT ![t] = @ \ {l}]
            /\ UNCHANGED <<pc, at, shownVars>>
       ELSE /\ lockingTask' = [lockingTask EXCEPT ![l] = NoTask]
            /\ at' = [at EXCEPT ![t] = l]
            /\ Goto(t, "unnotifying")
            /\ UNCHANGED <<acquired, view>>
    /\ UNCHANGED <<waiters, captureActive, hit>>

\* A serial lock is released; a shared key is first announced as free.
Release(t, l) ==
    /\ pc[t] = "releasing" /\ IsLast(t, l)
    /\ IF l \in SerialLocks
       THEN /\ owner' = [owner EXCEPT ![l] = NoTask]
            /\ acquired' = [acquired EXCEPT ![t] = @ \ {l}]
            /\ UNCHANGED <<pc, at, shownVars>>
       ELSE /\ lockingTask' = [lockingTask EXCEPT ![l] = NoTask]
            /\ at' = [at EXCEPT ![t] = l]
            /\ Goto(t, "unnotifying")
            /\ UNCHANGED <<owner, acquired, view>>
    /\ UNCHANGED <<waiters, captureActive, hit>>

\* aunlock has returned or failed: the local lock is released either way.
Unnotified(t) ==
    /\ pc[t] = "unnotifying"
    /\ owner' = [owner EXCEPT ![at[t]] = NoTask]
    /\ acquired' = [acquired EXCEPT ![t] = @ \ {at[t]}]
    /\ MaybeShown(t, NoTask)
    /\ Goto(t, "releasing")
    /\ UNCHANGED <<at, waiters, lockingTask, captureActive, hit>>

Exit(t) ==
    /\ pc[t] = "releasing" /\ acquired[t] = {}
    /\ Goto(t, "done")
    /\ UNCHANGED <<at, lockVars, shownVars, captureActive, hit>>

-----------------------------------------------------------------------------
(* Cancellation: once per task, wherever it is suspended. *)

Struck(t) == hit[t] = "none" /\ hit' = [hit EXCEPT ![t] = pc[t]]

\* Mutation: it gives up waiting and stays in the queue.
CancelQueuedStays(t) ==
    /\ pc[t] = "queued" /\ Struck(t)
    /\ Goto(t, "releasing")
    /\ UNCHANGED <<at, lockVars, shownVars, captureActive>>

\* While it waits for a lock: it leaves the queue.
CancelQueued(t) ==
    /\ pc[t] = "queued" /\ Struck(t)
    /\ \E i \in DOMAIN waiters[at[t]] :
          /\ waiters[at[t]][i] = t
          /\ waiters' = [waiters EXCEPT ![at[t]] = RemoveAt(@, i)]
    /\ Goto(t, "releasing")
    /\ UNCHANGED <<at, owner, acquired, shownVars, captureActive>>

\* Mutation: only an Exception gives the local lock back.
CancelNotifyingKeepsLock(t) ==
    /\ pc[t] = "notifying" /\ Struck(t)
    /\ Goto(t, "releasing")
    /\ UNCHANGED <<at, lockVars, shownVars, captureActive>>

\* While it announces a key: the local lock is given back.
CancelNotifying(t) ==
    /\ pc[t] = "notifying" /\ Struck(t)
    /\ owner' = [owner EXCEPT ![at[t]] = NoTask]
    /\ lockingTask' = [lockingTask EXCEPT ![at[t]] = NoTask]
    /\ MaybeShown(t, t)
    /\ Goto(t, "releasing")
    /\ UNCHANGED <<at, waiters, acquired, captureActive>>

\* While it waits for a capture to end.
CancelBeforeCapture(t) ==
    /\ pc[t] = "asking" /\ Missing(t) = {} /\ captureActive /\ Struck(t)
    /\ Goto(t, "releasing")
    /\ UNCHANGED <<at, lockVars, shownVars, captureActive>>

\* In its function: the capture ends and the locks are released.
CancelRunning(t) ==
    /\ pc[t] = "running" /\ Struck(t)
    /\ captureActive' = (captureActive /\ t \notin Capturing)
    /\ Goto(t, "releasing")
    /\ UNCHANGED <<at, lockVars, shownVars>>

\* While it hands a key back: that key and the serial lock are released, but
\* the CancelledError leaves LockGroup.release with the other keys held.
CancelUnnotifying(t) ==
    /\ pc[t] = "unnotifying" /\ Struck(t)
    /\ owner' = [l \in Locks |->
                    IF owner[l] = t /\ (l = at[t] \/ l \in SerialLocks)
                    THEN NoTask ELSE owner[l]]
    /\ acquired' = [acquired EXCEPT ![t] = (@ \ SerialLocks) \ {at[t]}]
    /\ MaybeShown(t, NoTask)
    /\ Goto(t, "done")
    /\ UNCHANGED <<at, waiters, lockingTask, captureActive>>

Cancel(t) ==
    \/ CancelQueued(t) \/ CancelNotifying(t) \/ CancelBeforeCapture(t)
    \/ CancelRunning(t) \/ CancelUnnotifying(t)

-----------------------------------------------------------------------------
Step(t) ==
    \/ \E l \in Locks : Ask(t, l) \/ Release(t, l)
    \/ Granted(t) \/ Notified(t)
    \/ Enter(t) \/ Finish(t)
    \/ Unnotified(t) \/ Exit(t)

Next == \E t \in Tasks : Begin(t) \/ Step(t) \/ NotifyFails(t) \/ Cancel(t)

Spec == Init /\ [][Next]_vars

\* Every task that can go on does.  That functions return (Finish) is an
\* assumption about the user's code: without it, nobody behind them is served.
Fairness == \A t \in Tasks : WF_vars(Step(t))

FairSpec == Spec /\ Fairness

-----------------------------------------------------------------------------
(* Properties. *)

Holds(t, l) == owner[l] = t

\* Every variable has its type.
TypeOK ==
    /\ pc \in [Tasks -> PC]
    /\ at \in [Tasks -> Locks \cup {0}]
    /\ owner \in [Locks -> Tasks \cup {NoTask}]
    /\ waiters \in [Locks -> Seq(Tasks)]
    /\ \A l \in Locks, t \in Tasks :
          t \in Range(waiters[l]) => pc[t] = "queued" /\ at[t] = l
    /\ acquired \in [Tasks -> SUBSET Locks]
    /\ lockingTask \in [Locks -> Tasks \cup {NoTask}]
    /\ view \in [Locks -> Tasks \cup {NoTask}]
    /\ captureActive \in BOOLEAN
    /\ hit \in [Tasks -> PC \cup {"none"}]

\* The locks implement mutual exclusion of the tasks that share one.
Abstract == INSTANCE ExclusiveTasks WITH running <- {t \in Tasks : pc[t] = "running"}

Exclusive == Abstract!Spec

\* Invariants 1 and 2 of lock.py: whoever waits for a lock holds only locks
\* that come before it; in particular, nothing while it waits for its actor.
OrderedWaiting ==
    \A t \in Tasks : pc[t] = "queued" =>
        \A l \in Locks : Holds(t, l) => l < at[t]

\* An assignment that has left holds no lock, however it was cancelled or
\* failed, unless the Cancel struck while it was handing a key back.
ReleasedOnExit ==
    \A t \in Tasks : pc[t] = "done" /\ hit[t] # "unnotifying" =>
        \A l \in Locks : ~Holds(t, l)

\* Invariant 4 of lock.py: Lock and Unlock go out in their true order, so the
\* clients and locking_task name a running task as the holder of its keys,
\* never its predecessor's late Unlock.
RunningIsShown ==
    \A t \in Tasks : pc[t] = "running" =>
        \A k \in Needs[t] \cap Keys : view[k] = t /\ lockingTask[k] = t

\* No assignment begins while another one captures (actors/debug.py: normal
\* assignments run immediately unless a capture assignment is active).
NoneBeginsDuringCapture ==
    [][\A t \in Tasks, u \in Capturing :
          pc[u] = "running" /\ pc[t] # "running" => pc'[t] # "running"]_vars

Leaked == \E t \in Tasks, l \in Locks : pc[t] = "done" /\ Holds(t, l)

\* Nobody waits forever for its locks or for a capture to end, unless it is
\* cancelled, an announcement fails, or a cancelled task has leaked a key.
Served ==
    \A t \in Tasks :
        (pc[t] = "asking") ~> (pc[t] \in {"running", "releasing", "done"} \/ Leaked)

\* What lock.py says of LockGroup.release, "a failing release does not leave
\* the remaining keys held".
FailingReleaseLeavesNoKey ==
    \A t \in Tasks : pc[t] = "done" => \A l \in Locks : ~Holds(t, l)

=============================================================================
