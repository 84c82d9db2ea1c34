---------------------------- MODULE StatePatches ----------------------------
(***************************************************************************)
(* The states of an agent and its patch loop: user code mutates evented    *)
(* containers, each mutation queues patches, and apatch_event_loop takes   *)
(* them one by one, shrinks the value, applies it to the shrunk copy,      *)
(* counts the revision, and publishes.                                     *)
(*                                                                         *)
(* What the states are made of and what an operation does to them are      *)
(* parameters; StateOperations has the ones of the code.                   *)
(*                                                                         *)
(* The asyncio granularity: a publish first sends (stages "dumping" and    *)
(* "publishing") and then writes to the sink ("writing").  What comes      *)
(* before is one step, from the get to the first await of the publish.     *)
(* Shrinking a list or a dataclass suspends (asyncio.gather); the step     *)
(* stands where it ends, and user code that changes the value meanwhile is *)
(* user code that changes what a patch carries.                            *)
(***************************************************************************)
EXTENDS Integers, Sequences, TreePatch

CONSTANTS
    InitialHeap,        \* the states when they are made
    ShrinkStates(_),    \* the trees of the states of a heap
    ShrinkValue(_, _),  \* the tree of a value in a heap
    Outcomes(_, _, _),  \* of an operation: of a heap and a queue, by a task
    Tasks,              \* tasks that mutate states
    SnapshotInterval,
    MaxMutations,       \* bound: operations of user code
    NoPatch

ASSUME PatchesAssumption ==
    SnapshotInterval \in Nat \ {0} /\ MaxMutations \in Nat

VARIABLES
    live,           \* the heap
    queue,          \* _event_queue
    shrunk,         \* _current_shrunk_states
    rev,            \* global_revision
    stage,          \* where the patch loop is suspended
    current,        \* the patch it publishes
    mutations,      \* how many operations user code has done
    truth           \* history variable: the shrunk states at each revision

stateVars == <<live, queue, shrunk, rev, stage, current, mutations, truth>>

Stages == {"none", "idle", "dumping", "publishing", "writing", "dead", "stopped"}

StateInit ==
    /\ live = <<>> /\ queue = <<>>
    /\ shrunk = <<>> /\ truth = [r \in {} |-> <<>>]
    /\ rev = 0 /\ stage = "none" /\ current = NoPatch
    /\ mutations = 0

\* ainit_states: the initial states are shrunk.  The revision is reset, and
\* the queue and the loop are made, after the first snapshot was published
\* (astart).
StartStates ==
    /\ live' = InitialHeap
    /\ shrunk' = ShrinkStates(InitialHeap)
    /\ truth' = [r \in {0} |-> ShrinkStates(InitialHeap)]
    /\ rev' = 0
    /\ queue' = <<>> /\ current' = NoPatch
    /\ stage' = "idle"
    /\ UNCHANGED mutations

\* User code: an operation of a task, and the patches it queues.
Mutate(task) ==
    /\ mutations < MaxMutations
    /\ \E outcome \in Outcomes(live, queue, task) :
        live' = outcome.live /\ queue' = outcome.queue
    /\ mutations' = mutations + 1
    /\ UNCHANGED <<shrunk, rev, stage, current, truth>>

-----------------------------------------------------------------------------
(* apatch_event_loop. *)

\* _ashrink_patch_value: a value without a port raises.
Shrinkable(p) == p.op = "remove" \/ p.typed

SnapshotDue(r) == r % SnapshotInterval = 0

\* get, shrink, apply, count; then the first await of the publish.
TakePatch ==
    /\ stage = "idle" /\ queue # <<>>
    /\ queue' = Tail(queue)
    /\ LET p == Head(queue)
           tree == IF p.op = "remove" THEN p.value ELSE ShrinkValue(live, p.value)
           after == Apply(shrunk[p.state], p.op, p.path, tree)
       IN  IF Shrinkable(p) /\ after # PatchError
           THEN /\ shrunk' = [shrunk EXCEPT ![p.state] = after]
                /\ rev' = rev + 1
                /\ truth' = [r \in 0..(rev + 1) |-> IF r <= rev THEN truth[r] ELSE shrunk']
                /\ current' = [state |-> p.state, task |-> p.task, op |-> p.op,
                               path |-> p.path, value |-> tree]
                /\ stage' = IF SnapshotDue(rev + 1) THEN "dumping" ELSE "publishing"
           ELSE /\ stage' = "dead"
                /\ UNCHANGED <<shrunk, rev, truth, current>>
    /\ UNCHANGED <<live, mutations>>

StageTo(s) ==
    /\ stage' = s
    /\ current' = IF s \in {"publishing", "writing"} THEN current ELSE NoPatch
    /\ UNCHANGED <<live, queue, shrunk, rev, mutations, truth>>

\* The processor task is cancelled: whatever it was publishing stays where
\* it got to.
StopProcessor == StageTo(IF stage = "dead" THEN "dead" ELSE "stopped")

-----------------------------------------------------------------------------
(* Properties. *)

\* Whenever nothing is queued, the shrunk copy is the state, for every sequence of
\* everyday operations on lists, dicts and dataclasses, nested as they are, in
\* whatever batches the loop takes their patches (direct_publishing,
\* apatch_event_loop).  Everyday operations are those of StateOperations when
\* Uses is empty, no more: each of the other uses makes the two differ.  Among
\* them, _reindex_items corrects the paths of the items that move and not of what
\* is below them, so that a later change there is published for another item
\* ("displaced"); and an evented dataclass that is put in again keeps its first
\* path ("moved").
Converged ==
    queue = <<>> /\ stage # "none" => shrunk = ShrinkStates(live)
=============================================================================
