---------------------------- MODULE StateHistory ----------------------------
(***************************************************************************)
(* What the sinks keep of the patches and snapshots of an agent, and what  *)
(* the retrievers make of it: MemorySink and MemoryRetriever, SQLLiteSink  *)
(* and SQLLiteRetriever, and the checkout of a state over HTTP.            *)
(*                                                                         *)
(* A log is the sequence of what was written, in order.  A snapshot has a  *)
(* tree for every state, a patch is of one state and carries the revision  *)
(* it leads to.                                                            *)
(***************************************************************************)
EXTENDS Integers, Sequences, SequencesExt, TreePatch

Missing == [failed |-> "None"]

\* dump_snapshot and write_patch append to the memory of the process.
Snapshot(session, rev, trees) ==
    [kind |-> "snapshot", session |-> session, rev |-> rev, trees |-> trees]

PatchRow(session, rev, state, op, path, value, task) ==
    [kind |-> "patch", session |-> session, rev |-> rev, state |-> state,
     op |-> op, path |-> path, value |-> value, task |-> task]

SnapshotsIn(log) == SelectSeq(log, LAMBDA e : e.kind = "snapshot")
PatchesIn(log) == SelectSeq(log, LAMBDA e : e.kind = "patch")

\* Primary key of the table of patches: a second row raises.
Violates(log, row) ==
    \E i \in DOMAIN log :
        /\ log[i].kind = "patch"
        /\ <<log[i].session, log[i].rev, log[i].state>> = <<row.session, row.rev, row.state>>

ByRev(rows) == SortSeq(rows, LAMBDA e, f : e.rev < f.rev)

Replay(tree, patches) ==
    FoldLeft(LAMBDA t, p : IF t = PatchError THEN t ELSE Apply(t, p.op, p.path, p.value),
             tree, patches)

-----------------------------------------------------------------------------
(* MemoryRetriever. *)

MemPatches(log, state, session, from, to) ==
    ByRev(SelectSeq(PatchesIn(log),
        LAMBDA p : p.state = state /\ p.session = session /\ p.rev - 1 >= from /\ p.rev <= to))

MemSnapshots(log, state, session) ==
    SelectSeq(SnapshotsIn(log), LAMBDA e : e.session = session /\ state \in DOMAIN e.trees)

\* _build_state_snapshot: the first of the latest snapshots that are not too
\* new, and the patches from there to the revision.
MemStateAt(log, state, session, target) ==
    LET anchors == SelectSeq(MemSnapshots(log, state, session), LAMBDA e : e.rev <= target)
        anchor == anchors[CHOOSE i \in DOMAIN anchors :
                            /\ \A j \in DOMAIN anchors : anchors[j].rev <= anchors[i].rev
                            /\ \A j \in 1..(i - 1) : anchors[j].rev < anchors[i].rev]
        patches == MemPatches(log, state, session, anchor.rev, target)
    IN  IF anchors = <<>> THEN Missing
        ELSE [rev |-> IF patches = <<>> THEN anchor.rev ELSE Last(patches).rev,
              tree |-> Replay(anchor.trees[state], patches)]

\* The last `before` of one part and the first `after` of the other; a slice
\* that starts at -0 is the whole list.
MemAround(log, state, session, rev, before, after) ==
    LET rows == MemSnapshots(log, state, session)
        all == ByRev([i \in DOMAIN rows |-> [rev |-> rows[i].rev, tree |-> rows[i].trees[state]]])
        old == SelectSeq(all, LAMBDA e : e.rev <= rev)
        new == SelectSeq(all, LAMBDA e : e.rev > rev)
        least(a, b) == IF a < b THEN a ELSE b
    IN  [old |-> IF before = 0 THEN old
                 ELSE SubSeq(old, Len(old) - least(before, Len(old)) + 1, Len(old)),
         new |-> SubSeq(new, 1, least(after, Len(new)))]

\* The rows, without those that only repeat the one before.
ToldOnce(rows) ==
    FoldLeft(LAMBDA told, e : IF told # <<>> /\ Last(told) = e THEN told ELSE Append(told, e),
             <<>>, rows)

MemForward(log, state, session, after, count) ==
    LET patches == MemPatches(log, state, session, after, Len(log))
    IN  SubSeq(patches, 1, IF count < Len(patches) THEN count ELSE Len(patches))

\* Over the patches of a task, or of a session.
MemBoundaries(log, field, wanted) ==
    LET revs == {log[i].rev : i \in {j \in DOMAIN log :
                                        log[j].kind = "patch" /\ log[j][field] = wanted}}
    IN  IF revs = {} THEN Missing
        ELSE [from |-> (CHOOSE r \in revs : \A q \in revs : r <= q) - 1,
              to |-> CHOOSE r \in revs : \A q \in revs : q <= r]

-----------------------------------------------------------------------------
(* SQLLiteRetriever: the tables, as the rows in the order of their insertion. *)

\* INSERT OR IGNORE keeps the first snapshot of a state at a revision.
Ignored(log, j, state) ==
    \E k \in 1..(j - 1) : /\ log[k].kind = "snapshot" /\ log[k].session = log[j].session
                          /\ log[k].rev = log[j].rev /\ state \in DOMAIN log[k].trees

SqlSnapshots(log, state, session) ==
    LET rows == SelectSeq([j \in DOMAIN log |-> j],
                    LAMBDA j : /\ log[j].kind = "snapshot" /\ log[j].session = session
                               /\ state \in DOMAIN log[j].trees /\ ~Ignored(log, j, state))
    IN  [i \in DOMAIN rows |-> [rev |-> log[rows[i]].rev, tree |-> log[rows[i]].trees[state]]]

SqlPatches(log, states, session, from, to) ==
    SelectSeq(log, LAMBDA e : /\ e.kind = "patch" /\ e.state \in states /\ e.session = session
                              /\ e.rev - 1 >= from /\ e.rev <= to)

\* ORDER BY the revision, LIMIT n; all of them if n is negative.
InOrder(rows, n) ==
    LET all == ByRev(rows) IN IF n < 0 \/ n > Len(all) THEN all ELSE SubSeq(all, 1, n)

InReverse(rows, n) ==
    LET all == SortSeq(rows, LAMBDA e, f : e.rev > f.rev)
    IN  IF n > Len(all) THEN all ELSE SubSeq(all, 1, n)

UpTo(rows, target) == SelectSeq(rows, LAMBDA e : e.rev <= target)
After(rows, target) == SelectSeq(rows, LAMBDA e : e.rev > target)

\* Mutation: the patch that follows the snapshot is left out.
SqlStateAtSkips(log, state, session, target) ==
    LET anchors == InReverse(UpTo(SqlSnapshots(log, state, session), target), 1)
        patches == InOrder(SqlPatches(log, {state}, session, anchors[1].rev + 1, target), -1)
    IN  IF anchors = <<>> THEN Missing
        ELSE [rev |-> IF patches = <<>> THEN anchors[1].rev ELSE Last(patches).rev,
              tree |-> Replay(anchors[1].tree, patches)]

SqlStateAt(log, state, session, target) ==
    LET anchors == InReverse(UpTo(SqlSnapshots(log, state, session), target), 1)
        patches == InOrder(SqlPatches(log, {state}, session, anchors[1].rev, target), -1)
    IN  IF anchors = <<>> THEN Missing
        ELSE [rev |-> IF patches = <<>> THEN anchors[1].rev ELSE Last(patches).rev,
              tree |-> Replay(anchors[1].tree, patches)]

SqlAround(log, state, session, rev, before, after) ==
    LET rows == SqlSnapshots(log, state, session)
    IN  [old |-> Reverse(InReverse(UpTo(rows, rev), before)),
         new |-> InOrder(After(rows, rev), after)]

SqlForward(log, state, session, after, count) ==
    InOrder(SqlPatches(log, {state}, session, after, Len(log)), count)

\* SELECT MIN(global_current_rev), MAX(global_future_rev): rows that there are
\* not give NULL.
SqlBoundaries(log, field, wanted) ==
    LET rows == SelectSeq(log, LAMBDA e : e.kind = "patch" /\ e[field] = wanted)
        ordered == ByRev(rows)
    IN  IF rows = <<>> THEN Missing
        ELSE [from |-> Head(ordered).rev - 1, to |-> Last(ordered).rev]

-----------------------------------------------------------------------------
(* What is asked over HTTP of the past of a session: a checkout of states at *)
(* a revision, with the last patches up to it, and the patches between two   *)
(* revisions.  One unknown key selects all the states.                       *)

Selected(states, keys) == IF keys = {} \/ ~(keys \subseteq states) THEN states ELSE keys

StateSegments(log, states, keys, session, from, to) ==
    InOrder(SqlPatches(log, Selected(states, keys), session, from, to), -1)

CheckoutViews(log, wanted, session, target) ==
    [s \in wanted |-> SqlStateAt(log, s, session, target)]

Checkout(log, states, keys, session, target, count) ==
    LET events == StateSegments(log, states, keys, session, 0, target)
        n == Len(events)
    IN  [rev |-> target,
         states |-> CheckoutViews(log, Selected(states, keys), session, target),
         recent |-> IF count < n THEN SubSeq(events, n - count + 1, n) ELSE events]
=============================================================================
