----------------------------- MODULE AgentState -----------------------------
(***************************************************************************)
(* A FastAPI agent with its states, its websocket clients and its sink:    *)
(* FastApiAgent.astart, apublish_patch, apublish_snapshot, atear_down, and *)
(* the patch loop (StatePatches), the connection manager (ClientBroadcast) *)
(* and the log (StateHistory) they tie together, for any states, any user  *)
(* code and any patches.                                                   *)
(***************************************************************************)
EXTENDS StatePatches, StateHistory, ClientBroadcast

CONSTANT MaxStarts      \* bound: sessions

ASSUME StartsAssumption == MaxStarts \in Nat

VARIABLES
    agent,          \* down, up, draining, closing, stopped, or aborted
    session,        \* the number of the current session, 0 before the first
    flushed,        \* the join of the teardown: no, yes or timeout
    log             \* what the sink was given (both sinks, side by side)

lifeVars == <<agent, session, flushed>>
allVars == <<stateVars, clientVars, lifeVars, log>>

Init ==
    /\ StateInit /\ ClientInit
    /\ agent = "down" /\ session = 0 /\ flushed = "no"
    /\ log = <<>>

\* astart: a new session, new states, a snapshot with the revision as it was
\* left, and one with the revision reset.
Start ==
    /\ agent \in {"down", "stopped"} /\ session < MaxStarts
    /\ agent' = "up" /\ session' = session + 1 /\ flushed' = "no"
    /\ StartStates
    /\ log' = log \o <<Snapshot(session', rev, shrunk'), Snapshot(session', 0, shrunk')>>
    /\ UNCHANGED clientVars

\* User code: assignments, background workers, shutdown hooks.
Work(task) ==
    /\ agent \in {"up", "draining"}
    /\ Mutate(task)
    /\ UNCHANGED <<clientVars, lifeVars, log>>

Take == TakePatch /\ UNCHANGED <<clientVars, lifeVars, log>>

\* Mutation: the snapshot has the revision before the patch it includes.
PublishSnapshotStale ==
    /\ stage = "dumping" /\ LockFree
    /\ StageTo("publishing")
    /\ log' = Append(log, Snapshot(session, rev - 1, shrunk))
    /\ UNCHANGED <<clientVars, lifeVars>>

\* apublish_snapshot: no client is subscribed to snapshots; the sink gets it.
PublishSnapshot ==
    /\ stage = "dumping" /\ LockFree
    /\ StageTo("publishing")
    /\ log' = Append(log, Snapshot(session, rev, shrunk))
    /\ UNCHANGED <<clientVars, lifeVars>>

\* messages.StatePatch.
Message(r, p) ==
    [rev |-> r, state |-> p.state, op |-> p.op, path |-> p.path, value |-> p.value]

\* apublish_patch: the clients first ...
SendPatch ==
    /\ stage = "publishing"
    /\ BeginBroadcast(Message(rev, current))
    /\ UNCHANGED <<stateVars, lifeVars, log>>

PatchSent ==
    /\ stage = "publishing" /\ EndBroadcast
    /\ StageTo("writing")
    /\ UNCHANGED <<lifeVars, log>>

\* Mutation: a write that is tried again has been done already.
WritePatchAgain ==
    /\ stage = "writing"
    /\ StageTo("writing") \/ StageTo("idle")
    /\ log' = Append(log, PatchRow(session, rev, current.state, current.op, current.path,
                                  current.value, current.task))
    /\ UNCHANGED <<clientVars, lifeVars>>

\* ... then the sink.  A violated key, or a sink that fails, ends the loop.
WritePatch ==
    /\ stage = "writing"
    /\ LET row == PatchRow(session, rev, current.state, current.op, current.path,
                           current.value, current.task)
       IN  IF Violates(log, row)
           THEN StageTo("dead") /\ UNCHANGED log
           ELSE StageTo("idle") /\ log' = Append(log, row)
    /\ UNCHANGED <<clientVars, lifeVars>>

SinkFails ==
    /\ stage \in {"dumping", "writing"} /\ LockFree
    /\ StageTo("dead")
    /\ UNCHANGED <<clientVars, lifeVars, log>>

Connect(c) ==
    /\ agent # "down"
    /\ Register(c, shrunk, rev, session)
    /\ UNCHANGED <<stateVars, lifeVars, log>>

Serve(c) ==
    /\ SendTo(c) \/ ClientFails(c) \/ Disconnect(c)
    /\ UNCHANGED <<stateVars, lifeVars, log>>

-----------------------------------------------------------------------------
(* atear_down. *)

\* Background workers are cancelled, shutdown hooks run, the queue is joined.
Shutdown ==
    /\ agent = "up"
    /\ agent' = "draining"
    /\ UNCHANGED <<stateVars, clientVars, session, flushed, log>>

\* Mutation: the queue is looked at, not the patch in hand.
AllDoneButHand == queue = <<>>

\* Every patch of the queue has been marked done; the one that ended the loop
\* has, too.
AllDone == queue = <<>> /\ stage \in {"idle", "dead"}

\* The loop is cancelled at whatever it awaits; the exception of a loop that
\* died is raised again here, and what follows is skipped.
CancelProcessor ==
    /\ StopProcessor
    /\ AbortBroadcast
    /\ agent' \in IF stage = "dead" THEN {"closing", "aborted"} ELSE {"closing"}
    /\ UNCHANGED <<session, log>>

Joined == agent = "draining" /\ AllDone /\ CancelProcessor /\ flushed' = "yes"

JoinTimesOut == agent = "draining" /\ ~AllDone /\ CancelProcessor /\ flushed' = "timeout"

\* The sink says it has the last revision, or is not waited for any longer.
CaughtUpOrNot ==
    /\ agent = "closing"
    /\ agent' = "stopped"
    /\ UNCHANGED <<stateVars, clientVars, session, flushed, log>>

-----------------------------------------------------------------------------
Loop == Take \/ PublishSnapshot \/ SendPatch \/ PatchSent \/ WritePatch

TearDown == Joined \/ JoinTimesOut \/ CaughtUpOrNot

Next ==
    \/ Start
    \/ \E t \in Tasks : Work(t)
    \/ Loop \/ SinkFails
    \/ \E c \in Clients : Connect(c) \/ Serve(c)
    \/ Shutdown \/ TearDown

Spec == Init /\ [][Next]_allVars

\* The event loop runs the patch loop; a send to a client ends, well or with an
\* error, for the server pings its clients; the waits of a teardown are bounded.
Fairness ==
    /\ WF_allVars(Loop)
    /\ WF_allVars(TearDown)
    /\ \A c \in Clients : WF_allVars(c \in todo /\ Serve(c))

FairSpec == Spec /\ Fairness

-----------------------------------------------------------------------------
(* Properties. *)

\* A client that registered in this session has the states it asked for as they
\* all were at one revision, the last one, but for a patch that is still to be
\* sent to it: whenever it connected, also between the application of a patch
\* and its broadcast, it misses none and applies none twice (handle_websocket,
\* broadcast_model).  A patch loop that ended may have left its last patch out.
Owed(c) ==
    /\ seen[c] < rev
    /\ \/ stage \in {"dumping", "publishing"} /\ (sending = NoMessage \/ c \in todo)
       \/ stage \in {"dead", "stopped"}

Served(c) == conn[c] = "open" /\ joined[c] = session

ClientFollows ==
    \A c \in Clients : Served(c) =>
        \E r \in (IF Owed(c) THEN rev - 1 ELSE rev)..rev : view[c] = StateViews(c, truth[r])

\* The revisions of the current session up to which every patch is in the sink.
Persisted ==
    {r \in 0..rev : \A q \in 1..r : \E i \in DOMAIN log :
        log[i].kind = "patch" /\ log[i].session = session /\ log[i].rev = q}

\* The sink is given the patches of a session one per revision and in the order
\* of the revisions, so that the primary key of its table is never violated
\* (awrite_patch; the sink says it "ensures that patches are written in order"):
\* whatever fails or is cut short, and across restarts.
LogInOrder ==
    \A i, j \in DOMAIN log :
        i < j /\ log[i].kind = "patch" /\ log[j].kind = "patch" /\ log[i].session = log[j].session
        => log[i].rev < log[j].rev

\* The patches of one state.
PatchesOf(s, events) == SelectSeq(events, LAMBDA e : e.state = s)

\* A client that checks out the states at a revision, and applies the patches
\* that the checkout or a segment gives to what it had at the revision they
\* follow, has what the states were.
SegmentsLead(r) ==
    LET checkout == Checkout(log, States, {}, session, r, 1)
        base == IF checkout.recent = <<>> THEN r ELSE checkout.recent[1].rev - 1
    IN  \A s \in States :
            /\ checkout.states[s].tree = truth[r][s]
            /\ Replay(truth[base][s], PatchesOf(s, checkout.recent)) = truth[r][s]
            /\ \A q \in 0..r : LET events == StateSegments(log, States, {s}, session, q, r)
                               IN  Replay(truth[q][s], events) = truth[r][s]

\* What the retrievers rebuild for a revision is what the states were then, and
\* what they say of a revision that is not all written is what the states were
\* at the revision they name (_build_state_snapshot, _aget_state_at_revision).
\* What is served over HTTP leads to the last revision that is written
\* (aget_checkout_state_views, state_checkout, state_segments).
RetrievedIsTrue ==
    session # 0 =>
        /\ \A s \in States, r \in 0..rev :
              \A answer \in {MemStateAt(log, s, session, r), SqlStateAt(log, s, session, r)} :
                  /\ answer.tree = truth[answer.rev][s]
                  /\ r \in Persisted => answer.tree = truth[r][s]
        /\ SegmentsLead(CHOOSE r \in Persisted : \A q \in Persisted : q <= r)

\* The retriever in memory and the one over SQLite give the same answers, row by
\* row: a state at a revision, the patches between two revisions or so many after
\* one, the boundaries of tasks and sessions, and the snapshots around a revision,
\* any number after it and at least one up to it, each revision told once
\* (StateRetriever).  Elsewhere they differ: a start dumps a second snapshot of
\* revision 0, which MemoryRetriever tells twice and SQLLiteSink has ignored; for
\* a `before` of 0, which the route allows, SQL gives no earlier snapshot, and the
\* slice [-0:] of MemoryRetriever all of them.  Over several starts they differ
\* too: the revision that the first snapshot of a later session is labelled with
\* comes again in that session, and each retriever gives another of the two.
RetrieversAgree ==
    session # 0 =>
        /\ \A s \in States, r \in 0..rev :
              /\ MemStateAt(log, s, session, r) = SqlStateAt(log, s, session, r)
              /\ \A q \in 0..r : MemPatches(log, s, session, q, r)
                                   = InOrder(SqlPatches(log, {s}, session, q, r), -1)
              /\ \A n \in 0..2 : MemForward(log, s, session, r, n)
                                   = SqlForward(log, s, session, r, n)
              /\ \A n \in 1..3 :
                    LET mem == MemAround(log, s, session, r, n, n - 1)
                        sql == SqlAround(log, s, session, r, n, n - 1)
                    IN  ToldOnce(mem.old) = sql.old /\ mem.new = sql.new
        /\ \A t \in Tasks : MemBoundaries(log, "task", t) = SqlBoundaries(log, "task", t)
        /\ MemBoundaries(log, "session", session) = SqlBoundaries(log, "session", session)

\* A teardown whose join ended in time, with a loop that did not die, has
\* everything out: every patch is in the sink, and a client that is still there
\* has the last of them (atear_down).
FlushedIsOut ==
    flushed = "yes" /\ stage = "stopped" =>
        /\ rev \in Persisted
        /\ \A c \in Clients : Served(c) => view[c] = StateViews(c, shrunk)

\* Every queued patch is published or the loop ends.
AllPublished == queue # <<>> ~> (queue = <<>> \/ stage \in {"dead", "stopped"})
=============================================================================
