--------------------------- MODULE AgentStateProofs ---------------------------
(***************************************************************************)
(* Proofs about AgentState, for any states, user code and patches, any     *)
(* clients and any number of sessions: what the websocket clients have,    *)
(* what the sink was given, and what a teardown gets out.                  *)
(***************************************************************************)
EXTENDS AgentState, SequenceLemmas

\* The patch loop has a patch in hand.
InHand == {"dumping", "publishing", "writing"}

\* Sessions begin with the first start; a session has states and a patch loop,
\* which has ended when the teardown is past it.
SessionOK ==
    /\ rev \in Nat /\ session \in Nat /\ stage \in Stages
    /\ session = 0 => agent = "down" /\ stage = "none" /\ \A c \in Clients : conn[c] = "none"
    /\ session # 0 => stage # "none"
    /\ agent \notin {"up", "draining"} => stage \in {"none", "dead", "stopped"}

\* The shrunk copy is the last of the revisions; the patch in hand led to it.
TruthOK ==
    /\ session # 0 => DOMAIN truth = 0..rev /\ truth[rev] = shrunk
    /\ stage \in InHand =>
          /\ rev > 0
          /\ shrunk = [truth[rev - 1] EXCEPT ![current.state] =
                          Apply(truth[rev - 1][current.state], current.op, current.path,
                                current.value)]

\* What is under broadcast is the patch in hand, to clients that asked for it.
SendingOK ==
    /\ sending # NoMessage => stage = "publishing" /\ sending = Message(rev, current)
    /\ sending = NoMessage => todo = {}
    /\ todo \subseteq Clients /\ \A c \in todo : Matches(c, current.state)

\* The patch in hand is still to be sent to c.
Awaits(c) ==
    seen[c] < rev /\ stage \in {"dumping", "publishing"} /\ (sending = NoMessage \/ c \in todo)

\* The patch loop ended, and not after everything was out.
Cut == stage = "dead" \/ (stage = "stopped" /\ flushed # "yes")

ViewOK(c) ==
    Served(c) =>
        /\ seen[c] \in 0..rev
        /\ IF Awaits(c) THEN view[c] = StateViews(c, truth[rev - 1])
           ELSE \/ view[c] = StateViews(c, shrunk)
                \/ Cut /\ seen[c] < rev /\ view[c] = StateViews(c, truth[rev - 1])

ClientsOK ==
    /\ DOMAIN view = Clients /\ conn \in [Clients -> {"none", "open", "failed", "gone"}]
    /\ DOMAIN seen = Clients /\ joined \in [Clients -> 0..session]
    /\ \A c \in Clients : ViewOK(c)

\* The row of the patch of session n to revision r.
IsPatchOf(row, n, r) == row.kind = "patch" /\ row.session = n /\ row.rev = r

\* The revisions that are in the sink for certain, and those that may be.
Durable == IF stage = "idle" \/ (flushed = "yes" /\ stage = "stopped") THEN rev ELSE rev - 1
Given == IF stage \in InHand THEN rev - 1 ELSE rev

\* A log is a sequence of whatever it contains.
IsLog(l) == l \in Seq({l[i] : i \in DOMAIN l})

LogOK ==
    /\ IsLog(log)
    /\ \A i \in DOMAIN log :
          /\ log[i].session \in 1..session
          /\ log[i].kind = "patch" /\ log[i].session = session => log[i].rev \in 1..Given
    /\ session # 0 => \A r \in 1..Durable : \E i \in DOMAIN log : IsPatchOf(log[i], session, r)
    /\ LogInOrder

StateInv == SessionOK /\ TruthOK /\ SendingOK /\ ClientsOK /\ LogOK

USE StartsAssumption, PatchesAssumption

-----------------------------------------------------------------------------
(* Facts about views and logs.                                              *)

\* A client that applies the patch in hand to the views it has of some trees
\* has the views of the trees after it.
LEMMA ViewsFollow ==
    ASSUME NEW c, NEW trees, NEW p, Matches(c, p.state)
    PROVE  [StateViews(c, trees) EXCEPT ![p.state] =
                Apply(StateViews(c, trees)[p.state], p.op, p.path, p.value)]
           = StateViews(c, [trees EXCEPT ![p.state] =
                Apply(trees[p.state], p.op, p.path, p.value)])
  BY DEF StateViews

\* A patch of a state that a client did not ask for leaves its views.
LEMMA ViewsStay ==
    ASSUME NEW c, NEW trees, NEW s, NEW tree, ~Matches(c, s)
    PROVE  StateViews(c, [trees EXCEPT ![s] = tree]) = StateViews(c, trees)
  BY DEF StateViews

\* Appending a row adds it at the end of a log.
LEMMA LogAppend ==
    ASSUME NEW l, IsLog(l), NEW e
    PROVE  /\ IsLog(Append(l, e))
           /\ Len(l) \in Nat /\ DOMAIN l = 1..Len(l)
           /\ DOMAIN Append(l, e) = 1..(Len(l) + 1) /\ Len(Append(l, e)) = Len(l) + 1
           /\ \A i \in 1..Len(l) : Append(l, e)[i] = l[i]
           /\ Append(l, e)[Len(l) + 1] = e
<1> DEFINE S == {l[i] : i \in DOMAIN l} \cup {e}
           m == Append(l, e)
<1>1. l \in Seq(S)
  <2>1. Len(l) \in Nat /\ DOMAIN l = 1..Len(l) /\ l = [i \in 1..Len(l) |-> l[i]]
    BY DEF IsLog
  <2>2. \A i \in 1..Len(l) : l[i] \in S
    BY <2>1
  <2> HIDE DEF S
  <2> QED
    BY <2>1, <2>2
<1>2. e \in S
  OBVIOUS
<1> HIDE DEF S
<1>3. /\ m \in Seq(S) /\ Len(m) = Len(l) + 1
      /\ Len(l) \in Nat /\ DOMAIN l = 1..Len(l) /\ DOMAIN m = 1..(Len(l) + 1)
      /\ \A i \in 1..Len(l) : m[i] = l[i]
      /\ m[Len(l) + 1] = e
  BY <1>1, <1>2
<1> HIDE DEF m
<1>4. IsLog(m)
  <2>1. m \in Seq({m[i] : i \in DOMAIN m})
    BY <1>3
  <2> QED
    BY <2>1 DEF IsLog
<1> QED
  BY <1>3, <1>4 DEF m

\* The log is as it was, no more of it is expected than before, and no less may
\* be in it.
LEMMA LogStays ==
    ASSUME SessionOK, LogOK, UNCHANGED <<log, session>>,
           rev' \in Nat, Durable' <= Durable, Given' >= Given
    PROVE  LogOK'
<1>1. /\ rev \in Int /\ rev' \in Int /\ session \in Nat
      /\ Durable \in Int /\ Durable' \in Int /\ Given \in Int /\ Given' \in Int
  BY DEF SessionOK, Durable, Given
<1>2. \A i \in DOMAIN log : log[i].kind = "patch" /\ log[i].session = session
                            => log[i].rev \in 1..Given'
  BY <1>1 DEF LogOK
<1>3. session # 0 => \A r \in 1..Durable' : \E i \in DOMAIN log : IsPatchOf(log[i], session, r)
  BY <1>1 DEF LogOK
<1>4. session' # 0 => \A r \in 1..Durable' : \E i \in DOMAIN log' : IsPatchOf(log'[i], session', r)
  BY <1>3 DEF IsPatchOf
<1> QED
  BY <1>2, <1>4 DEF LogOK, LogInOrder

\* A snapshot of the current session is appended.
LEMMA LogSnapshot ==
    ASSUME SessionOK, LogOK, session # 0, UNCHANGED session,
           NEW r, NEW trees, log' = Append(log, Snapshot(session, r, trees)),
           rev' \in Nat, Durable' <= Durable, Given' >= Given
    PROVE  LogOK'
<1> DEFINE n == Len(log)
<1>1. /\ IsLog(log')
      /\ n \in Nat /\ DOMAIN log = 1..n /\ DOMAIN log' = 1..(n + 1)
      /\ \A i \in DOMAIN log : log'[i] = log[i]
      /\ log'[n + 1] = Snapshot(session, r, trees)
  BY LogAppend DEF LogOK
<1>2. log'[n + 1].kind = "snapshot" /\ log'[n + 1].session = session
  BY <1>1 DEF Snapshot
<1>3. /\ rev \in Int /\ rev' \in Int /\ session \in Nat
      /\ Durable \in Int /\ Durable' \in Int /\ Given \in Int /\ Given' \in Int
  BY DEF SessionOK, Durable, Given
<1> HIDE DEF n
<1>4. ASSUME NEW i \in DOMAIN log'
      PROVE  /\ log'[i].session \in 1..session
             /\ log'[i].kind = "patch" /\ log'[i].session = session => log'[i].rev \in 1..Given'
  <2>1. CASE i \in DOMAIN log
    BY <1>1, <1>3, <2>1 DEF LogOK
  <2>2. CASE i = n + 1
    BY <1>2, <1>3, <2>2
  <2> QED
    BY <1>1, <2>1, <2>2
<1>5. ASSUME NEW q \in 1..Durable' PROVE \E i \in DOMAIN log' : IsPatchOf(log'[i], session', q)
  <2>1. PICK i \in DOMAIN log : IsPatchOf(log[i], session, q)
    BY <1>3 DEF LogOK
  <2> QED
    BY <1>1, <2>1 DEF IsPatchOf
<1>6. LogInOrder'
  BY <1>1, <1>2 DEF LogOK, LogInOrder
<1> QED
  BY <1>1, <1>4, <1>5, <1>6 DEF LogOK

\* The row of the patch in hand is appended.
LEMMA LogPatch ==
    ASSUME SessionOK, LogOK, session # 0, UNCHANGED <<session, rev>>, rev > 0,
           NEW row, row.kind = "patch", row.session = session, row.rev = rev,
           log' = Append(log, row), stage \in InHand, stage' \notin InHand
    PROVE  LogOK'
<1> DEFINE n == Len(log)
<1>1. /\ IsLog(log')
      /\ n \in Nat /\ DOMAIN log = 1..n /\ DOMAIN log' = 1..(n + 1)
      /\ \A i \in DOMAIN log : log'[i] = log[i]
      /\ log'[n + 1] = row
  BY LogAppend DEF LogOK
<1>2. /\ rev \in Nat \ {0} /\ session \in Nat \ {0}
      /\ Durable' \in {rev - 1, rev} /\ Durable = rev - 1 /\ Given = rev - 1 /\ Given' = rev
  BY DEF SessionOK, Durable, Given, InHand
<1> HIDE DEF n
<1>3. ASSUME NEW i \in DOMAIN log'
      PROVE  /\ log'[i].session \in 1..session
             /\ log'[i].kind = "patch" /\ log'[i].session = session => log'[i].rev \in 1..Given'
  <2>1. CASE i \in DOMAIN log
    BY <1>1, <1>2, <2>1 DEF LogOK
  <2>2. CASE i = n + 1
    BY <1>1, <1>2, <2>2
  <2> QED
    BY <1>1, <2>1, <2>2
<1>4. ASSUME NEW q \in 1..Durable' PROVE \E i \in DOMAIN log' : IsPatchOf(log'[i], session', q)
  <2>1. CASE q = rev
    BY <1>1, <2>1 DEF IsPatchOf
  <2>2. CASE q \in 1..(rev - 1)
    <3>1. PICK i \in DOMAIN log : IsPatchOf(log[i], session, q)
      BY <1>2, <2>2 DEF LogOK
    <3> QED
      BY <1>1, <3>1 DEF IsPatchOf
  <2> QED
    BY <1>2, <2>1, <2>2
<1>5. LogInOrder'
  <2>1. \A i \in DOMAIN log : log[i].kind = "patch" /\ log[i].session = session => log[i].rev < rev
    BY <1>2 DEF LogOK
  <2> QED
    BY <1>1, <2>1 DEF LogOK, LogInOrder
<1> QED
  BY <1>1, <1>3, <1>4, <1>5 DEF LogOK

\* A session begins with two snapshots.
LEMMA LogStart ==
    ASSUME SessionOK, LogOK, session' = session + 1, rev' = 0, stage' = "idle", NEW r, NEW trees,
           log' = log \o <<Snapshot(session + 1, r, trees), Snapshot(session + 1, 0, trees)>>
    PROVE  LogOK'
<1> DEFINE n == Len(log)
           first == Snapshot(session + 1, r, trees)
           second == Snapshot(session + 1, 0, trees)
           middle == Append(log, first)
<1>1. /\ IsLog(middle)
      /\ n \in Nat /\ DOMAIN log = 1..n /\ DOMAIN middle = 1..(n + 1)
      /\ \A i \in DOMAIN log : middle[i] = log[i]
      /\ middle[n + 1] = first /\ Len(middle) = n + 1
  BY LogAppend DEF LogOK
<1>2. first.kind = "snapshot" /\ first.session = session + 1
      /\ second.kind = "snapshot" /\ second.session = session + 1
  BY DEF Snapshot
<1>3. log' = Append(middle, second)
  <2>1. IsLog(log)
    BY DEF LogOK
  <2> HIDE DEF first, second
  <2> QED
    BY <2>1 DEF IsLog, first, second
<1> HIDE DEF middle, first, second
<1>4. /\ IsLog(log')
      /\ DOMAIN log' = 1..(n + 2)
      /\ \A i \in DOMAIN middle : log'[i] = middle[i]
      /\ log'[n + 2] = second
  <2>1. Len(middle) = n + 1 /\ n \in Nat
    BY <1>1
  <2>2. \A i \in DOMAIN middle : i \in 1..Len(middle)
    BY <1>1
  <2>3. IsLog(middle)
    BY <1>1
  <2>4. /\ IsLog(Append(middle, second))
        /\ DOMAIN Append(middle, second) = 1..(Len(middle) + 1)
        /\ \A i \in 1..Len(middle) : Append(middle, second)[i] = middle[i]
        /\ Append(middle, second)[Len(middle) + 1] = second
    BY <2>3, LogAppend
  <2>5. n + 1 + 1 = n + 2
    BY <2>1
  <2> QED
    BY <1>3, <2>1, <2>2, <2>4, <2>5
<1>5. /\ \A i \in 1..n : log'[i] = log[i]
      /\ log'[n + 1].kind = "snapshot" /\ log'[n + 1].session = session + 1
      /\ log'[n + 2].kind = "snapshot" /\ log'[n + 2].session = session + 1
  BY <1>1, <1>2, <1>4
<1>6. session \in Nat /\ Durable' = 0 /\ Given' = 0
  BY DEF SessionOK, Durable, Given, InHand
<1> HIDE DEF n
<1>7. ASSUME NEW i \in DOMAIN log'
      PROVE  /\ log'[i].session \in 1..session'
             /\ ~(log'[i].kind = "patch" /\ log'[i].session = session')
  <2>1. CASE i \in 1..n
    <3>1. log'[i] = log[i] /\ log[i].session \in 1..session
      BY <1>1, <1>5, <2>1 DEF LogOK
    <3> QED
      BY <1>6, <3>1
  <2>2. CASE i \in {n + 1, n + 2}
    BY <1>5, <1>6, <2>2
  <2> QED
    BY <1>1, <1>4, <2>1, <2>2
<1>8. LogInOrder'
  <2> SUFFICES ASSUME NEW i \in DOMAIN log', NEW j \in DOMAIN log', i < j,
                      log'[i].kind = "patch", log'[j].kind = "patch",
                      log'[i].session = log'[j].session
               PROVE  log'[i].rev < log'[j].rev
    BY DEF LogInOrder
  <2>1. i \in 1..n /\ j \in 1..n
    BY <1>1, <1>4, <1>5
  <2> QED
    BY <1>1, <1>5, <2>1 DEF LogOK, LogInOrder
<1> QED
  BY <1>4, <1>6, <1>7, <1>8 DEF LogOK

-----------------------------------------------------------------------------
(* The steps.                                                               *)

LEMMA InitHolds == Init => StateInv
<1> SUFFICES ASSUME Init PROVE StateInv
  OBVIOUS
<1> USE DEF Init, StateInit, ClientInit
<1>1. SessionOK
  BY DEF SessionOK, Stages
<1>2. TruthOK /\ SendingOK
  BY DEF TruthOK, SendingOK, InHand
<1>3. ClientsOK
  BY DEF ClientsOK, ViewOK, Served
<1>4. LogOK
  <2>1. IsLog(log) /\ DOMAIN log = {}
    BY DEF IsLog
  <2> QED
    BY <2>1 DEF LogOK, LogInOrder
<1> QED
  BY <1>1, <1>2, <1>3, <1>4 DEF StateInv

\* The clients are as they were, and so are the last revision and, in the same
\* session, what the patch loop owes them.
LEMMA ClientsStay ==
    ASSUME StateInv, UNCHANGED <<clientVars, shrunk, session, rev>>,
           rev > 0 => truth'[rev - 1] = truth[rev - 1],
           \A c \in Clients : Awaits(c)' \/ Cut' \/ ~Awaits(c),
           \A c \in Clients : Awaits(c)' => Awaits(c),
           Cut => Cut'
    PROVE  ClientsOK'
<1>1. ASSUME NEW c \in Clients PROVE ViewOK(c)'
  <2> SUFFICES ASSUME Served(c)
               PROVE  /\ seen[c] \in 0..rev
                      /\ IF Awaits(c)' THEN view[c] = StateViews(c, truth'[rev - 1])
                         ELSE \/ view[c] = StateViews(c, shrunk)
                              \/ Cut' /\ seen[c] < rev /\ view[c] = StateViews(c, truth'[rev - 1])
    BY DEF ViewOK, Served, clientVars
  <2>1. ViewOK(c)
    BY DEF StateInv, ClientsOK
  <2>2. seen[c] \in 0..rev /\ rev \in Nat
    BY <2>1 DEF ViewOK, StateInv, SessionOK
  <2>3. seen[c] < rev => truth'[rev - 1] = truth[rev - 1]
    BY <2>2
  <2>4. CASE Awaits(c)
    <3>1. seen[c] < rev /\ view[c] = StateViews(c, truth[rev - 1])
      BY <2>1, <2>4 DEF ViewOK, Awaits
    <3> QED
      BY <2>2, <2>3, <2>4, <3>1
  <2>5. CASE ~Awaits(c)
    BY <2>1, <2>2, <2>3, <2>5 DEF ViewOK
  <2> QED
    BY <2>4, <2>5
<1> QED
  BY <1>1 DEF StateInv, ClientsOK, clientVars

\* astart: a client of an earlier session is not served in this one.
LEMMA StartStep == ASSUME StateInv, Start PROVE StateInv'
<1> USE DEF Start, StartStates
<1>1. session \in Nat /\ session' = session + 1 /\ rev' = 0 /\ stage' = "idle"
  BY DEF StateInv, SessionOK
<1>2. sending = NoMessage /\ todo = {}
  BY DEF StateInv, SessionOK, SendingOK
<1>3. SessionOK'
  BY <1>1 DEF SessionOK, Stages
<1>4. TruthOK'
  BY <1>1 DEF TruthOK, InHand
<1>5. SendingOK'
  BY <1>1, <1>2 DEF SendingOK, clientVars
<1>6. ClientsOK'
  BY <1>1 DEF ClientsOK, ViewOK, Served, clientVars, StateInv
<1>7. LogOK'
  BY <1>1, LogStart DEF StateInv
<1> QED
  BY <1>3, <1>4, <1>5, <1>6, <1>7 DEF StateInv

\* User code queues patches: nothing else changes.
LEMMA WorkStep == ASSUME StateInv, NEW t \in Tasks, Work(t) PROVE StateInv'
<1>1. /\ UNCHANGED <<clientVars, shrunk, rev, stage, current, truth, session, flushed, log, agent>>
  BY DEF Work, Mutate, lifeVars
<1> QED
  BY <1>1 DEF StateInv, SessionOK, TruthOK, SendingOK, ClientsOK, ViewOK, Served, Awaits, Cut, LogOK,
              LogInOrder, Durable, Given, clientVars

\* The patch loop takes a patch: every served client has the views of what is
\* now the revision before the last.
LEMMA TakeStep == ASSUME StateInv, Take PROVE StateInv'
<1> DEFINE p == Head(queue)
           tree == IF p.op = "remove" THEN p.value ELSE ShrinkValue(live, p.value)
           after == Apply(shrunk[p.state], p.op, p.path, tree)
<1>1. /\ stage = "idle" /\ UNCHANGED <<clientVars, session, agent, flushed, log>>
      /\ rev \in Nat /\ session \in Nat \ {0} /\ agent \in {"up", "draining"}
      /\ sending = NoMessage /\ todo = {}
  BY DEF Take, TakePatch, lifeVars, StateInv, SessionOK, SendingOK
<1>2. DOMAIN truth = 0..rev /\ truth[rev] = shrunk
  BY <1>1 DEF StateInv, TruthOK
<1>3. \A c \in Clients : Served(c) => seen[c] \in 0..rev /\ view[c] = StateViews(c, shrunk)
  BY <1>1 DEF StateInv, ClientsOK, ViewOK, Awaits, Cut
<1>4. CASE Shrinkable(p) /\ after # PatchError
  <2>1. /\ shrunk' = [shrunk EXCEPT ![p.state] = after]
        /\ rev' = rev + 1
        /\ truth' = [r \in 0..(rev + 1) |-> IF r <= rev THEN truth[r] ELSE shrunk']
        /\ current' = [state |-> p.state, task |-> p.task, op |-> p.op,
                       path |-> p.path, value |-> tree]
        /\ stage' \in {"dumping", "publishing"}
    BY <1>4 DEF Take, TakePatch
  <2>2. /\ current'.state = p.state /\ current'.op = p.op /\ current'.path = p.path
        /\ current'.value = tree
    BY <2>1
  <2>3. truth'[rev'] = shrunk' /\ truth'[rev' - 1] = shrunk /\ DOMAIN truth' = 0..rev'
    BY <1>1, <1>2, <2>1
  <2>4. shrunk' = [shrunk EXCEPT ![current'.state] =
                      Apply(shrunk[current'.state], current'.op, current'.path, current'.value)]
    BY <2>1, <2>2
  <2> HIDE DEF p, tree, after
  <2>5. SessionOK'
    BY <1>1, <2>1 DEF SessionOK, Stages
  <2>6. TruthOK'
    <3>1. shrunk' = [truth'[rev' - 1] EXCEPT ![current'.state] =
                        Apply(truth'[rev' - 1][current'.state], current'.op, current'.path,
                              current'.value)]
      BY <2>3, <2>4
    <3>2. rev' > 0
      BY <1>1, <2>1
    <3> QED
      BY <2>3, <3>1, <3>2 DEF TruthOK
  <2>7. SendingOK'
    BY <1>1 DEF SendingOK, clientVars
  <2>8. ClientsOK'
    <3>1. ASSUME NEW c \in Clients PROVE ViewOK(c)'
      <4> SUFFICES ASSUME Served(c) PROVE ViewOK(c)'
        BY <1>1 DEF ViewOK, Served, clientVars
      <4>1. seen'[c] \in 0..rev' /\ seen'[c] < rev' /\ view'[c] = StateViews(c, truth'[rev' - 1])
        BY <1>1, <1>3, <2>1, <2>3 DEF clientVars
      <4>2. Awaits(c)'
        BY <1>1, <2>1, <4>1 DEF Awaits, clientVars
      <4> QED
        BY <4>1, <4>2 DEF ViewOK
    <3> QED
      BY <1>1, <3>1 DEF StateInv, ClientsOK, clientVars
  <2>9. LogOK'
    <3>1. Durable' = Durable /\ Given' = Given /\ Durable \in Int /\ Given \in Int /\ rev' \in Nat
      BY <1>1, <2>1 DEF Durable, Given, InHand
    <3> QED
      BY <1>1, <3>1, LogStays DEF StateInv
  <2> QED
    BY <2>5, <2>6, <2>7, <2>8, <2>9 DEF StateInv
<1>5. CASE ~(Shrinkable(p) /\ after # PatchError)
  <2>1. stage' = "dead" /\ UNCHANGED <<shrunk, rev, truth, current>>
    BY <1>5 DEF Take, TakePatch
  <2> HIDE DEF p, tree, after
  <2>2. SessionOK'
    BY <1>1, <2>1 DEF SessionOK, Stages
  <2>3. TruthOK' /\ SendingOK'
    BY <1>1, <1>2, <2>1 DEF TruthOK, SendingOK, InHand, clientVars
  <2>4. ClientsOK'
    <3>1. ASSUME NEW c \in Clients PROVE ViewOK(c)'
      BY <1>1, <1>3, <2>1 DEF ViewOK, Served, Awaits, clientVars
    <3> QED
      BY <1>1, <3>1 DEF StateInv, ClientsOK, clientVars
  <2>5. LogOK'
    <3>1. Durable' = rev - 1 /\ Durable = rev /\ Given' = rev /\ Given = rev
      BY <1>1, <2>1 DEF Durable, Given, InHand
    <3> QED
      BY <1>1, <2>1, <3>1, LogStays DEF StateInv
  <2> QED
    BY <2>2, <2>3, <2>4, <2>5 DEF StateInv
<1> QED
  BY <1>4, <1>5

\* A snapshot goes to the sink before the patch that led to it.
LEMMA SnapshotStep == ASSUME StateInv, PublishSnapshot PROVE StateInv'
<1>1. /\ stage = "dumping" /\ stage' = "publishing" /\ current' = current
      /\ UNCHANGED <<clientVars, session, agent, flushed, shrunk, rev, truth>>
      /\ log' = Append(log, Snapshot(session, rev, shrunk))
      /\ rev \in Nat /\ session \in Nat \ {0}
      /\ sending = NoMessage
  BY DEF PublishSnapshot, StageTo, LockFree, lifeVars, StateInv, SessionOK
<1>2. SessionOK'
  BY <1>1 DEF StateInv, SessionOK, Stages, clientVars
<1>3. TruthOK' /\ SendingOK'
  BY <1>1 DEF StateInv, TruthOK, SendingOK, InHand, clientVars
<1>4. ClientsOK'
  BY <1>1, ClientsStay DEF Awaits, Cut, clientVars
<1>5. LogOK'
  <2>1. Durable' = Durable /\ Given' = Given /\ Durable \in Int /\ Given \in Int
    BY <1>1 DEF Durable, Given, InHand
  <2> QED
    BY <1>1, <2>1, LogSnapshot DEF StateInv
<1> QED
  BY <1>2, <1>3, <1>4, <1>5 DEF StateInv

\* A broadcast begins: a client that did not ask for the state of the patch has
\* its views after it already.
LEMMA SendStep == ASSUME StateInv, SendPatch PROVE StateInv'
<1>1. /\ stage = "publishing" /\ sending = NoMessage /\ sending' = Message(rev, current)
      /\ todo' = {c \in Clients : conn[c] \in {"open", "failed"} /\ Matches(c, current.state)}
      /\ UNCHANGED <<conn, view, seen, joined>>
      /\ UNCHANGED <<live, queue, shrunk, rev, stage, current, mutations, truth>>
      /\ UNCHANGED <<agent, session, flushed, log>>
  <2>1. Message(rev, current).state = current.state
    BY DEF Message
  <2> QED
    BY <2>1 DEF SendPatch, BeginBroadcast, LockFree, stateVars, lifeVars
<1>2. rev \in Nat \ {0} /\ session \in Nat \ {0}
  BY <1>1 DEF StateInv, SessionOK, TruthOK, InHand
<1>3. sending' # NoMessage
  BY <1>1, <1>2 DEF Message, NoMessage
<1>4. SessionOK' /\ TruthOK' /\ LogOK'
  BY <1>1 DEF StateInv, SessionOK, TruthOK, LogOK, LogInOrder, Durable, Given
<1>5. SendingOK'
  BY <1>1, <1>3 DEF SendingOK
<1>6. shrunk = [truth[rev - 1] EXCEPT ![current.state] =
                   Apply(truth[rev - 1][current.state], current.op, current.path, current.value)]
  BY <1>1 DEF StateInv, TruthOK, InHand
<1>7. ASSUME NEW c \in Clients PROVE ViewOK(c)'
  <2> SUFFICES ASSUME Served(c) PROVE ViewOK(c)'
    BY <1>1 DEF ViewOK, Served
  <2>1. seen[c] \in 0..rev /\ (seen[c] < rev => view[c] = StateViews(c, truth[rev - 1]))
        /\ (seen[c] = rev => view[c] = StateViews(c, shrunk))
    BY <1>1, <1>2 DEF StateInv, ClientsOK, ViewOK, Awaits, Cut
  <2>2. CASE seen[c] = rev
    BY <1>1, <1>2, <2>1, <2>2 DEF ViewOK, Awaits
  <2>3. CASE seen[c] < rev /\ Matches(c, current.state)
    <3>1. c \in todo'
      BY <1>1, <2>3 DEF Served
    <3> QED
      BY <1>1, <2>1, <2>3, <3>1 DEF ViewOK, Awaits
  <2>4. CASE seen[c] < rev /\ ~Matches(c, current.state)
    <3>1. c \notin todo'
      BY <1>1, <2>4
    <3>2. view[c] = StateViews(c, shrunk)
      <4> DEFINE tree == Apply(truth[rev - 1][current.state], current.op, current.path,
                               current.value)
      <4>1. StateViews(c, [truth[rev - 1] EXCEPT ![current.state] = tree])
            = StateViews(c, truth[rev - 1])
        <5> DEFINE old == truth[rev - 1]
        <5> HIDE DEF tree
        <5>1. StateViews(c, [old EXCEPT ![current.state] = tree]) = StateViews(c, old)
          <6> HIDE DEF old
          <6> QED
            BY <2>4, ViewsStay
        <5> QED
          BY <5>1
      <4> QED
        BY <1>6, <2>1, <2>4, <4>1
    <3> QED
      BY <1>1, <1>3, <2>1, <3>1, <3>2 DEF ViewOK, Awaits
  <2> QED
    BY <1>2, <2>1, <2>2, <2>3, <2>4
<1>8. ClientsOK'
  BY <1>1, <1>7 DEF StateInv, ClientsOK
<1> QED
  BY <1>4, <1>5, <1>8 DEF StateInv

\* A broadcast ends when everybody has been sent to.
LEMMA SentStep == ASSUME StateInv, PatchSent PROVE StateInv'
<1>1. /\ stage = "publishing" /\ sending # NoMessage /\ todo = {}
      /\ stage' = "writing" /\ current' = current /\ sending' = NoMessage
      /\ UNCHANGED <<conn, view, seen, joined, todo>>
      /\ UNCHANGED <<live, queue, shrunk, rev, mutations, truth>>
      /\ UNCHANGED <<agent, session, flushed, log>>
      /\ rev \in Nat /\ session \in Nat \ {0}
  BY DEF PatchSent, StageTo, EndBroadcast, lifeVars, StateInv, SessionOK
<1>2. SessionOK' /\ TruthOK' /\ SendingOK'
  BY <1>1 DEF StateInv, SessionOK, TruthOK, SendingOK, Stages, InHand
<1>3. ASSUME NEW c \in Clients PROVE ViewOK(c)'
  BY <1>1 DEF StateInv, ClientsOK, ViewOK, Served, Awaits, Cut
<1>4. ClientsOK'
  BY <1>1, <1>3 DEF StateInv, ClientsOK
<1>5. LogOK'
  <2>1. Durable' = Durable /\ Given' = Given /\ Durable \in Int /\ Given \in Int
    BY <1>1 DEF Durable, Given, InHand
  <2> QED
    BY <1>1, <2>1, LogStays DEF StateInv
<1> QED
  BY <1>2, <1>4, <1>5 DEF StateInv

\* The patch goes to the sink, or the sink refuses it.
LEMMA WriteStep == ASSUME StateInv, WritePatch PROVE StateInv'
<1> DEFINE row == PatchRow(session, rev, current.state, current.op, current.path,
                           current.value, current.task)
<1>1. /\ stage = "writing" /\ UNCHANGED <<clientVars, shrunk, rev, truth, agent, session, flushed>>
      /\ \/ stage' = "dead" /\ log' = log
         \/ stage' = "idle" /\ log' = Append(log, row)
      /\ sending = NoMessage /\ todo = {}
  BY DEF WritePatch, StageTo, lifeVars, StateInv, SendingOK
<1>2. row.kind = "patch" /\ row.session = session /\ row.rev = rev
  BY DEF PatchRow
<1> HIDE DEF row
<1>3. rev \in Nat \ {0} /\ session \in Nat \ {0} /\ agent \in {"up", "draining"}
  BY <1>1 DEF StateInv, SessionOK, TruthOK, InHand
<1>4. SessionOK' /\ TruthOK' /\ SendingOK'
  <2>1. SessionOK'
    BY <1>1, <1>3 DEF StateInv, SessionOK, Stages, clientVars
  <2>2. TruthOK' /\ SendingOK'
    BY <1>1 DEF StateInv, TruthOK, SendingOK, InHand, clientVars
  <2> QED
    BY <2>1, <2>2
<1>5. ClientsOK'
  BY <1>1, ClientsStay DEF Awaits, Cut, clientVars
<1>6. LogOK'
  <2>1. CASE stage' = "dead" /\ log' = log
    <3>1. Durable' = Durable /\ Durable \in Int /\ Given' = rev /\ Given = rev - 1
      BY <1>1, <1>3, <2>1 DEF Durable, Given, InHand
    <3> QED
      BY <1>1, <1>3, <2>1, <3>1, LogStays DEF StateInv
  <2>2. CASE stage' = "idle" /\ log' = Append(log, row)
    BY <1>1, <1>2, <1>3, <2>2, LogPatch DEF StateInv, InHand
  <2> QED
    BY <1>1, <2>1, <2>2
<1> QED
  BY <1>4, <1>5, <1>6 DEF StateInv

\* The patch loop ends where a sink fails, and keeps what it got to.
LEMMA FailStep == ASSUME StateInv, SinkFails PROVE StateInv'
<1>1. /\ stage \in {"dumping", "writing"} /\ stage' = "dead"
      /\ UNCHANGED <<clientVars, shrunk, rev, truth, agent, session, flushed, log>>
      /\ sending = NoMessage /\ todo = {}
  BY DEF SinkFails, StageTo, LockFree, lifeVars, StateInv, SendingOK
<1>2. rev \in Nat \ {0} /\ session \in Nat \ {0}
  BY <1>1 DEF StateInv, SessionOK, TruthOK, InHand
<1>3. SessionOK'
  BY <1>1, <1>2 DEF StateInv, SessionOK, Stages, clientVars
<1>4. TruthOK' /\ SendingOK'
  BY <1>1 DEF StateInv, TruthOK, SendingOK, InHand, clientVars
<1>5. ClientsOK'
  BY <1>1, ClientsStay DEF Awaits, Cut, clientVars
<1>6. LogOK'
  <2>1. Durable' = Durable /\ Durable \in Int /\ Given' = rev /\ Given = rev - 1
    BY <1>1, <1>2 DEF Durable, Given, InHand
  <2> QED
    BY <1>1, <1>2, <2>1, LogStays DEF StateInv
<1> QED
  BY <1>3, <1>4, <1>5, <1>6 DEF StateInv

\* A client that registers gets the last revision.
LEMMA ConnectStep == ASSUME StateInv, NEW c \in Clients, Connect(c) PROVE StateInv'
<1>1. /\ sending = NoMessage /\ conn' = [conn EXCEPT ![c] = "open"]
      /\ view' = [view EXCEPT ![c] = StateViews(c, shrunk)]
      /\ seen' = [seen EXCEPT ![c] = rev] /\ joined' = [joined EXCEPT ![c] = session]
      /\ UNCHANGED <<sending, todo>>
      /\ UNCHANGED <<live, queue, shrunk, rev, stage, current, mutations, truth>>
      /\ UNCHANGED <<agent, session, flushed, log>>
  BY DEF Connect, Register, LockFree, stateVars, lifeVars
<1>2. rev \in Nat /\ session \in Nat \ {0}
  BY DEF Connect, StateInv, SessionOK
<1>3. SessionOK' /\ TruthOK' /\ SendingOK' /\ LogOK'
  BY <1>1, <1>2 DEF StateInv, SessionOK, TruthOK, SendingOK, LogOK, LogInOrder, Durable, Given
<1>4. /\ DOMAIN view = Clients /\ DOMAIN seen = Clients
      /\ joined \in [Clients -> 0..session]
      /\ conn \in [Clients -> {"none", "open", "failed", "gone"}]
  BY DEF StateInv, ClientsOK
<1>5. ASSUME NEW d \in Clients PROVE ViewOK(d)'
  <2>1. CASE d = c
    <3>1. seen'[c] = rev /\ view'[c] = StateViews(c, shrunk)
      BY <1>1, <1>4
    <3> QED
      BY <1>1, <1>2, <2>1, <3>1 DEF ViewOK, Awaits
  <2>2. CASE d # c
    BY <1>1, <1>4, <2>2 DEF StateInv, ClientsOK, ViewOK, Served, Awaits, Cut
  <2> QED
    BY <2>1, <2>2
<1>6. ClientsOK'
  BY <1>1, <1>2, <1>4, <1>5 DEF ClientsOK
<1> QED
  BY <1>3, <1>6 DEF StateInv

\* The patch in hand is sent to a client: one that has not seen it applies it.
LEMMA SendToStep ==
    ASSUME StateInv, NEW c \in Clients, SendTo(c), UNCHANGED <<stateVars, lifeVars, log>>
    PROVE  StateInv'
<1>1. /\ c \in todo /\ todo' = todo \ {c}
      /\ IF conn[c] = "open" THEN ClientApplies(c, sending) ELSE UNCHANGED <<view, seen>>
      /\ UNCHANGED <<conn, joined, sending>>
      /\ UNCHANGED <<live, queue, shrunk, rev, stage, current, mutations, truth>>
      /\ UNCHANGED <<agent, session, flushed, log>>
  BY DEF SendTo, stateVars, lifeVars
<1>2. stage = "publishing" /\ sending = Message(rev, current) /\ sending # NoMessage
      /\ Matches(c, current.state)
  BY <1>1 DEF StateInv, SendingOK
<1>3. rev \in Nat \ {0} /\ session \in Nat \ {0}
  BY <1>2 DEF StateInv, SessionOK, TruthOK, InHand
<1>4. SessionOK' /\ TruthOK' /\ SendingOK' /\ LogOK'
  <2>1. SessionOK' /\ TruthOK'
    BY <1>1 DEF StateInv, SessionOK, TruthOK
  <2>2. SendingOK'
    BY <1>1, <1>2 DEF StateInv, SendingOK
  <2>3. LogOK'
    BY <1>1 DEF StateInv, LogOK, LogInOrder, Durable, Given
  <2> QED
    BY <2>1, <2>2, <2>3
<1>5. /\ DOMAIN view = Clients /\ DOMAIN seen = Clients
      /\ joined \in [Clients -> 0..session]
      /\ conn \in [Clients -> {"none", "open", "failed", "gone"}]
  BY DEF StateInv, ClientsOK
<1>6. /\ sending.rev = rev /\ sending.state = current.state /\ sending.op = current.op
      /\ sending.path = current.path /\ sending.value = current.value
  BY <1>2 DEF Message
<1>7. CASE conn[c] # "open" \/ rev <= seen[c]
  <2>1. UNCHANGED <<view, seen>>
    BY <1>1, <1>6, <1>7 DEF ClientApplies
  <2>2. ASSUME NEW d \in Clients PROVE ViewOK(d)'
    <3>1. CASE d = c
      BY <1>1, <1>3, <1>7, <2>1, <3>1 DEF StateInv, ClientsOK, ViewOK, Served, Awaits, Cut
    <3>2. CASE d # c
      BY <1>1, <2>1, <3>2 DEF StateInv, ClientsOK, ViewOK, Served, Awaits, Cut
    <3> QED
      BY <3>1, <3>2
  <2>3. ClientsOK'
    BY <1>1, <1>5, <2>1, <2>2 DEF ClientsOK
  <2> QED
    BY <1>4, <2>3 DEF StateInv
<1>8. CASE conn[c] = "open" /\ ~(rev <= seen[c])
  <2>1. /\ view' = [view EXCEPT ![c][current.state] =
                      Apply(@, current.op, current.path, current.value)]
        /\ seen' = [seen EXCEPT ![c] = rev]
    BY <1>1, <1>6, <1>8 DEF ClientApplies
  <2>2. /\ seen'[c] = rev
        /\ view'[c] = [view[c] EXCEPT ![current.state] =
                          Apply(view[c][current.state], current.op, current.path, current.value)]
        /\ \A d \in Clients \ {c} : seen'[d] = seen[d] /\ view'[d] = view[d]
    BY <1>5, <2>1
  <2>3. ASSUME Served(c) PROVE view'[c] = StateViews(c, shrunk)
    <3>1. view[c] = StateViews(c, truth[rev - 1])
      BY <1>1, <1>2, <1>3, <1>8, <2>3 DEF StateInv, ClientsOK, ViewOK, Awaits
    <3>2. shrunk = [truth[rev - 1] EXCEPT ![current.state] =
                       Apply(truth[rev - 1][current.state], current.op, current.path,
                             current.value)]
      BY <1>2 DEF StateInv, TruthOK, InHand
    <3> DEFINE old == truth[rev - 1]
    <3>3. [StateViews(c, old) EXCEPT ![current.state] =
              Apply(StateViews(c, old)[current.state], current.op, current.path, current.value)]
          = StateViews(c, [old EXCEPT ![current.state] =
              Apply(old[current.state], current.op, current.path, current.value)])
      <4> HIDE DEF old
      <4> QED
        BY <1>2, ViewsFollow
    <3> QED
      BY <2>2, <3>1, <3>2, <3>3
  <2>4. ASSUME NEW d \in Clients PROVE ViewOK(d)'
    <3>1. CASE d = c
      <4> SUFFICES ASSUME Served(c) PROVE ViewOK(c)'
        BY <1>1, <3>1 DEF ViewOK, Served
      <4> QED
        BY <1>1, <1>3, <2>2, <2>3 DEF ViewOK, Awaits
    <3>2. CASE d # c
      BY <1>1, <2>2, <3>2 DEF StateInv, ClientsOK, ViewOK, Served, Awaits, Cut
    <3> QED
      BY <3>1, <3>2
  <2>5. DOMAIN view' = Clients /\ DOMAIN seen' = Clients
    BY <1>5, <2>1
  <2>6. ClientsOK'
    BY <1>1, <1>5, <2>4, <2>5 DEF ClientsOK
  <2> QED
    BY <1>4, <2>6 DEF StateInv
<1> QED
  BY <1>7, <1>8

\* A connection fails or is dropped: it is no longer served.
LEMMA LeaveStep ==
    ASSUME StateInv, NEW c \in Clients, ClientFails(c) \/ Disconnect(c),
           UNCHANGED <<stateVars, lifeVars, log>>
    PROVE  StateInv'
<1>1. /\ \/ /\ conn' = [conn EXCEPT ![c] = "failed"]
            /\ view' = [view EXCEPT ![c] = <<>>] /\ seen' = [seen EXCEPT ![c] = 0]
         \/ conn' = [conn EXCEPT ![c] = "gone"] /\ UNCHANGED <<view, seen>>
      /\ UNCHANGED <<joined, sending, todo>>
      /\ UNCHANGED <<live, queue, shrunk, rev, stage, current, mutations, truth>>
      /\ UNCHANGED <<agent, session, flushed, log>>
      /\ conn[c] # "none"
  BY DEF ClientFails, Disconnect, stateVars, lifeVars
<1>2. /\ conn \in [Clients -> {"none", "open", "failed", "gone"}]
      /\ DOMAIN view = Clients /\ DOMAIN seen = Clients
      /\ session \in Nat /\ session # 0
  BY <1>1 DEF StateInv, ClientsOK, SessionOK
<1>3. SessionOK' /\ TruthOK'
  BY <1>1, <1>2 DEF StateInv, SessionOK, TruthOK
<1>4. SendingOK'
  BY <1>1 DEF StateInv, SendingOK
<1>5. LogOK'
  BY <1>1 DEF StateInv, LogOK, LogInOrder, Durable, Given
<1>6. ASSUME NEW d \in Clients PROVE ViewOK(d)'
  <2>1. CASE d = c
    BY <1>1, <1>2, <2>1 DEF ViewOK, Served
  <2>2. CASE d # c
    BY <1>1, <1>2, <2>2 DEF StateInv, ClientsOK, ViewOK, Served, Awaits, Cut
  <2> QED
    BY <2>1, <2>2
<1>7. ClientsOK'
  <2>1. DOMAIN view' = Clients /\ DOMAIN seen' = Clients
    BY <1>1, <1>2
  <2> QED
    BY <1>1, <1>2, <1>6, <2>1 DEF StateInv, ClientsOK
<1> QED
  BY <1>3, <1>4, <1>5, <1>7 DEF StateInv

\* The teardown begins, or ends.
LEMMA EdgeStep == ASSUME StateInv, Shutdown \/ CaughtUpOrNot PROVE StateInv'
<1>1. /\ UNCHANGED <<live, queue, shrunk, rev, stage, current, mutations, truth>>
      /\ UNCHANGED <<conn, view, seen, joined, sending, todo>>
      /\ UNCHANGED <<session, flushed, log>>
      /\ \/ agent = "up" /\ agent' = "draining"
         \/ agent = "closing" /\ agent' = "stopped"
  BY DEF Shutdown, CaughtUpOrNot, stateVars, clientVars
<1>2. SessionOK'
  BY <1>1 DEF StateInv, SessionOK
<1>3. TruthOK' /\ SendingOK'
  BY <1>1 DEF StateInv, TruthOK, SendingOK
<1>4. ClientsOK'
  BY <1>1 DEF StateInv, ClientsOK, ViewOK, Served, Awaits, Cut
<1>5. LogOK'
  BY <1>1 DEF StateInv, LogOK, LogInOrder, Durable, Given
<1> QED
  BY <1>2, <1>3, <1>4, <1>5 DEF StateInv

\* The loop is cancelled: in time, when it had nothing in hand, or too late,
\* and what it was sending or writing is cut short.
LEMMA CancelStep == ASSUME StateInv, Joined \/ JoinTimesOut PROVE StateInv'
<1>1. /\ agent = "draining" /\ agent' \in {"closing", "aborted"}
      /\ stage' = IF stage = "dead" THEN "dead" ELSE "stopped"
      /\ UNCHANGED <<conn, view, seen, joined>> /\ sending' = NoMessage /\ todo' = {}
      /\ UNCHANGED <<live, queue, shrunk, rev, mutations, truth>>
      /\ UNCHANGED <<session, log>>
      /\ \/ stage \in {"idle", "dead"} /\ flushed' = "yes"
         \/ flushed' = "timeout"
  BY DEF Joined, JoinTimesOut, AllDone, CancelProcessor, StopProcessor, StageTo, AbortBroadcast
<1>2. rev \in Nat /\ session \in Nat \ {0} /\ stage \in Stages \ {"none"}
  BY <1>1 DEF StateInv, SessionOK
<1>3. SessionOK'
  BY <1>1, <1>2 DEF SessionOK, Stages
<1>4. TruthOK' /\ SendingOK'
  BY <1>1 DEF StateInv, TruthOK, SendingOK, InHand
<1>5. ASSUME NEW c \in Clients PROVE ViewOK(c)'
  <2> SUFFICES ASSUME Served(c) PROVE ViewOK(c)'
    BY <1>1 DEF ViewOK, Served
  <2>1. ViewOK(c)
    BY DEF StateInv, ClientsOK
  <2>2. ~Awaits(c)'
    BY <1>1 DEF Awaits
  <2>3. CASE stage \in {"idle", "dead"} /\ flushed' = "yes"
    BY <1>1, <2>1, <2>2, <2>3 DEF ViewOK, Awaits, Cut
  <2>4. CASE flushed' = "timeout"
    <3>1. Cut'
      BY <1>1, <2>4 DEF Cut
    <3>2. Awaits(c) => seen[c] < rev
      BY DEF Awaits
    <3> QED
      BY <1>1, <2>1, <2>2, <3>1, <3>2 DEF ViewOK
  <2> QED
    BY <1>1, <2>3, <2>4
<1>6. ClientsOK'
  BY <1>1, <1>5 DEF StateInv, ClientsOK
<1>7. LogOK'
  <2>1. rev' = rev /\ rev - 1 \in Int /\ rev - 1 <= rev
    BY <1>1, <1>2
  <2>2. Given' = rev /\ Given \in {rev - 1, rev}
    BY <1>1 DEF Given, InHand
  <2>3. Durable' <= Durable
    <3>1. CASE stage = "idle"
      BY <1>1, <1>2, <2>1, <3>1 DEF Durable
    <3>2. CASE stage = "dead"
      BY <1>1, <1>2, <2>1, <3>2 DEF Durable
    <3>3. CASE stage \notin {"idle", "dead"} /\ flushed' = "timeout"
      BY <1>1, <1>2, <2>1, <3>3 DEF Durable
    <3> QED
      BY <1>1, <3>1, <3>2, <3>3
  <2> QED
    BY <1>1, <1>2, <2>1, <2>2, <2>3, LogStays DEF StateInv
<1> QED
  BY <1>3, <1>4, <1>6, <1>7 DEF StateInv

\* Every step keeps the invariant.
LEMMA StepKeeps == ASSUME StateInv, [Next]_allVars PROVE StateInv'
<1>1. CASE Start
  BY <1>1, StartStep
<1>2. CASE \E t \in Tasks : Work(t)
  BY <1>2, WorkStep
<1>3. CASE Take
  BY <1>3, TakeStep
<1>4. CASE PublishSnapshot
  BY <1>4, SnapshotStep
<1>5. CASE SendPatch
  BY <1>5, SendStep
<1>6. CASE PatchSent
  BY <1>6, SentStep
<1>7. CASE WritePatch
  BY <1>7, WriteStep
<1>8. CASE SinkFails
  BY <1>8, FailStep
<1>9. ASSUME NEW c \in Clients, Connect(c) PROVE StateInv'
  BY <1>9, ConnectStep
<1>10. ASSUME NEW c \in Clients, Serve(c) PROVE StateInv'
  BY <1>10, SendToStep, LeaveStep DEF Serve
<1>11. CASE Shutdown \/ CaughtUpOrNot
  BY <1>11, EdgeStep
<1>12. CASE Joined \/ JoinTimesOut
  BY <1>12, CancelStep
<1>13. CASE UNCHANGED allVars
  <2>1. /\ UNCHANGED <<live, queue, shrunk, rev, stage, current, mutations, truth>>
        /\ UNCHANGED <<conn, view, seen, joined, sending, todo>>
        /\ UNCHANGED <<agent, session, flushed, log>>
    BY <1>13 DEF allVars, stateVars, clientVars, lifeVars
  <2>2. SessionOK' /\ TruthOK' /\ SendingOK'
    BY <2>1 DEF StateInv, SessionOK, TruthOK, SendingOK
  <2>3. ClientsOK'
    BY <2>1 DEF StateInv, ClientsOK, ViewOK, Served, Awaits, Cut
  <2>4. LogOK'
    BY <2>1 DEF StateInv, LogOK, LogInOrder, Durable, Given
  <2> QED
    BY <2>2, <2>3, <2>4 DEF StateInv
<1> QED
  BY <1>1, <1>2, <1>3, <1>4, <1>5, <1>6, <1>7, <1>8, <1>9, <1>10, <1>11, <1>12, <1>13
     DEF Next, Loop, TearDown

-----------------------------------------------------------------------------
(* The theorems.                                                            *)

\* The inductive invariant holds of every run: clients, truth, log and patch
\* loop stay in step through suspensions, failures, teardowns and restarts.
THEOREM AgentStateInvariant == Spec => []StateInv
<1>1. StateInv /\ [Next]_allVars => StateInv'
  BY StepKeeps
<1> QED
  BY <1>1, InitHolds, PTL DEF Spec

\* Whenever a websocket client connects, it has the states as they all were at
\* one revision, the last but for a patch still to be sent to it
\* (handle_websocket, broadcast_model).
THEOREM ClientsFollow == Spec => []ClientFollows
<1>1. StateInv => ClientFollows
  <2> SUFFICES ASSUME StateInv, NEW c \in Clients, Served(c)
               PROVE  \E r \in (IF Owed(c) THEN rev - 1 ELSE rev)..rev :
                          view[c] = StateViews(c, truth[r])
    BY DEF ClientFollows
  <2>1. ViewOK(c) /\ rev \in Nat
    BY DEF StateInv, ClientsOK, SessionOK
  <2>2. session # 0
    BY DEF Served, StateInv, SessionOK
  <2>3. truth[rev] = shrunk
    BY <2>2 DEF StateInv, TruthOK
  <2>4. CASE view[c] = StateViews(c, shrunk)
    <3>1. rev \in (IF Owed(c) THEN rev - 1 ELSE rev)..rev
      BY <2>1
    <3> QED
      BY <2>3, <2>4, <3>1
  <2>5. CASE view[c] # StateViews(c, shrunk)
    <3>1. view[c] = StateViews(c, truth[rev - 1]) /\ (Awaits(c) \/ (Cut /\ seen[c] < rev))
      BY <2>1, <2>5 DEF ViewOK
    <3>2. Owed(c)
      BY <3>1 DEF Owed, Awaits, Cut
    <3>3. rev - 1 \in (IF Owed(c) THEN rev - 1 ELSE rev)..rev
      BY <2>1, <3>2
    <3> QED
      BY <3>1, <3>3
  <2> QED
    BY <2>4, <2>5
<1> QED
  BY <1>1, AgentStateInvariant, PTL

\* The sink is given the patches of each session in the order of their
\* revisions and each once (awrite_patch).
THEOREM LogOrdered == Spec => []LogInOrder
<1>1. StateInv => LogInOrder
  BY DEF StateInv, LogOK
<1> QED
  BY <1>1, AgentStateInvariant, PTL

\* A teardown whose join ended in time has every patch in the sink and with the
\* clients (atear_down).
THEOREM FlushedAndOut == Spec => []FlushedIsOut
<1>1. StateInv => FlushedIsOut
  <2> SUFFICES ASSUME StateInv, flushed = "yes", stage = "stopped"
               PROVE  /\ rev \in Persisted
                      /\ \A c \in Clients : Served(c) => view[c] = StateViews(c, shrunk)
    BY DEF FlushedIsOut
  <2>1. rev \in Nat /\ session # 0
    BY DEF StateInv, SessionOK
  <2>2. Durable = rev
    BY DEF Durable
  <2>3. rev \in Persisted
    BY <2>1, <2>2 DEF StateInv, LogOK, Persisted, IsPatchOf
  <2>4. ASSUME NEW c \in Clients, Served(c) PROVE view[c] = StateViews(c, shrunk)
    <3>1. ViewOK(c) /\ ~Awaits(c) /\ ~Cut
      BY DEF StateInv, ClientsOK, Awaits, Cut
    <3> QED
      BY <2>4, <3>1 DEF ViewOK
  <2> QED
    BY <2>3, <2>4
<1> QED
  BY <1>1, AgentStateInvariant, PTL
=============================================================================
