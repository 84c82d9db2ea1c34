------------------------- MODULE AgentLifecycleProofs -------------------------
(***************************************************************************)
(* Proofs about AgentLifecycle, for any background workers, any number of  *)
(* hooks, cancellations and runs: what a completed teardown leaves, and    *)
(* when and in which order shutdown hooks run.                             *)
(***************************************************************************)
EXTENDS AgentLifecycle, TLAPS

\* The runner is before its first teardown, or past the workers in one.
Begun == {"starting", "states", "acknowledging", "looping", "stopping"}
PastWorkers == {"hooks", "joining", "processor", "disconnecting"}

WorkersGone == \A w \in Workers : workers[w] \in {"none", "ended"}

\* Before a teardown nothing of it has happened.
NothingTornYet ==
    /\ pc \in Begun => ~torn /\ hooksRun = <<>>
    /\ pc = "starting" => started < Startups
    /\ pc \in {"starting", "states"} => ~prepared

\* What a teardown has done, step by step, stays done for the run.
DoneStaysDone ==
    /\ pc \in PastWorkers \/ torn => WorkersGone /\ ~ran
    /\ pc = "disconnecting" \/ torn => processor \in {"none", "stopped"} /\ queue = NoQueue
    /\ torn => connection = "closed" /\ ~connected

\* The hooks that have begun are the last ones, the last one first.
HooksInReverse ==
    /\ hook > 0 => pc = "hooks" /\ Len(hooksRun) = Shutdowns - hook + 1
    /\ ran => hooksRun = <<>>
    /\ \A i \in DOMAIN hooksRun : hooksRun[i] = Shutdowns - i + 1

\* Shutdown hooks are owed to a run whose startup hooks are over, and find the
\* patch loop they publish to.
HooksAreOwed ==
    /\ clean /\ (ran \/ hooksRun # <<>>) => started = Startups
    /\ prepared /\ (ran \/ hook > 0) => queue # NoQueue /\ processor \in {"running", "failed"}

\* The part of TypeOK that says which variables are Boolean.
FlagsOK ==
    /\ ran \in BOOLEAN /\ prepared \in BOOLEAN /\ torn \in BOOLEAN /\ clean \in BOOLEAN
    /\ working \in BOOLEAN /\ connected \in BOOLEAN

LifecycleInv ==
    TypeOK /\ NothingTornYet /\ DoneStaysDone /\ HooksInReverse /\ HooksAreOwed

USE LifecycleAssumption

\* The next hook, before the ones that have begun, keeps them in reverse order.
LEMMA NextHook ==
    ASSUME NEW s \in Seq(1..Shutdowns), NEW h \in 1..Shutdowns, Len(s) = Shutdowns - h,
           \A i \in DOMAIN s : s[i] = Shutdowns - i + 1
    PROVE  /\ Append(s, h) \in Seq(1..Shutdowns) /\ Append(s, h) # <<>>
           /\ Len(Append(s, h)) = Shutdowns - h + 1
           /\ \A i \in DOMAIN Append(s, h) : Append(s, h)[i] = Shutdowns - i + 1
<1>1. /\ Len(s) \in Nat /\ DOMAIN s = 1..Len(s)
      /\ Append(s, h) \in Seq(1..Shutdowns)
      /\ Len(Append(s, h)) = Len(s) + 1
      /\ \A i \in 1..Len(s) : Append(s, h)[i] = s[i]
      /\ Append(s, h)[Len(s) + 1] = h
  OBVIOUS
<1>2. DOMAIN Append(s, h) = 1..(Len(s) + 1)
  BY <1>1
<1>3. Append(s, h) # <<>>
  BY <1>1
<1>4. ASSUME NEW i \in 1..(Len(s) + 1) PROVE Append(s, h)[i] = Shutdowns - i + 1
  <2>1. CASE i \in 1..Len(s)
    BY <1>1, <2>1
  <2>2. CASE i = Len(s) + 1
    BY <1>1, <2>2
  <2> QED
    BY <1>1, <2>1, <2>2
<1> QED
  BY <1>1, <1>2, <1>3, <1>4

\* The invariant holds at first.
LEMMA InitHolds == Init => LifecycleInv
<1> SUFFICES ASSUME Init PROVE LifecycleInv
  OBVIOUS
<1> USE DEF Init, LifecycleInv, WorkersGone, Begun, PastWorkers, NoQueue
<1>0. FlagsOK
  BY DEF FlagsOK
<1>1. TypeOK
  BY <1>0 DEF TypeOK, FlagsOK
<1>2. NothingTornYet /\ DoneStaysDone
  BY DEF NothingTornYet, DoneStaysDone
<1>3. HooksInReverse /\ HooksAreOwed
  BY DEF HooksInReverse, HooksAreOwed
<1> QED
  BY <1>1, <1>2, <1>3

\* Every step keeps the invariant.
LEMMA Steps == LifecycleInv /\ [Next]_vars => LifecycleInv'
<1> SUFFICES ASSUME LifecycleInv, [Next]_vars PROVE LifecycleInv'
  OBVIOUS
<1> USE DEF LifecycleInv, TypeOK, NothingTornYet, DoneStaysDone, HooksInReverse, HooksAreOwed,
        WorkersGone, Begun, PastWorkers, TearingDown, NoQueue, vars, runnerVars, hookVars, loopVars,
        wireVars
<1>1. CASE Provide
  <2>0. FlagsOK'
    BY <1>1 DEF FlagsOK, Provide
  <2>1. TypeOK'
    BY <1>1, <2>0 DEF FlagsOK, Provide
  <2>2. NothingTornYet'
    BY <1>1 DEF Provide
  <2>3. DoneStaysDone'
    BY <1>1 DEF Provide
  <2>4. HooksInReverse'
    BY <1>1 DEF Provide
  <2>5. HooksAreOwed'
    BY <1>1 DEF Provide
  <2> QED
    BY <2>1, <2>2, <2>3, <2>4, <2>5
<1>2. CASE StartupHook
  <2>0. FlagsOK'
    BY <1>2 DEF FlagsOK, StartupHook
  <2>1. TypeOK'
    <3>1. started' \in 0..Startups
      BY <1>2 DEF StartupHook
    <3>2. pc' \in Begun
      BY <1>2 DEF StartupHook
    <3> QED
      BY <1>2, <2>0, <3>1, <3>2 DEF FlagsOK, StartupHook
  <2>2. NothingTornYet'
    BY <1>2 DEF StartupHook
  <2>3. DoneStaysDone'
    BY <1>2 DEF StartupHook
  <2>4. HooksInReverse'
    BY <1>2 DEF StartupHook
  <2>5. HooksAreOwed'
    BY <1>2 DEF StartupHook
  <2> QED
    BY <2>1, <2>2, <2>3, <2>4, <2>5
<1>3. CASE StartupHookFails
  BY <1>3 DEF StartupHookFails, Fail, TearDown
<1>4. CASE StatesReady
  BY <1>4 DEF StatesReady
<1>5. CASE StatesFail
  BY <1>5 DEF StatesFail, Fail, TearDown
<1>6. CASE ReceiveInit
  BY <1>6 DEF ReceiveInit
<1>7. CASE ConnectFails
  BY <1>7 DEF ConnectFails, Fail, TearDown
<1>8. CASE Acknowledged
  BY <1>8 DEF Acknowledged
<1>9. CASE ConnectionCloses
  BY <1>9 DEF ConnectionCloses
<1>10. CASE ConsumerFails
  BY <1>10 DEF ConsumerFails, Fail, TearDown
<1>11. CASE ConsumerEnds
  BY <1>11 DEF ConsumerEnds
<1>12. CASE ConsumerUnwinds
  BY <1>12 DEF ConsumerUnwinds
<1>13. CASE ConsumerStopped
  BY <1>13 DEF ConsumerStopped, Fail, TearDown
<1>14. CASE ConsumerStuck
  BY <1>14 DEF ConsumerStuck, Fail, TearDown
<1>15. CASE WorkersStopped
  <2>1. hook' \in 0..Shutdowns /\ pc' = "hooks"
    BY <1>15 DEF WorkersStopped
  <2>2. hook' > 0 => Len(hooksRun) = Shutdowns - hook'
    BY <1>15 DEF WorkersStopped
  <2>3. hooksRun' \in Seq(1..Shutdowns) /\ HooksInReverse'
    <3>1. CASE hook' > 0
      <4>1. hooksRun' = Append(hooksRun, hook')
        BY <1>15, <3>1 DEF WorkersStopped
      <4>2. /\ hook' \in 1..Shutdowns /\ Len(hooksRun) = Shutdowns - hook'
            /\ \A i \in DOMAIN hooksRun : hooksRun[i] = Shutdowns - i + 1
        <5>1. hook' \in 1..Shutdowns
          BY <2>1, <3>1
        <5>2. \A i \in DOMAIN hooksRun : hooksRun[i] = Shutdowns - i + 1
          BY DEF LifecycleInv, HooksInReverse
        <5> QED
          BY <2>2, <3>1, <5>1, <5>2
      <4>3. /\ hooksRun' \in Seq(1..Shutdowns)
            /\ Len(hooksRun') = Shutdowns - hook' + 1
            /\ \A i \in DOMAIN hooksRun' : hooksRun'[i] = Shutdowns - i + 1
        BY <4>1, <4>2, NextHook
      <4>4. ~ran'
        BY <1>15 DEF WorkersStopped
      <4> QED
        BY <2>1, <4>3, <4>4
    <3>2. CASE hook' = 0
      BY <1>15, <2>1, <3>2 DEF WorkersStopped
    <3>3. hook' > 0 \/ hook' = 0
      BY <2>1
    <3> QED
      BY <3>1, <3>2, <3>3, Zenon
  <2>4. TypeOK'
    <3>1. FlagsOK'
      BY <1>15 DEF FlagsOK, WorkersStopped
    <3>2. UNCHANGED <<level, error, runs, cancels, started, workers, queue, processor, connection,
                      consumer>>
      BY <1>15 DEF WorkersStopped
    <3>3. pc' = "hooks" /\ hook' \in 0..Shutdowns /\ hooksRun' \in Seq(1..Shutdowns)
      BY <2>1, <2>3
    <3> QED
      BY <3>1, <3>2, <3>3 DEF FlagsOK
  <2>5. NothingTornYet' /\ DoneStaysDone'
    BY <1>15 DEF WorkersStopped
  <2>6. HooksAreOwed'
    BY <1>15, <2>1 DEF WorkersStopped
  <2> QED
    BY <2>3, <2>4, <2>5, <2>6
<1>16. ASSUME NEW w \in Workers, WorkerErrorRaised(w) PROVE LifecycleInv'
  BY <1>16 DEF WorkerErrorRaised
<1>17. CASE ShutdownHook
  <2>1. hook' \in 0..Shutdowns /\ pc' = "hooks" /\ hooksRun # <<>> /\ ~ran'
    BY <1>17 DEF ShutdownHook
  <2>2. hook' > 0 => Len(hooksRun) = Shutdowns - hook'
    BY <1>17 DEF ShutdownHook
  <2>3. hooksRun' \in Seq(1..Shutdowns) /\ HooksInReverse'
    <3>1. CASE hook' > 0
      <4>1. hooksRun' = Append(hooksRun, hook')
        BY <1>17, <3>1 DEF ShutdownHook
      <4>2. /\ hook' \in 1..Shutdowns /\ Len(hooksRun) = Shutdowns - hook'
            /\ \A i \in DOMAIN hooksRun : hooksRun[i] = Shutdowns - i + 1
        <5>1. hook' \in 1..Shutdowns
          BY <2>1, <3>1
        <5>2. \A i \in DOMAIN hooksRun : hooksRun[i] = Shutdowns - i + 1
          BY DEF LifecycleInv, HooksInReverse
        <5> QED
          BY <2>2, <3>1, <5>1, <5>2
      <4>3. /\ hooksRun' \in Seq(1..Shutdowns)
            /\ Len(hooksRun') = Shutdowns - hook' + 1
            /\ \A i \in DOMAIN hooksRun' : hooksRun'[i] = Shutdowns - i + 1
        BY <4>1, <4>2, NextHook
      <4>4. ~ran'
        BY <1>17 DEF ShutdownHook
      <4> QED
        BY <2>1, <4>3, <4>4
    <3>2. CASE hook' = 0
      BY <1>17, <2>1, <3>2 DEF ShutdownHook
    <3>3. hook' > 0 \/ hook' = 0
      BY <2>1
    <3> QED
      BY <3>1, <3>2, <3>3, Zenon
  <2>4. TypeOK'
    BY <1>17, <2>1, <2>3 DEF ShutdownHook
  <2>5. NothingTornYet' /\ DoneStaysDone'
    BY <1>17 DEF ShutdownHook
  <2>6. HooksAreOwed'
    BY <1>17, <2>1 DEF ShutdownHook
  <2> QED
    BY <2>3, <2>4, <2>5, <2>6
<1>18. CASE HooksDone
  BY <1>18 DEF HooksDone
<1>19. CASE Joined
  BY <1>19 DEF Joined
<1>20. CASE ProcessorStopped
  BY <1>20 DEF ProcessorStopped
<1>21. CASE ProcessorErrorRaised
  BY <1>21 DEF ProcessorErrorRaised, Raise, Onwards, TearDown
<1>22. CASE Disconnected
  <2>0. FlagsOK'
    BY <1>22 DEF FlagsOK, Disconnected, Onwards, TearDown
  <2>1. TypeOK'
    BY <1>22, <2>0 DEF FlagsOK, Disconnected, Onwards, TearDown
  <2>2. NothingTornYet'
    BY <1>22 DEF Disconnected, Onwards, TearDown
  <2>3. DoneStaysDone'
    BY <1>22 DEF Disconnected, Onwards, TearDown
  <2>4. HooksInReverse'
    BY <1>22 DEF Disconnected, Onwards, TearDown
  <2>5. HooksAreOwed'
    BY <1>22 DEF Disconnected, Onwards, TearDown
  <2> QED
    BY <2>1, <2>2, <2>3, <2>4, <2>5
<1>23. CASE Exit
  BY <1>23 DEF Exit, TearDown
<1>24. ASSUME NEW w \in Workers, WorkerEnds(w) PROVE LifecycleInv'
  BY <1>24 DEF WorkerEnds
<1>25. ASSUME NEW w \in Workers, WorkerRaises(w) PROVE LifecycleInv'
  BY <1>25 DEF WorkerRaises
<1>26. CASE Assigned
  BY <1>26 DEF Assigned
<1>27. CASE AssignmentEnds
  <2>0. FlagsOK'
    BY <1>27 DEF FlagsOK, AssignmentEnds
  <2>1. TypeOK'
    BY <1>27, <2>0 DEF FlagsOK, AssignmentEnds
  <2>2. NothingTornYet'
    BY <1>27 DEF AssignmentEnds
  <2>3. DoneStaysDone'
    BY <1>27 DEF AssignmentEnds
  <2>4. HooksInReverse'
    BY <1>27 DEF AssignmentEnds
  <2>5. HooksAreOwed'
    BY <1>27 DEF AssignmentEnds
  <2> QED
    BY <2>1, <2>2, <2>3, <2>4, <2>5
<1>28. CASE Publish
  BY <1>28 DEF Publish
<1>29. CASE TakePatch
  BY <1>29 DEF TakePatch
<1>30. CASE PatchFails
  BY <1>30 DEF PatchFails
<1>31. CASE Cancel
  <2>1. TypeOK'
    BY <1>31 DEF Cancel, TearDown, Raise, Onwards
  <2>2. NothingTornYet'
    BY <1>31 DEF Cancel, TearDown, Raise, Onwards
  <2>3. DoneStaysDone'
    BY <1>31 DEF Cancel, TearDown, Raise, Onwards
  <2>4. HooksInReverse'
    BY <1>31 DEF Cancel, TearDown, Raise, Onwards
  <2>5. HooksAreOwed'
    BY <1>31 DEF Cancel, TearDown, Raise, Onwards
  <2> QED
    BY <2>1, <2>2, <2>3, <2>4, <2>5
<1>32. CASE UNCHANGED vars
  BY <1>32
<1> QED
  BY <1>1, <1>2, <1>3, <1>4, <1>5, <1>6, <1>7, <1>8, <1>9, <1>10, <1>11, <1>12, <1>13, <1>14,
      <1>15, <1>16, <1>17, <1>18, <1>19, <1>20, <1>21, <1>22, <1>23, <1>24, <1>25, <1>26, <1>27,
      <1>28, <1>29, <1>30, <1>31, <1>32 DEF Next, Start, Consume, TearDownStep, Beside

-----------------------------------------------------------------------------
\* The invariant holds in every state of every run.
THEOREM LifecycleInvariant == Spec => []LifecycleInv
  BY InitHolds, Steps, PTL DEF Spec

\* Whatever fails and whoever is cancelled, the variables keep their types: the
\* queue of patches is none or within its bound, a hook runs or none does.
THEOREM LifecycleTypeOK == Spec => []TypeOK
<1>1. LifecycleInv => TypeOK
  BY DEF LifecycleInv
<1> QED
  BY <1>1, LifecycleInvariant, PTL

\* An agent that has been left with a completed teardown has nothing running.
THEOREM LeftIsDown == Spec => []LeftMeansDown
<1>1. LifecycleInv => LeftMeansDown
  BY DEF LifecycleInv, DoneStaysDone, WorkersGone, LeftMeansDown
<1> QED
  BY <1>1, LifecycleInvariant, PTL

\* Shutdown hooks run once, in reverse, without workers and with the patch loop.
THEOREM HooksUnwindInReverse == Spec => []HooksUnwind
<1>1. LifecycleInv => HooksUnwind
  BY DEF LifecycleInv, TypeOK, DoneStaysDone, WorkersGone, HooksInReverse, HooksAreOwed,
         HooksUnwind, PastWorkers, NoQueue
<1> QED
  BY <1>1, LifecycleInvariant, PTL

=============================================================================
