-------------------------- MODULE TaskLocksProofs --------------------------
(***************************************************************************)
(* Proofs about TaskLocks for any tasks, any locks and any needs: mutual   *)
(* exclusion, the order of waiting, the release of every lock, what the    *)
(* clients are shown, and what a capture keeps out.                        *)
(***************************************************************************)
EXTENDS TaskLocks, SequenceLemmas

-----------------------------------------------------------------------------
(* The inductive invariant. *)

\* A task waits once for a lock.
WaitsOnce == \A l \in Locks : Unique(waiters[l])

\* What a task has comes before what it lacks, until it runs; what it waits
\* for or announces is the first it lacks, and what it hands back it has.
InOrder ==
    \A t \in Tasks :
        /\ pc[t] \in {"idle", "asking", "queued", "notifying"} =>
              \A a \in acquired[t], m \in Missing(t) : a < m
        /\ pc[t] \in {"queued", "notifying"} =>
              at[t] \in Missing(t) /\ \A m \in Missing(t) : at[t] <= m
        /\ pc[t] = "unnotifying" => at[t] \in acquired[t]
        /\ pc[t] \in {"notifying", "unnotifying"} => at[t] \in Keys

\* A task holds what it acquired and the key it announces, nothing else.
HoldsWhatItAcquired ==
    \A t \in Tasks, l \in Locks :
        Holds(t, l) <=> l \in acquired[t] \/ (pc[t] = "notifying" /\ at[t] = l)

\* It acquires what it needs, all of it before it runs, and keeps nothing.
AcquiresWhatItNeeds ==
    \A t \in Tasks :
        /\ acquired[t] \subseteq Needs[t]
        /\ pc[t] = "running" => Missing(t) = {}
        /\ pc[t] = "idle" => acquired[t] = {}
        /\ pc[t] = "done" /\ hit[t] # "unnotifying" => acquired[t] = {}

\* Until it lets go, the clients and locking_task name it on its keys.
AcquiredIsShown ==
    \A t \in Tasks :
        /\ pc[t] \in {"asking", "queued", "notifying", "running"} =>
              \A k \in acquired[t] \cap Keys : view[k] = t /\ lockingTask[k] = t
        /\ pc[t] = "notifying" => lockingTask[at[t]] = t

\* At most one task captures, and captureActive says so.
OneCapture ==
    \A t \in Capturing : pc[t] = "running" =>
        captureActive /\ \A u \in Capturing : pc[u] = "running" => t = u

IInv ==
    /\ TypeOK
    /\ WaitsOnce
    /\ InOrder
    /\ HoldsWhatItAcquired
    /\ AcquiresWhatItNeeds
    /\ AcquiredIsShown
    /\ OneCapture

-----------------------------------------------------------------------------
(* The invariant is inductive. *)

\* Whatever of an announcement has reached the clients, they see a task or none.
LEMMA MaybeShownType ==
    ASSUME TypeOK, NEW t \in Tasks, at[t] \in Locks,
           NEW holder \in Tasks \cup {NoTask}, MaybeShown(t, holder)
    PROVE  view' \in [Locks -> Tasks \cup {NoTask}]
<1>1. PICK v \in {view[at[t]], holder} : view' = [view EXCEPT ![at[t]] = v]
  BY DEF MaybeShown
<1>2. v \in Tasks \cup {NoTask} /\ view \in [Locks -> Tasks \cup {NoTask}]
  BY DEF TypeOK
<1> QED
  BY <1>1, <1>2

\* An assignment that enters on_assign has acquired nothing.
LEMMA BeginIInv ==
    ASSUME IInv, NEW t \in Tasks, Begin(t)
    PROVE  IInv'
<1> USE LocksAssumption DEF Begin, Goto, PC, lockVars, shownVars
<1>1. TypeOK'
  BY DEF IInv, TypeOK
<1>2. WaitsOnce'
  BY DEF IInv, TypeOK, WaitsOnce
<1>3. InOrder'
  BY DEF IInv, TypeOK, InOrder, AcquiresWhatItNeeds, IsNext, Missing, Keys
<1>4. HoldsWhatItAcquired'
  BY DEF IInv, TypeOK, InOrder, HoldsWhatItAcquired, Holds, Keys, Missing
<1>5. AcquiresWhatItNeeds'
  BY DEF IInv, TypeOK, InOrder, AcquiresWhatItNeeds, IsNext, Missing
<1>6. AcquiredIsShown'
  BY DEF IInv, TypeOK, AcquiredIsShown, AcquiresWhatItNeeds
<1>7. OneCapture'
  BY DEF IInv, TypeOK, OneCapture
<1> QED
  BY <1>1, <1>2, <1>3, <1>4, <1>5, <1>6, <1>7 DEF IInv

\* A task that gets the asyncio.Lock of the first lock it lacks keeps the
\* invariant, whether it had to wait for it or not.
LEMMA TookIInv ==
    ASSUME IInv, NEW t \in Tasks, NEW l \in Locks, Took(t, l),
           pc[t] \in {"asking", "queued"}, owner[l] = NoTask,
           l \in Missing(t), \A m \in Missing(t) : l <= m,
           UNCHANGED <<captureActive, hit>>,
           waiters' \in [Locks -> Seq(Tasks)],
           \A m \in Locks : /\ Unique(waiters'[m])
                            /\ Range(waiters'[m]) \subseteq Range(waiters[m])
                            /\ t \notin Range(waiters'[m])
    PROVE  IInv'
<1> USE LocksAssumption
<1>1. owner' = [owner EXCEPT ![l] = t] /\ at' = [at EXCEPT ![t] = l]
  BY DEF Took
<1>2. l \in Needs[t] /\ l \notin acquired[t] /\ Needs[t] \subseteq Locks
  BY DEF Missing
<1>3. WaitsOnce'
  BY DEF WaitsOnce
<1>4. \A u \in Tasks : l \notin acquired[u] /\ ~(pc[u] = "notifying" /\ at[u] = l)
  BY DEF IInv, HoldsWhatItAcquired, Holds
<1>5. CASE l \in SerialLocks
  <2>1. /\ acquired' = [acquired EXCEPT ![t] = @ \cup {l}]
        /\ pc' = [pc EXCEPT ![t] = "asking"]
        /\ lockingTask' = lockingTask /\ view' = view
    BY <1>5, Zenon DEF Took, Goto, shownVars
  <2>2. TypeOK'
    <3>1. /\ pc' \in [Tasks -> PC] /\ at' \in [Tasks -> Locks \cup {0}]
          /\ owner' \in [Locks -> Tasks \cup {NoTask}]
      BY <1>1, <2>1 DEF IInv, TypeOK, PC
    <3>2. /\ acquired' \in [Tasks -> SUBSET Locks]
          /\ lockingTask' \in [Locks -> Tasks \cup {NoTask}]
          /\ view' \in [Locks -> Tasks \cup {NoTask}]
      BY <2>1 DEF IInv, TypeOK
    <3>3. \A m \in Locks, u \in Tasks :
              u \in Range(waiters'[m]) => pc'[u] = "queued" /\ at'[u] = m
      BY <1>1, <2>1 DEF IInv, TypeOK
    <3>4. captureActive' \in BOOLEAN /\ hit' \in [Tasks -> PC \cup {"none"}]
      BY DEF IInv, TypeOK
    <3> QED
      BY <3>1, <3>2, <3>3, <3>4, Zenon DEF TypeOK
  <2>3. InOrder'
    BY <1>1, <1>2, <1>5, <2>1 DEF IInv, TypeOK, InOrder, Missing, Keys
  <2>4. HoldsWhatItAcquired'
    BY <1>1, <1>2, <2>1 DEF IInv, TypeOK, HoldsWhatItAcquired, Holds
  <2>5. AcquiresWhatItNeeds'
    BY <1>1, <1>2, <2>1 DEF IInv, TypeOK, AcquiresWhatItNeeds, Missing
  <2>6. AcquiredIsShown'
    BY <1>1, <1>2, <1>4, <1>5, <2>1 DEF IInv, TypeOK, AcquiredIsShown, Keys
  <2>7. OneCapture'
    BY <2>1 DEF IInv, TypeOK, OneCapture
  <2> QED
    BY <1>3, <2>2, <2>3, <2>4, <2>5, <2>6, <2>7 DEF IInv
<1>6. CASE l \notin SerialLocks
  <2>1. /\ lockingTask' = [lockingTask EXCEPT ![l] = t]
        /\ pc' = [pc EXCEPT ![t] = "notifying"]
        /\ acquired' = acquired /\ view' = view
    BY <1>6, Zenon DEF Took, Goto, shownVars
  <2>2. TypeOK'
    <3>1. /\ pc' \in [Tasks -> PC] /\ at' \in [Tasks -> Locks \cup {0}]
          /\ owner' \in [Locks -> Tasks \cup {NoTask}]
      BY <1>1, <2>1 DEF IInv, TypeOK, PC
    <3>2. /\ acquired' \in [Tasks -> SUBSET Locks]
          /\ lockingTask' \in [Locks -> Tasks \cup {NoTask}]
          /\ view' \in [Locks -> Tasks \cup {NoTask}]
      BY <2>1 DEF IInv, TypeOK
    <3>3. \A m \in Locks, u \in Tasks :
              u \in Range(waiters'[m]) => pc'[u] = "queued" /\ at'[u] = m
      BY <1>1, <2>1 DEF IInv, TypeOK
    <3>4. captureActive' \in BOOLEAN /\ hit' \in [Tasks -> PC \cup {"none"}]
      BY DEF IInv, TypeOK
    <3> QED
      BY <3>1, <3>2, <3>3, <3>4, Zenon DEF TypeOK
  <2>3. InOrder'
    BY <1>1, <1>2, <1>6, <2>1 DEF IInv, TypeOK, InOrder, Missing, Keys
  <2>4. HoldsWhatItAcquired'
    BY <1>1, <1>2, <2>1 DEF IInv, TypeOK, HoldsWhatItAcquired, Holds
  <2>5. AcquiresWhatItNeeds'
    BY <1>1, <1>2, <2>1 DEF IInv, TypeOK, AcquiresWhatItNeeds, Missing
  <2>6. AcquiredIsShown'
    BY <1>1, <1>2, <1>4, <1>6, <2>1 DEF IInv, TypeOK, AcquiredIsShown, Keys
  <2>7. OneCapture'
    BY <2>1 DEF IInv, TypeOK, OneCapture
  <2> QED
    BY <1>3, <2>2, <2>3, <2>4, <2>5, <2>6, <2>7 DEF IInv
<1> QED
  BY <1>5, <1>6

\* lock.acquire(), at once or behind the other waiters, keeps the invariant.
LEMMA AskIInv ==
    ASSUME IInv, NEW t \in Tasks, NEW l \in Locks, Ask(t, l)
    PROVE  IInv'
<1>1. l \in Missing(t) /\ (\A m \in Missing(t) : l <= m) /\ pc[t] = "asking"
  BY DEF Ask, IsNext
<1>2. \A m \in Locks : t \notin Range(waiters[m])
  BY <1>1 DEF IInv, TypeOK
<1>3. CASE owner[l] = NoTask /\ waiters[l] = <<>>
  <2>1. Took(t, l) /\ waiters' = waiters /\ UNCHANGED <<captureActive, hit>>
    BY <1>3 DEF Ask
  <2>2. waiters' \in [Locks -> Seq(Tasks)]
    BY <2>1 DEF IInv, TypeOK
  <2>3. \A m \in Locks : /\ Unique(waiters'[m])
                         /\ Range(waiters'[m]) \subseteq Range(waiters[m])
                         /\ t \notin Range(waiters'[m])
    BY <2>1, <1>2 DEF IInv, WaitsOnce
  <2> QED
    BY <1>1, <1>3, <2>1, <2>2, <2>3, TookIInv
<1>4. CASE ~(owner[l] = NoTask /\ waiters[l] = <<>>)
  <2> DEFINE s == Append(waiters[l], t)
  <2>1. /\ waiters' = [waiters EXCEPT ![l] = s]
        /\ at' = [at EXCEPT ![t] = l]
        /\ pc' = [pc EXCEPT ![t] = "queued"]
        /\ UNCHANGED <<owner, acquired, lockingTask, view, captureActive, hit>>
    BY <1>4, Zenon DEF Ask, Goto, shownVars
  <2>2. waiters \in [Locks -> Seq(Tasks)] /\ waiters[l] \in Seq(Tasks)
    BY DEF IInv, TypeOK
  <2>3. s \in Seq(Tasks) /\ Unique(s) /\ Range(s) = Range(waiters[l]) \cup {t}
    BY <1>2, <2>2, RangeAppend, AppendUnique DEF IInv, WaitsOnce
  <2> HIDE DEF s
  <2>4. TypeOK'
    <3>1. /\ pc' \in [Tasks -> PC] /\ at' \in [Tasks -> Locks \cup {0}]
          /\ owner' \in [Locks -> Tasks \cup {NoTask}]
          /\ acquired' \in [Tasks -> SUBSET Locks]
          /\ lockingTask' \in [Locks -> Tasks \cup {NoTask}]
          /\ view' \in [Locks -> Tasks \cup {NoTask}]
      BY <2>1 DEF IInv, TypeOK, PC
    <3>2. waiters' \in [Locks -> Seq(Tasks)]
      BY <2>1, <2>2, <2>3
    <3>3. ASSUME NEW m \in Locks, NEW u \in Tasks, u \in Range(waiters'[m])
          PROVE  pc'[u] = "queued" /\ at'[u] = m
      <4>1. CASE m = l
        <5>1. u \in Range(waiters[l]) \cup {t}
          BY <2>1, <2>2, <2>3, <3>3, <4>1
        <5> QED
          BY <1>2, <2>1, <4>1, <5>1 DEF IInv, TypeOK
      <4>2. CASE m # l
        <5>1. u \in Range(waiters[m]) /\ u # t
          BY <1>2, <2>1, <2>2, <3>3, <4>2
        <5> QED
          BY <2>1, <5>1 DEF IInv, TypeOK
      <4> QED
        BY <4>1, <4>2
    <3>4. captureActive' \in BOOLEAN /\ hit' \in [Tasks -> PC \cup {"none"}]
      BY <2>1 DEF IInv, TypeOK
    <3> QED
      BY <3>1, <3>2, <3>3, <3>4, Zenon DEF TypeOK
  <2>5. WaitsOnce'
    BY <2>1, <2>2, <2>3 DEF IInv, WaitsOnce
  <2>6. InOrder'
    BY <1>1, <2>1 DEF IInv, TypeOK, InOrder, Missing, Keys
  <2>7. HoldsWhatItAcquired'
    BY <1>1, <2>1 DEF IInv, TypeOK, HoldsWhatItAcquired, Holds
  <2>8. AcquiresWhatItNeeds'
    BY <2>1 DEF IInv, TypeOK, AcquiresWhatItNeeds, Missing
  <2>9. AcquiredIsShown'
    BY <1>1, <2>1 DEF IInv, TypeOK, AcquiredIsShown, Keys
  <2>10. OneCapture'
    BY <2>1 DEF IInv, TypeOK, OneCapture
  <2> QED
    BY <2>4, <2>5, <2>6, <2>7, <2>8, <2>9, <2>10 DEF IInv
<1> QED
  BY <1>3, <1>4

\* So does getting the lock after having waited for it.
LEMMA GrantedIInv ==
    ASSUME IInv, NEW t \in Tasks, Granted(t)
    PROVE  IInv'
<1> DEFINE l == at[t]
           s == Tail(waiters[l])
<1>1. /\ pc[t] = "queued" /\ l \in Locks /\ l \in Missing(t)
      /\ \A m \in Missing(t) : l <= m
  BY LocksAssumption DEF Granted, IInv, TypeOK, InOrder, Missing
<1>2. waiters \in [Locks -> Seq(Tasks)] /\ waiters[l] \in Seq(Tasks)
  BY <1>1 DEF IInv, TypeOK
<1>3. /\ owner[l] = NoTask /\ waiters[l] # <<>> /\ Head(waiters[l]) = t
      /\ waiters' = [waiters EXCEPT ![l] = s]
      /\ Took(t, l) /\ UNCHANGED <<captureActive, hit>>
  BY DEF Granted
<1>4. s \in Seq(Tasks) /\ Unique(s) /\ Range(s) \subseteq Range(waiters[l]) \ {t}
  BY <1>1, <1>2, <1>3, RangeHeadTail, TailUnique DEF IInv, WaitsOnce
<1> HIDE DEF s, l
<1>5. \A m \in Locks : m # l => t \notin Range(waiters[m])
  BY DEF IInv, TypeOK, l
<1>6. waiters' \in [Locks -> Seq(Tasks)]
  BY <1>1, <1>2, <1>3, <1>4
<1>7. \A m \in Locks : /\ Unique(waiters'[m])
                       /\ Range(waiters'[m]) \subseteq Range(waiters[m])
                       /\ t \notin Range(waiters'[m])
  BY <1>1, <1>2, <1>3, <1>4, <1>5 DEF IInv, WaitsOnce
<1> QED
  BY <1>1, <1>3, <1>6, <1>7, TookIInv

\* alock has returned: what was announced is acquired and shown.
LEMMA NotifiedIInv ==
    ASSUME IInv, NEW t \in Tasks, Notified(t)
    PROVE  IInv'
<1> USE LocksAssumption DEF Notified, Goto, PC, lockVars, shownVars
<1>1. TypeOK'
  <2>1. /\ pc' \in [Tasks -> PC] /\ at' \in [Tasks -> Locks \cup {0}]
        /\ owner' \in [Locks -> Tasks \cup {NoTask}]
        /\ acquired' \in [Tasks -> SUBSET Locks]
        /\ lockingTask' \in [Locks -> Tasks \cup {NoTask}]
        /\ view' \in [Locks -> Tasks \cup {NoTask}]
    BY DEF IInv, TypeOK, InOrder, Keys
  <2>2. /\ waiters' \in [Locks -> Seq(Tasks)]
        /\ \A m \in Locks, u \in Tasks :
              u \in Range(waiters'[m]) => pc'[u] = "queued" /\ at'[u] = m
    BY DEF IInv, TypeOK
  <2>3. captureActive' \in BOOLEAN /\ hit' \in [Tasks -> PC \cup {"none"}]
    BY DEF IInv, TypeOK
  <2> QED
    BY <2>1, <2>2, <2>3, Zenon DEF TypeOK
<1>2. WaitsOnce'
  BY DEF IInv, TypeOK, WaitsOnce
<1>3. InOrder'
  BY DEF IInv, TypeOK, InOrder, AcquiresWhatItNeeds, IsNext, Missing, Keys
<1>4. HoldsWhatItAcquired'
  BY DEF IInv, TypeOK, InOrder, HoldsWhatItAcquired, Holds, Keys, Missing
<1>5. AcquiresWhatItNeeds'
  BY DEF IInv, TypeOK, InOrder, AcquiresWhatItNeeds, IsNext, Missing
<1>6. AcquiredIsShown'
  BY DEF IInv, TypeOK, InOrder, HoldsWhatItAcquired, Holds, AcquiredIsShown, Keys
<1>7. OneCapture'
  BY DEF IInv, TypeOK, OneCapture
<1> QED
  BY <1>1, <1>2, <1>3, <1>4, <1>5, <1>6, <1>7 DEF IInv

\* alock has failed: what was announced is free again.
LEMMA NotifyFailsIInv ==
    ASSUME IInv, NEW t \in Tasks, NotifyFails(t)
    PROVE  IInv'
<1> USE LocksAssumption DEF NotifyFails, MaybeShown, Goto, PC, lockVars, shownVars
<1>1. TypeOK'
  <2>1. /\ pc' \in [Tasks -> PC] /\ at' \in [Tasks -> Locks \cup {0}]
        /\ owner' \in [Locks -> Tasks \cup {NoTask}]
        /\ acquired' \in [Tasks -> SUBSET Locks]
        /\ lockingTask' \in [Locks -> Tasks \cup {NoTask}]
    BY DEF IInv, TypeOK, InOrder, Keys
  <2>4. view' \in [Locks -> Tasks \cup {NoTask}]
    <3>1. at[t] \in Locks /\ MaybeShown(t, t) /\ TypeOK
      BY DEF IInv, InOrder, Keys
    <3> QED
      BY <3>1, MaybeShownType
  <2>2. /\ waiters' \in [Locks -> Seq(Tasks)]
        /\ \A m \in Locks, u \in Tasks :
              u \in Range(waiters'[m]) => pc'[u] = "queued" /\ at'[u] = m
    BY DEF IInv, TypeOK
  <2>3. captureActive' \in BOOLEAN /\ hit' \in [Tasks -> PC \cup {"none"}]
    BY DEF IInv, TypeOK
  <2> QED
    BY <2>1, <2>2, <2>3, <2>4, Zenon DEF TypeOK
<1>2. WaitsOnce'
  BY DEF IInv, TypeOK, WaitsOnce
<1>3. InOrder'
  BY DEF IInv, TypeOK, InOrder, AcquiresWhatItNeeds, IsNext, Missing, Keys
<1>4. HoldsWhatItAcquired'
  BY DEF IInv, TypeOK, InOrder, HoldsWhatItAcquired, Holds, Keys, Missing
<1>5. AcquiresWhatItNeeds'
  BY DEF IInv, TypeOK, InOrder, AcquiresWhatItNeeds, IsNext, Missing
<1>6. AcquiredIsShown'
  BY DEF IInv, TypeOK, InOrder, HoldsWhatItAcquired, Holds, AcquiredIsShown, Keys
<1>7. OneCapture'
  BY DEF IInv, TypeOK, OneCapture
<1> QED
  BY <1>1, <1>2, <1>3, <1>4, <1>5, <1>6, <1>7 DEF IInv

\* A task enters its function with all it needs, and no capture runs.
LEMMA EnterIInv ==
    ASSUME IInv, NEW t \in Tasks, Enter(t)
    PROVE  IInv'
<1> USE LocksAssumption DEF Enter, Goto, PC, lockVars, shownVars
<1>1. TypeOK'
  BY DEF IInv, TypeOK
<1>2. WaitsOnce'
  BY DEF IInv, TypeOK, WaitsOnce
<1>3. InOrder'
  BY DEF IInv, TypeOK, InOrder, AcquiresWhatItNeeds, IsNext, Missing, Keys
<1>4. HoldsWhatItAcquired'
  BY DEF IInv, TypeOK, InOrder, HoldsWhatItAcquired, Holds, Keys, Missing
<1>5. AcquiresWhatItNeeds'
  BY DEF IInv, TypeOK, InOrder, AcquiresWhatItNeeds, IsNext, Missing
<1>6. AcquiredIsShown'
  BY DEF IInv, TypeOK, InOrder, HoldsWhatItAcquired, Holds, AcquiredIsShown, Keys
<1>7. OneCapture'
  BY DEF IInv, TypeOK, OneCapture
<1> QED
  BY <1>1, <1>2, <1>3, <1>4, <1>5, <1>6, <1>7 DEF IInv

\* A task that leaves its function ends the capture it began.
LEMMA FinishIInv ==
    ASSUME IInv, NEW t \in Tasks, Finish(t)
    PROVE  IInv'
<1> USE LocksAssumption DEF Finish, Goto, PC, lockVars, shownVars
<1>1. TypeOK'
  BY DEF IInv, TypeOK
<1>2. WaitsOnce'
  BY DEF IInv, TypeOK, WaitsOnce
<1>3. InOrder'
  BY DEF IInv, TypeOK, InOrder, AcquiresWhatItNeeds, IsNext, Missing, Keys
<1>4. HoldsWhatItAcquired'
  BY DEF IInv, TypeOK, InOrder, HoldsWhatItAcquired, Holds, Keys, Missing
<1>5. AcquiresWhatItNeeds'
  BY DEF IInv, TypeOK, InOrder, AcquiresWhatItNeeds, IsNext, Missing
<1>6. AcquiredIsShown'
  BY DEF IInv, TypeOK, InOrder, HoldsWhatItAcquired, Holds, AcquiredIsShown, Keys
<1>7. OneCapture'
  BY DEF IInv, TypeOK, OneCapture
<1> QED
  BY <1>1, <1>2, <1>3, <1>4, <1>5, <1>6, <1>7 DEF IInv

\* Handing a lock back: a serial lock is free, a key is still held.
LEMMA ReleaseIInv ==
    ASSUME IInv, NEW t \in Tasks, NEW l \in Locks, Release(t, l)
    PROVE  IInv'
<1> USE LocksAssumption
<1>1. pc[t] = "releasing" /\ l \in acquired[t]
  BY DEF Release, IsLast
<1>2. \A u \in Tasks : u # t => l \notin acquired[u] /\ ~(pc[u] = "notifying" /\ at[u] = l)
  BY <1>1 DEF IInv, HoldsWhatItAcquired, Holds
<1>3. CASE l \in SerialLocks
  <2>1. /\ owner' = [owner EXCEPT ![l] = NoTask]
        /\ acquired' = [acquired EXCEPT ![t] = @ \ {l}]
        /\ pc' = pc /\ at' = at /\ lockingTask' = lockingTask /\ view' = view
    BY <1>3, Zenon DEF Release, Goto, shownVars
  <2>2. UNCHANGED <<waiters, captureActive, hit>>
    BY DEF Release
  <2>3. TypeOK'
    <3>1. /\ pc' \in [Tasks -> PC] /\ at' \in [Tasks -> Locks \cup {0}]
          /\ owner' \in [Locks -> Tasks \cup {NoTask}]
          /\ acquired' \in [Tasks -> SUBSET Locks]
          /\ lockingTask' \in [Locks -> Tasks \cup {NoTask}]
          /\ view' \in [Locks -> Tasks \cup {NoTask}]
      BY <2>1 DEF IInv, TypeOK, PC
    <3>2. /\ waiters' \in [Locks -> Seq(Tasks)]
          /\ \A m \in Locks, u \in Tasks :
                u \in Range(waiters'[m]) => pc'[u] = "queued" /\ at'[u] = m
      BY <1>1, <2>1, <2>2 DEF IInv, TypeOK
    <3>3. captureActive' \in BOOLEAN /\ hit' \in [Tasks -> PC \cup {"none"}]
      BY <2>2 DEF IInv, TypeOK
    <3> QED
      BY <3>1, <3>2, <3>3, Zenon DEF TypeOK
  <2>4. WaitsOnce'
    BY <2>2 DEF IInv, WaitsOnce
  <2>5. InOrder'
    BY <1>1, <1>3, <2>1 DEF IInv, TypeOK, InOrder, Missing, Keys
  <2>6. HoldsWhatItAcquired'
    BY <1>1, <1>2, <2>1 DEF IInv, TypeOK, HoldsWhatItAcquired, Holds
  <2>7. AcquiresWhatItNeeds'
    BY <1>1, <2>1, <2>2 DEF IInv, TypeOK, AcquiresWhatItNeeds, Missing
  <2>8. AcquiredIsShown'
    BY <1>1, <1>2, <2>1 DEF IInv, TypeOK, AcquiredIsShown, Keys
  <2>9. OneCapture'
    BY <1>1, <2>1, <2>2 DEF IInv, TypeOK, OneCapture
  <2> QED
    BY <2>3, <2>4, <2>5, <2>6, <2>7, <2>8, <2>9 DEF IInv
<1>4. CASE l \notin SerialLocks
  <2>1. /\ lockingTask' = [lockingTask EXCEPT ![l] = NoTask]
        /\ at' = [at EXCEPT ![t] = l]
        /\ pc' = [pc EXCEPT ![t] = "unnotifying"]
        /\ owner' = owner /\ acquired' = acquired /\ view' = view
    BY <1>4, Zenon DEF Release, Goto, shownVars
  <2>2. UNCHANGED <<waiters, captureActive, hit>>
    BY DEF Release
  <2>3. TypeOK'
    <3>1. /\ pc' \in [Tasks -> PC] /\ at' \in [Tasks -> Locks \cup {0}]
          /\ owner' \in [Locks -> Tasks \cup {NoTask}]
          /\ acquired' \in [Tasks -> SUBSET Locks]
          /\ lockingTask' \in [Locks -> Tasks \cup {NoTask}]
          /\ view' \in [Locks -> Tasks \cup {NoTask}]
      BY <2>1 DEF IInv, TypeOK, PC
    <3>2. /\ waiters' \in [Locks -> Seq(Tasks)]
          /\ \A m \in Locks, u \in Tasks :
                u \in Range(waiters'[m]) => pc'[u] = "queued" /\ at'[u] = m
      BY <1>1, <2>1, <2>2 DEF IInv, TypeOK
    <3>3. captureActive' \in BOOLEAN /\ hit' \in [Tasks -> PC \cup {"none"}]
      BY <2>2 DEF IInv, TypeOK
    <3> QED
      BY <3>1, <3>2, <3>3, Zenon DEF TypeOK
  <2>4. WaitsOnce'
    BY <2>2 DEF IInv, WaitsOnce
  <2>5. InOrder'
    BY <1>1, <1>4, <2>1 DEF IInv, TypeOK, InOrder, Missing, Keys
  <2>6. HoldsWhatItAcquired'
    BY <1>1, <1>2, <2>1 DEF IInv, TypeOK, HoldsWhatItAcquired, Holds
  <2>7. AcquiresWhatItNeeds'
    BY <1>1, <2>1, <2>2 DEF IInv, TypeOK, AcquiresWhatItNeeds, Missing
  <2>8. AcquiredIsShown'
    BY <1>1, <1>2, <2>1 DEF IInv, TypeOK, AcquiredIsShown, Keys
  <2>9. OneCapture'
    BY <1>1, <2>1, <2>2 DEF IInv, TypeOK, OneCapture
  <2> QED
    BY <2>3, <2>4, <2>5, <2>6, <2>7, <2>8, <2>9 DEF IInv
<1> QED
  BY <1>3, <1>4

\* aunlock has returned or failed: the key is free.
LEMMA UnnotifiedIInv ==
    ASSUME IInv, NEW t \in Tasks, Unnotified(t)
    PROVE  IInv'
<1> USE LocksAssumption DEF Unnotified, MaybeShown, Goto, PC, lockVars, shownVars
<1>1. TypeOK'
  <2>1. /\ pc' \in [Tasks -> PC] /\ at' \in [Tasks -> Locks \cup {0}]
        /\ owner' \in [Locks -> Tasks \cup {NoTask}]
        /\ acquired' \in [Tasks -> SUBSET Locks]
        /\ lockingTask' \in [Locks -> Tasks \cup {NoTask}]
    BY DEF IInv, TypeOK, InOrder, Keys
  <2>4. view' \in [Locks -> Tasks \cup {NoTask}]
    <3>1. at[t] \in Locks /\ MaybeShown(t, NoTask) /\ TypeOK
      BY DEF IInv, InOrder, Keys
    <3> QED
      BY <3>1, MaybeShownType
  <2>2. /\ waiters' \in [Locks -> Seq(Tasks)]
        /\ \A m \in Locks, u \in Tasks :
              u \in Range(waiters'[m]) => pc'[u] = "queued" /\ at'[u] = m
    BY DEF IInv, TypeOK
  <2>3. captureActive' \in BOOLEAN /\ hit' \in [Tasks -> PC \cup {"none"}]
    BY DEF IInv, TypeOK
  <2> QED
    BY <2>1, <2>2, <2>3, <2>4, Zenon DEF TypeOK
<1>2. WaitsOnce'
  BY DEF IInv, TypeOK, WaitsOnce
<1>3. InOrder'
  BY DEF IInv, TypeOK, InOrder, AcquiresWhatItNeeds, IsNext, Missing, Keys
<1>4. HoldsWhatItAcquired'
  BY DEF IInv, TypeOK, InOrder, HoldsWhatItAcquired, Holds, Keys, Missing
<1>5. AcquiresWhatItNeeds'
  BY DEF IInv, TypeOK, InOrder, AcquiresWhatItNeeds, IsNext, Missing
<1>6. AcquiredIsShown'
  BY DEF IInv, TypeOK, InOrder, HoldsWhatItAcquired, Holds, AcquiredIsShown, Keys
<1>7. OneCapture'
  BY DEF IInv, TypeOK, OneCapture
<1> QED
  BY <1>1, <1>2, <1>3, <1>4, <1>5, <1>6, <1>7 DEF IInv

\* A task leaves with nothing.
LEMMA ExitIInv ==
    ASSUME IInv, NEW t \in Tasks, Exit(t)
    PROVE  IInv'
<1> USE LocksAssumption DEF Exit, Goto, PC, lockVars, shownVars
<1>1. TypeOK'
  BY DEF IInv, TypeOK
<1>2. WaitsOnce'
  BY DEF IInv, TypeOK, WaitsOnce
<1>3. InOrder'
  BY DEF IInv, TypeOK, InOrder, AcquiresWhatItNeeds, IsNext, Missing, Keys
<1>4. HoldsWhatItAcquired'
  BY DEF IInv, TypeOK, InOrder, HoldsWhatItAcquired, Holds, Keys, Missing
<1>5. AcquiresWhatItNeeds'
  BY DEF IInv, TypeOK, InOrder, AcquiresWhatItNeeds, IsNext, Missing
<1>6. AcquiredIsShown'
  BY DEF IInv, TypeOK, InOrder, HoldsWhatItAcquired, Holds, AcquiredIsShown, Keys
<1>7. OneCapture'
  BY DEF IInv, TypeOK, OneCapture
<1> QED
  BY <1>1, <1>2, <1>3, <1>4, <1>5, <1>6, <1>7 DEF IInv

\* A cancelled waiter leaves the queue of its lock, and nothing else changes hands.
LEMMA CancelQueuedIInv ==
    ASSUME IInv, NEW t \in Tasks, CancelQueued(t)
    PROVE  IInv'
<1> USE LocksAssumption DEF CancelQueued, Struck, Goto, PC, lockVars, shownVars
<1>1. PICK i \in DOMAIN waiters[at[t]] :
         /\ waiters[at[t]][i] = t
         /\ waiters' = [waiters EXCEPT ![at[t]] = RemoveAt(@, i)]
  OBVIOUS
<1>2. at[t] \in Locks /\ waiters \in [Locks -> Seq(Tasks)]
  BY DEF IInv, TypeOK, InOrder, Missing
<1> DEFINE s == RemoveAt(waiters[at[t]], i)
<1>3. s \in Seq(Tasks) /\ Unique(s) /\ Range(s) = Range(waiters[at[t]]) \ {t}
  <2>1. waiters[at[t]] \in Seq(Tasks) /\ Unique(waiters[at[t]])
    BY <1>2 DEF IInv, WaitsOnce
  <2>2. i \in 1..Len(waiters[at[t]])
    BY <2>1, LenProperties
  <2> QED
    BY <1>1, <2>1, <2>2, RemoveAtUnique
<1>4. waiters' = [waiters EXCEPT ![at[t]] = s]
  BY <1>1
<1> HIDE DEF s
<1>5. \A m \in Locks :
        /\ waiters'[m] \in Seq(Tasks)
        /\ Unique(waiters'[m])
        /\ Range(waiters'[m]) \subseteq Range(waiters[m])
        /\ t \notin Range(waiters'[m])
  BY <1>2, <1>3, <1>4 DEF IInv, TypeOK, WaitsOnce
<1>6. TypeOK'
  <2>1. /\ pc' \in [Tasks -> PC] /\ at' \in [Tasks -> Locks \cup {0}]
        /\ owner' \in [Locks -> Tasks \cup {NoTask}]
        /\ acquired' \in [Tasks -> SUBSET Locks]
        /\ lockingTask' \in [Locks -> Tasks \cup {NoTask}]
        /\ view' \in [Locks -> Tasks \cup {NoTask}]
    BY DEF IInv, TypeOK
  <2>2. waiters' \in [Locks -> Seq(Tasks)]
    BY <1>2, <1>4, <1>5
  <2>3. \A m \in Locks, u \in Tasks :
              u \in Range(waiters'[m]) => pc'[u] = "queued" /\ at'[u] = m
    BY <1>5 DEF IInv, TypeOK
  <2>4. captureActive' \in BOOLEAN /\ hit' \in [Tasks -> PC \cup {"none"}]
    BY DEF IInv, TypeOK
  <2> QED
    BY <2>1, <2>2, <2>3, <2>4, Zenon DEF TypeOK
<1>7. WaitsOnce'
  BY <1>5 DEF WaitsOnce
<1>8. InOrder'
  BY DEF IInv, TypeOK, InOrder, Missing, Keys
<1>9. HoldsWhatItAcquired'
  BY DEF IInv, TypeOK, HoldsWhatItAcquired, Holds
<1>10. AcquiresWhatItNeeds'
  BY DEF IInv, TypeOK, AcquiresWhatItNeeds, Missing
<1>11. AcquiredIsShown'
  BY DEF IInv, TypeOK, AcquiredIsShown, Keys
<1>12. OneCapture'
  BY DEF IInv, TypeOK, OneCapture
<1> QED
  BY <1>6, <1>7, <1>8, <1>9, <1>10, <1>11, <1>12 DEF IInv

\* Cancelled during alock: what was announced is free again.
LEMMA CancelNotifyingIInv ==
    ASSUME IInv, NEW t \in Tasks, CancelNotifying(t)
    PROVE  IInv'
<1> USE LocksAssumption DEF CancelNotifying, MaybeShown, Struck, Goto, PC, lockVars, shownVars
<1>1. TypeOK'
  <2>1. /\ pc' \in [Tasks -> PC] /\ at' \in [Tasks -> Locks \cup {0}]
        /\ owner' \in [Locks -> Tasks \cup {NoTask}]
        /\ acquired' \in [Tasks -> SUBSET Locks]
        /\ lockingTask' \in [Locks -> Tasks \cup {NoTask}]
    BY DEF IInv, TypeOK, InOrder, Keys
  <2>4. view' \in [Locks -> Tasks \cup {NoTask}]
    <3>1. at[t] \in Locks /\ MaybeShown(t, t) /\ TypeOK
      BY DEF IInv, InOrder, Keys
    <3> QED
      BY <3>1, MaybeShownType
  <2>2. /\ waiters' \in [Locks -> Seq(Tasks)]
        /\ \A m \in Locks, u \in Tasks :
              u \in Range(waiters'[m]) => pc'[u] = "queued" /\ at'[u] = m
    BY DEF IInv, TypeOK
  <2>3. captureActive' \in BOOLEAN /\ hit' \in [Tasks -> PC \cup {"none"}]
    BY DEF IInv, TypeOK
  <2> QED
    BY <2>1, <2>2, <2>3, <2>4, Zenon DEF TypeOK
<1>2. WaitsOnce'
  BY DEF IInv, TypeOK, WaitsOnce
<1>3. InOrder'
  BY DEF IInv, TypeOK, InOrder, AcquiresWhatItNeeds, IsNext, Missing, Keys
<1>4. HoldsWhatItAcquired'
  BY DEF IInv, TypeOK, InOrder, HoldsWhatItAcquired, Holds, Keys, Missing
<1>5. AcquiresWhatItNeeds'
  BY DEF IInv, TypeOK, InOrder, AcquiresWhatItNeeds, IsNext, Missing
<1>6. AcquiredIsShown'
  BY DEF IInv, TypeOK, InOrder, HoldsWhatItAcquired, Holds, AcquiredIsShown, Keys
<1>7. OneCapture'
  BY DEF IInv, TypeOK, OneCapture
<1> QED
  BY <1>1, <1>2, <1>3, <1>4, <1>5, <1>6, <1>7 DEF IInv

\* Cancelled while it waits for a capture: all is handed back.
LEMMA CancelBeforeCaptureIInv ==
    ASSUME IInv, NEW t \in Tasks, CancelBeforeCapture(t)
    PROVE  IInv'
<1> USE LocksAssumption DEF CancelBeforeCapture, Struck, Goto, PC, lockVars, shownVars
<1>1. TypeOK'
  BY DEF IInv, TypeOK
<1>2. WaitsOnce'
  BY DEF IInv, TypeOK, WaitsOnce
<1>3. InOrder'
  BY DEF IInv, TypeOK, InOrder, AcquiresWhatItNeeds, IsNext, Missing, Keys
<1>4. HoldsWhatItAcquired'
  BY DEF IInv, TypeOK, InOrder, HoldsWhatItAcquired, Holds, Keys, Missing
<1>5. AcquiresWhatItNeeds'
  BY DEF IInv, TypeOK, InOrder, AcquiresWhatItNeeds, IsNext, Missing
<1>6. AcquiredIsShown'
  BY DEF IInv, TypeOK, InOrder, HoldsWhatItAcquired, Holds, AcquiredIsShown, Keys
<1>7. OneCapture'
  BY DEF IInv, TypeOK, OneCapture
<1> QED
  BY <1>1, <1>2, <1>3, <1>4, <1>5, <1>6, <1>7 DEF IInv

\* Cancelled in its function: the capture ends.
LEMMA CancelRunningIInv ==
    ASSUME IInv, NEW t \in Tasks, CancelRunning(t)
    PROVE  IInv'
<1> USE LocksAssumption DEF CancelRunning, Struck, Goto, PC, lockVars, shownVars
<1>1. TypeOK'
  BY DEF IInv, TypeOK
<1>2. WaitsOnce'
  BY DEF IInv, TypeOK, WaitsOnce
<1>3. InOrder'
  BY DEF IInv, TypeOK, InOrder, AcquiresWhatItNeeds, IsNext, Missing, Keys
<1>4. HoldsWhatItAcquired'
  BY DEF IInv, TypeOK, InOrder, HoldsWhatItAcquired, Holds, Keys, Missing
<1>5. AcquiresWhatItNeeds'
  BY DEF IInv, TypeOK, InOrder, AcquiresWhatItNeeds, IsNext, Missing
<1>6. AcquiredIsShown'
  BY DEF IInv, TypeOK, InOrder, HoldsWhatItAcquired, Holds, AcquiredIsShown, Keys
<1>7. OneCapture'
  BY DEF IInv, TypeOK, OneCapture
<1> QED
  BY <1>1, <1>2, <1>3, <1>4, <1>5, <1>6, <1>7 DEF IInv

\* Cancelled during aunlock: what is not handed back is still recorded as acquired.
LEMMA CancelUnnotifyingIInv ==
    ASSUME IInv, NEW t \in Tasks, CancelUnnotifying(t)
    PROVE  IInv'
<1> USE LocksAssumption DEF CancelUnnotifying, MaybeShown, Struck, Goto, PC, lockVars, shownVars
<1>1. TypeOK'
  <2>1. /\ pc' \in [Tasks -> PC] /\ at' \in [Tasks -> Locks \cup {0}]
        /\ owner' \in [Locks -> Tasks \cup {NoTask}]
        /\ acquired' \in [Tasks -> SUBSET Locks]
        /\ lockingTask' \in [Locks -> Tasks \cup {NoTask}]
    BY DEF IInv, TypeOK, InOrder, Keys
  <2>4. view' \in [Locks -> Tasks \cup {NoTask}]
    <3>1. at[t] \in Locks /\ MaybeShown(t, NoTask) /\ TypeOK
      BY DEF IInv, InOrder, Keys
    <3> QED
      BY <3>1, MaybeShownType
  <2>2. /\ waiters' \in [Locks -> Seq(Tasks)]
        /\ \A m \in Locks, u \in Tasks :
              u \in Range(waiters'[m]) => pc'[u] = "queued" /\ at'[u] = m
    BY DEF IInv, TypeOK
  <2>3. captureActive' \in BOOLEAN /\ hit' \in [Tasks -> PC \cup {"none"}]
    BY DEF IInv, TypeOK
  <2> QED
    BY <2>1, <2>2, <2>3, <2>4, Zenon DEF TypeOK
<1>2. WaitsOnce'
  BY DEF IInv, TypeOK, WaitsOnce
<1>3. InOrder'
  BY DEF IInv, TypeOK, InOrder, AcquiresWhatItNeeds, IsNext, Missing, Keys
<1>4. HoldsWhatItAcquired'
  BY DEF IInv, TypeOK, InOrder, HoldsWhatItAcquired, Holds, Keys, Missing
<1>5. AcquiresWhatItNeeds'
  BY DEF IInv, TypeOK, InOrder, AcquiresWhatItNeeds, IsNext, Missing
<1>6. AcquiredIsShown'
  BY DEF IInv, TypeOK, InOrder, HoldsWhatItAcquired, Holds, AcquiredIsShown, Keys
<1>7. OneCapture'
  BY DEF IInv, TypeOK, OneCapture
<1> QED
  BY <1>1, <1>2, <1>3, <1>4, <1>5, <1>6, <1>7 DEF IInv

\* Nobody has anything at the start.
LEMMA InitIInv == Init => IInv
<1> SUFFICES ASSUME Init PROVE IInv
  OBVIOUS
<1> USE LocksAssumption DEF Init
<1>1. Range(<<>>) = {} /\ Len(<<>>) = 0 /\ <<>> \in Seq(Tasks)
  <2>1. Len(<<>>) = 0 /\ <<>> \in Seq(Tasks)
    BY EmptySeq
  <2> QED
    BY <2>1 DEF Range
<1>2. TypeOK
  <2>1. /\ waiters \in [Locks -> Seq(Tasks)]
        /\ \A l \in Locks : Range(waiters[l]) = {}
    BY <1>1
  <2>2. captureActive \in BOOLEAN
    BY Zenon
  <2> QED
    BY <2>1, <2>2 DEF TypeOK, PC
<1>3. WaitsOnce
  <2>1. \A l \in Locks : waiters[l] = <<>>
    OBVIOUS
  <2> QED
    BY <1>1, <2>1 DEF WaitsOnce, Unique
<1>4. InOrder /\ HoldsWhatItAcquired /\ AcquiresWhatItNeeds
  BY DEF InOrder, HoldsWhatItAcquired, Holds, AcquiresWhatItNeeds
<1>5. AcquiredIsShown /\ OneCapture
  BY DEF AcquiredIsShown, OneCapture
<1> QED
  BY <1>2, <1>3, <1>4, <1>5 DEF IInv

\* Every step, and a stutter, keeps the invariant.
LEMMA NextIInv == IInv /\ [Next]_vars => IInv'
<1> SUFFICES ASSUME IInv, [Next]_vars PROVE IInv'
  OBVIOUS
<1>1. CASE UNCHANGED vars
  BY <1>1 DEF vars, lockVars, shownVars, IInv, TypeOK, WaitsOnce, InOrder,
     HoldsWhatItAcquired, Holds, AcquiresWhatItNeeds, Missing, AcquiredIsShown, OneCapture
<1>2. ASSUME NEW t \in Tasks, Begin(t) \/ Step(t) \/ NotifyFails(t) \/ Cancel(t)
      PROVE  IInv'
  <2>1. CASE Begin(t)
    BY <2>1, BeginIInv
  <2>2. CASE Step(t)
    BY <2>2, AskIInv, ReleaseIInv, GrantedIInv, NotifiedIInv, EnterIInv,
       FinishIInv, UnnotifiedIInv, ExitIInv DEF Step
  <2>3. CASE NotifyFails(t)
    BY <2>3, NotifyFailsIInv
  <2>4. CASE Cancel(t)
    BY <2>4, CancelQueuedIInv, CancelNotifyingIInv, CancelBeforeCaptureIInv,
       CancelRunningIInv, CancelUnnotifyingIInv DEF Cancel
  <2> QED
    BY <1>2, <2>1, <2>2, <2>3, <2>4
<1> QED
  BY <1>1, <1>2 DEF Next

\* The invariant holds in every state.
THEOREM LocksInvariant == Spec => []IInv
<1> QED
  BY InitIInv, NextIInv, PTL DEF Spec

-----------------------------------------------------------------------------
(* What follows from it. *)

\* Every variable keeps its type, and the queues hold the tasks that wait.
THEOREM LocksTypeOK == Spec => []TypeOK
<1>1. IInv => TypeOK
  BY DEF IInv
<1> QED
  BY <1>1, LocksInvariant, PTL

\* Whoever waits for a lock holds only locks that come before it: waiting
\* never goes round in a circle (invariants 1 and 2 of lock.py).
THEOREM WaitingIsOrdered == Spec => []OrderedWaiting
<1>1. IInv => OrderedWaiting
  BY LocksAssumption
  DEF IInv, TypeOK, InOrder, HoldsWhatItAcquired, Holds, OrderedWaiting
<1> QED
  BY <1>1, LocksInvariant, PTL

\* An assignment that has left holds no lock, unless its Cancel struck while
\* it handed a key back (invariant 4 of lock.py).
THEOREM LocksAreReleased == Spec => []ReleasedOnExit
<1>1. IInv => ReleasedOnExit
  BY DEF IInv, HoldsWhatItAcquired, AcquiresWhatItNeeds, Holds, ReleasedOnExit
<1> QED
  BY <1>1, LocksInvariant, PTL

\* The clients, and locking_task, name a running task as the holder of its keys.
THEOREM HolderIsShown == Spec => []RunningIsShown
<1>1. IInv => RunningIsShown
  BY DEF IInv, AcquiresWhatItNeeds, Missing, AcquiredIsShown, RunningIsShown
<1> QED
  BY <1>1, LocksInvariant, PTL

-----------------------------------------------------------------------------
(* Mutual exclusion: the locks implement ExclusiveTasks. *)

Running == {t \in Tasks : pc[t] = "running"}

\* Two running tasks need no common lock: each of them would hold it.
LEMMA RunningDoNotConflict ==
    ASSUME IInv, NEW t \in Tasks, NEW u \in Tasks, t # u,
           Missing(t) = {}, Missing(u) = {}
    PROVE  Needs[t] \cap Needs[u] = {}
<1>1. \A l \in Needs[t] \cap Needs[u] : l \in Locks /\ owner[l] = t /\ owner[l] = u
  BY LocksAssumption DEF IInv, HoldsWhatItAcquired, Holds, Missing
<1> QED
  BY <1>1

\* A step that moves only t changes only whether t is running.
LEMMA GotoRunning ==
    ASSUME TypeOK, NEW t \in Tasks, NEW s, pc' = [pc EXCEPT ![t] = s]
    PROVE  Running' = IF s = "running" THEN Running \cup {t} ELSE Running \ {t}
  BY DEF TypeOK, Running

\* Every step of the locks is a step of the exclusive tasks or a stutter.
LEMMA NextExclusive == IInv /\ [Next]_vars => [Abstract!Next]_Running
<1> SUFFICES ASSUME IInv, [Next]_vars PROVE [Abstract!Next]_Running
  OBVIOUS
<1>1. CASE UNCHANGED vars
  BY <1>1 DEF vars, Running
<1>2. ASSUME NEW t \in Tasks, pc'[t] # "running",
             \/ pc' = pc
             \/ \E s \in PC : s # "running" /\ pc' = [pc EXCEPT ![t] = s]
      PROVE  [Abstract!Next]_Running
  <2>1. Running' = Running \/ Running' = Running \ {t}
    BY <1>2, GotoRunning DEF IInv, Running
  <2> QED
    BY <2>1 DEF Abstract!Next, Abstract!Leave, Running
<1>3. ASSUME NEW t \in Tasks, Enter(t) PROVE Abstract!Enter(t)
  <2>1. pc[t] = "asking" /\ Missing(t) = {} /\ pc' = [pc EXCEPT ![t] = "running"]
    BY <1>3 DEF Enter, Goto
  <2>2. Running' = Running \cup {t} /\ t \notin Running
    BY <2>1, GotoRunning DEF IInv, Running
  <2>3. ASSUME NEW u \in Running PROVE ~Abstract!Conflict(t, u)
    BY <2>1, <2>3, RunningDoNotConflict
    DEF Running, IInv, AcquiresWhatItNeeds, Abstract!Conflict
  <2> QED
    BY <2>2, <2>3 DEF Abstract!Enter, Running
<1>4. ASSUME NEW t \in Tasks, Begin(t) \/ Step(t) \/ NotifyFails(t) \/ Cancel(t)
      PROVE  [Abstract!Next]_Running
  <2>1. CASE Enter(t)
    BY <2>1, <1>3 DEF Abstract!Next
  <2>2. CASE ~Enter(t)
    <3>1. \/ pc' = pc /\ pc[t] # "running"
          \/ \E s \in PC : s # "running" /\ pc' = [pc EXCEPT ![t] = s]
      BY <1>4, <2>2
      DEF Begin, Step, Cancel, Ask, Release, Granted, Took, Notified, Finish,
          Unnotified, Exit, NotifyFails, CancelQueued, CancelNotifying,
          CancelBeforeCapture, CancelRunning, CancelUnnotifying, Goto, PC
    <3> QED
      BY <3>1, <1>2 DEF IInv, TypeOK
  <2> QED
    BY <2>1, <2>2
<1> QED
  BY <1>1, <1>4 DEF Next

\* Two tasks that need a common lock are never in their functions together,
\* however they are cancelled and whatever fails meanwhile.
THEOREM LocksExclude == Spec => Exclusive
<1>1. Init => Abstract!Init
  BY DEF Init, Abstract!Init
<1>2. IInv /\ [Next]_vars => [Abstract!Next]_{t \in Tasks : pc[t] = "running"}
  BY NextExclusive DEF Running
<1> QED
  BY <1>1, <1>2, LocksInvariant, PTL DEF Spec, Exclusive, Abstract!Spec

\* No assignment begins while another one captures.
THEOREM CaptureKeepsOut == Spec => NoneBeginsDuringCapture
<1>1. IInv /\ [Next]_vars =>
         [\A t \in Tasks, u \in Capturing :
             pc[u] = "running" /\ pc[t] # "running" => pc'[t] # "running"]_vars
  <2> SUFFICES ASSUME IInv, Next,
                      NEW t \in Tasks, NEW u \in Capturing,
                      pc[u] = "running", pc[t] # "running", pc'[t] = "running"
               PROVE  FALSE
    OBVIOUS
  <2>1. captureActive
    BY DEF IInv, OneCapture
  <2>2. \A w \in Tasks : ~Enter(w)
    BY <2>1 DEF Enter
  <2>3. PICK w \in Tasks : Begin(w) \/ Step(w) \/ NotifyFails(w) \/ Cancel(w)
    BY DEF Next
  <2>4. \/ pc' = pc
        \/ \E s \in PC : s # "running" /\ pc' = [pc EXCEPT ![w] = s]
    BY <2>2, <2>3
    DEF Begin, Step, Cancel, Ask, Release, Granted, Took, Notified, Finish,
        Unnotified, Exit, NotifyFails, CancelQueued, CancelNotifying,
        CancelBeforeCapture, CancelRunning, CancelUnnotifying, Goto, PC
  <2> QED
    BY <2>4 DEF IInv, TypeOK
<1> QED
  BY <1>1, LocksInvariant, PTL DEF Spec, NoneBeginsDuringCapture

=============================================================================
