-------------------------- MODULE AssignmentsProofs --------------------------
(***************************************************************************)
(* Proofs about Assignments for any tasks, interfaces and messages: a task *)
(* reported as cancelled has stopped, a cancellation is awaited, the first *)
(* end reported of a task is the one that happened, and no pause is lost.  *)
(***************************************************************************)
EXTENDS Assignments, SequenceLemmas

-----------------------------------------------------------------------------
(* The inductive invariant. *)

Controls == {"cancel", "pause", "resume", "inquiry"}

Assigns(i, t) == inbox[i].type = "assign" /\ inbox[i].task = t

\* A task whose assignment waits is new, and no other assignment of it waits.
AssignedOnce ==
    \A i \in 1..Len(inbox) : inbox[i].type = "assign" =>
        /\ inbox[i].task \in Tasks \ managed /\ ends[inbox[i].task] = <<>>
        /\ \A j \in 1..Len(inbox) : Assigns(j, inbox[i].task) => i = j

\* What controls a task comes behind its assignment.
ControlFollows ==
    \A t \in Tasks : \A i \in 1..Len(inbox) :
        inbox[i].type \in Controls /\ inbox[i].task = t =>
            t \in managed \/ ends[t] # <<>> \/ \E j \in 1..(i - 1) : Assigns(j, t)

\* The managed tasks are those that were scheduled; the loop awaits a task it
\* tracks, and stops tracking only what is done.
ManagedIsScheduled ==
    /\ \A t \in Tasks : stage[t] = "none" <=> t \notin managed
    /\ loop \in Tasks => loop \in tracked
    /\ \A t \in managed \ tracked : Done(t)

\* Nothing is reported of a running task, nor of one whose cancellation the
\* loop has yet to see; the first report of any other is true.
EndsAreTrue ==
    \A t \in managed :
        IF ~Done(t) THEN ends[t] = <<>>
        ELSE IF outcome[t] = "cancelled" /\ t \in tracked
        THEN loop = t /\ ends[t] = <<>>
        ELSE outcome[t] = "silent" \/ (ends[t] # <<>> /\ Head(ends[t]) = outcome[t])

\* A cancelled break future belongs to the task the loop awaits, or to one
\* that is done; a paused task awaits the current one.
GatesAreSound ==
    \A t \in Tasks :
        /\ gateDead[t] => loop = t \/ Done(t)
        /\ stage[t] = "paused" => waitsOn[t] = gate[t] /\ gate[t] # 0 /\ ~gateDead[t]

IInv ==
    /\ TypeOK
    /\ AssignedOnce
    /\ ControlFollows
    /\ ManagedIsScheduled
    /\ CancellationIsAwaited
    /\ EndsAreTrue
    /\ GatesAreSound

-----------------------------------------------------------------------------
(* The inbox and the reports. *)

\* The first message leaves, the others move up.
LEMMA TakeFacts ==
    ASSUME TypeOK, NEW types, Take(types)
    PROVE  /\ inbox' \in Seq(Message) /\ Len(inbox) \in Nat \ {0}
           /\ Len(inbox') = Len(inbox) - 1 /\ Len(inbox') <= MaxInbox
           /\ \A i \in 1..Len(inbox') : inbox'[i] = inbox[i + 1]
           /\ Head(inbox) = inbox[1] /\ inbox[1] \in Message
           /\ inbox[1].type \in types
           /\ loop = Reading /\ sentMessages' = sentMessages
<1>1. inbox \in Seq(Message) /\ inbox # <<>> /\ Len(inbox) <= MaxInbox /\ MaxInbox \in Nat
  BY AssignmentsAssumption DEF TypeOK, Take
<1>2. Len(inbox) \in Nat \ {0}
  BY <1>1, EmptySeq
<1>3. /\ Tail(inbox) \in Seq(Message) /\ Len(Tail(inbox)) = Len(inbox) - 1
      /\ \A i \in 1..Len(Tail(inbox)) : Tail(inbox)[i] = inbox[i + 1]
      /\ Head(inbox) \in Message
  BY <1>1, HeadTailProperties
<1>4. Head(inbox) = inbox[1]
  OBVIOUS
<1> QED
  BY <1>1, <1>2, <1>3, <1>4 DEF Take

\* What the inbox promises survives a step of the loop that manages the task
\* of an assignment or reports of it, and reports else only of known tasks.
LEMMA TakeKeepsInbox ==
    ASSUME IInv, NEW types, Take(types),
           managed \subseteq managed',
           \A t \in Tasks : ends[t] # <<>> => ends'[t] # <<>>,
           \A t \in Tasks : Assigns(1, t) => t \in managed' \/ ends'[t] # <<>>,
           \A t \in Tasks : t \in managed' \/ ends'[t] # <<>> =>
                t \in managed \/ ends[t] # <<>> \/ Assigns(1, t)
    PROVE  AssignedOnce' /\ ControlFollows'
<1> DEFINE n == Len(inbox)
           next == inbox'
<1>1. /\ n \in Nat \ {0} /\ Len(next) = n - 1
      /\ \A i \in 1..(n - 1) : next[i] = inbox[i + 1]
  BY TakeFacts DEF IInv
<1>2. AssignedOnce'
  <2> SUFFICES ASSUME NEW i \in 1..(n - 1), next[i].type = "assign",
                      NEW t, t = next[i].task
               PROVE  /\ t \in Tasks \ managed' /\ ends'[t] = <<>>
                      /\ \A j \in 1..(n - 1) :
                            next[j].type = "assign" /\ next[j].task = t => i = j
    BY <1>1 DEF AssignedOnce, Assigns
  <2>1. i + 1 \in 1..n /\ 1 \in 1..n /\ inbox[i + 1].type = "assign" /\ t = inbox[i + 1].task
    BY <1>1
  <2>2. /\ t \in Tasks \ managed /\ ends[t] = <<>>
        /\ \A j \in 1..n : Assigns(j, t) => i + 1 = j
    BY <2>1 DEF IInv, AssignedOnce
  <2>3. ~Assigns(1, t)
    BY <1>1, <2>1, <2>2
  <2>4. ASSUME NEW j \in 1..(n - 1), next[j].type = "assign", next[j].task = t
        PROVE  i = j
    <3>1. j + 1 \in 1..n /\ Assigns(j + 1, t)
      BY <1>1, <2>4 DEF Assigns
    <3> QED
      BY <1>1, <2>2, <3>1
  <2> QED
    BY <2>2, <2>3, <2>4
<1>3. ControlFollows'
  <2> SUFFICES ASSUME NEW t \in Tasks, NEW i \in 1..(n - 1),
                      next[i].type \in Controls, next[i].task = t,
                      t \notin managed', ends'[t] = <<>>
               PROVE  \E j \in 1..(i - 1) : next[j].type = "assign" /\ next[j].task = t
    BY <1>1 DEF ControlFollows, Assigns
  <2>1. i + 1 \in 1..n /\ inbox[i + 1].type \in Controls /\ inbox[i + 1].task = t
    BY <1>1
  <2>2. PICK j \in 1..((i + 1) - 1) : Assigns(j, t)
    BY <2>1 DEF IInv, ControlFollows
  <2>3. j # 1
    BY <2>2
  <2>4. j - 1 \in 1..(i - 1) /\ j - 1 \in 1..(n - 1) /\ next[j - 1] = inbox[j]
    BY <1>1, <2>3
  <2> QED
    BY <2>2, <2>4 DEF Assigns
<1> QED
  BY <1>2, <1>3

\* A message that controls a task comes when the task is known.
LEMMA HeadIsKnown ==
    ASSUME IInv, NEW types, Take(types), types \subseteq Controls
    PROVE  /\ \A t \in Tasks : ~Assigns(1, t)
           /\ Head(inbox).task \in Known
           /\ Head(inbox).task \in Tasks =>
                Head(inbox).task \in managed \/ ends[Head(inbox).task] # <<>>
<1>1. /\ Head(inbox) = inbox[1] /\ inbox[1] \in Message /\ inbox[1].type \in Controls
      /\ 1 \in 1..Len(inbox)
  BY TakeFacts DEF IInv
<1>2. inbox[1].type # "assign" /\ inbox[1].task \in Known
  BY <1>1 DEF Message, Controls
<1>3. \A t \in Tasks : ~(\E j \in 1..(1 - 1) : Assigns(j, t))
  OBVIOUS
<1> QED
  BY <1>1, <1>2, <1>3 DEF IInv, ControlFollows, Assigns

\* The message that assigns a task is the first about it.
LEMMA HeadIsNew ==
    ASSUME IInv, Take({"assign"})
    PROVE  /\ Head(inbox).task \in Tasks \ managed /\ ends[Head(inbox).task] = <<>>
           /\ Head(inbox).step \in BOOLEAN
           /\ \A t \in Tasks : Assigns(1, t) <=> t = Head(inbox).task
<1>1. /\ Head(inbox) = inbox[1] /\ inbox[1] \in Message /\ inbox[1].type = "assign"
      /\ 1 \in 1..Len(inbox)
  BY TakeFacts DEF IInv
<1>2. inbox[1].step \in BOOLEAN
  BY <1>1 DEF Message
<1> QED
  BY <1>1, <1>2 DEF IInv, AssignedOnce, Assigns

\* A report is added to those about its task.
LEMMA ReportFacts ==
    ASSUME TypeOK, NEW t \in Known, NEW kind \in Terminal, Report(t, kind)
    PROVE  /\ ends' \in [Known -> Seq(Terminal)]
           /\ \A u \in Known \ {t} : ends'[u] = ends[u]
           /\ ends'[t] # <<>>
           /\ ends[t] = <<>> => Head(ends'[t]) = kind
           /\ ends[t] # <<>> => Head(ends'[t]) = Head(ends[t])
<1> DEFINE s == ends[t]
           r == Append(s, kind)
<1>1. s \in Seq(Terminal) /\ ends \in [Known -> Seq(Terminal)]
  BY DEF TypeOK
<1>2. /\ r \in Seq(Terminal) /\ Len(s) \in Nat /\ Len(r) = Len(s) + 1
      /\ \A i \in 1..Len(s) : r[i] = s[i]
      /\ r[Len(s) + 1] = kind
  BY <1>1, AppendProperties, LenProperties
<1>3. r # <<>> /\ Head(r) = r[1] /\ Head(s) = s[1]
  BY <1>2, EmptySeq
<1>4. s = <<>> => Len(s) = 0
  BY EmptySeq
<1>5. s # <<>> => Len(s) # 0
  BY <1>1, EmptySeq
<1>6. ends'[t] = r /\ \A u \in Known \ {t} : ends'[u] = ends[u]
  BY <1>1 DEF Report
<1>7. ends' \in [Known -> Seq(Terminal)]
  BY <1>1, <1>2 DEF Report
<1>8. s = <<>> => Head(r) = kind
  BY <1>2, <1>3, <1>4
<1>9. s # <<>> => Head(r) = Head(s)
  BY <1>1, <1>2, <1>3, <1>5
<1> QED
  BY <1>3, <1>6, <1>7, <1>8, <1>9

-----------------------------------------------------------------------------
(* The invariant is inductive. *)

\* The invariant holds at first.
LEMMA InitIInv == Init => IInv
<1> SUFFICES ASSUME Init PROVE IInv
  OBVIOUS
<1> USE DEF Init
<1>1. Len(<<>>) = 0 /\ <<>> \in Seq(Message) /\ <<>> \in Seq(Terminal)
  BY EmptySeq
<1>2. gateDead \in [Known -> BOOLEAN]
  BY Zenon
<1>3. TypeOK
  BY <1>1, <1>2, AssignmentsAssumption DEF TypeOK, Stages
<1>4. AssignedOnce /\ ControlFollows
  BY <1>1 DEF AssignedOnce, ControlFollows
<1>5. \A t \in Tasks : stage[t] = "none" /\ ~gateDead[t]
  BY Zenon DEF Known
<1>6. ManagedIsScheduled /\ CancellationIsAwaited /\ EndsAreTrue /\ GatesAreSound
  BY <1>5, AssignmentsAssumption
  DEF ManagedIsScheduled, CancellationIsAwaited, EndsAreTrue, GatesAreSound
<1> QED
  BY <1>3, <1>4, <1>6 DEF IInv

\* A message of the backend joins the others; it assigns a new task, or
\* controls one that was assigned.
LEMMA BackendSendsIInv ==
    ASSUME IInv, NEW m \in Message, BackendSends(m)
    PROVE  IInv'
<1> DEFINE n == Len(inbox)
           next == Append(inbox, m)
<1>1. /\ inbox \in Seq(Message) /\ n \in Nat /\ n < MaxInbox /\ MaxInbox \in Nat
      /\ sentMessages' = sentMessages + 1 /\ sentMessages < MaxMessages
      /\ inbox' = next
      /\ UNCHANGED <<loopVars, gateVars, taskVars, ends>>
  BY AssignmentsAssumption, LenProperties DEF BackendSends, IInv, TypeOK
<1>2. /\ next \in Seq(Message) /\ Len(next) = n + 1
      /\ \A i \in 1..n : next[i] = inbox[i]
      /\ next[n + 1] = m
  BY <1>1, AppendProperties
<1> HIDE DEF next
<1>3. m.type = "assign" => m.task \in Tasks /\ ~WasAssigned(m.task)
  BY DEF BackendSends
<1>4. m.type \in Controls => WasAssigned(m.task)
  BY DEF BackendSends, Controls
<1>5. TypeOK'
  BY <1>1, <1>2, AssignmentsAssumption
  DEF IInv, TypeOK, loopVars, gateVars, taskVars, Done
<1>6. AssignedOnce'
  <2> SUFFICES ASSUME NEW i \in 1..(n + 1), next[i].type = "assign",
                      NEW t, t = next[i].task
               PROVE  /\ t \in Tasks \ managed /\ ends[t] = <<>>
                      /\ \A j \in 1..(n + 1) :
                            next[j].type = "assign" /\ next[j].task = t => i = j
    BY <1>1, <1>2 DEF AssignedOnce, Assigns, loopVars
  <2>1. CASE i \in 1..n
    <3>1. inbox[i].type = "assign" /\ inbox[i].task = t
      BY <1>2, <2>1
    <3>2. WasAssigned(t)
      BY <2>1, <3>1 DEF WasAssigned
    <3>3. \A j \in 1..n : next[j].type = "assign" /\ next[j].task = t => i = j
      BY <1>2, <2>1, <3>1 DEF IInv, AssignedOnce, Assigns
    <3>4. ~(next[n + 1].type = "assign" /\ next[n + 1].task = t)
      BY <1>2, <1>3, <3>2
    <3> QED
      BY <1>1, <2>1, <3>1, <3>3, <3>4 DEF IInv, AssignedOnce
  <2>2. CASE i = n + 1
    <3>1. t \in Tasks /\ ~WasAssigned(t)
      BY <1>2, <1>3, <2>2
    <3>2. \A j \in 1..n : ~(next[j].type = "assign" /\ next[j].task = t)
      BY <1>2, <3>1 DEF WasAssigned
    <3> QED
      BY <1>1, <2>2, <3>1, <3>2 DEF WasAssigned
  <2> QED
    BY <1>1, <2>1, <2>2
<1>7. ControlFollows'
  <2> SUFFICES ASSUME NEW t \in Tasks, NEW i \in 1..(n + 1),
                      next[i].type \in Controls, next[i].task = t,
                      t \notin managed, ends[t] = <<>>
               PROVE  \E j \in 1..(i - 1) : next[j].type = "assign" /\ next[j].task = t
    BY <1>1, <1>2 DEF ControlFollows, Assigns, loopVars
  <2>1. CASE i \in 1..n
    <3>1. PICK j \in 1..(i - 1) : Assigns(j, t)
      BY <1>2, <2>1 DEF IInv, ControlFollows
    <3> QED
      BY <1>1, <1>2, <2>1, <3>1 DEF Assigns
  <2>2. CASE i = n + 1
    <3>1. WasAssigned(t) /\ t \notin Foreign
      BY <1>2, <1>4, <2>2, AssignmentsAssumption
    <3> QED
      BY <1>1, <1>2, <2>2, <3>1 DEF WasAssigned
  <2> QED
    BY <1>1, <2>1, <2>2
<1>8. ManagedIsScheduled' /\ CancellationIsAwaited' /\ EndsAreTrue' /\ GatesAreSound'
  BY <1>1 DEF IInv, ManagedIsScheduled, CancellationIsAwaited, EndsAreTrue, GatesAreSound,
              loopVars, gateVars, taskVars, Done
<1> QED
  BY <1>5, <1>6, <1>7, <1>8 DEF IInv

\* A new break future is the current one, and not cancelled.
LEMMA ArmFacts ==
    ASSUME TypeOK, NEW t \in Tasks, Arm(t)
    PROVE  /\ gates' \in [Known -> Nat] /\ gate' \in [Known -> Nat]
           /\ gateDead' \in [Known -> BOOLEAN]
           /\ ~gateDead'[t]
           /\ \A u \in Tasks \ {t} : gate'[u] = gate[u] /\ (gateDead'[u] <=> gateDead[u])
<1>1. /\ gates \in [Known -> Nat] /\ gate \in [Known -> Nat]
      /\ gateDead \in [Known -> BOOLEAN] /\ t \in Known
  BY DEF TypeOK, Known
<1>2. gates' \in [Known -> Nat] /\ gate' \in [Known -> Nat]
  BY <1>1 DEF Arm
<1>3. gateDead' \in [Known -> BOOLEAN] /\ ~gateDead'[t]
  BY <1>1, Zenon DEF Arm
<1>4. \A u \in Tasks \ {t} : gate'[u] = gate[u] /\ gateDead'[u] = gateDead[u]
  BY <1>1, Zenon DEF Arm, Known
<1> QED
  BY <1>2, <1>3, <1>4

\* Assign: the task becomes managed, and is told of by nobody yet.
LEMMA ProcessAssignIInv ==
    ASSUME IInv, ProcessAssign
    PROVE  IInv'
<1> DEFINE t == Head(inbox).task
<1>1. /\ Take({"assign"})
      /\ InterfaceOf[t] \in actors \cup Buildable
      /\ actors' = actors \cup {InterfaceOf[t]}
      /\ managed' = managed \cup {t} /\ tracked' = tracked \cup {t}
      /\ stage' = [stage EXCEPT ![t] = "scheduled"]
      /\ Arm(t) \/ UNCHANGED gateVars
      /\ UNCHANGED <<loop, waitsOn, outcome, ends>>
  BY DEF ProcessAssign
<1>2. t \in Tasks \ managed /\ ends[t] = <<>> /\ \A u \in Tasks : Assigns(1, u) <=> u = t
  BY <1>1, HeadIsNew
<1>3. loop = Reading /\ Reading \notin Tasks
  BY <1>1, AssignmentsAssumption DEF Take
<1> HIDE DEF t
<1>4. /\ stage \in [Known -> Stages] /\ t \in Known /\ Tasks \subseteq Known
      /\ stage'[t] = "scheduled" /\ \A u \in Tasks \ {t} : stage'[u] = stage[u]
      /\ stage' \in [Known -> Stages]
  BY <1>1, <1>2 DEF IInv, TypeOK, Known, Stages
<1>5. /\ gates' \in [Known -> Nat] /\ gate' \in [Known -> Nat]
      /\ gateDead' \in [Known -> BOOLEAN]
      /\ \A u \in Tasks \ {t} : gate'[u] = gate[u] /\ (gateDead'[u] <=> gateDead[u])
      /\ ~gateDead'[t]
  <2>1. ~gateDead[t]
    BY <1>2, <1>3 DEF IInv, GatesAreSound, ManagedIsScheduled, Done
  <2>2. CASE Arm(t)
    BY <1>2, <2>2, ArmFacts DEF IInv
  <2>3. CASE UNCHANGED gateVars
    BY <2>1, <2>3 DEF IInv, TypeOK, gateVars
  <2> QED
    BY <1>1, <2>2, <2>3
<1>6. TypeOK'
  <2>1. TypeOK
    BY DEF IInv
  <2>2. inbox' \in Seq(Message) /\ Len(inbox') <= MaxInbox /\ sentMessages' = sentMessages
    BY <1>1, <2>1, TakeFacts
  <2>3. actors' \subseteq Buildable /\ managed' \subseteq Tasks /\ tracked' \subseteq managed'
    BY <1>1, <1>2, <2>1 DEF TypeOK
  <2> QED
    BY <1>1, <1>4, <1>5, <2>1, <2>2, <2>3 DEF TypeOK
<1>7. AssignedOnce' /\ ControlFollows'
  <2>1. IInv
    OBVIOUS
  <2> QED
    BY <1>1, <1>2, <2>1, TakeKeepsInbox
<1>8. ManagedIsScheduled' /\ CancellationIsAwaited'
  BY <1>1, <1>2, <1>3, <1>4 DEF IInv, TypeOK, ManagedIsScheduled, CancellationIsAwaited, Done
<1>9. EndsAreTrue'
  BY <1>1, <1>2, <1>3, <1>4 DEF IInv, TypeOK, EndsAreTrue, Done
<1>10. GatesAreSound'
  BY <1>1, <1>2, <1>3, <1>4, <1>5 DEF IInv, GatesAreSound, Done
<1> QED
  BY <1>6, <1>7, <1>8, <1>9, <1>10 DEF IInv

\* Assign to an unknown interface: the loop ends; the task is reported of, and
\* never managed.
LEMMA ProcessAssignUnknownIInv ==
    ASSUME IInv, ProcessAssignUnknown
    PROVE  IInv'
<1> DEFINE t == Head(inbox).task
<1>1. /\ Take({"assign"}) /\ Report(t, "critical") /\ loop' = Dead
      /\ UNCHANGED <<actors, managed, tracked, gateVars, taskVars>>
  BY DEF ProcessAssignUnknown
<1>2. t \in Tasks \ managed /\ \A u \in Tasks : Assigns(1, u) <=> u = t
  BY <1>1, HeadIsNew
<1> HIDE DEF t
<1>3. /\ ends' \in [Known -> Seq(Terminal)] /\ ends'[t] # <<>>
      /\ \A u \in Tasks \ {t} : ends'[u] = ends[u]
  BY <1>1, <1>2, ReportFacts DEF IInv, Known, Terminal
<1>4. loop = Reading /\ {Reading, Dead} \cap Tasks = {}
  BY <1>1, AssignmentsAssumption DEF Take
<1>5. TypeOK'
  BY <1>1, <1>3, TakeFacts DEF IInv, TypeOK, gateVars, taskVars
<1>6. AssignedOnce' /\ ControlFollows'
  <2>1. IInv
    OBVIOUS
  <2> QED
    BY <1>1, <1>2, <1>3, <2>1, TakeKeepsInbox
<1>7. ManagedIsScheduled' /\ CancellationIsAwaited' /\ GatesAreSound'
  BY <1>1, <1>4
  DEF IInv, ManagedIsScheduled, CancellationIsAwaited, GatesAreSound, gateVars, taskVars, Done
<1>8. EndsAreTrue'
  BY <1>1, <1>2, <1>3, <1>4 DEF IInv, TypeOK, EndsAreTrue, taskVars, Done
<1> QED
  BY <1>5, <1>6, <1>7, <1>8 DEF IInv

\* The loop may report of a task it does not manage, and of one that is done
\* and has not just been cancelled.
LEMMA LoopReports ==
    ASSUME IInv, NEW types, types \subseteq Controls, Take(types),
           NEW t, t = Head(inbox).task, NEW kind \in Terminal, Report(t, kind),
           t \in managed => Done(t) /\ ~(outcome[t] = "cancelled" /\ t \in tracked),
           UNCHANGED <<loopVars, gateVars, taskVars>>
    PROVE  IInv'
<1>1. /\ t \in Known /\ \A u \in Tasks : ~Assigns(1, u)
      /\ t \in Tasks => t \in managed \/ ends[t] # <<>>
  BY HeadIsKnown
<1>2. /\ ends' \in [Known -> Seq(Terminal)] /\ ends'[t] # <<>>
      /\ ends[t] # <<>> => Head(ends'[t]) = Head(ends[t])
      /\ \A u \in Known \ {t} : ends'[u] = ends[u]
  BY <1>1, ReportFacts DEF IInv
<1>3. TypeOK'
  BY <1>2, TakeFacts DEF IInv, TypeOK, loopVars, gateVars, taskVars
<1>4. AssignedOnce' /\ ControlFollows'
  <2>1. IInv /\ managed' = managed
    BY DEF loopVars
  <2>2. ASSUME NEW u \in Tasks
        PROVE  /\ ends[u] # <<>> => ends'[u] # <<>>
               /\ ends'[u] # <<>> => u \in managed \/ ends[u] # <<>>
    BY <1>1, <1>2 DEF Known
  <2> QED
    BY <1>1, <2>1, <2>2, TakeKeepsInbox
<1>5. ManagedIsScheduled' /\ CancellationIsAwaited' /\ GatesAreSound'
  BY DEF IInv, ManagedIsScheduled, CancellationIsAwaited, GatesAreSound,
         loopVars, gateVars, taskVars, Done
<1>6. EndsAreTrue'
  BY <1>2 DEF IInv, TypeOK, EndsAreTrue, loopVars, taskVars, Done, Known
<1> QED
  BY <1>3, <1>4, <1>5, <1>6 DEF IInv

\* A message that the loop only takes, or that stops it, changes nothing else.
LEMMA LoopTakes ==
    ASSUME IInv, NEW types, "assign" \notin types, Take(types), loop' \in {Reading, Dead},
           UNCHANGED <<actors, managed, tracked, gateVars, taskVars, ends>>
    PROVE  IInv'
<1>1. loop = Reading /\ {Reading, Dead} \cap Tasks = {}
  BY AssignmentsAssumption DEF Take
<1>2. \A u \in Tasks : ~Assigns(1, u)
  BY TakeFacts DEF IInv, Assigns
<1>3. TypeOK'
  BY <1>1, TakeFacts DEF IInv, TypeOK, gateVars, taskVars
<1>4. AssignedOnce' /\ ControlFollows'
  <2>1. IInv
    OBVIOUS
  <2> QED
    BY <1>2, <2>1, TakeKeepsInbox
<1>5. ManagedIsScheduled' /\ CancellationIsAwaited' /\ GatesAreSound' /\ EndsAreTrue'
  BY <1>1 DEF IInv, TypeOK, ManagedIsScheduled, CancellationIsAwaited, GatesAreSound, EndsAreTrue,
              gateVars, taskVars, Done
<1> QED
  BY <1>3, <1>4, <1>5 DEF IInv

\* Pause and Resume: whatever they do to the break future, a task that stays
\* paused still awaits the current one.
LEMMA LoopGates ==
    ASSUME IInv, NEW types, types \subseteq Controls, Take(types), NEW t \in managed,
           stage[t] = "paused" =>
              stage'[t] = "resumed" \/ (stage' = stage /\ UNCHANGED gateVars),
           stage' \in {stage, [stage EXCEPT ![t] = "resumed"]},
           stage' # stage => stage[t] = "paused",
           \/ Arm(t) \/ UNCHANGED gateVars
           \/ (gate' = [gate EXCEPT ![t] = 0] /\ UNCHANGED <<gateDead, gates>>),
           UNCHANGED <<loopVars, waitsOn, outcome, ends>>
    PROVE  IInv'
<1>0. t \in Tasks /\ Tasks \subseteq Known
  BY DEF IInv, TypeOK, Known
<1>1. \A u \in Tasks : ~Assigns(1, u)
  BY HeadIsKnown
<1>2. /\ stage' \in [Known -> Stages]
      /\ \A u \in Tasks \ {t} : stage'[u] = stage[u]
      /\ stage'[t] # stage[t] => stage[t] = "paused" /\ stage'[t] = "resumed"
  BY <1>0 DEF IInv, TypeOK, Stages
<1>3. /\ gates' \in [Known -> Nat] /\ gate' \in [Known -> Nat]
      /\ gateDead' \in [Known -> BOOLEAN]
      /\ \A u \in Tasks \ {t} : gate'[u] = gate[u] /\ (gateDead'[u] <=> gateDead[u])
      /\ gateDead'[t] => gateDead[t]
  <2>1. CASE Arm(t)
    BY <1>0, <2>1, ArmFacts DEF IInv
  <2>2. CASE UNCHANGED gateVars
    BY <1>0, <2>2 DEF IInv, TypeOK, gateVars
  <2>3. CASE gate' = [gate EXCEPT ![t] = 0] /\ UNCHANGED <<gateDead, gates>>
    BY <1>0, <2>3 DEF IInv, TypeOK
  <2> QED
    BY <2>1, <2>2, <2>3
<1>4. TypeOK'
  BY <1>2, <1>3, TakeFacts DEF IInv, TypeOK, loopVars
<1>5. AssignedOnce' /\ ControlFollows'
  <2>1. IInv /\ managed' = managed
    BY DEF loopVars
  <2> QED
    BY <1>1, <2>1, TakeKeepsInbox
<1>6. ManagedIsScheduled' /\ CancellationIsAwaited' /\ EndsAreTrue'
  BY <1>0, <1>2 DEF IInv, TypeOK, ManagedIsScheduled, CancellationIsAwaited, EndsAreTrue,
                    loopVars, Done
<1>7. GatesAreSound'
  BY <1>0, <1>2, <1>3 DEF IInv, GatesAreSound, loopVars, gateVars, Done
<1> QED
  BY <1>4, <1>5, <1>6, <1>7 DEF IInv

\* Cancel of a running task: the loop awaits it from here on.
LEMMA ProcessCancelRunningIInv ==
    ASSUME IInv, ProcessCancelRunning
    PROVE  IInv'
<1> DEFINE t == Head(inbox).task
<1>1. /\ Take({"cancel"}) /\ t \in managed \cap tracked /\ ~Done(t) /\ loop' = t
      /\ \E s \in {"aborting", "unwinding"} : stage' = [stage EXCEPT ![t] = s]
      /\ gateDead' = [gateDead EXCEPT ![t] = gateDead[t] \/ stage[t] = "paused"]
      /\ UNCHANGED <<actors, managed, tracked, gate, gates, waitsOn, outcome, ends>>
  BY DEF ProcessCancelRunning
<1> HIDE DEF t
<1>2. t \in Tasks /\ Tasks \subseteq Known /\ Reading \notin Tasks /\ loop = Reading
  BY <1>1, AssignmentsAssumption DEF IInv, TypeOK, Known, Take
<1>3. /\ stage' \in [Known -> Stages] /\ stage'[t] \in {"aborting", "unwinding"}
      /\ \A u \in Tasks \ {t} : stage'[u] = stage[u]
  BY <1>1, <1>2 DEF IInv, TypeOK, Stages
<1>4. /\ gateDead' \in [Known -> BOOLEAN]
      /\ \A u \in Tasks \ {t} : gateDead'[u] = gateDead[u]
  <2>1. gateDead \in [Known -> BOOLEAN]
    BY DEF IInv, TypeOK
  <2> QED
    BY <1>1, <1>2, <2>1, Zenon
<1>5. \A u \in Tasks : ~Assigns(1, u)
  BY <1>1, TakeFacts DEF IInv, Assigns
<1>6. TypeOK'
  BY <1>1, <1>2, <1>3, <1>4, TakeFacts DEF IInv, TypeOK
<1>7. AssignedOnce' /\ ControlFollows'
  <2>1. IInv
    OBVIOUS
  <2> QED
    BY <1>1, <1>5, <2>1, TakeKeepsInbox
<1>8. ManagedIsScheduled' /\ CancellationIsAwaited' /\ EndsAreTrue'
  BY <1>1, <1>2, <1>3
  DEF IInv, TypeOK, ManagedIsScheduled, CancellationIsAwaited, EndsAreTrue, Done
<1>9. GatesAreSound'
  <2>1. ASSUME NEW u \in Tasks \ {t}
        PROVE  /\ gateDead'[u] => Done(u)'
               /\ stage'[u] = "paused" =>
                    waitsOn'[u] = gate'[u] /\ gate'[u] # 0 /\ ~gateDead'[u]
    BY <1>1, <1>2, <1>3, <1>4 DEF IInv, GatesAreSound, Done
  <2> QED
    BY <1>1, <1>3, <2>1 DEF GatesAreSound
<1> QED
  BY <1>6, <1>7, <1>8, <1>9 DEF IInv

\* The inbox stays as it was, and reports are added of managed tasks only.
LEMMA InboxUntouched ==
    ASSUME IInv, inbox' = inbox, managed' = managed,
           \A u \in Tasks \ managed : ends'[u] = ends[u]
    PROVE  AssignedOnce' /\ ControlFollows'
  BY DEF IInv, AssignedOnce, ControlFollows, Assigns

\* The awaited task has ended: Cancelled is the first report of it if it let
\* the cancellation through.
LEMMA CancelReturnsIInv ==
    ASSUME IInv, NEW t \in Tasks, CancelReturns(t)
    PROVE  IInv'
<1>1. /\ loop = t /\ Done(t) /\ loop' = Reading /\ t \in managed /\ t \in tracked
      /\ UNCHANGED <<inbox, sentMessages, actors, managed, gateVars, taskVars>>
      /\ Reading \notin Tasks /\ Tasks \subseteq Known /\ t \in Known
  BY AssignmentsAssumption DEF CancelReturns, IInv, TypeOK, ManagedIsScheduled, Known
<1>2. CASE outcome[t] = "cancelled"
  <2>1. tracked' = tracked \ {t} /\ Report(t, "cancelled") /\ ends[t] = <<>>
    BY <1>1, <1>2 DEF CancelReturns, IInv, EndsAreTrue
  <2>2. /\ ends' \in [Known -> Seq(Terminal)] /\ ends'[t] # <<>>
        /\ Head(ends'[t]) = "cancelled"
        /\ \A u \in Tasks \ {t} : ends'[u] = ends[u]
    BY <1>1, <2>1, ReportFacts DEF IInv, Known, Terminal
  <2>3. TypeOK'
    BY <1>1, <2>1, <2>2 DEF IInv, TypeOK, gateVars, taskVars
  <2>4. AssignedOnce' /\ ControlFollows'
    BY <1>1, <2>2, InboxUntouched
  <2>5. ManagedIsScheduled' /\ CancellationIsAwaited' /\ GatesAreSound'
    BY <1>1, <2>1 DEF IInv, ManagedIsScheduled, CancellationIsAwaited, GatesAreSound,
                      gateVars, taskVars, Done
  <2>6. EndsAreTrue'
    BY <1>1, <1>2, <2>1, <2>2 DEF IInv, TypeOK, EndsAreTrue, taskVars, Done
  <2> QED
    BY <2>3, <2>4, <2>5, <2>6 DEF IInv
<1>3. CASE outcome[t] # "cancelled"
  <2>1. UNCHANGED <<tracked, ends>>
    BY <1>3 DEF CancelReturns
  <2>2. AssignedOnce' /\ ControlFollows'
    BY <1>1, <2>1, InboxUntouched
  <2>3. TypeOK' /\ ManagedIsScheduled' /\ CancellationIsAwaited' /\ GatesAreSound'
    BY <1>1, <2>1 DEF IInv, TypeOK, ManagedIsScheduled, CancellationIsAwaited, GatesAreSound,
                      gateVars, taskVars, Done
  <2>4. EndsAreTrue'
    BY <1>1, <1>3, <2>1 DEF IInv, TypeOK, EndsAreTrue, taskVars, Done
  <2> QED
    BY <2>2, <2>3, <2>4 DEF IInv
<1> QED
  BY <1>2, <1>3

\* A task that goes on: it is cancelled only where it was so before, or where
\* the loop awaits it.
LEMMA TaskGoesOn ==
    ASSUME IInv, NEW t \in Tasks, NEW s \in Stages \ {"none", "done"}, Goto(t, s),
           stage[t] \notin {"none", "done"},
           s \in {"unwinding", "aborting"} => loop = t,
           waitsOn' \in [Known -> Nat], \A u \in Tasks \ {t} : waitsOn'[u] = waitsOn[u],
           s = "paused" => waitsOn'[t] = gate[t] /\ gate[t] # 0 /\ ~gateDead[t],
           UNCHANGED <<gateVars, outcome, ends>>
    PROVE  IInv'
<1>1. /\ stage' \in [Known -> Stages] /\ stage'[t] = s
      /\ \A u \in Tasks \ {t} : stage'[u] = stage[u]
      /\ UNCHANGED <<inbox, sentMessages, loopVars>>
  BY DEF Goto, IInv, TypeOK, Known
<1>2. TypeOK'
  BY <1>1 DEF IInv, TypeOK, loopVars, gateVars
<1>3. AssignedOnce' /\ ControlFollows'
  BY <1>1, InboxUntouched DEF loopVars
<1>4. ManagedIsScheduled' /\ CancellationIsAwaited' /\ EndsAreTrue'
  BY <1>1 DEF IInv, TypeOK, ManagedIsScheduled, CancellationIsAwaited, EndsAreTrue, loopVars, Done
<1>5. GatesAreSound'
  BY <1>1 DEF IInv, GatesAreSound, loopVars, gateVars, Done
<1> QED
  BY <1>2, <1>3, <1>4, <1>5 DEF IInv

\* A task that ends: it reports its outcome itself, or dies silently, or was
\* cancelled, which is left to the loop.
LEMMA TaskEnds ==
    ASSUME IInv, NEW t \in Tasks, NEW o \in Terminal \cup {"silent"}, End(t, o),
           stage[t] \notin {"none", "done"},
           IF o \in {"silent", "cancelled"} THEN UNCHANGED ends ELSE Report(t, o),
           o = "cancelled" => loop = t
    PROVE  IInv'
<1>1. /\ stage' \in [Known -> Stages] /\ stage'[t] = "done"
      /\ \A u \in Tasks \ {t} : stage'[u] = stage[u]
      /\ outcome' \in [Known -> Terminal \cup {"none", "silent"}] /\ outcome'[t] = o
      /\ \A u \in Tasks \ {t} : outcome'[u] = outcome[u]
      /\ UNCHANGED <<inbox, sentMessages, loopVars, gateVars, waitsOn>>
      /\ t \in Known /\ Tasks \subseteq Known
  BY DEF End, Goto, IInv, TypeOK, Known, Stages
<1>2. t \in managed /\ ends[t] = <<>> /\ (o = "cancelled" => t \in tracked)
  BY DEF IInv, ManagedIsScheduled, EndsAreTrue, Done
<1>3. /\ ends' \in [Known -> Seq(Terminal)]
      /\ \A u \in Tasks \ {t} : ends'[u] = ends[u]
      /\ IF o \in {"silent", "cancelled"} THEN ends'[t] = <<>>
         ELSE ends'[t] # <<>> /\ Head(ends'[t]) = o
  <2>1. CASE o \in {"silent", "cancelled"}
    BY <1>2, <2>1 DEF IInv, TypeOK
  <2>2. CASE o \notin {"silent", "cancelled"}
    <3>1. Report(t, o) /\ o \in Terminal
      BY <2>2
    <3> QED
      BY <1>1, <1>2, <2>2, <3>1, ReportFacts DEF IInv
  <2> QED
    BY <2>1, <2>2
<1>4. TypeOK'
  BY <1>1, <1>3 DEF IInv, TypeOK, loopVars, gateVars
<1>5. AssignedOnce' /\ ControlFollows'
  BY <1>1, <1>2, <1>3, InboxUntouched DEF loopVars
<1>6. ManagedIsScheduled' /\ CancellationIsAwaited' /\ GatesAreSound'
  BY <1>1 DEF IInv, TypeOK, ManagedIsScheduled, CancellationIsAwaited, GatesAreSound,
              loopVars, gateVars, Done
<1>7. EndsAreTrue'
  <2>1. UNCHANGED <<loop, managed, tracked>> /\ managed \subseteq Tasks /\ EndsAreTrue
    BY <1>1 DEF IInv, TypeOK, loopVars
  <2>2. ASSUME NEW u \in managed, u # t
        PROVE  stage'[u] = stage[u] /\ outcome'[u] = outcome[u] /\ ends'[u] = ends[u]
    BY <1>1, <1>3, <2>1, <2>2
  <2>3. stage'[t] = "done" /\ (o = "cancelled" => loop = t)
    BY <1>1
  <2> QED
    BY <1>1, <1>2, <1>3, <2>1, <2>2, <2>3 DEF EndsAreTrue, Done
<1> QED
  BY <1>4, <1>5, <1>6, <1>7 DEF IInv

\* Every step of the loop keeps the invariant.
LEMMA ProcessIInv == IInv /\ Process => IInv'
<1> SUFFICES ASSUME IInv, Process PROVE IInv'
  OBVIOUS
<1>1. CASE ProcessAssign
  BY <1>1, ProcessAssignIInv
<1>2. CASE ProcessAssignUnknown
  BY <1>2, ProcessAssignUnknownIInv
<1>3. CASE ProcessControlUnmanaged
  BY <1>3, LoopReports DEF ProcessControlUnmanaged, Controls, Terminal
<1>4. CASE ProcessCancelRunning
  BY <1>4, ProcessCancelRunningIInv
<1>5. CASE ProcessCancelDone
  <2> DEFINE t == Head(inbox).task
  <2>1. /\ Take({"cancel"}) /\ t \in managed \cap tracked /\ Done(t)
        /\ Report(t, "cancelled") /\ UNCHANGED <<loopVars, gateVars, taskVars>>
    BY <1>5 DEF ProcessCancelDone
  <2>2. outcome[t] # "cancelled"
    BY <2>1, AssignmentsAssumption DEF IInv, TypeOK, EndsAreTrue, Take
  <2> QED
    BY <2>1, <2>2, LoopReports DEF Controls, Terminal
<1>6. CASE ProcessCancelUntracked \/ ProcessResumeNotPaused
  <2>1. /\ Take({"cancel"}) \/ Take({"resume"})
        /\ UNCHANGED <<loop, actors, managed, tracked, gateVars, taskVars, ends>>
    BY <1>6 DEF ProcessCancelUntracked, ProcessResumeNotPaused, loopVars
  <2>2. loop' \in {Reading, Dead}
    BY <2>1 DEF Take
  <2> QED
    BY <2>1, <2>2, LoopTakes
<1>7. CASE ProcessResumeCancelled \/ ProcessFatal
  <2>1. Take({"resume"}) \/ Take({"interrupt", "protocol_error"})
    BY <1>7 DEF ProcessResumeCancelled, ProcessFatal
  <2> QED
    BY <1>7, <2>1, LoopTakes DEF ProcessResumeCancelled, ProcessFatal
<1>8. CASE ProcessPause
  <2> DEFINE t == Head(inbox).task
  <2>1. /\ Take({"pause"}) /\ t \in managed
        /\ Arm(t) \/ UNCHANGED gateVars
        /\ gate[t] # 0 => UNCHANGED gateVars
        /\ UNCHANGED <<loopVars, taskVars, ends>>
    BY <1>8 DEF ProcessPause
  <2>2. stage[t] = "paused" => UNCHANGED gateVars
    BY <2>1 DEF IInv, TypeOK, GatesAreSound
  <2>3. /\ {"pause"} \subseteq Controls
        /\ UNCHANGED <<stage, waitsOn, outcome>>
    BY <2>1 DEF Controls, taskVars
  <2> HIDE DEF t
  <2> QED
    BY <2>1, <2>2, <2>3, LoopGates
<1>9. CASE ProcessResume
  <2> DEFINE t == Head(inbox).task
  <2>1. /\ Take({"resume"}) /\ t \in managed
        /\ stage' = [stage EXCEPT ![t] =
                        IF stage[t] = "paused" /\ waitsOn[t] = gate[t] THEN "resumed" ELSE stage[t]]
        /\ UNCHANGED <<loopVars, waitsOn, outcome, ends>>
    BY <1>9 DEF ProcessResume
  <2>5. Arm(t) \/ (gate' = [gate EXCEPT ![t] = 0] /\ UNCHANGED <<gateDead, gates>>)
    <3>1. CASE Head(inbox).step
      BY <1>9, <3>1 DEF ProcessResume
    <3>2. CASE ~Head(inbox).step
      BY <1>9, <3>2 DEF ProcessResume
    <3> QED
      BY <3>1, <3>2
  <2> HIDE DEF t
  <2>2. stage[t] = "paused" => waitsOn[t] = gate[t]
    BY <2>1 DEF IInv, TypeOK, GatesAreSound
  <2>3. CASE stage[t] = "paused"
    <3>1. stage' = [stage EXCEPT ![t] = "resumed"]
      BY <2>1, <2>2, <2>3
    <3>2. stage'[t] = "resumed"
      BY <2>1, <3>1 DEF IInv, TypeOK, Known
    <3> QED
      BY <2>1, <2>3, <2>5, <3>1, <3>2, LoopGates DEF Controls
  <2>4. CASE stage[t] # "paused"
    <3>1. stage' = stage
      BY <2>1, <2>4 DEF IInv, TypeOK
    <3> QED
      BY <2>1, <2>4, <2>5, <3>1, LoopGates DEF Controls
  <2> QED
    BY <2>3, <2>4
<1>10. CASE ProcessInquiry
  <2> DEFINE t == Head(inbox).task
  <2>1. /\ Take({"inquiry"}) /\ UNCHANGED <<loopVars, gateVars, taskVars>>
        /\ IF t \in managed \cap tracked THEN UNCHANGED ends ELSE Report(t, "critical")
    BY <1>10 DEF ProcessInquiry
  <2>2. CASE t \in managed \cap tracked
    <3>1. loop' \in {Reading, Dead}
      BY <2>1 DEF Take, loopVars
    <3> QED
      BY <2>1, <2>2, <3>1, LoopTakes DEF loopVars
  <2>3. CASE t \notin managed \cap tracked
    <3>1. t \in managed => Done(t)
      BY <2>3 DEF IInv, ManagedIsScheduled
    <3> QED
      BY <2>1, <2>3, <3>1, LoopReports DEF Controls, Terminal
  <2> QED
    BY <2>2, <2>3
<1>11. ASSUME NEW t \in Tasks, CancelReturns(t) PROVE IInv'
  BY <1>11, CancelReturnsIInv
<1> QED
  BY <1>1, <1>2, <1>3, <1>4, <1>5, <1>6, <1>7, <1>8, <1>9, <1>10, <1>11 DEF Process

\* Every step of a task keeps the invariant.
LEMMA RunIInv ==
    ASSUME IInv, NEW t \in Tasks, Run(t)
    PROVE  IInv'
<1>0. waitsOn \in [Known -> Nat] /\ gate \in [Known -> Nat] /\ t \in Known
  BY DEF IInv, TypeOK, Known
<1>1. CASE Start(t) \/ Enter(t)
  BY <1>0, <1>1, TaskGoesOn DEF Start, Enter, Stages
<1>2. CASE Break(t)
  <2>1. waitsOn' \in [Known -> Nat] /\ \A u \in Tasks \ {t} : waitsOn'[u] = waitsOn[u]
    BY <1>0, <1>2 DEF Break, Known
  <2>2. CASE gateDead[t]
    <3>1. loop = t
      BY <1>2, <2>2 DEF Break, IInv, GatesAreSound, Done
    <3> QED
      BY <1>2, <2>1, <2>2, <3>1, TaskGoesOn DEF Break, Stages
  <2>3. CASE ~gateDead[t]
    <3>1. waitsOn'[t] = gate[t]
      BY <1>0, <1>2 DEF Break
    <3> QED
      BY <1>2, <2>1, <2>3, <3>1, TaskGoesOn DEF Break, Stages
  <2> QED
    BY <2>2, <2>3
<1>3. CASE WakeUp(t) \/ Swallow(t)
  <2>1. waitsOn' \in [Known -> Nat] /\ \A u \in Tasks \ {t} : waitsOn'[u] = waitsOn[u]
    BY <1>0, <1>3 DEF WakeUp, Swallow, Known
  <2> QED
    BY <1>3, <2>1, TaskGoesOn DEF WakeUp, Swallow, Stages
<1>4. CASE ExpandFails(t) \/ LocalsFail(t) \/ Complete(t) \/ ShrinkFails(t) \/ BodyFails(t)
  BY <1>4, TaskEnds DEF ExpandFails, LocalsFail, Complete, ShrinkFails, BodyFails, Terminal
<1>5. CASE Unwind(t)
  <2>1. loop = t
    BY <1>5 DEF Unwind, IInv, CancellationIsAwaited
  <2> QED
    BY <1>5, <2>1, TaskEnds DEF Unwind, Terminal
<1> QED
  BY <1>1, <1>2, <1>3, <1>4, <1>5 DEF Run

\* Every step keeps the invariant.
LEMMA NextIInv == IInv /\ [Next]_vars => IInv'
<1> SUFFICES ASSUME IInv, [Next]_vars PROVE IInv'
  OBVIOUS
<1>1. ASSUME NEW m \in Message, BackendSends(m) PROVE IInv'
  BY <1>1, BackendSendsIInv
<1>2. CASE Process
  BY <1>2, ProcessIInv
<1>3. ASSUME NEW t \in Tasks, Run(t) PROVE IInv'
  BY <1>3, RunIInv
<1>4. CASE UNCHANGED vars
  BY <1>4 DEF vars, loopVars, gateVars, taskVars, IInv, TypeOK, AssignedOnce, ControlFollows,
              Assigns, ManagedIsScheduled, CancellationIsAwaited, EndsAreTrue, GatesAreSound, Done
<1> QED
  BY <1>1, <1>2, <1>3, <1>4 DEF Next

-----------------------------------------------------------------------------
(* The results. *)

\* The invariant holds in every state.
THEOREM AssignmentsInvariant == Spec => []IInv
  BY InitIInv, NextIInv, PTL DEF Spec

\* Every variable keeps its type, whatever the backend sends and in whatever
\* order the loop and the tasks run.
THEOREM AssignmentsTypeOK == Spec => []TypeOK
<1>1. IInv => TypeOK
  BY DEF IInv
<1> QED
  BY <1>1, AssignmentsInvariant, PTL

\* A task of which Cancelled was reported has left the user's function and its
\* locks (Actor.aprocess awaits the task before it reports).
THEOREM CancelledTasksStopped == Spec => []CancelledMeansStopped
<1>1. IInv => CancelledMeansStopped
  <2>1. Range(<<>>) = {}
    BY DEF Range
  <2> QED
    BY <2>1 DEF IInv, EndsAreTrue, CancelledMeansStopped
<1> QED
  BY <1>1, AssignmentsInvariant, PTL

\* A CancelledError is raised only in the task the loop waits for, also at a
\* breakpoint whose future was cancelled earlier (abreak).
THEOREM CancellationsAwaited == Spec => []CancellationIsAwaited
<1>1. IInv => CancellationIsAwaited
  BY DEF IInv
<1> QED
  BY <1>1, AssignmentsInvariant, PTL

\* The first end reported of a task is the one that happened, whichever of the
\* loop and the task reported it.
THEOREM FirstReportIsTrue == Spec => []FirstEndIsTrue
<1>1. IInv => FirstEndIsTrue
  BY DEF IInv, EndsAreTrue, FirstEndIsTrue
<1> QED
  BY <1>1, AssignmentsInvariant, PTL

\* A paused task awaits the very future that the next Resume resolves.
THEOREM PausesAreNotLost == Spec => []PausedCanResume
<1>1. IInv => PausedCanResume
  BY DEF IInv, GatesAreSound, ManagedIsScheduled, PausedCanResume
<1> QED
  BY <1>1, AssignmentsInvariant, PTL

=============================================================================
