------------------------- MODULE ReportStreamProofs -------------------------
(***************************************************************************)
(* Proofs about ReportStream for any reports, any number of drops: the     *)
(* type invariant, the retention of terminal reports until they are        *)
(* durable, their order, and the implementation of TerminalLedger.         *)
(***************************************************************************)
EXTENDS ReportStream, SequenceLemmas

-----------------------------------------------------------------------------
(* The inductive invariant. *)

\* Whatever is queued, in hand, on the wire or retained was dispatched.
QueuedWasDispatched ==
    (Range(sendQueue) \cup Range(wire) \cup Range(unackedEvents) \cup {inHand})
        \cap Reports \subseteq dispatched

\* Only durable reports are acknowledged, on every leg of the way back.
AckedIsDurable ==
    (Range(replies) \cup Range(inQueue)) \cap Terminals \subseteq durable

IInv ==
    /\ TypeOK
    /\ QueuedWasDispatched
    /\ AckedIsDurable
    /\ RetainedUntilDurable

\* dict.pop on distinct keys removes exactly the key it is given.
LEMMA PopProperties ==
    ASSUME NEW S, NEW s \in Seq(S), NEW r, Unique(s)
    PROVE  /\ Pop(s, r) \in Seq(S)
           /\ Unique(Pop(s, r))
           /\ Range(Pop(s, r)) = Range(s) \ {r}
<1>1. CASE ~ \E i \in 1..Len(s) : s[i] = r
  <2>1. Pop(s, r) = s
    BY <1>1 DEF Pop
  <2>2. Range(s) = {s[i] : i \in 1..Len(s)}
    BY RangeEquality
  <2> QED
    BY <2>1, <2>2, <1>1
<1>2. CASE \E i \in 1..Len(s) : s[i] = r
  <2> DEFINE k == CHOOSE i \in 1..Len(s) : s[i] = r
  <2>1. k \in 1..Len(s) /\ s[k] = r
    BY <1>2
  <2>2. Pop(s, r) = RemoveAt(s, k)
    BY <1>2 DEF Pop
  <2> HIDE DEF k
  <2> QED
    BY <2>1, <2>2, RemoveAtUnique
<1> QED
  BY <1>1, <1>2

-----------------------------------------------------------------------------
(* The invariant is inductive. *)

\* The empty stream satisfies the invariant.
LEMMA InitIInv == Init => IInv
<1> SUFFICES ASSUME Init PROVE IInv
  OBVIOUS
<1>1. Range(<<>>) = {}
  BY DEF Range
<1>2. TypeOK
  <2>1. /\ Len(<<>>) = 0
        /\ <<>> \in Seq(Reports) /\ <<>> \in Seq(Terminals)
        /\ <<>> \in Seq(Reports \cup {RegisterMsg})
        /\ <<>> \in Seq(Terminals \cup InitMsgs) /\ <<>> \in Seq(Tasks)
    BY EmptySeq
  <2>2. \A i, j \in 1..Len(unackedEvents) : unackedEvents[i] = unackedEvents[j] => i = j
    BY <2>1 DEF Init
  <2>3. asks \in [Tasks -> 0..MaxAsks] /\ drops \in 0..MaxDrops
    BY StreamAssumption DEF Init
  <2>4. connected \in BOOLEAN /\ over \in BOOLEAN
    BY Zenon DEF Init
  <2> QED
    BY <2>1, <2>2, <2>3, <2>4 DEF Init, TypeOK
<1>3. QueuedWasDispatched /\ AckedIsDurable /\ RetainedUntilDurable
  BY <1>1, StreamAssumption
  DEF Init, QueuedWasDispatched, AckedIsDurable, RetainedUntilDurable
<1> QED
  BY <1>2, <1>3 DEF IInv

\* What the type invariant says of the retained reports.
LEMMA UnackedFacts ==
    ASSUME TypeOK
    PROVE  /\ unackedEvents \in Seq(Terminals) /\ unackedEvents \in Seq(Reports)
           /\ Unique(unackedEvents) /\ Range(unackedEvents) \subseteq Terminals
  BY StreamAssumption, SeqMonotonic, RangeOfSeq, Zenon DEF TypeOK, Unique

\* _adispatch keeps the invariant, whoever calls it: the new report is
\* retained if it is terminal, and it was not retained before.
LEMMA AdispatchIInv ==
    ASSUME IInv, NEW r \in Reports, r \notin dispatched, Adispatch(r),
           asking' \in Seq(Tasks),
           UNCHANGED <<inHand, wire, replies, inQueue, socketVars, backendVars>>
    PROVE  IInv'
<1> USE DEF IInv
<1>1. dispatched' = dispatched \cup {r}
  BY DEF Adispatch
<1>2. /\ sendQueue' \in Seq(Reports)
      /\ Range(sendQueue') = Range(sendQueue) \cup {r}
  BY RangeAppend DEF Adispatch, TypeOK
<1>3. /\ unackedEvents' \in Seq(Terminals)
      /\ Unique(unackedEvents')
      /\ Range(unackedEvents') = Range(unackedEvents) \cup ({r} \cap Terminals)
  <2>1. CASE r \notin Terminals
    <3>1. unackedEvents' = unackedEvents
      BY <2>1 DEF Adispatch
    <3> QED
      BY <2>1, <3>1, UnackedFacts
  <2>2. CASE r \in Terminals
    <3>1. unackedEvents' = Append(unackedEvents, r)
      BY <2>2 DEF Adispatch
    <3>2. r \notin Range(unackedEvents)
      BY <1>1 DEF QueuedWasDispatched
    <3>3. /\ Append(unackedEvents, r) \in Seq(Terminals)
          /\ Range(Append(unackedEvents, r)) = Range(unackedEvents) \cup {r}
      BY <2>2, UnackedFacts, RangeAppend
    <3>4. Unique(Append(unackedEvents, r))
      <4>1. /\ Len(unackedEvents) \in Nat
            /\ Len(Append(unackedEvents, r)) = Len(unackedEvents) + 1
            /\ \A i \in 1..Len(unackedEvents) :
                  /\ Append(unackedEvents, r)[i] = unackedEvents[i]
                  /\ unackedEvents[i] # r
            /\ Append(unackedEvents, r)[Len(unackedEvents) + 1] = r
        BY <2>2, <3>2, UnackedFacts, AppendProperties, LenProperties, RangeEquality
      <4> QED
        BY <4>1, UnackedFacts DEF Unique
    <3> QED
      BY <2>2, <3>1, <3>3, <3>4
  <2> QED
    BY <2>1, <2>2
<1>4. TypeOK'
  BY <1>1, <1>2, <1>3 DEF TypeOK, socketVars, backendVars, Unique
<1>5. QueuedWasDispatched'
  BY <1>1, <1>2, <1>3 DEF QueuedWasDispatched, Adispatch
<1>6. AckedIsDurable'
  BY DEF AckedIsDurable, Adispatch, backendVars
<1>7. RetainedUntilDurable'
  BY <1>1, <1>3 DEF RetainedUntilDurable, Adispatch, backendVars
<1> QED
  BY <1>4, <1>5, <1>6, <1>7

LEMMA DispatchIInv ==
    ASSUME IInv, NEW r \in Reports, Dispatch(r)
    PROVE  IInv'
<1>1. /\ r \notin dispatched /\ Adispatch(r) /\ asking' = asking
      /\ UNCHANGED <<inHand, wire, replies, inQueue, socketVars, backendVars>>
  BY DEF Dispatch, MayDispatch
<1>2. asking' \in Seq(Tasks)
  BY <1>1 DEF IInv, TypeOK
<1> QED
  BY <1>1, <1>2, AdispatchIInv

\* The answer to an inquiry goes through _adispatch too.
LEMMA AnswerInquiryIInv ==
    ASSUME IInv, NEW r \in Answers, AnswerInquiry(r)
    PROVE  IInv'
<1>1. /\ r \notin dispatched /\ Adispatch(r) /\ asking # <<>> /\ asking' = Tail(asking)
      /\ UNCHANGED <<inHand, wire, replies, inQueue, socketVars, backendVars>>
  BY DEF AnswerInquiry
<1>2. asking' \in Seq(Tasks) /\ r \in Reports
  BY <1>1, RangeHeadTail, StreamAssumption DEF IInv, TypeOK
<1> QED
  BY <1>1, <1>2, AdispatchIInv

\* process(Init) queues only what is retained, and so dispatched.
LEMMA ProcessInitIInv ==
    ASSUME IInv, ProcessInit
    PROVE  IInv'
<1> USE DEF IInv
<1>1. /\ inQueue \in Seq(Terminals \cup InitMsgs) /\ inQueue # <<>>
      /\ inQueue' = Tail(inQueue)
  BY DEF ProcessInit, Take, TypeOK
<1>2. /\ inQueue' \in Seq(Terminals \cup InitMsgs)
      /\ Range(inQueue') \subseteq Range(inQueue)
  BY <1>1, RangeHeadTail
<1>3. /\ sendQueue' \in Seq(Reports)
      /\ Range(sendQueue') = Range(sendQueue) \cup Range(unackedEvents)
  BY UnackedFacts, RangeConcatenation DEF ProcessInit, TypeOK
<1>4. dispatched' = dispatched
  BY DEF ProcessInit, agentVars
<1>5. asking' \in Seq(Tasks)
  <2>1. Head(inQueue) \in InitMsgs /\ asking' = Head(inQueue).inquiries
    BY DEF ProcessInit, Take
  <2> QED
    BY <2>1, StreamAssumption DEF InitMsgs
<1>6. TypeOK'
  BY <1>2, <1>3, <1>5 DEF TypeOK, ProcessInit, Take, agentVars, socketVars, backendVars
<1>7. QueuedWasDispatched'
  BY <1>3, <1>4 DEF QueuedWasDispatched, ProcessInit, Take, agentVars
<1>8. AckedIsDurable'
  BY <1>2 DEF AckedIsDurable, ProcessInit, Take, backendVars
<1>9. RetainedUntilDurable'
  BY <1>4 DEF RetainedUntilDurable, ProcessInit, Take, agentVars, backendVars
<1> QED
  BY <1>6, <1>7, <1>8, <1>9

\* process(EventAck) releases one report, and that one is durable.
LEMMA ProcessEventAckFacts ==
    ASSUME IInv, ProcessEventAck
    PROVE  /\ Head(inQueue) \in durable
           /\ unackedEvents' \in Seq(Terminals)
           /\ Unique(unackedEvents')
           /\ Range(unackedEvents') = Range(unackedEvents) \ {Head(inQueue)}
           /\ inQueue' \in Seq(Terminals \cup InitMsgs)
           /\ Range(inQueue') \subseteq Range(inQueue)
<1> USE DEF IInv
<1>1. /\ inQueue \in Seq(Terminals \cup InitMsgs) /\ inQueue # <<>>
      /\ inQueue' = Tail(inQueue) /\ Head(inQueue) \in Terminals
      /\ unackedEvents' = Pop(unackedEvents, Head(inQueue))
  BY DEF ProcessEventAck, Take, TypeOK
<1>2. /\ Head(inQueue) \in Terminals /\ Head(inQueue) \in Range(inQueue)
      /\ inQueue' \in Seq(Terminals \cup InitMsgs)
      /\ Range(inQueue') \subseteq Range(inQueue)
  BY <1>1, RangeHeadTail
<1>3. Head(inQueue) \in durable
  BY <1>2 DEF AckedIsDurable
<1> QED
  BY <1>1, <1>2, <1>3, UnackedFacts, PopProperties

\* Hence process(EventAck) keeps the invariant.
LEMMA ProcessEventAckIInv ==
    ASSUME IInv, ProcessEventAck
    PROVE  IInv'
<1> USE DEF IInv
<1>1. dispatched' = dispatched
  BY DEF ProcessEventAck
<1>2. TypeOK'
  BY ProcessEventAckFacts DEF TypeOK, ProcessEventAck, Take, socketVars, backendVars, Unique
<1>3. QueuedWasDispatched'
  BY <1>1, ProcessEventAckFacts DEF QueuedWasDispatched, ProcessEventAck, Take
<1>4. AckedIsDurable'
  BY ProcessEventAckFacts DEF AckedIsDurable, ProcessEventAck, Take, backendVars
<1>5. RetainedUntilDurable'
  BY <1>1, ProcessEventAckFacts DEF RetainedUntilDurable, ProcessEventAck, Take, backendVars
<1> QED
  BY <1>2, <1>3, <1>4, <1>5

\* Connecting, taking, sending, receiving and the backend's steps move
\* messages from one place to the next; each lemma below says that nothing
\* undispatched and no undeserved acknowledgement appears on the way.
LEMMA ConnectIInv ==
    ASSUME IInv, Connect
    PROVE  IInv'
<1> USE DEF IInv
<1>1. wire' \in Seq(Reports \cup {RegisterMsg}) /\ Range(wire') = {RegisterMsg}
  BY DEF Connect, Range
<1>2. dispatched' = dispatched
  BY DEF Connect, agentVars
<1>3. TypeOK'
  BY <1>1 DEF TypeOK, Connect, agentVars, backendVars
<1>4. QueuedWasDispatched'
  BY <1>1, <1>2, StreamAssumption DEF QueuedWasDispatched, Connect, agentVars
<1>5. AckedIsDurable' /\ RetainedUntilDurable'
  BY <1>2 DEF AckedIsDurable, RetainedUntilDurable, Connect, agentVars, backendVars
<1> QED
  BY <1>3, <1>4, <1>5

LEMMA SenderTakeIInv ==
    ASSUME IInv, SenderTake
    PROVE  IInv'
<1> USE DEF IInv
<1>1. /\ sendQueue \in Seq(Reports) /\ sendQueue # <<>>
      /\ inHand' = Head(sendQueue) /\ sendQueue' = Tail(sendQueue)
  BY DEF SenderTake, TypeOK
<1>2. /\ inHand' \in Reports /\ inHand' \in Range(sendQueue)
      /\ sendQueue' \in Seq(Reports) /\ Range(sendQueue') \subseteq Range(sendQueue)
  BY <1>1, RangeHeadTail
<1>3. dispatched' = dispatched
  BY DEF SenderTake, agentVars
<1>4. TypeOK'
  BY <1>2 DEF TypeOK, SenderTake, agentVars, socketVars, backendVars
<1>5. QueuedWasDispatched'
  BY <1>2, <1>3 DEF QueuedWasDispatched, SenderTake, agentVars
<1>6. AckedIsDurable' /\ RetainedUntilDurable'
  BY <1>3 DEF AckedIsDurable, RetainedUntilDurable, SenderTake, agentVars, backendVars
<1> QED
  BY <1>4, <1>5, <1>6

LEMMA SenderSendIInv ==
    ASSUME IInv, SenderSend
    PROVE  IInv'
<1> USE DEF IInv
<1>1. /\ wire \in Seq(Reports \cup {RegisterMsg}) /\ inHand \in Reports
      /\ wire' = Append(wire, inHand) /\ inHand' = NoReport
  BY DEF SenderSend, TypeOK
<1>2. /\ wire' \in Seq(Reports \cup {RegisterMsg})
      /\ Range(wire') = Range(wire) \cup {inHand}
  BY <1>1, RangeAppend
<1>3. dispatched' = dispatched
  BY DEF SenderSend, agentVars
<1>4. TypeOK'
  BY <1>1, <1>2 DEF TypeOK, SenderSend, agentVars, socketVars, backendVars
<1>5. QueuedWasDispatched'
  BY <1>1, <1>2, <1>3, StreamAssumption DEF QueuedWasDispatched, SenderSend, agentVars
<1>6. AckedIsDurable' /\ RetainedUntilDurable'
  BY <1>3 DEF AckedIsDurable, RetainedUntilDurable, SenderSend, agentVars, backendVars
<1> QED
  BY <1>4, <1>5, <1>6

LEMMA ReceiveIInv ==
    ASSUME IInv, Receive
    PROVE  IInv'
<1> USE DEF IInv
<1>1. /\ replies \in Seq(Terminals \cup InitMsgs) /\ replies # <<>>
      /\ inQueue \in Seq(Terminals \cup InitMsgs)
      /\ inQueue' = Append(inQueue, Head(replies)) /\ replies' = Tail(replies)
  BY DEF Receive, TypeOK
<1>2. /\ Head(replies) \in Terminals \cup InitMsgs /\ Head(replies) \in Range(replies)
      /\ replies' \in Seq(Terminals \cup InitMsgs)
      /\ Range(replies') \subseteq Range(replies)
  BY <1>1, RangeHeadTail
<1>3. /\ inQueue' \in Seq(Terminals \cup InitMsgs)
      /\ Range(inQueue') = Range(inQueue) \cup {Head(replies)}
  BY <1>1, <1>2, RangeAppend
<1>4. dispatched' = dispatched
  BY DEF Receive, agentVars
<1>5. TypeOK'
  BY <1>2, <1>3 DEF TypeOK, Receive, agentVars, socketVars, backendVars
<1>6. QueuedWasDispatched' /\ RetainedUntilDurable'
  BY <1>4 DEF QueuedWasDispatched, RetainedUntilDurable, Receive, agentVars, backendVars
<1>7. AckedIsDurable'
  BY <1>2, <1>3 DEF AckedIsDurable, Receive, backendVars
<1> QED
  BY <1>5, <1>6, <1>7

\* A lost socket empties the wire and the sender's hand, and nothing else.
LEMMA LostSocketIInv ==
    ASSUME IInv, Drop \/ SenderFails
    PROVE  IInv'
<1> USE DEF IInv
<1>1. drops < MaxDrops /\ drops' = drops + 1 /\ drops \in 0..MaxDrops
  BY DEF Drop, SenderFails, TypeOK
<1>2. /\ wire' = <<>> /\ replies' = <<>> /\ inHand' = NoReport
      /\ drops' \in 0..MaxDrops /\ connected' \in BOOLEAN /\ over' \in BOOLEAN
      /\ UNCHANGED <<agentVars, sendQueue, inQueue, asking, backendVars>>
  <2>1. drops' \in 0..MaxDrops
    BY <1>1, StreamAssumption
  <2> QED
    BY <2>1, Zenon DEF Drop, SenderFails, TypeOK
<1>3. Range(<<>>) = {}
  BY DEF Range
<1>4. dispatched' = dispatched
  BY <1>2 DEF agentVars
<1>5. TypeOK'
  BY <1>2, EmptySeq DEF TypeOK, agentVars, backendVars
<1>6. QueuedWasDispatched'
  BY <1>2, <1>3, <1>4, StreamAssumption DEF QueuedWasDispatched, agentVars
<1>7. AckedIsDurable' /\ RetainedUntilDurable'
  BY <1>2, <1>3, <1>4 DEF AckedIsDurable, RetainedUntilDurable, agentVars, backendVars
<1> QED
  BY <1>5, <1>6, <1>7

\* The backend takes the first message off the wire.
LEMMA WireHeadTail ==
    ASSUME TypeOK, wire # <<>>, wire' = Tail(wire)
    PROVE  /\ Head(wire) \in Range(wire) /\ Range(wire') \subseteq Range(wire)
           /\ wire' \in Seq(Reports \cup {RegisterMsg})
  BY RangeHeadTail DEF TypeOK

LEMMA BackendRegisterIInv ==
    ASSUME IInv, BackendRegister
    PROVE  IInv'
<1> USE DEF IInv
<1>1. PICK s \in Inquiries :
        /\ \A t \in Range(s) : MayAsk(t)
        /\ asks' = [t \in Tasks |-> IF t \in Range(s) THEN asks[t] + 1 ELSE asks[t]]
        /\ replies' = Append(replies, [inquiries |-> s])
  BY DEF BackendRegister
<1> DEFINE m == [inquiries |-> s]
<1>2. /\ wire # <<>> /\ wire' = Tail(wire) /\ replies' = Append(replies, m)
      /\ replies \in Seq(Terminals \cup InitMsgs) /\ m \in InitMsgs
  BY <1>1 DEF BackendRegister, TypeOK, InitMsgs
<1>3. asks' \in [Tasks -> 0..MaxAsks]
  <2>1. asks \in [Tasks -> 0..MaxAsks]
    BY DEF TypeOK
  <2>2. \A t \in Range(s) : asks[t] < MaxAsks
    BY <1>1 DEF MayAsk
  <2> QED
    BY <1>1, <2>1, <2>2, StreamAssumption
<1> HIDE DEF m
<1>4. /\ replies' \in Seq(Terminals \cup InitMsgs)
      /\ Range(replies') = Range(replies) \cup {m}
  BY <1>2, RangeAppend
<1>5. dispatched' = dispatched
  BY DEF BackendRegister, agentVars
<1>6. TypeOK'
  BY <1>2, <1>4, <1>3, WireHeadTail DEF TypeOK, BackendRegister, agentVars, socketVars
<1>7. QueuedWasDispatched'
  BY <1>2, <1>5, WireHeadTail DEF QueuedWasDispatched, BackendRegister, agentVars
<1>8. AckedIsDurable'
  BY <1>2, <1>4, StreamAssumption DEF AckedIsDurable, BackendRegister
<1>9. RetainedUntilDurable'
  BY <1>5 DEF RetainedUntilDurable, BackendRegister, agentVars
<1> QED
  BY <1>6, <1>7, <1>8, <1>9

LEMMA BackendTerminalIInv ==
    ASSUME IInv, BackendTerminal
    PROVE  IInv'
<1> USE DEF IInv
<1>1. /\ wire # <<>> /\ wire' = Tail(wire) /\ Head(wire) \in Terminals
      /\ replies' = Append(replies, Head(wire))
      /\ durable' = durable \cup {Head(wire)}
      /\ replies \in Seq(Terminals \cup InitMsgs)
      /\ Head(wire) \in Terminals \cup InitMsgs
  BY DEF BackendTerminal, TypeOK
<1>2. /\ replies' \in Seq(Terminals \cup InitMsgs)
      /\ Range(replies') = Range(replies) \cup {Head(wire)}
  BY <1>1, RangeAppend
<1>3. dispatched' = dispatched
  BY DEF BackendTerminal, agentVars
<1>4. TypeOK'
  BY <1>1, <1>2, WireHeadTail DEF TypeOK, BackendTerminal, agentVars, socketVars
<1>5. QueuedWasDispatched'
  BY <1>1, <1>3, WireHeadTail DEF QueuedWasDispatched, BackendTerminal, agentVars
<1>6. AckedIsDurable'
  BY <1>1, <1>2 DEF AckedIsDurable, BackendTerminal
<1>7. RetainedUntilDurable'
  BY <1>1, <1>3 DEF RetainedUntilDurable, BackendTerminal, agentVars
<1> QED
  BY <1>4, <1>5, <1>6, <1>7

LEMMA BackendOtherIInv ==
    ASSUME IInv, BackendOther
    PROVE  IInv'
<1> USE DEF IInv
<1>1. /\ wire # <<>> /\ wire' = Tail(wire) /\ Head(wire) \in Reports
      /\ arrived' = arrived \cup {Head(wire)}
  BY DEF BackendOther
<1>2. dispatched' = dispatched
  BY DEF BackendOther, agentVars
<1>3. TypeOK'
  BY <1>1, WireHeadTail DEF TypeOK, BackendOther, agentVars, socketVars
<1>4. QueuedWasDispatched'
  BY <1>1, <1>2, WireHeadTail DEF QueuedWasDispatched, BackendOther, agentVars
<1>5. AckedIsDurable' /\ RetainedUntilDurable'
  BY <1>2 DEF AckedIsDurable, RetainedUntilDurable, BackendOther, agentVars
<1> QED
  BY <1>3, <1>4, <1>5

\* A step that changes nothing keeps the invariant.
LEMMA StutterIInv == IInv /\ UNCHANGED vars => IInv'
  BY DEF IInv, TypeOK, QueuedWasDispatched, AckedIsDurable, RetainedUntilDurable,
         vars, agentVars, socketVars, backendVars

\* Every step keeps the invariant.
LEMMA NextIInv == IInv /\ [Next]_vars => IInv'
<1> SUFFICES ASSUME IInv, [Next]_vars PROVE IInv'
  OBVIOUS
<1>1. ASSUME NEW r \in Reports, Dispatch(r) PROVE IInv'
  BY <1>1, DispatchIInv
<1>2. ASSUME NEW r \in Answers, AnswerInquiry(r) PROVE IInv'
  BY <1>2, AnswerInquiryIInv
<1>3. CASE ProcessInit
  BY <1>3, ProcessInitIInv
<1>4. CASE ProcessEventAck
  BY <1>4, ProcessEventAckIInv
<1>5. CASE Connect
  BY <1>5, ConnectIInv
<1>6. CASE SenderTake
  BY <1>6, SenderTakeIInv
<1>7. CASE SenderSend
  BY <1>7, SenderSendIInv
<1>8. CASE Receive
  BY <1>8, ReceiveIInv
<1>9. CASE Drop \/ SenderFails
  BY <1>9, LostSocketIInv
<1>10. CASE BackendRegister
  BY <1>10, BackendRegisterIInv
<1>11. CASE BackendTerminal
  BY <1>11, BackendTerminalIInv
<1>12. CASE BackendOther
  BY <1>12, BackendOtherIInv
<1>13. CASE UNCHANGED vars
  BY <1>13, StutterIInv
<1> QED
  BY <1>1, <1>3, <1>4, <1>5, <1>6, <1>7, <1>8, <1>9, <1>10, <1>11, <1>12, <1>13,
     <1>2
  DEF Next

\* The invariant holds in every state the stream reaches.
THEOREM StreamInvariant == Spec => []IInv
  BY InitIInv, NextIInv, PTL DEF Spec

-----------------------------------------------------------------------------
(* The results. *)

\* Every variable keeps its type, and no report is ever retained twice.
THEOREM StreamTypeOK == Spec => []TypeOK
<1>1. IInv => TypeOK
  BY DEF IInv
<1> QED
  BY <1>1, StreamInvariant, PTL

\* A terminal report is durable or still retained, however many sockets were
\* lost since _adispatch numbered it.
THEOREM TerminalsRetained == Spec => []RetainedUntilDurable
<1>1. IInv => RetainedUntilDurable
  BY DEF IInv
<1> QED
  BY <1>1, StreamInvariant, PTL

-----------------------------------------------------------------------------
(* Nothing of a task arrives after its end. *)

\* r, which a task reports on its way, stands behind q, the end of that task.
Late(r, q) ==
    r \in Reports \ (Terminals \cup Answers) /\ q \in Terminals /\ TaskOf[q] = TaskOf[r]

\* No message of T is late behind one of S; no message of s is behind another.
NoneLate(S, T) == \A q \in S, r \in T : ~Late(r, q)
Ordered(s) == \A i, j \in 1..Len(s) : i < j => ~Late(s[j], s[i])

\* The way of a report leads from the send queue over the hand of the sender
\* and the wire to what is durable; nothing on it follows the end of its task.
InOrder ==
    /\ durable \subseteq dispatched
    /\ Ordered(wire) /\ Ordered(sendQueue)
    /\ NoneLate(durable, Range(wire) \cup {inHand} \cup Range(sendQueue))
    /\ NoneLate(Range(wire), {inHand} \cup Range(sendQueue))
    /\ NoneLate({inHand}, Range(sendQueue))

\* An inquiry is answered with an end only if the task was cancelled before,
\* or never came to this agent.
AnsweredIsOver ==
    \A q \in Terminals \cap Answers \cap dispatched :
        TaskOf[q] \in Managed => OwnEnds(TaskOf[q]) # {}

OrderInv == IInv /\ InOrder /\ AnsweredIsOver

\* A message that is not late may join a sequence.
LEMMA AppendOrdered ==
    ASSUME NEW S, NEW s \in Seq(S), NEW e \in S, Ordered(s), NoneLate(Range(s), {e})
    PROVE  Ordered(Append(s, e))
<1>1. /\ Len(s) \in Nat /\ Len(Append(s, e)) = Len(s) + 1
      /\ \A i \in 1..Len(s) : Append(s, e)[i] = s[i] /\ s[i] \in Range(s)
      /\ Append(s, e)[Len(s) + 1] = e
  BY AppendProperties, LenProperties, RangeEquality
<1> DEFINE t == Append(s, e)
<1>2. SUFFICES ASSUME NEW i \in 1..Len(t), NEW j \in 1..Len(t), i < j PROVE ~Late(t[j], t[i])
  BY DEF Ordered
<1>3. i \in 1..Len(s) /\ t[i] = s[i] /\ t[i] \in Range(s)
  BY <1>1, <1>2
<1>4. CASE j = Len(s) + 1
  BY <1>1, <1>3, <1>4 DEF NoneLate
<1>5. CASE j # Len(s) + 1
  <2>1. j \in 1..Len(s) /\ t[j] = s[j]
    BY <1>1, <1>5
  <2> QED
    BY <1>2, <1>3, <2>1 DEF Ordered
<1> QED
  BY <1>4, <1>5

\* Nothing behind the head of an ordered sequence is late.
LEMMA TailOrdered ==
    ASSUME NEW S, NEW s \in Seq(S), s # <<>>, Ordered(s)
    PROVE  Ordered(Tail(s)) /\ NoneLate({Head(s)}, Range(Tail(s)))
<1> DEFINE t == Tail(s)
<1>1. /\ Len(s) \in Nat \ {0} /\ t \in Seq(S) /\ Len(t) = Len(s) - 1 /\ Head(s) = s[1]
      /\ \A i \in 1..Len(t) : t[i] = s[i + 1]
  BY EmptySeq, HeadTailProperties
<1>2. \A i \in 1..Len(t) : i + 1 \in 1..Len(s) /\ 1 < i + 1 /\ 1 \in 1..Len(s)
  BY <1>1
<1>3. Range(t) = {t[i] : i \in 1..Len(t)}
  BY <1>1, RangeEquality
<1> HIDE DEF t
<1>4. Ordered(t)
  BY <1>1, <1>2 DEF Ordered
<1>5. NoneLate({Head(s)}, Range(t))
  BY <1>1, <1>2, <1>3 DEF Ordered, NoneLate
<1> QED
  BY <1>4, <1>5 DEF t

\* Ends of tasks may always be resent: they are never late.
LEMMA EndsOrdered ==
    ASSUME NEW s \in Seq(Reports), NEW t \in Seq(Terminals), Ordered(s)
    PROVE  Ordered(s \o t)
<1> DEFINE u == s \o t
<1>1. t \in Seq(Reports)
  BY StreamAssumption, SeqMonotonic, Zenon
<1>2. /\ Len(s) \in Nat /\ Len(t) \in Nat /\ Len(u) = Len(s) + Len(t)
      /\ \A i \in 1..Len(u) : u[i] = IF i <= Len(s) THEN s[i] ELSE t[i - Len(s)]
  BY <1>1, ConcatProperties, LenProperties
<1>3. \A i \in 1..Len(t) : t[i] \in Terminals
  BY ElementOfSeq
<1> HIDE DEF u
<1>4. SUFFICES ASSUME NEW i \in 1..Len(u), NEW j \in 1..Len(u), i < j PROVE ~Late(u[j], u[i])
  BY DEF Ordered, u
<1>5. CASE j <= Len(s)
  <2>1. /\ i \in 1..Len(s) /\ j \in 1..Len(s) /\ u[i] = s[i] /\ u[j] = s[j]
    BY <1>2, <1>4, <1>5
  <2> QED
    BY <1>4, <2>1 DEF Ordered
<1>6. CASE ~(j <= Len(s))
  <2>1. j - Len(s) \in 1..Len(t) /\ u[j] = t[j - Len(s)]
    BY <1>2, <1>4, <1>6
  <2> QED
    BY <1>3, <2>1 DEF Late
<1> QED
  BY <1>5, <1>6

\* Nothing is on its way at first.
LEMMA InitOrder == Init => InOrder /\ AnsweredIsOver
<1> SUFFICES ASSUME Init PROVE InOrder /\ AnsweredIsOver
  OBVIOUS
<1>1. Range(<<>>) = {} /\ Len(<<>>) = 0
  BY EmptySeq DEF Range
<1> QED
  BY <1>1, StreamAssumption DEF Init, InOrder, AnsweredIsOver, Ordered, NoneLate, Late

\* A report that is not late behind what was dispatched may join the send
\* queue, whoever calls _adispatch.
LEMMA AdispatchOrder ==
    ASSUME OrderInv, NEW r \in Reports, Adispatch(r), \A q \in dispatched : ~Late(r, q),
           UNCHANGED <<inHand, wire, durable>>
    PROVE  InOrder'
<1> USE DEF OrderInv, InOrder
<1>1. /\ sendQueue \in Seq(Reports) /\ sendQueue' = Append(sendQueue, r)
      /\ dispatched \subseteq dispatched'
  BY DEF Adispatch, IInv, TypeOK
<1>2. NoneLate(durable \cup Range(wire) \cup {inHand} \cup Range(sendQueue), {r})
  <2>1. \A q \in durable \cup Range(wire) \cup {inHand} \cup Range(sendQueue) :
           q \in Terminals => q \in dispatched
    BY StreamAssumption DEF IInv, QueuedWasDispatched
  <2> QED
    BY <2>1 DEF NoneLate, Late
<1>3. Range(sendQueue') = Range(sendQueue) \cup {r}
  BY <1>1, RangeAppend
<1>4. Ordered(sendQueue')
  BY <1>1, <1>2, AppendOrdered DEF NoneLate
<1> QED
  BY <1>1, <1>2, <1>3, <1>4 DEF NoneLate

\* What a task reports on its way is not late: if the task had ended, its
\* actor would not report it, and an answer would not have ended it before.
LEMMA DispatchOrder ==
    ASSUME OrderInv, NEW r \in Reports, Dispatch(r)
    PROVE  InOrder'
<1>1. ASSUME NEW q \in dispatched, Late(r, q) PROVE FALSE
  <2>1. OwnEnds(TaskOf[r]) = {} /\ TaskOf[r] \in Managed /\ TaskOf[q] = TaskOf[r]
    BY <1>1, StreamAssumption DEF Dispatch, MayDispatch, Late
  <2>2. CASE q \in Answers
    BY <1>1, <2>1, <2>2 DEF OrderInv, AnsweredIsOver, Late
  <2>3. CASE q \notin Answers
    BY <1>1, <2>1, <2>3 DEF OwnEnds, Late
  <2> QED
    BY <2>2, <2>3
<1>2. Adispatch(r) /\ UNCHANGED <<inHand, wire, durable>>
  BY DEF Dispatch, backendVars
<1> QED
  BY <1>1, <1>2, AdispatchOrder

\* An answer to an inquiry is never late by itself.
LEMMA AnswerOrder ==
    ASSUME OrderInv, NEW r \in Answers, AnswerInquiry(r)
    PROVE  InOrder'
<1>1. Adispatch(r) /\ r \in Reports /\ UNCHANGED <<inHand, wire, durable>>
  BY StreamAssumption DEF AnswerInquiry, backendVars
<1>2. \A q \in dispatched : ~Late(r, q)
  BY DEF Late
<1> QED
  BY <1>1, <1>2, AdispatchOrder

\* Only a task that is over is answered with an end.
LEMMA NextAnswered ==
    ASSUME OrderInv, [Next]_vars
    PROVE  AnsweredIsOver'
<1> USE DEF OrderInv
<1>1. ASSUME NEW r \in Answers, AnswerInquiry(r) PROVE AnsweredIsOver'
  <2>1. dispatched' = dispatched \cup {r}
    BY <1>1 DEF AnswerInquiry, Adispatch
  <2>2. ASSUME r \in Terminals, TaskOf[r] \in Managed PROVE OwnEnds(TaskOf[r]) # {}
    <3>1. ~Tracked(TaskOf[r])
      BY <1>1, <2>2, Zenon DEF AnswerInquiry
    <3>2. PICK q \in Untracking \cap dispatched : TaskOf[q] = TaskOf[r]
      BY <2>2, <3>1 DEF Tracked
    <3> QED
      BY <3>2, StreamAssumption DEF OwnEnds
  <2> SUFFICES ASSUME NEW q \in Terminals \cap Answers \cap dispatched', TaskOf[q] \in Managed
               PROVE  OwnEnds(TaskOf[q])' # {}
    BY DEF AnsweredIsOver
  <2>3. OwnEnds(TaskOf[q]) # {}
    BY <2>1, <2>2 DEF AnsweredIsOver
  <2> QED
    BY <2>1, <2>3 DEF OwnEnds
<1>2. ASSUME NEW r \in Reports, Dispatch(r) PROVE AnsweredIsOver'
  <2>1. dispatched' = dispatched \cup {r} /\ r \notin Answers
    BY <1>2 DEF Dispatch, Adispatch, MayDispatch
  <2> QED
    BY <2>1 DEF AnsweredIsOver, OwnEnds
<1>3. CASE dispatched' = dispatched
  BY <1>3 DEF AnsweredIsOver, OwnEnds
<1>4. CASE \/ ProcessInit \/ ProcessEventAck \/ Connect \/ SenderTake \/ SenderSend \/ Receive
           \/ Drop \/ SenderFails \/ BackendRegister \/ BackendTerminal \/ BackendOther
           \/ UNCHANGED vars
  <2>1. dispatched' = dispatched
    BY <1>4 DEF ProcessInit, ProcessEventAck, Connect, SenderTake, SenderSend, Receive, Drop,
                SenderFails, BackendRegister, BackendTerminal, BackendOther, agentVars, vars
  <2> QED
    BY <2>1, <1>3
<1> QED
  BY <1>1, <1>2, <1>4 DEF Next

\* What process(Init) resends are ends, and never late.
LEMMA ResendOrder ==
    ASSUME OrderInv, ProcessInit
    PROVE  InOrder'
<1> USE DEF OrderInv, InOrder
<1>1. /\ sendQueue \in Seq(Reports) /\ sendQueue' = sendQueue \o unackedEvents
      /\ UNCHANGED <<inHand, wire, durable>> /\ dispatched' = dispatched
  BY DEF ProcessInit, Take, IInv, TypeOK, backendVars, agentVars
<1>2. /\ unackedEvents \in Seq(Terminals)
      /\ Range(sendQueue') = Range(sendQueue) \cup Range(unackedEvents)
      /\ Range(unackedEvents) \subseteq Terminals
  BY <1>1, UnackedFacts, RangeConcatenation DEF IInv
<1>3. Ordered(sendQueue')
  BY <1>1, <1>2, EndsOrdered
<1>4. \A q, r : r \in Range(unackedEvents) => ~Late(r, q)
  BY <1>2 DEF Late
<1> QED
  BY <1>1, <1>2, <1>3, <1>4 DEF NoneLate

\* The sender keeps the order in which it takes the queue.
LEMMA SenderOrder ==
    ASSUME OrderInv, SenderTake \/ SenderSend
    PROVE  InOrder'
<1> USE DEF OrderInv, InOrder
<1>1. CASE SenderTake
  <2>1. /\ sendQueue \in Seq(Reports) /\ sendQueue # <<>> /\ inHand' = Head(sendQueue)
        /\ sendQueue' = Tail(sendQueue) /\ UNCHANGED <<wire, durable>>
        /\ dispatched' = dispatched
    BY <1>1 DEF SenderTake, IInv, TypeOK, backendVars, agentVars
  <2>2. Head(sendQueue) \in Range(sendQueue) /\ Range(Tail(sendQueue)) \subseteq Range(sendQueue)
    BY <2>1, RangeHeadTail
  <2>3. Ordered(Tail(sendQueue)) /\ NoneLate({Head(sendQueue)}, Range(Tail(sendQueue)))
    BY <2>1, TailOrdered
  <2> QED
    BY <2>1, <2>2, <2>3 DEF NoneLate
<1>2. CASE SenderSend
  <2>1. /\ wire \in Seq(Reports \cup {RegisterMsg}) /\ inHand \in Reports \cup {RegisterMsg}
        /\ wire' = Append(wire, inHand) /\ inHand' = NoReport
        /\ UNCHANGED <<sendQueue, durable>> /\ dispatched' = dispatched
    BY <1>2 DEF SenderSend, IInv, TypeOK, backendVars, agentVars
  <2>2. Range(wire') = Range(wire) \cup {inHand}
    BY <2>1, RangeAppend
  <2>3. Ordered(wire')
    BY <2>1, AppendOrdered DEF NoneLate
  <2>4. \A q : ~Late(NoReport, q) /\ ~Late(q, NoReport)
    BY StreamAssumption DEF Late
  <2> QED
    BY <2>1, <2>2, <2>3, <2>4 DEF NoneLate
<1> QED
  BY <1>1, <1>2

\* A socket that is lost or opened leaves nothing in front of the queue but
\* what is durable.
LEMMA SocketOrder ==
    ASSUME OrderInv, Connect \/ Drop \/ SenderFails
    PROVE  InOrder'
<1> USE DEF OrderInv, InOrder
<1>1. /\ UNCHANGED <<sendQueue, durable>> /\ dispatched' = dispatched
      /\ wire' = <<RegisterMsg>> \/ wire' = <<>>
      /\ inHand' = inHand \/ inHand' = NoReport
  BY DEF Connect, Drop, SenderFails, agentVars, backendVars
<1>2. Len(wire') <= 1 /\ Len(wire') \in Nat /\ Range(wire') \subseteq {RegisterMsg}
  <2>1. CASE wire' = <<RegisterMsg>>
    BY <2>1 DEF Range
  <2>2. CASE wire' = <<>>
    BY <2>2, EmptySeq DEF Range
  <2> QED
    BY <1>1, <2>1, <2>2
<1>3. Ordered(wire')
  BY <1>2 DEF Ordered
<1>4. /\ \A q : ~Late(NoReport, q) /\ ~Late(q, NoReport)
      /\ \A q : ~Late(RegisterMsg, q) /\ ~Late(q, RegisterMsg)
  BY StreamAssumption DEF Late
<1> QED
  BY <1>1, <1>2, <1>3, <1>4 DEF NoneLate

\* What the backend takes off the wire was in front of all the rest.
LEMMA BackendOrder ==
    ASSUME OrderInv, BackendRegister \/ BackendTerminal \/ BackendOther
    PROVE  InOrder'
<1> USE DEF OrderInv, InOrder
<1>1. /\ wire \in Seq(Reports \cup {RegisterMsg}) /\ wire # <<>> /\ wire' = Tail(wire)
      /\ UNCHANGED <<inHand, sendQueue>> /\ dispatched' = dispatched
      /\ durable' = durable \/ (Head(wire) \in Terminals /\ durable' = durable \cup {Head(wire)})
  BY DEF BackendRegister, BackendTerminal, BackendOther, IInv, TypeOK, agentVars, backendVars
<1>2. Head(wire) \in Range(wire) /\ Range(wire') \subseteq Range(wire)
  BY <1>1, RangeHeadTail
<1>3. Ordered(wire') /\ NoneLate({Head(wire)}, Range(wire'))
  BY <1>1, TailOrdered
<1>4. Head(wire) \in Terminals => Head(wire) \in dispatched
  BY <1>2, StreamAssumption DEF IInv, QueuedWasDispatched
<1> QED
  BY <1>1, <1>2, <1>3, <1>4 DEF NoneLate

\* Every step keeps the order.
LEMMA NextOrder == OrderInv /\ [Next]_vars => OrderInv'
<1> SUFFICES ASSUME OrderInv, [Next]_vars PROVE InOrder'
  BY NextIInv, NextAnswered DEF OrderInv
<1>1. ASSUME NEW r \in Reports, Dispatch(r) PROVE InOrder'
  BY <1>1, DispatchOrder
<1>2. ASSUME NEW r \in Answers, AnswerInquiry(r) PROVE InOrder'
  BY <1>2, AnswerOrder
<1>3. CASE ProcessInit
  BY <1>3, ResendOrder
<1>4. CASE SenderTake \/ SenderSend
  BY <1>4, SenderOrder
<1>5. CASE Connect \/ Drop \/ SenderFails
  BY <1>5, SocketOrder
<1>6. CASE BackendRegister \/ BackendTerminal \/ BackendOther
  BY <1>6, BackendOrder
<1>7. CASE ProcessEventAck \/ Receive \/ UNCHANGED vars
  <2>1. UNCHANGED <<dispatched, sendQueue, inHand, wire, durable>>
    BY <1>7 DEF ProcessEventAck, Take, Receive, vars, agentVars, backendVars
  <2> QED
    BY <2>1 DEF OrderInv, InOrder, NoneLate, Ordered
<1> QED
  BY <1>1, <1>3, <1>4, <1>5, <1>6, <1>7, <1>2 DEF Next

\* A report arrives in front of the end of its task, or not at all.
LEMMA ArrivesInOrder ==
    ASSUME OrderInv, [Next]_vars
    PROVE  \A r \in (arrived' \ arrived) \ Answers :
              \A q \in durable : TaskOf[q] # TaskOf[r]
<1>1. CASE BackendOther
  <2>1. /\ wire # <<>> /\ Head(wire) \in Reports \ Terminals /\ wire \in Seq(Reports \cup {RegisterMsg})
        /\ arrived' = arrived \cup {Head(wire)} /\ durable \subseteq Terminals
    BY <1>1 DEF BackendOther, OrderInv, IInv, TypeOK
  <2>2. Head(wire) \in Range(wire)
    BY <2>1, RangeHeadTail
  <2> QED
    BY <2>1, <2>2 DEF OrderInv, InOrder, NoneLate, Late
<1>2. CASE ~BackendOther
  <2>1. arrived' = arrived
    BY <1>2 DEF Next, Dispatch, AnswerInquiry, ProcessInit, ProcessEventAck, Take, Connect, SenderTake, SenderSend,
                Receive, Drop, SenderFails, BackendRegister, BackendTerminal, backendVars, vars
  <2> QED
    BY <2>1
<1> QED
  BY <1>1, <1>2

\* The backend never receives what a task reported on its way once it has
\* recorded an end of that task, however often the socket was lost, the ends
\* were resent and inquiries were answered.
THEOREM NothingFollowsTheEnd == Spec => NothingAfterTheEnd
<1>1. Spec => []OrderInv
  BY InitIInv, InitOrder, NextOrder, PTL DEF Spec, OrderInv
<1> QED
  BY <1>1, ArrivesInOrder, PTL DEF Spec, NothingAfterTheEnd

-----------------------------------------------------------------------------
(* The stream implements the persist-then-ack ledger. *)

\* What the ledger sees of the stream.
LReported == Terminals \cap dispatched
LForgotten == LReported \ Range(unackedEvents)

\* Nothing is reported, durable or forgotten at first.
LEMMA LedgerInit == Init => Ledger!Init
  BY DEF Init, Ledger!Init

\* _adispatch of a terminal report makes it, and does not forget it; any
\* other is invisible to the ledger.
LEMMA DispatchReports ==
    ASSUME IInv, NEW r \in Reports, r \notin dispatched, Adispatch(r), durable' = durable
    PROVE  IF r \in Terminals THEN Ledger!Report(r) ELSE UNCHANGED Ledger!ledger
<1> USE DEF IInv
<1>1. dispatched' = dispatched \cup {r} /\ r \notin dispatched
  BY DEF Adispatch
<1>2. CASE r \in Terminals
  <2>1. Range(unackedEvents') = Range(unackedEvents) \cup {r}
    BY <1>2, UnackedFacts, RangeAppend DEF Adispatch
  <2>2. LReported' = LReported \cup {r} /\ r \notin LReported
    BY <1>1, <1>2 DEF LReported
  <2>3. LForgotten' = LForgotten
    BY <2>1, <2>2 DEF LForgotten
  <2> QED
    BY <1>2, <2>2, <2>3 DEF Ledger!Report, LReported, LForgotten
<1>3. CASE r \notin Terminals
  <2>1. unackedEvents' = unackedEvents
    BY <1>3 DEF Adispatch
  <2>2. LReported' = LReported
    BY <1>1, <1>3 DEF LReported
  <2> QED
    BY <1>3, <2>1, <2>2 DEF Ledger!ledger, LReported
<1> QED
  BY <1>2, <1>3

\* An acknowledgement forgets the report it names, which is durable; one that
\* was already forgotten changes nothing.
LEMMA EventAckForgets ==
    ASSUME IInv, ProcessEventAck
    PROVE  Ledger!Forget(Head(inQueue)) \/ UNCHANGED Ledger!ledger
<1> USE DEF IInv
<1> DEFINE r == Head(inQueue)
<1>1. /\ r \in durable
      /\ Range(unackedEvents') = Range(unackedEvents) \ {r}
  BY ProcessEventAckFacts
<1>2. dispatched' = dispatched /\ durable' = durable
  BY DEF ProcessEventAck, Take, backendVars
<1>3. LReported' = LReported
  BY <1>2 DEF LReported
<1> HIDE DEF r
<1>4. CASE r \in Range(unackedEvents)
  <2>1. r \in LReported
    BY <1>4, UnackedFacts, StreamAssumption DEF QueuedWasDispatched, LReported
  <2>2. r \notin LForgotten /\ LForgotten' = LForgotten \cup {r}
    BY <1>1, <1>3, <1>4, <2>1 DEF LForgotten
  <2> QED
    BY <1>1, <1>2, <1>3, <2>2 DEF Ledger!Forget, LReported, LForgotten, r
<1>5. CASE r \notin Range(unackedEvents)
  <2>1. LForgotten' = LForgotten
    BY <1>1, <1>3, <1>5 DEF LForgotten
  <2> QED
    BY <1>2, <1>3, <2>1 DEF Ledger!ledger, LReported, LForgotten
<1> QED
  BY <1>4, <1>5

\* The backend persists only what the agent reported.
LEMMA BackendPersists ==
    ASSUME IInv, BackendTerminal
    PROVE  Head(wire) \in Terminals /\ Ledger!Persist(Head(wire))
<1> USE DEF IInv
<1>1. /\ wire # <<>> /\ wire' = Tail(wire) /\ Head(wire) \in Terminals
      /\ durable' = durable \cup {Head(wire)}
      /\ UNCHANGED agentVars
  BY DEF BackendTerminal
<1>2. Head(wire) \in dispatched
  BY <1>1, WireHeadTail, StreamAssumption DEF QueuedWasDispatched
<1>3. dispatched' = dispatched /\ unackedEvents' = unackedEvents
  BY <1>1 DEF agentVars
<1> QED
  BY <1>1, <1>2, <1>3 DEF Ledger!Persist

\* The remaining steps do not touch what the ledger sees.
LEMMA OthersStutter ==
    ASSUME UNCHANGED <<agentVars, durable>>
    PROVE  UNCHANGED Ledger!ledger
  BY DEF agentVars, Ledger!ledger

\* Every step of the stream is a step of the ledger or a stutter.
LEMMA LedgerStep == IInv /\ [Next]_vars => [Ledger!Next]_(Ledger!ledger)
<1> SUFFICES ASSUME IInv, [Next]_vars PROVE [Ledger!Next]_(Ledger!ledger)
  OBVIOUS
<1>1. ASSUME NEW r \in Reports, Dispatch(r) PROVE [Ledger!Next]_(Ledger!ledger)
  <2>1. r \notin dispatched /\ Adispatch(r) /\ durable' = durable
    BY <1>1 DEF Dispatch, MayDispatch, backendVars
  <2> QED
    BY <2>1, DispatchReports DEF Ledger!Next
<1>2. ASSUME NEW r \in Answers, AnswerInquiry(r) PROVE [Ledger!Next]_(Ledger!ledger)
  <2>1. r \in Reports /\ r \notin dispatched /\ Adispatch(r) /\ durable' = durable
    BY <1>2, StreamAssumption DEF AnswerInquiry, backendVars
  <2> QED
    BY <2>1, DispatchReports DEF Ledger!Next
<1>3. CASE ProcessEventAck
  <2>1. Head(inQueue) \in Terminals
    BY <1>3, ProcessEventAckFacts DEF IInv, TypeOK
  <2> QED
    BY <1>3, <2>1, EventAckForgets DEF Ledger!Next
<1>4. CASE BackendTerminal
  BY <1>4, BackendPersists DEF Ledger!Next
<1>5. CASE \/ ProcessInit \/ Connect \/ SenderTake \/ SenderSend \/ Receive \/ Drop
           \/ SenderFails \/ BackendRegister \/ BackendOther \/ UNCHANGED vars
  <2>1. UNCHANGED <<agentVars, durable>>
    BY <1>5 DEF ProcessInit, Take, Connect, SenderTake, SenderSend, Receive, Drop,
                SenderFails, BackendRegister, BackendOther, backendVars, vars
  <2> QED
    BY <2>1, OthersStutter
<1> QED
  BY <1>1, <1>3, <1>4, <1>5, <1>2 DEF Next

\* The report stream, with all its queues, drops and resends, implements
\* TerminalLedger: no report is forgotten before it is durable.
THEOREM StreamImplementsLedger == Spec => ImplementsLedger
  BY LedgerInit, LedgerStep, StreamInvariant, PTL DEF Spec, ImplementsLedger, Ledger!Spec

=============================================================================
