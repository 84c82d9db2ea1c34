------------------------- MODULE CallerPostmanProofs -------------------------
(***************************************************************************)
(* Proofs about CallerPostman for any calls, any number of yields and any  *)
(* losses: it implements Delegation, and a call that has come to its end   *)
(* leaves nothing in the tables.                                           *)
(***************************************************************************)
EXTENDS CallerPostman, SequenceLemmas

-----------------------------------------------------------------------------
(* The inductive invariant. *)

Requests == [type : {"assign", "cancel", "interrupt"}, call : Calls]

AssignOf(r, c) == r.type = "assign" /\ r.call = c
ResponseTo(e, c) == e.type = "response" /\ e.call = c

\* A call is requested once, before the backend has done anything about it.
RequestOK(c) ==
    /\ \A i \in 1..Len(toBackend) : AssignOf(toBackend[i], c) =>
          phase[c] # "idle" /\ remote[c] = "none" /\ c \notin responded
    /\ \A i, j \in 1..Len(toBackend) :
          AssignOf(toBackend[i], c) /\ AssignOf(toBackend[j], c) => i = j

\* It is answered once, truly, and reads the answer before anything else.
ResponseOK(c) ==
    /\ \A i \in 1..Len(toAgent) : ResponseTo(toAgent[i], c) =>
          /\ c \in responded /\ response[c] \in {"none", "pending"}
          /\ phase[c] \in {"requested", "over"}
          /\ toAgent[i].kind = "assigned" <=> remote[c] # "none"
    /\ \A i, j \in 1..Len(toAgent) :
          ResponseTo(toAgent[i], c) /\ ResponseTo(toAgent[j], c) => i = j
    /\ response[c] \in {"assigned", "refused"} =>
          c \in responded /\ (response[c] = "assigned" <=> remote[c] # "none")
    /\ phase[c] \notin {"idle", "requested", "over"} => response[c] = "assigned"

\* The tables hold its own mirrors; a task that was never created has none.
TableOK(c) ==
    /\ \A i \in 1..Len(queue[c]) : EventOf(queue[c][i], c)
    /\ \A i \in 1..Len(orphans[c]) : EventOf(orphans[c][i], c)
    /\ remote[c] = "none" =>
          /\ c \notin queues /\ orphans[c] = <<>> /\ yielded[c] = 0
          /\ \A i \in 1..Len(toAgent) : ~EventOf(toAgent[i], c)
    /\ phase[c] = "idle" => remote[c] = "none" /\ c \notin responded /\ response[c] = "none"

\* The caller still listens.
Listening(c) == phase[c] \in {"idle", "requested", "streaming", "consuming"}

ToldOK(c) ==
    /\ Listening(c) => told[c] = "nothing"
    /\ phase[c] \in {"confirming", "escalated"} => told[c] = "cancelled"

\* The way of the mirrors of a call: its queue, its orphans, the socket.
Pipe(c) == (queue[c] \o orphans[c]) \o toAgent

\* They are in order, and whole while the caller listens and nothing was lost.
Flows(c) ==
    /\ D!Last(c) \in Nat /\ D!Last(c) <= yielded[c]
    /\ InStream(Pipe(c), c, D!Last(c), yielded[c], remote[c])
    /\ Listening(c) /\ lost = 0 => Whole(Pipe(c), c, D!Last(c), yielded[c])

\* Nothing is on its way any more to a call that has been told an end.
EndOK(c) ==
    told[c] \in {"completed", "critical", "refused"} =>
        /\ phase[c] \in {"closing", "over"} /\ c \in responded
        /\ \A i \in 1..Len(toAgent) : toAgent[i].call # c
        /\ IF told[c] = "refused" THEN phase[c] = "over" /\ remote[c] = "none"
           ELSE remote[c] \in Ends
        /\ phase[c] = "over" =>
              /\ response[c] = "none" /\ c \notin queues
              /\ queue[c] = <<>> /\ orphans[c] = <<>>

CallOK(c) ==
    /\ RequestOK(c)
    /\ ResponseOK(c)
    /\ TableOK(c)
    /\ ToldOK(c)
    /\ Flows(c)
    /\ EndOK(c)

PostmanTypeOK == TypeOK /\ yielded \in [Calls -> Nat]

IInv == PostmanTypeOK /\ \A c \in Calls : CallOK(c)

-----------------------------------------------------------------------------
(* What a step of other calls does to one. *)

\* Nothing of call c changes but what is on its way.
Untouched(c) ==
    /\ phase'[c] = phase[c] /\ response'[c] = response[c]
    /\ queue'[c] = queue[c] /\ orphans'[c] = orphans[c]
    /\ seen'[c] = seen[c] /\ told'[c] = told[c]
    /\ remote'[c] = remote[c] /\ yielded'[c] = yielded[c]
    /\ c \in queues' <=> c \in queues
    /\ c \in responded' <=> c \in responded

\* The first request is taken or lost, or one that is not c's is sent.
RequestStep(c) ==
    \/ toBackend' = toBackend
    \/ toBackend # <<>> /\ toBackend' = Tail(toBackend)
    \/ \E r \in Requests : ~AssignOf(r, c) /\ toBackend' = Append(toBackend, r)

\* The first message, which is no event of c, is read, a message is lost, or one
\* that is not c's is sent.
WireStep(c) ==
    \/ toAgent' = toAgent /\ lost' \in {lost, lost + 1}
    \/ /\ toAgent # <<>> /\ toAgent' = Tail(toAgent)
       /\ ~EventOf(Head(toAgent), c) /\ lost' = lost
    \/ toAgent # <<>> /\ toAgent' = Tail(toAgent) /\ lost' = lost + 1
    \/ /\ lost' = lost
       /\ \E e \in Message : e.call # c /\ toAgent' = Append(toAgent, e)

LEMMA PipeFacts ==
    ASSUME TypeOK, NEW c \in Calls
    PROVE  /\ queue[c] \in Seq(Message) /\ orphans[c] \in Seq(Message) /\ toAgent \in Seq(Message)
           /\ queue[c] \o orphans[c] \in Seq(Message)
           /\ Pipe(c) \in Seq(Message)
<1>1. queue[c] \in Seq(Message) /\ orphans[c] \in Seq(Message) /\ toAgent \in Seq(Message)
  BY DEF TypeOK
<1>2. queue[c] \o orphans[c] \in Seq(Message)
  BY <1>1, ConcatProperties
<1>3. (queue[c] \o orphans[c]) \o toAgent \in Seq(Message)
  BY <1>1, <1>2, ConcatProperties
<1> QED
  BY <1>1, <1>2, <1>3 DEF Pipe

\* A message leaves the socket.
LEMMA WireHead ==
    ASSUME TypeOK, toAgent # <<>>
    PROVE  /\ Head(toAgent) \in Message /\ Head(toAgent) = toAgent[1] /\ 1 \in 1..Len(toAgent)
           /\ Tail(toAgent) \in Seq(Message)
           /\ \A i \in 1..Len(Tail(toAgent)) :
                 i + 1 \in 1..Len(toAgent) /\ Tail(toAgent)[i] = toAgent[i + 1]
<1>1. toAgent \in Seq(Message)
  BY DEF TypeOK
<1>2. /\ Len(toAgent) \in Nat \ {0} /\ Head(toAgent) \in Message /\ Head(toAgent) = toAgent[1]
      /\ Tail(toAgent) \in Seq(Message) /\ Len(Tail(toAgent)) = Len(toAgent) - 1
      /\ \A i \in 1..Len(Tail(toAgent)) : Tail(toAgent)[i] = toAgent[i + 1]
  BY <1>1, EmptySeq, HeadTailProperties
<1> QED
  BY <1>2

\* A request leaves for the backend.
LEMMA RequestHead ==
    ASSUME TypeOK, toBackend # <<>>
    PROVE  /\ Head(toBackend) \in Requests /\ Head(toBackend) = toBackend[1]
           /\ 1 \in 1..Len(toBackend)
           /\ Tail(toBackend) \in Seq(Requests)
           /\ \A i \in 1..Len(Tail(toBackend)) :
                 i + 1 \in 1..Len(toBackend) /\ Tail(toBackend)[i] = toBackend[i + 1]
<1>1. toBackend \in Seq(Requests)
  BY DEF TypeOK, Requests
<1>2. /\ Len(toBackend) \in Nat \ {0} /\ Head(toBackend) \in Requests
      /\ Head(toBackend) = toBackend[1]
      /\ Tail(toBackend) \in Seq(Requests) /\ Len(Tail(toBackend)) = Len(toBackend) - 1
      /\ \A i \in 1..Len(Tail(toBackend)) : Tail(toBackend)[i] = toBackend[i + 1]
  BY <1>1, EmptySeq, HeadTailProperties
<1> QED
  BY <1>2

\* Requests and messages stay what they are.
LEMMA StepTypes ==
    ASSUME TypeOK, NEW c \in Calls
    PROVE  /\ RequestStep(c) => toBackend' \in Seq(Requests)
           /\ WireStep(c) => toAgent' \in Seq(Message)
<1>1. toBackend \in Seq(Requests) /\ toAgent \in Seq(Message)
  BY DEF TypeOK, Requests
<1>2. ASSUME RequestStep(c) PROVE toBackend' \in Seq(Requests)
  <2>1. CASE \E r \in Requests : ~AssignOf(r, c) /\ toBackend' = Append(toBackend, r)
    BY <1>1, <2>1, AppendProperties
  <2> QED
    BY <1>1, <1>2, <2>1, RequestHead DEF RequestStep
<1>3. ASSUME WireStep(c) PROVE toAgent' \in Seq(Message)
  <2>1. CASE \E e \in Message : e.call # c /\ toAgent' = Append(toAgent, e)
    BY <1>1, <2>1, AppendProperties
  <2> QED
    BY <1>1, <1>3, <2>1, WireHead DEF WireStep
<1> QED
  BY <1>2, <1>3

\* No request of c is added.
LEMMA RequestsShift ==
    ASSUME TypeOK, NEW c \in Calls, RequestStep(c)
    PROVE  \E k \in {0, 1} : \A i \in 1..Len(toBackend') :
              AssignOf(toBackend'[i], c) =>
                 i + k \in 1..Len(toBackend) /\ toBackend[i + k] = toBackend'[i]
<1>1. toBackend \in Seq(Requests) /\ Len(toBackend) \in Nat
  BY DEF TypeOK, Requests
<1>2. CASE toBackend' = toBackend
  <2>1. \A i \in 1..Len(toBackend') : i + 0 = i
    BY <1>1, <1>2
  <2> QED
    BY <1>2, <2>1
<1>3. CASE toBackend # <<>> /\ toBackend' = Tail(toBackend)
  BY <1>3, RequestHead
<1>4. CASE \E r \in Requests : ~AssignOf(r, c) /\ toBackend' = Append(toBackend, r)
  <2>1. PICK r \in Requests : ~AssignOf(r, c) /\ toBackend' = Append(toBackend, r)
    BY <1>4
  <2>2. /\ Len(toBackend') = Len(toBackend) + 1
        /\ \A i \in 1..Len(toBackend) : toBackend'[i] = toBackend[i]
        /\ toBackend'[Len(toBackend) + 1] = r
    BY <1>1, <2>1, AppendProperties
  <2>3. \A i \in 1..Len(toBackend') : i \in 1..Len(toBackend) \/ i = Len(toBackend) + 1
    BY <1>1, <2>2
  <2>4. \A i \in 1..Len(toBackend') : AssignOf(toBackend'[i], c) =>
            i + 0 \in 1..Len(toBackend) /\ toBackend[i + 0] = toBackend'[i]
    BY <1>1, <2>1, <2>2, <2>3
  <2> QED
    BY <2>4
<1> QED
  BY <1>2, <1>3, <1>4 DEF RequestStep

\* No message of c is added.
LEMMA MessagesShift ==
    ASSUME TypeOK, NEW c \in Calls, WireStep(c)
    PROVE  \E k \in {0, 1} : \A i \in 1..Len(toAgent') :
              toAgent'[i].call = c =>
                 i + k \in 1..Len(toAgent) /\ toAgent[i + k] = toAgent'[i]
<1>1. toAgent \in Seq(Message) /\ Len(toAgent) \in Nat
  BY DEF TypeOK
<1>2. CASE toAgent' = toAgent
  <2>1. \A i \in 1..Len(toAgent') : i + 0 = i
    BY <1>1, <1>2
  <2> QED
    BY <1>2, <2>1
<1>3. CASE toAgent # <<>> /\ toAgent' = Tail(toAgent)
  BY <1>3, WireHead
<1>4. CASE \E e \in Message : e.call # c /\ toAgent' = Append(toAgent, e)
  <2>1. PICK e \in Message : e.call # c /\ toAgent' = Append(toAgent, e)
    BY <1>4
  <2>2. /\ Len(toAgent') = Len(toAgent) + 1
        /\ \A i \in 1..Len(toAgent) : toAgent'[i] = toAgent[i]
        /\ toAgent'[Len(toAgent) + 1] = e
    BY <1>1, <2>1, AppendProperties
  <2>3. \A i \in 1..Len(toAgent') : i \in 1..Len(toAgent) \/ i = Len(toAgent) + 1
    BY <1>1, <2>2
  <2>4. \A i \in 1..Len(toAgent') : toAgent'[i].call = c =>
            i + 0 \in 1..Len(toAgent) /\ toAgent[i + 0] = toAgent'[i]
    BY <1>1, <2>1, <2>2, <2>3
  <2> QED
    BY <2>4
<1> QED
  BY <1>2, <1>3, <1>4 DEF WireStep

\* A call is requested no second time.
LEMMA RequestsStay ==
    ASSUME TypeOK, NEW c \in Calls, RequestOK(c), RequestStep(c),
           phase[c] # "idle" => phase'[c] # "idle",
           remote'[c] = remote[c], c \in responded' <=> c \in responded
    PROVE  RequestOK(c)'
<1>1. PICK k \in {0, 1} : \A i \in 1..Len(toBackend') :
          AssignOf(toBackend'[i], c) =>
             i + k \in 1..Len(toBackend) /\ toBackend[i + k] = toBackend'[i]
  BY RequestsShift
<1>2. \A i, j \in 1..Len(toBackend') : i + k = j + k => i = j
  OBVIOUS
<1> QED
  BY <1>1, <1>2 DEF RequestOK

\* A message that is no event of the call is sent behind them.
LEMMA FlowsBeside ==
    ASSUME TypeOK, NEW c \in Calls, Flows(c), NEW e \in Message, ~EventOf(e, c),
           toAgent' = Append(toAgent, e), lost' = lost,
           queue'[c] \o orphans'[c] = queue[c] \o orphans[c],
           seen'[c] = seen[c], yielded'[c] = yielded[c], remote'[c] = remote[c],
           Listening(c)' => Listening(c)
    PROVE  Flows(c)'
<1> DEFINE s == queue[c] \o orphans[c]
<1>1. /\ s \in Seq(Message) /\ toAgent \in Seq(Message) /\ Pipe(c) \in Seq(Message)
      /\ Pipe(c) = s \o toAgent /\ Pipe(c)' = s \o Append(toAgent, e)
      /\ D!Last(c)' = D!Last(c)
  BY PipeFacts DEF Pipe, D!Last
<1> HIDE DEF s
<1>2. Pipe(c)' = Append(Pipe(c), e)
  BY <1>1, AppendSecond
<1>3. /\ InStream(Pipe(c)', c, D!Last(c), yielded[c], remote[c])
      /\ Whole(Pipe(c), c, D!Last(c), yielded[c]) =>
            Whole(Pipe(c)', c, D!Last(c), yielded[c])
  BY <1>1, <1>2, StreamOther DEF Flows
<1> QED
  BY <1>1, <1>3 DEF Flows

\* What is on its way to a call flows on.
LEMMA FlowsStay ==
    ASSUME TypeOK, NEW c \in Calls, Flows(c), WireStep(c),
           queue'[c] \o orphans'[c] = queue[c] \o orphans[c],
           seen'[c] = seen[c], yielded'[c] = yielded[c], remote'[c] = remote[c],
           Listening(c)' => Listening(c)
    PROVE  Flows(c)'
<1> DEFINE s == queue[c] \o orphans[c]
<1>1. /\ s \in Seq(Message) /\ toAgent \in Seq(Message) /\ Pipe(c) \in Seq(Message)
      /\ Pipe(c) = s \o toAgent /\ Pipe(c)' = s \o toAgent'
      /\ D!Last(c)' = D!Last(c) /\ lost \in Nat
  BY PipeFacts DEF Pipe, D!Last, TypeOK
<1> HIDE DEF s
<1>2. CASE toAgent' = toAgent /\ lost' \in {lost, lost + 1}
  BY <1>1, <1>2 DEF Flows
<1>3. CASE toAgent # <<>> /\ toAgent' = Tail(toAgent)
           /\ ((~EventOf(Head(toAgent), c) /\ lost' = lost) \/ lost' = lost + 1)
  <2>1. /\ Len(s) + 1 \in 1..Len(Pipe(c)) /\ Pipe(c)[Len(s) + 1] = Head(toAgent)
        /\ Pipe(c)' = RemoveAt(Pipe(c), Len(s) + 1)
    BY <1>1, <1>3, SkipHead
  <2>2. /\ InStream(Pipe(c)', c, D!Last(c), yielded[c], remote[c])
        /\ ~EventOf(Head(toAgent), c) /\ Whole(Pipe(c), c, D!Last(c), yielded[c]) =>
              Whole(Pipe(c)', c, D!Last(c), yielded[c])
    BY <1>1, <2>1, StreamRemove DEF Flows
  <2> QED
    BY <1>1, <1>3, <2>2 DEF Flows
<1>4. CASE lost' = lost /\ \E e \in Message : e.call # c /\ toAgent' = Append(toAgent, e)
  BY <1>4, FlowsBeside DEF EventOf
<1> QED
  BY <1>2, <1>3, <1>4 DEF WireStep

\* A call whose mirrors were dropped does not listen.
LEMMA FlowsDeaf ==
    ASSUME NEW c \in Calls, Flows(c), seen'[c] = seen[c],
           yielded'[c] = yielded[c], remote'[c] = remote[c],
           InStream(Pipe(c)', c, D!Last(c), yielded[c], remote[c]),
           ~Listening(c)'
    PROVE  Flows(c)'
<1>1. D!Last(c)' = D!Last(c)
  BY DEF D!Last
<1> QED
  BY <1>1 DEF Flows

\* A step of other calls leaves a call as it is.
LEMMA OthersStay ==
    ASSUME TypeOK, NEW c \in Calls, CallOK(c), Untouched(c), RequestStep(c), WireStep(c)
    PROVE  CallOK(c)'
<1>1. PICK k \in {0, 1} : \A i \in 1..Len(toAgent') :
          toAgent'[i].call = c => i + k \in 1..Len(toAgent) /\ toAgent[i + k] = toAgent'[i]
  BY MessagesShift
<1>2. \A i, j \in 1..Len(toAgent') : i + k = j + k => i = j
  OBVIOUS
<1> USE DEF CallOK, Untouched
<1>3. RequestOK(c)'
  BY RequestsStay
<1>4. ResponseOK(c)'
  <2>1. ASSUME NEW i \in 1..Len(toAgent'), ResponseTo(toAgent'[i], c)
        PROVE  i + k \in 1..Len(toAgent) /\ toAgent[i + k] = toAgent'[i]
    BY <1>1, <2>1 DEF ResponseTo
  <2>2. /\ \A i \in 1..Len(toAgent') : ResponseTo(toAgent'[i], c) =>
              /\ c \in responded /\ response[c] \in {"none", "pending"}
              /\ phase[c] \in {"requested", "over"}
              /\ toAgent'[i].kind = "assigned" <=> remote[c] # "none"
    BY <2>1 DEF ResponseOK
  <2>3. \A i, j \in 1..Len(toAgent') :
            ResponseTo(toAgent'[i], c) /\ ResponseTo(toAgent'[j], c) => i = j
    BY <1>2, <2>1 DEF ResponseOK
  <2> QED
    BY <2>2, <2>3 DEF ResponseOK
<1>5. TableOK(c)'
  BY <1>1 DEF TableOK, EventOf
<1>6. ToldOK(c)'
  BY DEF ToldOK, Listening
<1>7. Flows(c)'
  BY FlowsStay DEF Listening
<1>8. EndOK(c)'
  BY <1>1 DEF EndOK
<1> QED
  BY <1>3, <1>4, <1>5, <1>6, <1>7, <1>8

-----------------------------------------------------------------------------
(* The invariant is inductive. *)

\* It is enough to look at the call that takes the step.
LEMMA OneCall ==
    ASSUME IInv, NEW c \in Calls, PostmanTypeOK', CallOK(c)',
           \A d \in Calls \ {c} : Untouched(d) /\ RequestStep(d) /\ WireStep(d)
    PROVE  IInv'
  BY OthersStay DEF IInv, PostmanTypeOK

\* The invariant holds at first.
LEMMA InitIInv == Init => IInv
<1> SUFFICES ASSUME Init PROVE IInv
  OBVIOUS
<1> USE DEF Init
<1>1. /\ Len(<<>>) = 0 /\ <<>> \in Seq(Message) /\ <<>> \in Seq(Nat) /\ <<>> \in Seq(Requests)
      /\ <<>> \o <<>> = <<>>
  BY EmptySeq, ConcatEmptySeq
<1>2. PostmanTypeOK
  BY <1>1, CallerAssumption DEF PostmanTypeOK, TypeOK, Phases, Requests
<1>3. ASSUME NEW c \in Calls PROVE CallOK(c)
  <2>1. /\ queue[c] = <<>> /\ orphans[c] = <<>> /\ phase[c] = "idle" /\ response[c] = "none"
        /\ remote[c] = "none" /\ yielded[c] = 0 /\ told[c] = "nothing" /\ c \notin queues
        /\ c \notin responded /\ Len(toBackend) = 0 /\ Len(toAgent) = 0
        /\ Len(queue[c]) = 0 /\ Len(orphans[c]) = 0
    BY <1>1
  <2>2. RequestOK(c) /\ ResponseOK(c) /\ TableOK(c) /\ ToldOK(c) /\ EndOK(c)
    BY <2>1 DEF RequestOK, ResponseOK, TableOK, ToldOK, EndOK
  <2>3. Pipe(c) = <<>> /\ D!Last(c) = 0
    BY <1>1 DEF Pipe, D!Last
  <2>4. Flows(c)
    BY <1>1, <2>1, <2>3 DEF Flows, InStream, Whole
  <2> QED
    BY <2>2, <2>4 DEF CallOK
<1> QED
  BY <1>2, <1>3 DEF IInv

\* A call sends a CancelRequest or an InterruptRequest, or nothing.
Asks(c) ==
    \/ toBackend' = toBackend
    \/ \E type \in {"cancel", "interrupt"} : toBackend' = Append(toBackend, Request(c, type))

LEMMA AskSteps ==
    ASSUME TypeOK, NEW c \in Calls, Asks(c)
    PROVE  toBackend' \in Seq(Requests) /\ \A d \in Calls : RequestStep(d)
<1>1. ASSUME NEW d \in Calls PROVE RequestStep(d)
  BY DEF Asks, Request, Requests, RequestStep, AssignOf
<1> QED
  BY <1>1, StepTypes

\* The request is sent, once.
LEMMA CallIInv ==
    ASSUME IInv, NEW c \in Calls, Call(c)
    PROVE  IInv'
<1> USE DEF IInv, PostmanTypeOK
<1> DEFINE r == Request(c, "assign")
<1>1. r \in Requests /\ AssignOf(r, c) /\ \A d \in Calls \ {c} : ~AssignOf(r, d)
  BY DEF Request, Requests, AssignOf
<1> HIDE DEF r
<1>2. /\ phase[c] = "idle" /\ phase' \in [Calls -> Phases] /\ phase'[c] = "requested"
      /\ \A d \in Calls \ {c} : phase'[d] = phase[d]
      /\ response' \in [Calls -> {"none", "pending", "assigned", "refused"}]
      /\ response'[c] = "pending" /\ \A d \in Calls \ {c} : response'[d] = response[d]
      /\ toBackend' = Append(toBackend, r) /\ toBackend \in Seq(Requests)
      /\ UNCHANGED <<toAgent, lost, loop, queues, queue, orphans, seen, told, remote, responded,
                     yielded>>
  BY DEF Call, Goto, TypeOK, Phases, Requests, backendVars, r
<1>3. /\ Len(toBackend) \in Nat /\ Len(toBackend') = Len(toBackend) + 1
      /\ \A i \in 1..Len(toBackend) : toBackend'[i] = toBackend[i]
      /\ toBackend'[Len(toBackend) + 1] = r /\ toBackend' \in Seq(Requests)
  BY <1>1, <1>2, AppendProperties
<1>4. PostmanTypeOK'
  BY <1>2, <1>3 DEF TypeOK, Requests
<1>5. CallOK(c) /\ WireStep(c)
  BY <1>2 DEF WireStep
<1>6. CallOK(c)'
  <2>1. \A i \in 1..Len(toBackend') : AssignOf(toBackend'[i], c) => i = Len(toBackend) + 1
    BY <1>2, <1>3, <1>5 DEF CallOK, RequestOK
  <2>2. RequestOK(c)'
    BY <1>2, <1>5, <2>1 DEF CallOK, RequestOK, TableOK
  <2>3. ResponseOK(c)' /\ TableOK(c)'
    BY <1>2, <1>5 DEF CallOK, ResponseOK, TableOK
  <2>4. ToldOK(c)' /\ EndOK(c)'
    BY <1>2, <1>5 DEF CallOK, ToldOK, EndOK, Listening
  <2>5. Flows(c)'
    BY <1>2, <1>5, FlowsStay DEF CallOK, Listening
  <2> QED
    BY <2>2, <2>3, <2>4, <2>5 DEF CallOK
<1>7. \A d \in Calls \ {c} : Untouched(d) /\ RequestStep(d) /\ WireStep(d)
  BY <1>1, <1>2 DEF Untouched, RequestStep, WireStep
<1> QED
  BY <1>4, <1>6, <1>7, OneCall

\* A call that has read its response goes from one wait to another, or closes,
\* and leaves the tables as they are.
LEMMA QuietIInv ==
    ASSUME IInv, NEW c \in Calls,
           NEW p \in {"streaming", "confirming", "escalated", "closing"}, Goto(c, p),
           phase[c] \in {"streaming", "consuming", "confirming"},
           Asks(c), loop' \in Calls \cup {Reading},
           NEW end \in {"nothing", "cancelled", "abandoned"}, told' = [told EXCEPT ![c] = end],
           \/ p = "streaming" /\ Listening(c) /\ end = told[c]
           \/ p \in {"confirming", "escalated"} /\ end = "cancelled"
           \/ p = "closing",
           UNCHANGED <<toAgent, lost, tableVars, seen, backendVars>>
    PROVE  IInv'
<1> USE DEF IInv, PostmanTypeOK, tableVars, backendVars
<1>1. /\ phase' \in [Calls -> Phases] /\ phase'[c] = p
      /\ \A d \in Calls \ {c} : phase'[d] = phase[d]
      /\ told'[c] = end /\ \A d \in Calls \ {c} : told'[d] = told[d]
      /\ told' \in [Calls -> {"nothing", "refused", "completed", "critical", "cancelled",
                              "abandoned"}]
  BY DEF Goto, TypeOK, Phases
<1>2. toBackend' \in Seq(Requests) /\ \A d \in Calls : RequestStep(d)
  BY AskSteps
<1>3. PostmanTypeOK'
  BY <1>1, <1>2 DEF TypeOK, Requests
<1>4. CallOK(c) /\ WireStep(c)
  BY DEF WireStep
<1>5. CallOK(c)'
  <2>1. RequestOK(c)'
    BY <1>1, <1>2, <1>4, RequestsStay DEF CallOK
  <2>2. ResponseOK(c)' /\ TableOK(c)'
    BY <1>1, <1>4 DEF CallOK, ResponseOK, TableOK
  <2>3. ToldOK(c)' /\ EndOK(c)'
    BY <1>1, <1>4 DEF CallOK, ToldOK, EndOK, Listening
  <2>4. Flows(c)'
    <3>1. Listening(c)' => Listening(c)
      BY <1>1 DEF Listening
    <3> QED
      BY <1>4, <3>1, FlowsStay DEF CallOK
  <2> QED
    BY <2>1, <2>2, <2>3, <2>4 DEF CallOK
<1>6. \A d \in Calls \ {c} : Untouched(d) /\ RequestStep(d) /\ WireStep(d)
  BY <1>1, <1>2 DEF Untouched, WireStep
<1> QED
  BY <1>3, <1>5, <1>6, OneCall

\* The finally block of aassign.
LEMMA CleanupIInv ==
    ASSUME IInv, NEW c \in Calls, Cleanup(c), Goto(c, "over"), phase[c] \notin {"idle", "over"},
           Asks(c), loop' \in Calls \cup {Reading},
           NEW end, told' = [told EXCEPT ![c] = end],
           \/ end = "cancelled"
           \/ end = told[c] /\ phase[c] # "requested"
           \/ end = "refused" /\ phase[c] = "requested" /\ response[c] = "refused",
           UNCHANGED <<toAgent, lost, seen, backendVars>>
    PROVE  IInv'
<1> USE DEF IInv, PostmanTypeOK, backendVars
<1>1. /\ phase' \in [Calls -> Phases] /\ phase'[c] = "over"
      /\ \A d \in Calls \ {c} : phase'[d] = phase[d]
      /\ told'[c] = end /\ \A d \in Calls \ {c} : told'[d] = told[d]
      /\ told' \in [Calls -> {"nothing", "refused", "completed", "critical", "cancelled",
                              "abandoned"}]
      /\ response' \in [Calls -> {"none", "pending", "assigned", "refused"}]
      /\ response'[c] = "none" /\ \A d \in Calls \ {c} : response'[d] = response[d]
  BY DEF Goto, TypeOK, Phases, Cleanup
<1>2. toBackend' \in Seq(Requests) /\ \A d \in Calls : RequestStep(d)
  BY AskSteps
<1>3. /\ Len(<<>>) = 0 /\ <<>> \in Seq(Message)
      /\ <<>> \o <<>> = <<>> /\ <<>> \o toAgent = toAgent
      /\ queue[c] \o orphans[c] \in Seq(Message) /\ toAgent \in Seq(Message)
  <2>1. queue[c] \o orphans[c] \in Seq(Message) /\ toAgent \in Seq(Message)
    BY PipeFacts
  <2> QED
    BY <2>1, EmptySeq, ConcatEmptySeq
<1>4. /\ queue' \in [Calls -> Seq(Message)] /\ orphans' \in [Calls -> Seq(Message)]
      /\ \A d \in Calls \ {c} : /\ queue'[d] = queue[d] /\ orphans'[d] = orphans[d]
                                /\ d \in queues' <=> d \in queues
      /\ queues' \subseteq queues
      /\ phase[c] = "requested" => UNCHANGED <<queues, queue, orphans>>
      /\ phase[c] # "requested" => c \notin queues' /\ queue'[c] = <<>> /\ orphans'[c] = <<>>
  BY <1>3 DEF Cleanup, TypeOK
<1>5. PostmanTypeOK'
  <2>1. \A d \in Calls : IF d \in queues' THEN orphans'[d] = <<>> ELSE queue'[d] = <<>>
    <3> TAKE d \in Calls
    <3>1. IF d \in queues THEN orphans[d] = <<>> ELSE queue[d] = <<>>
      BY DEF TypeOK
    <3> QED
      BY <1>4, <3>1
  <2> QED
    BY <1>1, <1>2, <1>4, <2>1 DEF TypeOK, Requests
<1>6. CallOK(c) /\ WireStep(c) /\ ~Listening(c)'
  BY <1>1 DEF WireStep, Listening
<1>7. CallOK(c)'
  <2>1. RequestOK(c)'
    BY <1>1, <1>2, <1>6, RequestsStay DEF CallOK
  <2>2. ResponseOK(c)'
    BY <1>1, <1>6 DEF CallOK, ResponseOK
  <2>3. TableOK(c)'
    BY <1>1, <1>3, <1>4, <1>6 DEF CallOK, TableOK
  <2>4. ToldOK(c)'
    BY <1>1 DEF ToldOK, Listening
  <2>5. Flows(c)'
    <3>1. CASE phase[c] = "requested"
      BY <1>4, <1>6, <3>1, FlowsStay DEF CallOK
    <3>2. CASE phase[c] # "requested"
      <4>1. Pipe(c)' = toAgent
        BY <1>3, <1>4, <3>2 DEF Pipe
      <4>2. InStream(toAgent, c, D!Last(c), yielded[c], remote[c])
        <5> DEFINE s == queue[c] \o orphans[c]
        <5>1. InStream(s \o toAgent, c, D!Last(c), yielded[c], remote[c]) /\ s \in Seq(Message)
          BY <1>3, <1>6 DEF CallOK, Flows, Pipe
        <5> HIDE DEF s
        <5> QED
          BY <1>3, <5>1, StreamPart
      <4> QED
        BY <1>6, <4>1, <4>2, FlowsDeaf DEF CallOK
    <3> QED
      BY <3>1, <3>2
  <2>6. EndOK(c)'
    <3>1. CASE end = "cancelled"
      BY <1>1, <3>1 DEF EndOK
    <3>2. CASE end = told[c] /\ phase[c] # "requested"
      BY <1>1, <1>4, <1>6, <3>2 DEF CallOK, EndOK
    <3>3. CASE end = "refused" /\ phase[c] = "requested" /\ response[c] = "refused"
      <4>1. remote[c] = "none" /\ c \in responded
        BY <1>6, <3>3 DEF CallOK, ResponseOK
      <4>2. \A i \in 1..Len(toAgent) : toAgent[i].call # c
        <5>1. \A i \in 1..Len(toAgent) : toAgent[i] \in Message
          BY <1>3, ElementOfSeq
        <5>2. \A e \in Message : e.type \in {"event", "response"}
          BY DEF Message
        <5> QED
          BY <1>6, <3>3, <4>1, <5>1, <5>2 DEF CallOK, ResponseOK, TableOK, EventOf, ResponseTo
      <4>3. c \notin queues /\ orphans[c] = <<>> /\ queue[c] = <<>>
        BY <1>6, <4>1 DEF CallOK, TableOK, TypeOK
      <4> QED
        BY <1>1, <1>4, <3>3, <4>1, <4>2, <4>3 DEF EndOK
    <3> QED
      BY <3>1, <3>2, <3>3
  <2> QED
    BY <2>1, <2>2, <2>3, <2>4, <2>5, <2>6 DEF CallOK
<1>8. \A d \in Calls \ {c} : Untouched(d) /\ RequestStep(d) /\ WireStep(d)
  BY <1>1, <1>2, <1>4 DEF Untouched, WireStep
<1> QED
  BY <1>5, <1>7, <1>8, OneCall

\* The first mirror of a queue is the next yield, or the end, behind which
\* there is nothing.
LEMMA HeadArrives ==
    ASSUME IInv, NEW c \in Calls, queue[c] # <<>>
    PROVE  LET e == Head(queue[c]) IN
           /\ c \in queues /\ orphans[c] = <<>> /\ e \in Message /\ remote[c] # "none"
           /\ Tail(queue[c]) \in Seq(Message)
           /\ \A i \in 1..Len(Tail(queue[c])) : EventOf(Tail(queue[c])[i], c)
           /\ (Tail(queue[c]) \o orphans[c]) \o toAgent = Tail(Pipe(c))
           /\ InStream(Tail(Pipe(c)), c, D!Last(c), yielded[c], remote[c])
           /\ e.kind = "yield" =>
                /\ e.n \in Nat /\ D!Last(c) < e.n /\ e.n <= yielded[c]
                /\ InStream(Tail(Pipe(c)), c, e.n, yielded[c], remote[c])
                /\ Whole(Pipe(c), c, D!Last(c), yielded[c]) =>
                      e.n = D!Last(c) + 1 /\ Whole(Tail(Pipe(c)), c, e.n, yielded[c])
           /\ e.kind # "yield" =>
                /\ e.kind = remote[c] /\ remote[c] \in Ends
                /\ \A i \in 1..Len(toAgent) : ~EventOf(toAgent[i], c)
                /\ Whole(Pipe(c), c, D!Last(c), yielded[c]) =>
                      /\ yielded[c] <= D!Last(c)
                      /\ Whole(Tail(Pipe(c)), c, D!Last(c), yielded[c])
<1> DEFINE q == queue[c]
           o == orphans[c]
           e == Head(q)
           t == Tail(q)
<1>1. /\ q \in Seq(Message) /\ o \in Seq(Message) /\ toAgent \in Seq(Message)
      /\ q \o o \in Seq(Message)
  BY PipeFacts DEF IInv, PostmanTypeOK
<1>2. /\ c \in queues /\ o = <<>> /\ remote[c] # "none"
      /\ \A i \in 1..Len(q) : EventOf(q[i], c)
  <2>1. c \in queues /\ o = <<>>
    BY DEF IInv, PostmanTypeOK, TypeOK
  <2> QED
    BY <2>1 DEF IInv, CallOK, TableOK
<1>3. q # <<>> /\ Pipe(c) = (q \o o) \o toAgent
  BY DEF Pipe
<1> HIDE DEF q, o
<1>4. /\ Len(q) \in Nat \ {0} /\ e \in Message /\ e = q[1]
      /\ t \in Seq(Message) /\ Len(t) = Len(q) - 1
      /\ \A i \in 1..Len(t) : t[i] = q[i + 1]
  BY <1>1, <1>3, EmptySeq, HeadTailProperties
<1>5. EventOf(e, c) /\ \A i \in 1..Len(t) : EventOf(t[i], c)
  <2>1. 1 \in 1..Len(q) /\ \A i \in 1..Len(t) : i + 1 \in 1..Len(q)
    BY <1>4
  <2> QED
    BY <1>2, <1>4, <2>1
<1>6. /\ q \o o # <<>> /\ Head(q \o o) = e /\ t \o o = Tail(q \o o)
  BY <1>1, <1>3, TakeFirst
<1>7. /\ Pipe(c) \in Seq(Message) /\ Pipe(c) # <<>> /\ Head(Pipe(c)) = e
      /\ Tail(q \o o) \o toAgent = Tail(Pipe(c))
  BY <1>1, <1>3, <1>6, TakeFirst
<1>8. Flows(c) /\ D!Last(c) \in Nat /\ yielded[c] \in Nat
  BY DEF IInv, CallOK, Flows, PostmanTypeOK
<1>9. t \o o \in Seq(Message)
  BY <1>1, <1>4, ConcatProperties
<1> HIDE DEF e, t
<1>10. /\ InStream(Tail(Pipe(c)), c, D!Last(c), yielded[c], remote[c])
       /\ e.kind = "yield" =>
             /\ e.n \in Nat /\ D!Last(c) < e.n /\ e.n <= yielded[c]
             /\ InStream(Tail(Pipe(c)), c, e.n, yielded[c], remote[c])
             /\ Whole(Pipe(c), c, D!Last(c), yielded[c]) =>
                   e.n = D!Last(c) + 1 /\ Whole(Tail(Pipe(c)), c, e.n, yielded[c])
       /\ e.kind # "yield" =>
             /\ e.kind = remote[c]
             /\ \A i \in 1..Len(Tail(Pipe(c))) : ~EventOf(Tail(Pipe(c))[i], c)
             /\ Whole(Pipe(c), c, D!Last(c), yielded[c]) =>
                   /\ yielded[c] <= D!Last(c)
                   /\ Whole(Tail(Pipe(c)), c, D!Last(c), yielded[c])
  BY <1>5, <1>7, <1>8, StreamArrives DEF Flows
<1>11. e.kind # "yield" =>
           remote[c] \in Ends /\ \A i \in 1..Len(toAgent) : ~EventOf(toAgent[i], c)
  <2>1. ASSUME e.kind # "yield" PROVE \A i \in 1..Len(toAgent) : ~EventOf(toAgent[i], c)
    <3>1. (t \o o) \o toAgent = Tail(Pipe(c))
      BY <1>6, <1>7
    <3>2. \A i \in 1..Len((t \o o) \o toAgent) : ~EventOf(((t \o o) \o toAgent)[i], c)
      BY <1>10, <2>1, <3>1
    <3> DEFINE u == t \o o
    <3>3. u \in Seq(Message) /\ \A i \in 1..Len(u \o toAgent) : ~EventOf((u \o toAgent)[i], c)
      BY <1>9, <3>2
    <3> HIDE DEF u
    <3> QED
      BY <1>1, <3>3, NoneInPart
  <2>2. ASSUME e.kind # "yield" PROVE e.kind \in Ends
    BY <1>4, <1>5, <2>2 DEF Message, EventOf
  <2> QED
    BY <1>10, <2>1, <2>2
<1> QED
  BY <1>2, <1>4, <1>5, <1>6, <1>7, <1>10, <1>11 DEF q, o, e, t

LEMMA LastAppend ==
    ASSUME TypeOK, NEW c \in Calls, NEW n \in Nat,
           seen' = [seen EXCEPT ![c] = Append(@, n)]
    PROVE  /\ seen' \in [Calls -> Seq(Nat)]
           /\ D!Last(c)' = n
           /\ \A d \in Calls \ {c} : seen'[d] = seen[d]
<1> DEFINE s == seen[c]
           t == Append(s, n)
<1>1. seen \in [Calls -> Seq(Nat)] /\ s \in Seq(Nat)
  BY DEF TypeOK
<1>2. seen'[c] = t /\ \A d \in Calls \ {c} : seen'[d] = seen[d]
  BY <1>1
<1> HIDE DEF s
<1>3. t \in Seq(Nat) /\ t # <<>> /\ t[Len(t)] = n
  <2>1. /\ t \in Seq(Nat) /\ t # <<>> /\ Len(t) = Len(s) + 1 /\ t[Len(s) + 1] = n
    BY <1>1
  <2> QED
    BY <2>1, Zenon
<1> HIDE DEF t
<1>4. D!Last(c)' = n
  BY <1>2, <1>3 DEF D!Last
<1>5. seen' \in [Calls -> Seq(Nat)]
  BY <1>1, <1>3 DEF s, t
<1> QED
  BY <1>2, <1>4, <1>5

\* The first mirror of a queue is handed to its call, or dropped by one that
\* waits for the confirmation.
LEMMA DequeueIInv ==
    ASSUME IInv, NEW c \in Calls, queue[c] # <<>>, NEW p, Goto(c, p),
           queue' = [queue EXCEPT ![c] = Tail(@)],
           \/ /\ phase[c] = "streaming" /\ p = "consuming" /\ Head(queue[c]).kind = "yield"
              /\ seen' = [seen EXCEPT ![c] = Append(@, Head(queue[c]).n)] /\ told' = told
           \/ /\ phase[c] = "streaming" /\ p = "closing" /\ Head(queue[c]).kind # "yield"
              /\ told' = [told EXCEPT ![c] = Adapt(Head(queue[c]).kind)] /\ seen' = seen
           \/ /\ phase[c] \in {"confirming", "escalated"} /\ p = phase[c]
              /\ seen' = seen /\ told' = told,
           UNCHANGED <<wireVars, loop, response, queues, orphans, backendVars>>
    PROVE  IInv'
<1> USE DEF IInv, PostmanTypeOK
<1> DEFINE e == Head(queue[c])
           t == Tail(queue[c])
<1>1. /\ phase' \in [Calls -> Phases] /\ phase'[c] = p
      /\ \A d \in Calls \ {c} : phase'[d] = phase[d]
      /\ UNCHANGED <<toBackend, toAgent, lost, loop, response, queues, orphans, remote, responded,
                     yielded>>
      /\ p \in {"consuming", "closing", "confirming", "escalated"}
      /\ phase[c] \in {"streaming", "confirming", "escalated"}
  BY DEF Goto, TypeOK, wireVars, backendVars, Phases
<1>2. /\ c \in queues /\ orphans[c] = <<>> /\ e \in Message /\ remote[c] # "none"
      /\ t \in Seq(Message) /\ \A i \in 1..Len(t) : EventOf(t[i], c)
      /\ (t \o orphans[c]) \o toAgent = Tail(Pipe(c))
  BY HeadArrives
<1>3. /\ InStream(Tail(Pipe(c)), c, D!Last(c), yielded[c], remote[c])
      /\ e.kind = "yield" =>
            /\ e.n \in Nat /\ D!Last(c) < e.n /\ e.n <= yielded[c]
            /\ InStream(Tail(Pipe(c)), c, e.n, yielded[c], remote[c])
            /\ Whole(Pipe(c), c, D!Last(c), yielded[c]) =>
                  e.n = D!Last(c) + 1 /\ Whole(Tail(Pipe(c)), c, e.n, yielded[c])
      /\ e.kind # "yield" =>
            /\ e.kind = remote[c] /\ remote[c] \in Ends
            /\ \A i \in 1..Len(toAgent) : ~EventOf(toAgent[i], c)
  BY HeadArrives
<1>4. /\ queue' \in [Calls -> Seq(Message)] /\ queue'[c] = t
      /\ \A d \in Calls \ {c} : queue'[d] = queue[d]
  BY <1>2 DEF TypeOK
<1>5. Pipe(c)' = Tail(Pipe(c))
  BY <1>1, <1>2, <1>4 DEF Pipe
<1> DEFINE Given == /\ phase[c] = "streaming" /\ p = "consuming" /\ e.kind = "yield"
                    /\ seen' = [seen EXCEPT ![c] = Append(@, e.n)] /\ told' = told
           Ended == /\ phase[c] = "streaming" /\ p = "closing" /\ e.kind # "yield"
                    /\ told' = [told EXCEPT ![c] = Adapt(e.kind)] /\ seen' = seen
           Dropped == /\ phase[c] \in {"confirming", "escalated"} /\ p = phase[c]
                      /\ seen' = seen /\ told' = told
<1>6. Given \/ Ended \/ Dropped
  BY Zenon
<1> HIDE DEF e, t
<1>7. /\ seen' \in [Calls -> Seq(Nat)] /\ \A d \in Calls \ {c} : seen'[d] = seen[d]
      /\ Given => D!Last(c)' = e.n
      /\ ~Given => D!Last(c)' = D!Last(c)
  <2>1. CASE Given
    <3>1. e.n \in Nat /\ seen' = [seen EXCEPT ![c] = Append(@, e.n)]
      BY <1>3, <2>1
    <3> QED
      BY <2>1, <3>1, LastAppend
  <2>2. CASE ~Given
    <3>1. seen' = seen
      BY <1>6, <2>2
    <3> QED
      BY <2>2, <3>1 DEF D!Last, TypeOK
  <2> QED
    BY <2>1, <2>2
<1>8. /\ told' \in [Calls -> {"nothing", "refused", "completed", "critical", "cancelled",
                              "abandoned"}]
      /\ \A d \in Calls \ {c} : told'[d] = told[d]
      /\ Ended => told'[c] \in {"completed", "critical"}
      /\ ~Ended => told' = told
  BY <1>6 DEF Adapt, TypeOK
<1>9. PostmanTypeOK'
  BY <1>1, <1>2, <1>4, <1>7, <1>8 DEF TypeOK
<1>10. CallOK(c) /\ RequestStep(c)
  BY <1>1 DEF RequestStep
<1>11. CallOK(c)'
  <2>1. RequestOK(c)'
    BY <1>1, <1>10, RequestsStay DEF CallOK
  <2>2. ResponseOK(c)'
    BY <1>1, <1>10 DEF CallOK, ResponseOK
  <2>3. TableOK(c)'
    BY <1>1, <1>2, <1>4, <1>10 DEF CallOK, TableOK
  <2>4. ToldOK(c)'
    BY <1>1, <1>6, <1>8, <1>10 DEF CallOK, ToldOK, Listening
  <2>5. Flows(c)'
    <3>1. CASE Given
      <4>1. D!Last(c)' = e.n /\ Listening(c)
        BY <1>7, <3>1 DEF Listening
      <4> QED
        BY <1>1, <1>3, <1>5, <1>10, <3>1, <4>1 DEF CallOK, Flows
    <3>2. CASE ~Given
      <4>1. D!Last(c)' = D!Last(c) /\ ~Listening(c)'
        BY <1>1, <1>6, <1>7, <3>2 DEF Listening
      <4> QED
        BY <1>1, <1>3, <1>5, <1>10, <4>1 DEF CallOK, Flows
    <3> QED
      BY <3>1, <3>2
  <2>6. EndOK(c)'
    <3>1. CASE Ended
      <4>1. e.kind # "yield" /\ p = "closing" /\ told'[c] # "refused"
        BY <1>8, <3>1
      <4>2. c \in responded /\ \A i \in 1..Len(toAgent) : ~ResponseTo(toAgent[i], c)
        BY <1>1, <1>10 DEF CallOK, ResponseOK
      <4>3. \A i \in 1..Len(toAgent) : toAgent[i].call # c
        <5>1. \A i \in 1..Len(toAgent) : toAgent[i] \in Message
          BY ElementOfSeq DEF TypeOK
        <5>2. \A m \in Message : m.type \in {"event", "response"}
          BY DEF Message
        <5> QED
          BY <1>3, <4>1, <4>2, <5>1, <5>2 DEF EventOf, ResponseTo
      <4> QED
        BY <1>1, <1>3, <4>1, <4>2, <4>3 DEF EndOK
    <3>2. CASE ~Ended
      BY <1>1, <1>8, <1>10, <3>2 DEF CallOK, EndOK
    <3> QED
      BY <3>1, <3>2
  <2> QED
    BY <2>1, <2>2, <2>3, <2>4, <2>5, <2>6 DEF CallOK
<1>12. \A d \in Calls \ {c} : Untouched(d) /\ RequestStep(d) /\ WireStep(d)
  BY <1>1, <1>4, <1>7, <1>8 DEF Untouched, RequestStep, WireStep
<1> QED
  BY <1>9, <1>11, <1>12, OneCall

\* The call reads its response and takes over the queue of its task.
LEMMA AcceptedIInv ==
    ASSUME IInv, NEW c \in Calls, Accepted(c)
    PROVE  IInv'
<1> USE DEF IInv, PostmanTypeOK
<1>1. /\ phase[c] = "requested" /\ response[c] = "assigned"
      /\ phase' \in [Calls -> Phases] /\ phase'[c] = "streaming"
      /\ \A d \in Calls \ {c} : phase'[d] = phase[d]
      /\ queues' = queues \cup {c}
      /\ UNCHANGED <<toBackend, toAgent, lost, loop, response, seen, told, remote, responded,
                     yielded>>
  BY DEF Accepted, Goto, TypeOK, Phases, wireVars, backendVars
<1>2. /\ queue[c] \in Seq(Message) /\ orphans[c] \in Seq(Message)
      /\ queue[c] \o orphans[c] \in Seq(Message)
      /\ (queue[c] \o orphans[c]) \o <<>> = queue[c] \o orphans[c]
      /\ <<>> \o orphans[c] = orphans[c] /\ queue[c] \o <<>> = queue[c]
      /\ Len(<<>>) = 0 /\ <<>> \in Seq(Message)
  <2>1. /\ queue[c] \in Seq(Message) /\ orphans[c] \in Seq(Message)
        /\ queue[c] \o orphans[c] \in Seq(Message)
    BY PipeFacts
  <2> QED
    BY <2>1, ConcatEmptySeq, EmptySeq
<1>3. /\ queue' \in [Calls -> Seq(Message)] /\ orphans' \in [Calls -> Seq(Message)]
      /\ queue'[c] = queue[c] \o orphans[c] /\ orphans'[c] = <<>>
      /\ \A d \in Calls \ {c} : queue'[d] = queue[d] /\ orphans'[d] = orphans[d]
  BY <1>2 DEF Accepted, TypeOK
<1>4. queue'[c] = queue[c] \/ queue'[c] = orphans[c]
  BY <1>2, <1>3 DEF TypeOK
<1>5. PostmanTypeOK'
  <2>1. \A d \in Calls : IF d \in queues' THEN orphans'[d] = <<>> ELSE queue'[d] = <<>>
    <3> TAKE d \in Calls
    <3>1. IF d \in queues THEN orphans[d] = <<>> ELSE queue[d] = <<>>
      BY DEF TypeOK
    <3> QED
      BY <1>1, <1>3, <3>1
  <2> QED
    BY <1>1, <1>3, <2>1 DEF TypeOK
<1>6. CallOK(c) /\ RequestStep(c) /\ WireStep(c)
  BY <1>1 DEF RequestStep, WireStep
<1>7. CallOK(c)'
  <2>1. RequestOK(c)'
    BY <1>1, <1>6, RequestsStay DEF CallOK
  <2>2. ResponseOK(c)'
    BY <1>1, <1>6 DEF CallOK, ResponseOK
  <2>3. TableOK(c)'
    <3>1. remote[c] # "none" /\ Len(orphans'[c]) = 0
      BY <1>1, <1>2, <1>3, <1>6 DEF CallOK, ResponseOK
    <3> QED
      BY <1>1, <1>4, <1>6, <3>1 DEF CallOK, TableOK
  <2>4. ToldOK(c)' /\ EndOK(c)'
    BY <1>1, <1>6 DEF CallOK, ToldOK, EndOK, Listening
  <2>5. Flows(c)'
    <3>1. queue'[c] \o orphans'[c] = queue[c] \o orphans[c] /\ (Listening(c)' => Listening(c))
      BY <1>1, <1>2, <1>3 DEF Listening
    <3> QED
      BY <1>1, <1>6, <3>1, FlowsStay DEF CallOK
  <2> QED
    BY <2>1, <2>2, <2>3, <2>4, <2>5 DEF CallOK
<1>8. \A d \in Calls \ {c} : Untouched(d) /\ RequestStep(d) /\ WireStep(d)
  BY <1>1, <1>3 DEF Untouched, RequestStep, WireStep
<1> QED
  BY <1>5, <1>7, <1>8, OneCall

\* handle_assign_response makes the queue, if there is a task, and resolves the
\* future, if the call still waits.
LEMMA ResponseIInv ==
    ASSUME IInv, HandleAssignResponse
    PROVE  IInv'
<1> USE DEF IInv, PostmanTypeOK
<1>1. toAgent # <<>> /\ Head(toAgent) \in Message /\ Head(toAgent).type = "response"
  BY WireHead DEF HandleAssignResponse, Take
<1> PICK c \in Calls : c = Head(toAgent).call
  BY <1>1 DEF Message
<1> DEFINE h == Head(toAgent)
<1>2. /\ toAgent' = Tail(toAgent) /\ h.kind \in {"assigned", "refused"}
      /\ UNCHANGED <<toBackend, lost, loop, phase, seen, told, remote, responded, yielded>>
      /\ h = toAgent[1] /\ 1 \in 1..Len(toAgent) /\ toAgent' \in Seq(Message)
      /\ \A i \in 1..Len(toAgent') : i + 1 \in 1..Len(toAgent) /\ toAgent'[i] = toAgent[i + 1]
      /\ ResponseTo(h, c) /\ \A d \in Calls : ~EventOf(h, d)
  BY <1>1, WireHead DEF HandleAssignResponse, Take, callerVars, backendVars, ResponseTo, EventOf,
                        Message
<1>3. /\ queue[c] \in Seq(Message) /\ orphans[c] \in Seq(Message)
      /\ queue[c] \o orphans[c] \in Seq(Message)
      /\ (queue[c] \o orphans[c]) \o <<>> = queue[c] \o orphans[c]
      /\ <<>> \o orphans[c] = orphans[c] /\ queue[c] \o <<>> = queue[c]
      /\ Len(<<>>) = 0 /\ <<>> \in Seq(Message)
  <2>1. /\ queue[c] \in Seq(Message) /\ orphans[c] \in Seq(Message)
        /\ queue[c] \o orphans[c] \in Seq(Message)
    BY PipeFacts
  <2> QED
    BY <2>1, ConcatEmptySeq, EmptySeq
<1>4. CallOK(c) /\ RequestStep(c) /\ WireStep(c)
  BY <1>1, <1>2 DEF RequestStep, WireStep
<1>5. /\ c \in responded /\ response[c] \in {"none", "pending"}
      /\ phase[c] \in {"requested", "over"}
      /\ h.kind = "assigned" <=> remote[c] # "none"
      /\ \A i \in 1..Len(toAgent') : ~ResponseTo(toAgent'[i], c)
  <2>1. /\ c \in responded /\ response[c] \in {"none", "pending"}
        /\ phase[c] \in {"requested", "over"}
        /\ h.kind = "assigned" <=> remote[c] # "none"
    BY <1>2, <1>4 DEF CallOK, ResponseOK
  <2>2. ASSUME NEW i \in 1..Len(toAgent'), ResponseTo(toAgent'[i], c) PROVE FALSE
    <3>1. i + 1 = 1
      BY <1>2, <1>4, <2>2 DEF CallOK, ResponseOK
    <3> QED
      BY <1>2, <3>1
  <2> QED
    BY <2>1, <2>2
<1>6. /\ response' \in [Calls -> {"none", "pending", "assigned", "refused"}]
      /\ response'[c] = (IF response[c] = "pending" THEN h.kind ELSE response[c])
      /\ \A d \in Calls \ {c} : response'[d] = response[d]
  BY <1>2 DEF HandleAssignResponse, TypeOK
<1>7. /\ queue' \in [Calls -> Seq(Message)] /\ orphans' \in [Calls -> Seq(Message)]
      /\ \A d \in Calls \ {c} : /\ queue'[d] = queue[d] /\ orphans'[d] = orphans[d]
                                /\ d \in queues' <=> d \in queues
      /\ queues' \subseteq Calls
      /\ h.kind = "assigned" => /\ c \in queues' /\ orphans'[c] = <<>>
                                /\ queue'[c] = queue[c] \o orphans[c]
      /\ h.kind # "assigned" => UNCHANGED <<queues, queue, orphans>>
  <2>1. IF h.kind = "assigned"
        THEN /\ queues' = queues \cup {c} /\ queue' = [queue EXCEPT ![c] = @ \o orphans[c]]
             /\ orphans' = [orphans EXCEPT ![c] = <<>>]
        ELSE UNCHANGED <<queues, queue, orphans>>
    BY DEF HandleAssignResponse
  <2>2. CASE h.kind = "assigned"
    <3>1. /\ queues' = queues \cup {c} /\ queue' = [queue EXCEPT ![c] = queue[c] \o orphans[c]]
          /\ orphans' = [orphans EXCEPT ![c] = <<>>]
      BY <2>1, <2>2
    <3>2. /\ queues \subseteq Calls
          /\ queue \in [Calls -> Seq(Message)] /\ orphans \in [Calls -> Seq(Message)]
      BY DEF TypeOK
    <3> QED
      BY <1>3, <2>2, <3>1, <3>2
  <2>3. CASE h.kind # "assigned"
    BY <2>1, <2>3 DEF TypeOK
  <2> QED
    BY <2>2, <2>3
<1> HIDE DEF h
<1>8. /\ queue'[c] = queue[c] \/ queue'[c] = orphans[c]
      /\ orphans'[c] = orphans[c] \/ Len(orphans'[c]) = 0
      /\ queue'[c] \o orphans'[c] = queue[c] \o orphans[c]
  BY <1>3, <1>7 DEF TypeOK
<1>9. PostmanTypeOK'
  <2>1. \A d \in Calls : IF d \in queues' THEN orphans'[d] = <<>> ELSE queue'[d] = <<>>
    <3> TAKE d \in Calls
    <3>1. IF d \in queues THEN orphans[d] = <<>> ELSE queue[d] = <<>>
      BY DEF TypeOK
    <3> QED
      BY <1>7, <3>1
  <2> QED
    BY <1>2, <1>6, <1>7, <2>1 DEF TypeOK
<1>10. CallOK(c)'
  <2>1. RequestOK(c)'
    BY <1>2, <1>4, RequestsStay DEF CallOK
  <2>2. ResponseOK(c)'
    BY <1>2, <1>5, <1>6 DEF ResponseOK
  <2>3. TableOK(c)'
    <3>1. /\ \A i \in 1..Len(queue'[c]) : EventOf(queue'[c][i], c)
          /\ \A i \in 1..Len(orphans'[c]) : EventOf(orphans'[c][i], c)
      <4>1. /\ \A i \in 1..Len(queue[c]) : EventOf(queue[c][i], c)
            /\ \A i \in 1..Len(orphans[c]) : EventOf(orphans[c][i], c)
        BY <1>4 DEF CallOK, TableOK
      <4>2. \A i \in 1..Len(queue'[c]) : EventOf(queue'[c][i], c)
        BY <1>8, <4>1
      <4>3. \A i \in 1..Len(orphans'[c]) : EventOf(orphans'[c][i], c)
        <5>1. orphans'[c] = orphans[c] \/ Len(orphans'[c]) = 0
          BY <1>8
        <5>2. CASE orphans'[c] = orphans[c]
          BY <4>1, <5>2
        <5>3. CASE Len(orphans'[c]) = 0
          <6>1. 1..Len(orphans'[c]) = {}
            BY <5>3
          <6> QED
            BY <6>1, Zenon
        <5> QED
          BY <5>1, <5>2, <5>3, Zenon
      <4> QED
        BY <4>2, <4>3
    <3>2. remote[c] = "none" =>
             /\ c \notin queues' /\ orphans'[c] = <<>> /\ yielded[c] = 0
             /\ \A i \in 1..Len(toAgent') : ~EventOf(toAgent'[i], c)
      <4> HAVE remote[c] = "none"
      <4>1. /\ c \notin queues /\ orphans[c] = <<>> /\ yielded[c] = 0
            /\ \A i \in 1..Len(toAgent) : ~EventOf(toAgent[i], c)
        BY <1>4 DEF CallOK, TableOK
      <4>2. UNCHANGED <<queues, orphans>>
        BY <1>5, <1>7
      <4> QED
        BY <1>2, <4>1, <4>2
    <3> QED
      BY <1>2, <1>5, <3>1, <3>2 DEF TableOK
  <2>4. ToldOK(c)'
    BY <1>2, <1>4 DEF CallOK, ToldOK, Listening
  <2>5. Flows(c)'
    BY <1>2, <1>4, <1>8, FlowsStay DEF CallOK, Listening
  <2>6. EndOK(c)'
    <3>1. told[c] \notin {"completed", "critical", "refused"}
      BY <1>2, <1>4 DEF CallOK, EndOK, ResponseTo
    <3> QED
      BY <1>2, <3>1 DEF EndOK
  <2> QED
    BY <2>1, <2>2, <2>3, <2>4, <2>5, <2>6 DEF CallOK
<1>11. \A d \in Calls \ {c} : Untouched(d) /\ RequestStep(d) /\ WireStep(d)
  BY <1>1, <1>2, <1>6, <1>7 DEF Untouched, RequestStep, WireStep, h
<1> QED
  BY <1>9, <1>10, <1>11, OneCall

\* handle_execution_event: the mirror goes to the queue or to the orphans.
LEMMA MirrorIInv ==
    ASSUME IInv, HandleExecutionEvent
    PROVE  IInv'
<1> USE DEF IInv, PostmanTypeOK
<1>1. toAgent # <<>> /\ Head(toAgent) \in Message /\ Head(toAgent).type = "event"
  BY WireHead DEF HandleExecutionEvent, Take
<1> PICK c \in Calls : c = Head(toAgent).call
  BY <1>1 DEF Message
<1> DEFINE h == Head(toAgent)
           s == queue[c] \o orphans[c]
<1>2. /\ toAgent' = Tail(toAgent)
      /\ UNCHANGED <<toBackend, lost, loop, response, queues, phase, seen, told, remote, responded,
                     yielded>>
      /\ h = toAgent[1] /\ 1 \in 1..Len(toAgent) /\ toAgent' \in Seq(Message)
      /\ \A i \in 1..Len(toAgent') : i + 1 \in 1..Len(toAgent) /\ toAgent'[i] = toAgent[i + 1]
      /\ EventOf(h, c) /\ h \in Message /\ \A d \in Calls \ {c} : ~EventOf(h, d)
  BY <1>1, WireHead DEF HandleExecutionEvent, Take, callerVars, backendVars, EventOf
<1>3. /\ queue[c] \in Seq(Message) /\ orphans[c] \in Seq(Message) /\ toAgent \in Seq(Message)
      /\ s \in Seq(Message) /\ Pipe(c) = s \o toAgent
      /\ queue[c] \o <<>> = queue[c] /\ <<>> \o orphans[c] = orphans[c]
      /\ Append(queue[c], h) \in Seq(Message) /\ Append(orphans[c], h) \in Seq(Message)
      /\ Append(queue[c], h) \o <<>> = Append(queue[c], h)
      /\ <<>> \o Append(orphans[c], h) = Append(orphans[c], h)
  <2>1. /\ queue[c] \in Seq(Message) /\ orphans[c] \in Seq(Message) /\ toAgent \in Seq(Message)
        /\ s \in Seq(Message) /\ Pipe(c) = s \o toAgent
    BY PipeFacts DEF Pipe
  <2>2. Append(queue[c], h) \in Seq(Message) /\ Append(orphans[c], h) \in Seq(Message)
    BY <1>2, <2>1, AppendProperties
  <2> QED
    BY <2>1, <2>2, ConcatEmptySeq
<1>4. CallOK(c) /\ remote[c] # "none" /\ told[c] \notin {"completed", "critical", "refused"}
  <2>1. CallOK(c) /\ toAgent[1].call = c
    BY <1>2 DEF EventOf
  <2> QED
    BY <1>2, <2>1 DEF CallOK, TableOK, EndOK
<1>5. /\ queue' \in [Calls -> Seq(Message)] /\ orphans' \in [Calls -> Seq(Message)]
      /\ \A d \in Calls \ {c} : queue'[d] = queue[d] /\ orphans'[d] = orphans[d]
      /\ \/ /\ c \in queues /\ orphans[c] = <<>>
            /\ queue'[c] = Append(queue[c], h) /\ orphans'[c] = orphans[c]
         \/ /\ c \notin queues /\ queue[c] = <<>>
            /\ queue'[c] = queue[c] /\ orphans'[c] = Append(orphans[c], h)
  <2>1. IF c \in queues THEN orphans[c] = <<>> ELSE queue[c] = <<>>
    BY DEF TypeOK
  <2>2. /\ queue \in [Calls -> Seq(Message)] /\ orphans \in [Calls -> Seq(Message)]
        /\ IF c \in queues
           THEN queue' = [queue EXCEPT ![c] = Append(queue[c], h)] /\ orphans' = orphans
           ELSE orphans' = [orphans EXCEPT ![c] = Append(orphans[c], h)] /\ queue' = queue
    BY DEF HandleExecutionEvent, TypeOK
  <2>3. CASE c \in queues
    BY <1>3, <2>1, <2>2, <2>3
  <2>4. CASE c \notin queues
    BY <1>3, <2>1, <2>2, <2>4
  <2> QED
    BY <2>3, <2>4
<1> HIDE DEF h, s
<1>6. Pipe(c)' = Pipe(c)
  <2>1. queue'[c] \o orphans'[c] = Append(s, h)
    BY <1>3, <1>5 DEF s
  <2>2. Append(s, h) \o Tail(toAgent) = s \o toAgent
    BY <1>1, <1>3, MoveHead DEF h
  <2>3. Pipe(c)' = (queue'[c] \o orphans'[c]) \o toAgent'
    BY DEF Pipe
  <2> QED
    BY <1>2, <1>3, <2>1, <2>2, <2>3
<1>7. PostmanTypeOK'
  <2>1. \A d \in Calls : IF d \in queues' THEN orphans'[d] = <<>> ELSE queue'[d] = <<>>
    <3> TAKE d \in Calls
    <3>1. IF d \in queues THEN orphans[d] = <<>> ELSE queue[d] = <<>>
      BY DEF TypeOK
    <3> QED
      BY <1>2, <1>5, <3>1
  <2> QED
    BY <1>2, <1>5, <2>1 DEF TypeOK
<1>8. CallOK(c)'
  <2>1. RequestOK(c)'
    BY <1>2, <1>4, RequestsStay DEF CallOK, RequestStep
  <2>2. ResponseOK(c)'
    <3>1. \A i, j \in 1..Len(toAgent') : i + 1 = j + 1 => i = j
      OBVIOUS
    <3> QED
      BY <1>2, <1>4, <3>1 DEF CallOK, ResponseOK
  <2>3. TableOK(c)'
    <3>1. ASSUME NEW q \in Seq(Message), \A i \in 1..Len(q) : EventOf(q[i], c)
          PROVE  \A i \in 1..Len(Append(q, h)) : EventOf(Append(q, h)[i], c)
      <4>1. /\ Len(Append(q, h)) = Len(q) + 1 /\ Len(q) \in Nat
            /\ \A i \in 1..Len(q) : Append(q, h)[i] = q[i]
            /\ Append(q, h)[Len(q) + 1] = h
        BY <1>2, AppendProperties
      <4> QED
        BY <1>2, <3>1, <4>1
    <3>2. /\ \A i \in 1..Len(queue'[c]) : EventOf(queue'[c][i], c)
          /\ \A i \in 1..Len(orphans'[c]) : EventOf(orphans'[c][i], c)
      BY <1>3, <1>4, <1>5, <3>1 DEF CallOK, TableOK
    <3> QED
      BY <1>2, <1>4, <3>2 DEF CallOK, TableOK
  <2>4. ToldOK(c)' /\ EndOK(c)'
    BY <1>2, <1>4 DEF CallOK, ToldOK, EndOK, Listening
  <2>5. Flows(c)'
    BY <1>2, <1>4, <1>6 DEF CallOK, Flows, Listening, D!Last
  <2> QED
    BY <2>1, <2>2, <2>3, <2>4, <2>5 DEF CallOK
<1>9. \A d \in Calls \ {c} : Untouched(d) /\ RequestStep(d) /\ WireStep(d)
  BY <1>1, <1>2, <1>5 DEF Untouched, RequestStep, WireStep, h
<1> QED
  BY <1>7, <1>8, <1>9, OneCall

\* A disconnect swallows a message, or the backend takes a request that it
\* need not act upon.
LEMMA LostIInv ==
    ASSUME IInv, UNCHANGED <<loop, tableVars, callerVars, backendVars>>,
           \/ LoseMirror \/ LoseRequest
           \/ /\ toBackend # <<>> /\ toBackend' = Tail(toBackend)
              /\ UNCHANGED <<toAgent, lost>>
    PROVE  IInv'
<1> USE DEF IInv, PostmanTypeOK
<1>1. /\ UNCHANGED <<loop, response, queues, queue, orphans, phase, seen, told, remote, responded,
                     yielded>>
      /\ lost' \in 0..MaxLost
      /\ \A c \in Calls : Untouched(c)
  <2>1. UNCHANGED <<loop, response, queues, queue, orphans, phase, seen, told, remote, responded,
                    yielded>>
    BY DEF tableVars, callerVars, backendVars
  <2>2. lost' \in 0..MaxLost
    <3>1. lost \in 0..MaxLost /\ MaxLost \in Nat
      BY CallerAssumption DEF TypeOK
    <3>2. lost' = lost \/ (lost < MaxLost /\ lost' = lost + 1)
      BY DEF LoseMirror, LoseRequest
    <3> QED
      BY <3>1, <3>2
  <2> QED
    BY <2>1, <2>2 DEF Untouched
<1>2. \A c \in Calls : RequestStep(c) /\ WireStep(c)
  BY DEF LoseMirror, LoseRequest, RequestStep, WireStep
<1>3. PostmanTypeOK'
  <2>1. toBackend' \in Seq(Requests) /\ toAgent' \in Seq(Message)
    <3>1. toBackend \in Seq(Requests) /\ toAgent \in Seq(Message)
      BY DEF TypeOK, Requests
    <3>2. CASE LoseMirror
      BY <3>1, <3>2, WireHead DEF LoseMirror
    <3>3. CASE LoseRequest
      BY <3>1, <3>3, RequestHead DEF LoseRequest
    <3>4. CASE /\ toBackend # <<>> /\ toBackend' = Tail(toBackend)
               /\ UNCHANGED <<toAgent, lost>>
      <4>1. toBackend' = Tail(toBackend) /\ toAgent' = toAgent
        BY <3>4
      <4> QED
        BY <3>1, <3>4, <4>1, RequestHead
    <3> QED
      BY <3>2, <3>3, <3>4, Zenon
  <2> QED
    BY <1>1, <2>1 DEF TypeOK, Requests
<1> QED
  BY <1>1, <1>2, <1>3, OthersStay

\* The backend creates the task of a request.
LEMMA AcceptIInv ==
    ASSUME IInv, BackendAccept
    PROVE  IInv'
<1> USE DEF IInv, PostmanTypeOK
<1>1. toBackend # <<>> /\ Head(toBackend) \in Requests /\ Head(toBackend).type = "assign"
  BY RequestHead DEF BackendAccept, TakeRequest
<1> PICK c \in Calls : c = Head(toBackend).call
  BY <1>1 DEF Requests
<1>2. /\ toBackend' = Tail(toBackend)
      /\ AssignOf(toBackend[1], c) /\ 1 \in 1..Len(toBackend) /\ toBackend' \in Seq(Requests)
      /\ \A i \in 1..Len(toBackend') :
            i + 1 \in 1..Len(toBackend) /\ toBackend'[i] = toBackend[i + 1]
  BY <1>1, RequestHead DEF BackendAccept, TakeRequest, AssignOf
<1>3. /\ remote' \in [Calls -> Ends \cup {"none", "running"}] /\ remote'[c] = "running"
      /\ \A d \in Calls \ {c} : remote'[d] = remote[d]
      /\ UNCHANGED <<toAgent, lost, loop, response, queues, queue, orphans, phase, seen, told,
                     responded, yielded>>
  BY DEF BackendAccept, TakeRequest, TypeOK, tableVars, callerVars
<1>4. CallOK(c) /\ remote[c] = "none" /\ c \notin responded /\ phase[c] # "idle"
  BY <1>2 DEF CallOK, RequestOK
<1>5. PostmanTypeOK'
  BY <1>2, <1>3 DEF TypeOK, Requests
<1>6. CallOK(c)'
  <2>1. RequestOK(c)'
    <3>1. ASSUME NEW i \in 1..Len(toBackend'), AssignOf(toBackend'[i], c) PROVE FALSE
      <4>1. i + 1 = 1
        BY <1>2, <1>4, <3>1 DEF CallOK, RequestOK
      <4> QED
        BY <4>1
    <3> QED
      BY <3>1 DEF RequestOK
  <2>2. ResponseOK(c)' /\ TableOK(c)'
    BY <1>3, <1>4 DEF CallOK, ResponseOK, TableOK
  <2>3. ToldOK(c)' /\ EndOK(c)'
    BY <1>3, <1>4 DEF CallOK, ToldOK, EndOK, Listening
  <2>4. Flows(c)'
    <3>1. Pipe(c)' = Pipe(c) /\ D!Last(c)' = D!Last(c)
      BY <1>3 DEF Pipe, D!Last
    <3>2. InStream(Pipe(c), c, D!Last(c), yielded[c], "running")
      <4>1. Flows(c) /\ Pipe(c) \in Seq(Message)
        BY <1>4, PipeFacts DEF CallOK
      <4>2. \A i \in 1..Len(Pipe(c)) : Pipe(c)[i] \in Message
        BY <4>1, ElementOfSeq
      <4>3. \A i \in 1..Len(Pipe(c)) : EventOf(Pipe(c)[i], c) => Pipe(c)[i].kind # "none"
        BY <4>2 DEF Message, EventOf, Ends
      <4> QED
        BY <1>4, <4>1, <4>3 DEF Flows, InStream
    <3> QED
      BY <1>3, <1>4, <3>1, <3>2 DEF CallOK, Flows, Listening
  <2> QED
    BY <2>1, <2>2, <2>3, <2>4 DEF CallOK
<1>7. \A d \in Calls \ {c} : Untouched(d) /\ RequestStep(d) /\ WireStep(d)
  BY <1>1, <1>2, <1>3 DEF Untouched, RequestStep, WireStep
<1> QED
  BY <1>5, <1>6, <1>7, OneCall

\* The backend answers a request that it has not answered yet.
LEMMA AnswerIInv ==
    ASSUME IInv, NEW c \in Calls, c \notin responded, phase[c] # "idle",
           NEW kind \in {"assigned", "refused"}, kind = "assigned" <=> remote[c] # "none",
           toAgent' = Append(toAgent, Response(c, kind)), responded' = responded \cup {c},
           toBackend' = toBackend \/ (toBackend # <<>> /\ toBackend' = Tail(toBackend)),
           \A i \in 1..Len(toBackend') : ~AssignOf(toBackend'[i], c),
           UNCHANGED <<lost, loop, tableVars, callerVars, remote, yielded>>
    PROVE  IInv'
<1> USE DEF IInv, PostmanTypeOK
<1> DEFINE e == Response(c, kind)
<1>1. e \in Message /\ e.call = c /\ ResponseTo(e, c) /\ ~EventOf(e, c) /\ e.kind = kind
  BY DEF Response, Message, ResponseTo, EventOf
<1>2. toAgent' = Append(toAgent, e)
  OBVIOUS
<1> HIDE DEF e
<1>3. UNCHANGED <<lost, loop, response, queues, queue, orphans, phase, seen, told, remote, yielded>>
  BY DEF tableVars, callerVars
<1>4. /\ toAgent \in Seq(Message) /\ Len(toAgent) \in Nat /\ toAgent' \in Seq(Message)
      /\ Len(toAgent') = Len(toAgent) + 1
      /\ \A i \in 1..Len(toAgent) : toAgent'[i] = toAgent[i]
      /\ toAgent'[Len(toAgent) + 1] = e
  <2>1. toAgent \in Seq(Message)
    BY DEF TypeOK
  <2> QED
    BY <1>1, <1>2, <2>1, AppendProperties, LenProperties
<1>5. \A d \in Calls : RequestStep(d)
  BY DEF RequestStep
<1>6. PostmanTypeOK'
  <2>1. toBackend' \in Seq(Requests)
    BY RequestHead DEF TypeOK, Requests
  <2> QED
    BY <1>3, <1>4, <2>1 DEF TypeOK, Requests
<1>7. /\ CallOK(c) /\ response[c] \in {"none", "pending"} /\ phase[c] \in {"requested", "over"}
      /\ told[c] \notin {"completed", "critical", "refused"}
      /\ \A i \in 1..Len(toAgent) : ~ResponseTo(toAgent[i], c)
  BY DEF CallOK, ResponseOK, EndOK, TypeOK
<1>8. CallOK(c)'
  <2>1. RequestOK(c)'
    BY DEF RequestOK
  <2>2. ResponseOK(c)'
    <3>1. \A i \in 1..Len(toAgent') : ResponseTo(toAgent'[i], c) =>
              i = Len(toAgent) + 1 /\ toAgent'[i] = e
      BY <1>4, <1>7
    <3> QED
      BY <1>1, <1>3, <1>7, <3>1 DEF ResponseOK
  <2>3. TableOK(c)'
    <3>1. \A i \in 1..Len(toAgent') : EventOf(toAgent'[i], c) =>
              i \in 1..Len(toAgent) /\ toAgent'[i] = toAgent[i]
      BY <1>1, <1>4
    <3> QED
      BY <1>3, <1>7, <3>1 DEF CallOK, TableOK
  <2>4. ToldOK(c)' /\ EndOK(c)'
    BY <1>3, <1>7 DEF CallOK, ToldOK, EndOK, Listening
  <2>5. Flows(c)'
    BY <1>1, <1>2, <1>3, <1>7, FlowsBeside DEF CallOK, Listening
  <2> QED
    BY <2>1, <2>2, <2>3, <2>4, <2>5 DEF CallOK
<1>9. \A d \in Calls \ {c} : Untouched(d) /\ RequestStep(d) /\ WireStep(d)
  BY <1>1, <1>2, <1>3, <1>5 DEF Untouched, WireStep
<1> QED
  BY <1>6, <1>8, <1>9, OneCall

\* An event of a running task is mirrored.
LEMMA MirroredIInv ==
    ASSUME IInv, NEW c \in Calls, NEW e \in Message, EventOf(e, c), remote[c] = "running",
           toAgent' = Append(toAgent, e),
           toBackend' = toBackend \/ (toBackend # <<>> /\ toBackend' = Tail(toBackend)),
           remote' \in [Calls -> Ends \cup {"none", "running"}], remote'[c] # "none",
           yielded' \in [Calls -> Nat], yielded'[c] <= MaxYields[c],
           \A d \in Calls \ {c} : remote'[d] = remote[d] /\ yielded'[d] = yielded[d],
           Flows(c)',
           UNCHANGED <<lost, loop, tableVars, callerVars, responded>>
    PROVE  IInv'
<1> USE DEF IInv, PostmanTypeOK
<1>1. UNCHANGED <<lost, loop, response, queues, queue, orphans, phase, seen, told, responded>>
  BY DEF tableVars, callerVars
<1>2. /\ toAgent \in Seq(Message) /\ Len(toAgent) \in Nat /\ toAgent' \in Seq(Message)
      /\ Len(toAgent') = Len(toAgent) + 1
      /\ \A i \in 1..Len(toAgent) : toAgent'[i] = toAgent[i]
      /\ toAgent'[Len(toAgent) + 1] = e
  <2>1. toAgent \in Seq(Message)
    BY DEF TypeOK
  <2> QED
    BY <2>1, AppendProperties
<1>3. \A d \in Calls : RequestStep(d)
  BY DEF RequestStep
<1>4. PostmanTypeOK'
  <2>1. toBackend' \in Seq(Requests)
    BY RequestHead DEF TypeOK, Requests
  <2>2. \A d \in Calls : yielded'[d] \in 0..MaxYields[d]
    <3> TAKE d \in Calls
    <3>1. MaxYields[d] \in Nat /\ yielded'[d] \in Nat /\ yielded[d] \in 0..MaxYields[d]
      BY CallerAssumption DEF TypeOK
    <3> QED
      BY <3>1
  <2> QED
    BY <1>1, <1>2, <2>1, <2>2 DEF TypeOK, Requests
<1>5. /\ CallOK(c) /\ phase[c] # "idle"
      /\ told[c] \notin {"completed", "critical", "refused"}
  BY DEF CallOK, TableOK, EndOK, Ends
<1>6. CallOK(c)'
  <2>1. RequestOK(c)'
    <3>1. PICK k \in {0, 1} : \A i \in 1..Len(toBackend') :
              AssignOf(toBackend'[i], c) =>
                 i + k \in 1..Len(toBackend) /\ toBackend[i + k] = toBackend'[i]
      BY <1>3, RequestsShift
    <3> QED
      BY <1>5, <3>1 DEF CallOK, RequestOK
  <2>2. ResponseOK(c)'
    <3>1. \A i \in 1..Len(toAgent') : ResponseTo(toAgent'[i], c) =>
              i \in 1..Len(toAgent) /\ toAgent'[i] = toAgent[i]
      BY <1>2 DEF EventOf, ResponseTo
    <3> QED
      BY <1>1, <1>5, <3>1 DEF CallOK, ResponseOK
  <2>3. TableOK(c)'
    BY <1>1, <1>5 DEF CallOK, TableOK
  <2>4. ToldOK(c)' /\ EndOK(c)'
    BY <1>1, <1>5 DEF CallOK, ToldOK, EndOK, Listening
  <2> QED
    BY <2>1, <2>2, <2>3, <2>4 DEF CallOK
<1>7. \A d \in Calls \ {c} : Untouched(d) /\ RequestStep(d) /\ WireStep(d)
  BY <1>1, <1>3 DEF Untouched, WireStep, EventOf
<1> QED
  BY <1>4, <1>6, <1>7, OneCall

\* The pipe of a task that runs holds no end, and gets what is mirrored.
LEMMA RunningPipe ==
    ASSUME IInv, NEW c \in Calls, remote[c] = "running", NEW e \in Message,
           toAgent' = Append(toAgent, e), UNCHANGED <<tableVars, callerVars>>
    PROVE  /\ Pipe(c) \in Seq(Message) /\ Pipe(c)' = Append(Pipe(c), e)
           /\ \A i \in 1..Len(Pipe(c)) : EventOf(Pipe(c)[i], c) => Pipe(c)[i].kind # "running"
           /\ D!Last(c)' = D!Last(c) /\ (Listening(c)' <=> Listening(c))
<1>1. /\ UNCHANGED <<queue, orphans, phase, seen>>
      /\ D!Last(c)' = D!Last(c) /\ (Listening(c)' <=> Listening(c))
  BY DEF tableVars, callerVars, Listening, D!Last
<1> DEFINE s == queue[c] \o orphans[c]
<1>2. /\ s \in Seq(Message) /\ toAgent \in Seq(Message) /\ Pipe(c) \in Seq(Message)
      /\ Pipe(c) = s \o toAgent /\ Pipe(c)' = s \o Append(toAgent, e)
  BY <1>1, PipeFacts DEF IInv, PostmanTypeOK, Pipe
<1> HIDE DEF s
<1>3. Pipe(c)' = Append(Pipe(c), e)
  BY <1>2, AppendSecond
<1>4. \A i \in 1..Len(Pipe(c)) : Pipe(c)[i] \in Message
  BY <1>2, ElementOfSeq
<1>5. \A i \in 1..Len(Pipe(c)) : EventOf(Pipe(c)[i], c) => Pipe(c)[i].kind # "running"
  BY <1>4 DEF Message, EventOf, Ends
<1> QED
  BY <1>1, <1>2, <1>3, <1>5

\* The task yields.
LEMMA YieldIInv ==
    ASSUME IInv, NEW c \in Calls, BackendYield(c)
    PROVE  IInv'
<1> DEFINE e == [Event(c, "yield") EXCEPT !.n = @ + 1]
<1>1. yielded[c] \in Nat /\ yielded \in [Calls -> Nat] /\ Flows(c) /\ MaxYields[c] \in Nat
  BY CallerAssumption DEF IInv, PostmanTypeOK, CallOK
<1>2. e = [type |-> "event", call |-> c, kind |-> "yield", n |-> yielded[c] + 1]
  BY DEF Event
<1>3. /\ remote[c] = "running" /\ yielded[c] < MaxYields[c]
      /\ yielded' = [yielded EXCEPT ![c] = @ + 1] /\ toAgent' = Append(toAgent, e)
      /\ UNCHANGED <<toBackend, lost, loop, tableVars, callerVars, remote, responded>>
  BY DEF BackendYield
<1> HIDE DEF e
<1>4. e \in Message /\ EventOf(e, c) /\ e.kind = "yield" /\ e.n = yielded[c] + 1
  BY <1>1, <1>2 DEF Message, EventOf
<1>5. Flows(c)'
  <2>1. /\ InStream(Pipe(c)', c, D!Last(c), yielded[c] + 1, "running")
        /\ Whole(Pipe(c), c, D!Last(c), yielded[c]) =>
              Whole(Pipe(c)', c, D!Last(c), yielded[c] + 1)
    BY <1>1, <1>3, <1>4, RunningPipe, StreamYield DEF Flows
  <2>2. D!Last(c)' = D!Last(c) /\ (Listening(c)' <=> Listening(c))
    BY <1>3, <1>4, RunningPipe
  <2> QED
    BY <1>1, <1>3, <2>1, <2>2 DEF Flows
<1>6. /\ yielded' \in [Calls -> Nat] /\ yielded'[c] <= MaxYields[c]
      /\ \A d \in Calls \ {c} : yielded'[d] = yielded[d]
  BY <1>1, <1>3
<1> QED
  BY <1>3, <1>4, <1>5, <1>6, MirroredIInv DEF IInv, PostmanTypeOK, TypeOK

\* The task comes to an end.
LEMMA EndIInv ==
    ASSUME IInv, NEW c \in Calls, NEW kind \in Ends, BackendEnd(c, kind),
           toBackend' = toBackend \/ (toBackend # <<>> /\ toBackend' = Tail(toBackend)),
           UNCHANGED <<lost, loop, tableVars, callerVars>>
    PROVE  IInv'
<1> DEFINE e == Event(c, kind)
<1>1. yielded[c] \in Nat /\ Flows(c) /\ MaxYields[c] \in Nat /\ yielded[c] <= MaxYields[c]
  BY CallerAssumption DEF IInv, PostmanTypeOK, CallOK, TypeOK
<1>2. /\ remote[c] = "running" /\ remote' = [remote EXCEPT ![c] = kind]
      /\ toAgent' = Append(toAgent, e) /\ UNCHANGED <<responded, yielded>>
  BY DEF BackendEnd
<1>3. e \in Message /\ EventOf(e, c) /\ e.kind = kind /\ e.kind # "yield"
  BY <1>1 DEF Event, Message, EventOf, Ends
<1> HIDE DEF e
<1>4. /\ remote' \in [Calls -> Ends \cup {"none", "running"}] /\ remote'[c] = kind
      /\ \A d \in Calls \ {c} : remote'[d] = remote[d]
  BY <1>2 DEF IInv, PostmanTypeOK, TypeOK
<1>5. Flows(c)'
  <2>1. /\ InStream(Pipe(c)', c, D!Last(c), yielded[c], kind)
        /\ Whole(Pipe(c), c, D!Last(c), yielded[c]) =>
              Whole(Pipe(c)', c, D!Last(c), yielded[c])
    BY <1>1, <1>2, <1>3, RunningPipe, StreamEnd DEF Flows
  <2>2. D!Last(c)' = D!Last(c) /\ (Listening(c)' <=> Listening(c))
    BY <1>2, <1>3, RunningPipe
  <2> QED
    BY <1>1, <1>2, <1>4, <2>1, <2>2 DEF Flows
<1>6. remote'[c] # "none" /\ yielded' \in [Calls -> Nat] /\ yielded'[c] <= MaxYields[c]
  BY <1>1, <1>2, <1>4 DEF IInv, PostmanTypeOK, Ends
<1> QED
  BY <1>2, <1>3, <1>4, <1>5, <1>6, MirroredIInv

\* The coroutine of a call goes on.
LEMMA CoroutineIInv ==
    ASSUME IInv, NEW c \in Calls, Coroutine(c)
    PROVE  IInv'
<1>1. /\ told \in [Calls -> {"nothing", "refused", "completed", "critical", "cancelled",
                             "abandoned"}]
      /\ told = [told EXCEPT ![c] = told[c]] /\ loop \in Calls \cup {Reading}
      /\ ToldOK(c)
  BY DEF IInv, PostmanTypeOK, TypeOK, CallOK
<1>2. CASE Accepted(c)
  BY <1>2, AcceptedIInv
<1>3. CASE Refused(c)
  <2>1. UNCHANGED <<toBackend, toAgent, lost>>
    BY <1>3 DEF Refused, wireVars
  <2> QED
    BY <1>1, <1>3, <2>1, CleanupIInv DEF Refused, Asks
<1>4. CASE Deliver(c)
  <2>1. CASE Head(queue[c]).kind = "yield"
    BY <1>4, <2>1, DequeueIInv DEF Deliver
  <2>2. CASE Head(queue[c]).kind # "yield"
    BY <1>4, <2>2, DequeueIInv DEF Deliver
  <2> QED
    BY <2>1, <2>2
<1>5. CASE Consumed(c)
  <2>1. /\ UNCHANGED <<toBackend, toAgent, lost, loop, tableVars, seen, backendVars>>
        /\ phase[c] = "consuming" /\ Goto(c, "streaming") /\ UNCHANGED told
    BY <1>5 DEF Consumed, wireVars
  <2>2. told[c] = "nothing" /\ Listening(c) /\ Asks(c)
    BY <1>1, <2>1 DEF ToldOK, Listening, Asks
  <2>3. told' = [told EXCEPT ![c] = "nothing"]
    BY <1>1, <2>1, <2>2
  <2>4. loop' \in Calls \cup {Reading}
    BY <1>1, <2>1
  <2> QED
    BY <2>1, <2>2, <2>3, <2>4, QuietIInv
<1>6. CASE Close(c)
  BY <1>1, <1>6, CleanupIInv DEF Close, Asks
<1>7. CASE Confirm(c)
  <2>1. CASE Head(queue[c]).kind \in Awaited(c)
    <3>1. UNCHANGED <<toBackend, toAgent, lost>> /\ told' = [told EXCEPT ![c] = told[c]]
      BY <1>1, <1>7 DEF Confirm, wireVars
    <3> QED
      BY <1>1, <1>7, <2>1, <3>1, CleanupIInv DEF Confirm, Asks
  <2>2. CASE Head(queue[c]).kind \notin Awaited(c)
    <3>1. /\ phase[c] \in {"confirming", "escalated"} /\ queue[c] # <<>>
          /\ queue' = [queue EXCEPT ![c] = Tail(@)]
          /\ UNCHANGED <<phase, response, queues, orphans, wireVars, loop, seen, told, backendVars>>
      BY <1>7, <2>2 DEF Confirm
    <3>2. Goto(c, phase[c])
      BY <3>1 DEF Goto, IInv, PostmanTypeOK, TypeOK
    <3> QED
      BY <3>1, <3>2, DequeueIInv
  <2> QED
    BY <2>1, <2>2
<1>8. CASE LoopGoesOn(c)
  <2>1. /\ UNCHANGED <<toBackend, toAgent, lost, response, queues, queue, orphans, phase, seen, told,
                       remote, responded, yielded>>
        /\ loop' = Reading
    BY <1>8 DEF LoopGoesOn, wireVars, tableVars, callerVars, backendVars
  <2>2. PostmanTypeOK'
    BY <2>1 DEF IInv, PostmanTypeOK, TypeOK
  <2> QED
    BY <2>1, <2>2, OthersStay DEF IInv, PostmanTypeOK, Untouched, RequestStep, WireStep
<1> QED
  BY <1>2, <1>3, <1>4, <1>5, <1>6, <1>7, <1>8 DEF Coroutine

\* The wait for a confirmation times out.
LEMMA TimeOutIInv ==
    ASSUME IInv, NEW c \in Calls, TimeOut(c)
    PROVE  IInv'
<1>1. /\ told = [told EXCEPT ![c] = told[c]] /\ loop \in Calls \cup {Reading} /\ ToldOK(c)
      /\ UNCHANGED <<toAgent, lost, loop, seen, told, backendVars>>
      /\ phase[c] \in {"confirming", "escalated"}
  BY DEF IInv, PostmanTypeOK, TypeOK, CallOK, TimeOut
<1>2. CASE phase[c] = "confirming" /\ c \in Escalating
  <2>1. /\ Goto(c, "escalated") /\ toBackend' = Append(toBackend, Request(c, "interrupt"))
        /\ UNCHANGED tableVars
    BY <1>2 DEF TimeOut
  <2>2. told[c] = "cancelled" /\ Asks(c)
    BY <1>1, <2>1 DEF ToldOK, Asks
  <2> QED
    BY <1>1, <1>2, <2>1, <2>2, QuietIInv
<1>3. CASE ~(phase[c] = "confirming" /\ c \in Escalating)
  <2>1. Goto(c, "over") /\ Cleanup(c) /\ UNCHANGED toBackend
    BY <1>3 DEF TimeOut
  <2> QED
    BY <1>1, <2>1, CleanupIInv DEF Asks
<1> QED
  BY <1>2, <1>3

\* The caller leaves its loop.
LEMMA AbandonIInv ==
    ASSUME IInv, NEW c \in Calls, Abandon(c)
    PROVE  IInv'
<1>1. /\ UNCHANGED <<toBackend, toAgent, lost, loop, tableVars, seen, backendVars>>
      /\ phase[c] = "consuming" /\ Goto(c, "closing")
      /\ told' = [told EXCEPT ![c] = "abandoned"]
  BY DEF Abandon, wireVars
<1>2. loop' \in Calls \cup {Reading} /\ Asks(c)
  BY <1>1 DEF IInv, PostmanTypeOK, TypeOK, Asks
<1> QED
  BY <1>1, <1>2, QuietIInv

\* The calling task is cancelled, by the loop or by others.
LEMMA InterruptedIInv ==
    ASSUME IInv, NEW c \in Calls, Interrupted(c), told' = [told EXCEPT ![c] = "cancelled"],
           loop' \in Calls \cup {Reading}, UNCHANGED <<toAgent, lost, seen, backendVars>>
    PROVE  IInv'
<1>1. CASE phase[c] = "requested" /\ Cleanup(c) /\ Goto(c, "over") /\ UNCHANGED toBackend
  BY <1>1, CleanupIInv DEF Asks
<1>2. CASE phase[c] = "consuming" /\ Goto(c, "closing") /\ UNCHANGED <<toBackend, tableVars>>
  <2>1. Asks(c)
    BY <1>2 DEF Asks
  <2> QED
    BY <1>2, <2>1, QuietIInv
<1>3. CASE /\ phase[c] = "streaming" /\ Goto(c, "confirming")
           /\ toBackend' = Append(toBackend, Request(c, "cancel")) /\ UNCHANGED tableVars
  <2>1. Asks(c)
    BY <1>3 DEF Asks
  <2> QED
    BY <1>3, <2>1, QuietIInv
<1>4. CASE /\ phase[c] \in {"confirming", "escalated"} /\ Cleanup(c) /\ Goto(c, "over")
           /\ UNCHANGED toBackend
  BY <1>4, CleanupIInv DEF Asks
<1> QED
  BY <1>1, <1>2, <1>3, <1>4 DEF Interrupted

\* The backend does something about the first request, or answers a call.
LEMMA BackendIInv ==
    ASSUME IInv, Backend
    PROVE  IInv'
<1> USE DEF IInv, PostmanTypeOK
<1>1. CASE BackendAccept
  BY <1>1, AcceptIInv
<1>2. CASE BackendRefuse
  <2>1. /\ toBackend # <<>> /\ Head(toBackend).type = "assign" /\ toBackend' = Tail(toBackend)
        /\ UNCHANGED <<lost, loop, tableVars, callerVars, remote, yielded>>
    BY <1>2 DEF BackendRefuse, TakeRequest
  <2>2. /\ Head(toBackend) \in Requests /\ Head(toBackend) = toBackend[1] /\ 1 \in 1..Len(toBackend)
        /\ \A i \in 1..Len(toBackend') :
              i + 1 \in 1..Len(toBackend) /\ toBackend'[i] = toBackend[i + 1]
    BY <2>1, RequestHead
  <2> PICK c \in Calls : c = Head(toBackend).call
    BY <2>2 DEF Requests
  <2>3. /\ RequestOK(c) /\ AssignOf(toBackend[1], c) /\ c \notin responded /\ phase[c] # "idle"
        /\ remote[c] = "none"
    BY <2>1, <2>2 DEF CallOK, RequestOK, AssignOf
  <2>4. ASSUME NEW i \in 1..Len(toBackend'), AssignOf(toBackend'[i], c) PROVE FALSE
    <3>1. i + 1 = 1
      BY <2>2, <2>3, <2>4 DEF RequestOK
    <3> QED
      BY <3>1
  <2>5. toAgent' = Append(toAgent, Response(c, "refused")) /\ responded' = responded \cup {c}
    BY <1>2 DEF BackendRefuse
  <2> QED
    BY <2>1, <2>3, <2>4, <2>5, AnswerIInv
<1>3. CASE BackendControl
  <2>1. PICK type \in {"cancel", "interrupt"} :
            /\ TakeRequest(type)
            /\ \/ BackendEnd(Head(toBackend).call,
                             IF type = "cancel" THEN "cancelled" ELSE "interrupted")
               \/ UNCHANGED <<toAgent, backendVars>>
    BY <1>3 DEF BackendControl
  <2>2. /\ toBackend # <<>> /\ toBackend' = Tail(toBackend) /\ Head(toBackend) \in Requests
        /\ UNCHANGED <<lost, loop, tableVars, callerVars>>
    BY <2>1, RequestHead DEF TakeRequest
  <2>3. CASE UNCHANGED <<toAgent, backendVars>>
    BY <2>2, <2>3, LostIInv
  <2>4. CASE BackendEnd(Head(toBackend).call,
                        IF type = "cancel" THEN "cancelled" ELSE "interrupted")
    <3>1. PICK c \in Calls, kind \in Ends : BackendEnd(c, kind)
      BY <2>2, <2>4 DEF Requests, Ends
    <3> QED
      BY <2>2, <3>1, EndIInv
  <2> QED
    BY <2>1, <2>3, <2>4
<1>4. ASSUME NEW c \in Calls, BackendRespond(c) PROVE IInv'
  <2>1. /\ remote[c] # "none" /\ c \notin responded /\ responded' = responded \cup {c}
        /\ toAgent' = Append(toAgent, Response(c, "assigned"))
        /\ UNCHANGED <<toBackend, lost, loop, tableVars, callerVars, remote, yielded>>
    BY <1>4 DEF BackendRespond
  <2>2. phase[c] # "idle" /\ \A i \in 1..Len(toBackend) : ~AssignOf(toBackend[i], c)
    BY <2>1 DEF CallOK, RequestOK, TableOK
  <2> QED
    BY <2>1, <2>2, AnswerIInv
<1> QED
  BY <1>1, <1>2, <1>3, <1>4 DEF Backend

\* Every step keeps the invariant.
LEMMA NextIInv == IInv /\ [Next]_vars => IInv'
<1> SUFFICES ASSUME IInv, [Next]_vars PROVE IInv'
  OBVIOUS
<1>1. CASE UNCHANGED vars
  <2>1. UNCHANGED <<toBackend, toAgent, lost, loop, response, queues, queue, orphans, phase, seen,
                    told, remote, responded, yielded>>
    BY <1>1 DEF vars, wireVars, tableVars, callerVars, backendVars
  <2>2. PostmanTypeOK'
    BY <2>1 DEF IInv, PostmanTypeOK, TypeOK
  <2> QED
    BY <2>1, <2>2, OthersStay DEF IInv, PostmanTypeOK, Untouched, RequestStep, WireStep
<1>2. ASSUME NEW c \in Calls,
             \/ Call(c) \/ Coroutine(c) \/ TimeOut(c) \/ Abandon(c)
             \/ CancelLocally(c) \/ CancelByLoop(c) \/ BackendYield(c)
      PROVE  IInv'
  <2>1. CASE CancelLocally(c) \/ CancelByLoop(c)
    BY <2>1, InterruptedIInv DEF CancelLocally, CancelByLoop, IInv, PostmanTypeOK, TypeOK
  <2> QED
    BY <1>2, <2>1, CallIInv, CoroutineIInv, TimeOutIInv, AbandonIInv, YieldIInv
<1>3. ASSUME NEW c \in Calls, BackendFinish(c) PROVE IInv'
  <2>1. PICK kind \in Ends : BackendEnd(c, kind)
    BY <1>3, CallerAssumption DEF BackendFinish, Ends
  <2> QED
    BY <1>3, <2>1, EndIInv DEF BackendFinish
<1>4. CASE Process
  BY <1>4, ResponseIInv, MirrorIInv DEF Process
<1>5. CASE LoseMirror \/ LoseRequest
  BY <1>5, LostIInv DEF LoseMirror, LoseRequest
<1>6. CASE Backend
  BY <1>6, BackendIInv
<1> QED
  BY <1>1, <1>2, <1>3, <1>4, <1>5, <1>6 DEF Next

\* In every reachable state a call is requested and answered once, and its
\* mirrors are on one way, in order, none missing while the caller listens and
\* nothing was lost.
THEOREM CallerInvariant == Spec => []IInv
  BY InitIInv, NextIInv, PTL DEF Spec

\* Every variable has its type, and a task has a queue or orphans, never both.
THEOREM CallerTypeOK == Spec => []TypeOK
<1>1. IInv => TypeOK
  BY DEF IInv, PostmanTypeOK
<1> QED
  BY <1>1, CallerInvariant, PTL

\* A call that has come to its end leaves nothing in the tables, in whatever
\* order response and mirrors came (the finally block of aassign).
THEOREM CallLeavesNothing == Spec => []NothingLeft
<1>1. IInv => NothingLeft
  BY DEF IInv, CallOK, EndOK, NothingLeft
<1> QED
  BY <1>1, CallerInvariant, PTL

-----------------------------------------------------------------------------
(* The refinement. *)

\* Nothing is promised yet at first.
LEMMA InitDelegates == Init => D!Init
  BY DEF Init, D!Init, Lossy

\* What the queue of a call hands to its caller is a step that the promise
\* allows.
LEMMA DeliverDelegates ==
    ASSUME IInv, NEW c \in Calls, Deliver(c)
    PROVE  D!Next
<1> DEFINE e == Head(queue[c])
<1>1. /\ phase[c] = "streaming" /\ queue[c] # <<>>
      /\ UNCHANGED <<lost, remote, yielded>> /\ told[c] = "nothing" /\ Listening(c)
  BY DEF Deliver, wireVars, backendVars, IInv, CallOK, ToldOK, Listening
<1>2. Lossy' = Lossy /\ (c \notin Lossy => lost = 0)
  BY <1>1 DEF Lossy
<1>3. /\ D!Last(c) \in Nat /\ yielded[c] \in Nat /\ D!Last(c) <= yielded[c]
      /\ lost = 0 => Whole(Pipe(c), c, D!Last(c), yielded[c])
  BY <1>1 DEF IInv, CallOK, Flows, PostmanTypeOK
<1>4. CASE e.kind = "yield"
  <2>1. /\ e.n \in Nat /\ e.n > D!Last(c) /\ e.n <= yielded[c]
        /\ lost = 0 => e.n = D!Last(c) + 1
    BY <1>1, <1>3, <1>4, HeadArrives
  <2>2. seen' = [seen EXCEPT ![c] = Append(@, e.n)] /\ UNCHANGED told
    BY <1>4 DEF Deliver
  <2>3. D!See(c, e.n) /\ e.n \in 1..yielded[c]
    BY <1>1, <1>3, <1>2, <2>1, <2>2 DEF D!See
  <2> QED
    BY <2>3 DEF D!Next
<1>5. CASE e.kind # "yield"
  <2>1. e.kind = remote[c] /\ e.kind \in Ends /\ (lost = 0 => yielded[c] <= D!Last(c))
    BY <1>1, <1>3, <1>5, HeadArrives
  <2>2. told' = [told EXCEPT ![c] = Adapt(e.kind)] /\ UNCHANGED seen
    BY <1>5 DEF Deliver
  <2>3. CASE e.kind = "completed"
    <3>1. remote[c] = "completed" /\ (lost = 0 => D!Last(c) = yielded[c])
      BY <1>3, <2>1, <2>3
    <3>2. D!Return(c)
      BY <1>1, <1>2, <2>2, <2>3, <3>1 DEF D!Return, D!Tell, Adapt
    <3> QED
      BY <3>2 DEF D!Next
  <2>4. CASE e.kind # "completed"
    <3>1. D!Raise(c)
      BY <1>1, <1>2, <2>1, <2>2, <2>4 DEF D!Raise, D!Tell, Adapt, Ends, D!Ends
    <3> QED
      BY <3>1 DEF D!Next
  <2> QED
    BY <2>3, <2>4
<1> QED
  BY <1>4, <1>5

\* Every step of the postman is one that the promise allows, or none.
LEMMA StepDelegates == IInv /\ [Next]_vars => [D!Next]_(D!vars)
<1> SUFFICES ASSUME IInv, [Next]_vars PROVE D!Next \/ UNCHANGED D!vars
  OBVIOUS
<1>1. ASSUME UNCHANGED <<remote, yielded, seen, told, lost>> PROVE UNCHANGED D!vars
  BY <1>1 DEF D!vars, Lossy
<1>2. CASE UNCHANGED vars
  BY <1>1, <1>2 DEF vars, wireVars, callerVars, backendVars
<1>3. ASSUME NEW c \in Calls,
             \/ Call(c) \/ Accepted(c) \/ Consumed(c) \/ Close(c) \/ Confirm(c) \/ LoopGoesOn(c)
             \/ TimeOut(c)
      PROVE  UNCHANGED D!vars
  BY <1>1, <1>3 DEF Call, Accepted, Consumed, Close, Confirm, LoopGoesOn, TimeOut, wireVars,
                    callerVars, backendVars
<1>4. ASSUME NEW c \in Calls, Refused(c) PROVE D!Next
  <2>1. /\ told[c] = "nothing" /\ remote[c] = "none"
        /\ told' = [told EXCEPT ![c] = "refused"] /\ UNCHANGED <<remote, yielded, seen, lost>>
    BY <1>4 DEF Refused, wireVars, backendVars, IInv, CallOK, ToldOK, ResponseOK, Listening
  <2>2. D!Refuse(c)
    BY <2>1 DEF D!Refuse, D!Tell, Lossy
  <2> QED
    BY <2>2 DEF D!Next
<1>5. ASSUME NEW c \in Calls, Abandon(c) \/ CancelLocally(c) \/ CancelByLoop(c)
      PROVE  D!Next \/ UNCHANGED D!vars
  <2>1. UNCHANGED <<remote, yielded, seen, lost>>
    BY <1>5 DEF Abandon, CancelLocally, CancelByLoop, wireVars, backendVars
  <2>2. PICK end \in {"cancelled", "abandoned"} : told' = [told EXCEPT ![c] = end]
    BY <1>5 DEF Abandon, CancelLocally, CancelByLoop
  <2>3. told[c] = "nothing" \/ told[c] = end
    <3>1. CASE Abandon(c) \/ CancelLocally(c)
      BY <3>1 DEF Abandon, CancelLocally, IInv, CallOK, ToldOK, Listening
    <3>2. CASE CancelByLoop(c)
      <4>1. told' = [told EXCEPT ![c] = "cancelled"] /\ told[c] \in {"nothing", "cancelled"}
        BY <3>2 DEF CancelByLoop, Interrupted, IInv, CallOK, ToldOK, Listening
      <4> QED
        BY <2>2, <4>1 DEF IInv, PostmanTypeOK, TypeOK
    <3> QED
      BY <1>5, <3>1, <3>2
  <2>4. CASE told[c] = "nothing"
    <3>1. D!Leave(c)
      BY <2>1, <2>2, <2>4 DEF D!Leave, D!Tell, Lossy
    <3> QED
      BY <3>1 DEF D!Next
  <2>5. CASE told[c] = end
    <3>1. told' = told
      BY <2>2, <2>5 DEF IInv, PostmanTypeOK, TypeOK
    <3> QED
      BY <1>1, <2>1, <3>1
  <2> QED
    BY <2>3, <2>4, <2>5
<1>6. ASSUME NEW c \in Calls, BackendYield(c) PROVE D!Next
  <2>1. D!Yield(c)
    BY <1>6 DEF BackendYield, D!Yield, callerVars, Lossy
  <2> QED
    BY <2>1 DEF D!Next
<1>7. ASSUME NEW c \in Calls, NEW kind \in Ends, BackendEnd(c, kind),
             UNCHANGED <<lost, callerVars>>
      PROVE  D!Next
  <2>1. D!End(c, kind) /\ kind \in D!Ends
    BY <1>7 DEF BackendEnd, D!End, D!Ends, Ends, callerVars, Lossy
  <2> QED
    BY <2>1 DEF D!Next
<1>8. ASSUME NEW c \in Calls, BackendFinish(c) PROVE D!Next
  <2>1. PICK kind \in Ends : BackendEnd(c, kind)
    BY <1>8, CallerAssumption DEF BackendFinish, Ends
  <2> QED
    BY <1>7, <1>8, <2>1 DEF BackendFinish
<1>9. CASE Process
  BY <1>1, <1>9 DEF Process, HandleAssignResponse, HandleExecutionEvent, callerVars, backendVars
<1>10. CASE LoseMirror \/ LoseRequest
  <2>1. Lossy' = Lossy \cup Calls
    BY <1>10 DEF LoseMirror, LoseRequest, Lossy, IInv, PostmanTypeOK, TypeOK
  <2>2. D!Lose
    BY <1>10, <2>1 DEF LoseMirror, LoseRequest, D!Lose, callerVars, backendVars
  <2> QED
    BY <2>2 DEF D!Next
<1>11. CASE Backend
  <2>1. CASE BackendAccept
    <3>1. /\ toBackend # <<>> /\ Head(toBackend) \in Requests /\ Head(toBackend).type = "assign"
          /\ Head(toBackend) = toBackend[1] /\ 1 \in 1..Len(toBackend)
      BY <2>1, RequestHead DEF BackendAccept, TakeRequest, IInv, PostmanTypeOK
    <3> PICK c \in Calls : c = Head(toBackend).call
      BY <3>1 DEF Requests
    <3>2. remote[c] = "none"
      BY <3>1 DEF IInv, CallOK, RequestOK, AssignOf
    <3>3. D!Run(c)
      BY <2>1, <3>2 DEF BackendAccept, TakeRequest, D!Run, callerVars, Lossy
    <3> QED
      BY <3>3 DEF D!Next
  <2>2. CASE BackendRefuse \/ \E c \in Calls : BackendRespond(c)
    BY <1>1, <2>2 DEF BackendRefuse, BackendRespond, TakeRequest, callerVars
  <2>3. CASE BackendControl
    <3>1. PICK type \in {"cancel", "interrupt"} :
              /\ TakeRequest(type)
              /\ \/ BackendEnd(Head(toBackend).call,
                               IF type = "cancel" THEN "cancelled" ELSE "interrupted")
                 \/ UNCHANGED <<toAgent, backendVars>>
      BY <2>3 DEF BackendControl
    <3>2. Head(toBackend) \in Requests /\ UNCHANGED <<lost, callerVars>>
      BY <3>1, RequestHead DEF TakeRequest, IInv, PostmanTypeOK
    <3>3. CASE UNCHANGED <<toAgent, backendVars>>
      BY <1>1, <3>2, <3>3 DEF callerVars, backendVars
    <3>4. CASE BackendEnd(Head(toBackend).call,
                          IF type = "cancel" THEN "cancelled" ELSE "interrupted")
      <4>1. PICK c \in Calls, kind \in Ends : BackendEnd(c, kind)
        BY <3>2, <3>4 DEF Requests, Ends
      <4> QED
        BY <1>7, <3>2, <4>1
    <3> QED
      BY <3>1, <3>3, <3>4
  <2> QED
    BY <1>11, <2>1, <2>2, <2>3 DEF Backend
<1> QED
  BY <1>2, <1>3, <1>4, <1>5, <1>6, <1>8, <1>9, <1>10, <1>11, DeliverDelegates
     DEF Next, Coroutine

\* The postman keeps the promise of Delegation: a caller is given the yields in
\* order and told the true end, however response and mirrors cross; only a
\* lost message excuses a gap.
THEOREM CallerImplementsDelegation == Spec => ImplementsDelegation
  BY InitDelegates, StepDelegates, CallerInvariant, PTL DEF Spec, ImplementsDelegation, D!Spec

-----------------------------------------------------------------------------
(* What the promise means. *)

\* The caller has been given yields of its task in order, all of them if
\* nothing was lost.
SeenOK(c) == YieldsSeen(seen[c], yielded[c], c \notin Lossy)

\* What the caller was told is what became of the task.
EndTrue(c) ==
    /\ told[c] = "completed" =>
          remote[c] = "completed" /\ (c \notin Lossy => Len(seen[c]) = yielded[c])
    /\ told[c] = "critical" => remote[c] \in Ends \ {"completed"}

PromiseInv == \A c \in Calls : SeenOK(c) /\ EndTrue(c)

\* Nothing has been given or told at first.
LEMMA InitPromise == Init => PromiseInv
<1> SUFFICES ASSUME Init, NEW c \in Calls PROVE SeenOK(c) /\ EndTrue(c)
  BY DEF PromiseInv
<1>1. seen[c] = <<>> /\ told[c] = "nothing"
  BY DEF Init
<1>2. <<>> \in Seq(Nat) /\ DOMAIN <<>> = {}
  OBVIOUS
<1>3. SeenOK(c)
  BY <1>1, <1>2 DEF SeenOK, YieldsSeen
<1>4. EndTrue(c)
  BY <1>1 DEF EndTrue
<1> QED
  BY <1>3, <1>4

\* No step that the promise allows makes it untrue: an end is told once, when the
\* task has it, and a yield is given after the ones before it.
LEMMA StepPromise ==
    ASSUME IInv, IInv', PromiseInv, D!Next
    PROVE  PromiseInv'
<1>1. /\ seen \in [Calls -> Seq(Nat)]
      /\ told \in [Calls -> {"nothing", "refused", "completed", "critical",
                             "cancelled", "abandoned"}]
      /\ remote \in [Calls -> Ends \cup {"none", "running"}]
      /\ yielded \in [Calls -> Nat] /\ yielded' \in [Calls -> Nat]
  BY DEF IInv, PostmanTypeOK, TypeOK
<1>2. \A c \in Calls : c \notin Lossy' => c \notin Lossy
  BY DEF D!Next, D!Lose, D!Run, D!Yield, D!End, D!See, D!Return, D!Raise, D!Refuse, D!BreakOff,
         D!Leave, D!Tell
<1>3. ASSUME NEW c \in Calls, seen'[c] = seen[c], yielded[c] <= yielded'[c]
      PROVE  SeenOK(c)'
  <2>1. YieldsSeen(seen[c], yielded'[c], c \notin Lossy')
    BY <1>2, <1>1, <1>3, SeenStay DEF PromiseInv, SeenOK
  <2> QED
    BY <1>3, <2>1 DEF SeenOK
<1>4. ASSUME NEW c \in Calls,
             seen'[c] = seen[c], told'[c] = told[c],
             \/ remote'[c] = remote[c] /\ yielded'[c] = yielded[c]
             \/ remote[c] \in {"none", "running"}
      PROVE  EndTrue(c)'
  BY <1>2, <1>1, <1>4 DEF PromiseInv, EndTrue, Ends
<1>5. ASSUME NEW c \in Calls,
             seen'[c] = seen[c], told'[c] = told[c],
             remote'[c] = remote[c], yielded'[c] = yielded[c]
      PROVE  SeenOK(c)' /\ EndTrue(c)'
  BY <1>1, <1>3, <1>4, <1>5
<1>6. CASE D!Lose
  BY <1>5, <1>6 DEF D!Lose, PromiseInv
<1>7. ASSUME NEW c \in Calls, D!Run(c) \/ D!Yield(c) \/ \E kind \in D!Ends : D!End(c, kind)
      PROVE  PromiseInv'
  <2>1. UNCHANGED <<seen, told>> /\ remote[c] \in {"none", "running"}
    BY <1>7 DEF D!Run, D!Yield, D!End
  <2>2. yielded[c] <= yielded'[c]
    BY <1>1, <1>7 DEF D!Run, D!Yield, D!End
  <2>3. \A d \in Calls \ {c} : remote'[d] = remote[d] /\ yielded'[d] = yielded[d]
    BY <1>1, <1>7 DEF D!Run, D!Yield, D!End
  <2>4. SeenOK(c)' /\ EndTrue(c)'
    <3>1. seen'[c] = seen[c] /\ told'[c] = told[c]
      BY <2>1
    <3>2. SeenOK(c)'
      BY <1>3, <2>1, <2>2, <3>1
    <3>3. EndTrue(c)'
      BY <1>4, <2>1, <3>1
    <3> QED
      BY <3>2, <3>3
  <2>5. ASSUME NEW d \in Calls \ {c} PROVE SeenOK(d)' /\ EndTrue(d)'
    <3>1. /\ d \in Calls /\ seen'[d] = seen[d] /\ told'[d] = told[d]
          /\ remote'[d] = remote[d] /\ yielded'[d] = yielded[d]
      BY <2>1, <2>3
    <3> QED
      BY <1>5, <3>1
  <2> QED
    BY <2>4, <2>5 DEF PromiseInv
<1>8. ASSUME NEW c \in Calls, NEW n \in 1..yielded[c], D!See(c, n)
      PROVE  PromiseInv'
  <2>1. /\ told[c] = "nothing" /\ UNCHANGED <<remote, yielded, told>>
        /\ n > D!Last(c) /\ (c \notin Lossy => n = D!Last(c) + 1)
        /\ seen'[c] = Append(seen[c], n) /\ \A d \in Calls \ {c} : seen'[d] = seen[d]
    BY <1>1, <1>8 DEF D!See
  <2>2. D!Last(c) = LastOf(seen[c])
    BY DEF D!Last, LastOf
  <2>3. SeenOK(c)'
    <3>1. YieldsSeen(seen[c], yielded[c], c \notin Lossy)
      BY DEF PromiseInv, SeenOK
    <3>2. YieldsSeen(Append(seen[c], n), yielded[c], c \notin Lossy)
      BY <1>1, <2>1, <2>2, <3>1, SeenAppend
    <3>3. YieldsSeen(Append(seen[c], n), yielded[c], c \notin Lossy')
      <4>1. yielded[c] \in Nat /\ yielded[c] <= yielded[c]
        BY <1>1
      <4> QED
        BY <1>2, <3>2, <4>1, SeenStay
    <3> QED
      BY <2>1, <3>3 DEF SeenOK
  <2>4. EndTrue(c)'
    BY <2>1 DEF EndTrue
  <2>5. ASSUME NEW d \in Calls \ {c} PROVE SeenOK(d)' /\ EndTrue(d)'
    BY <1>5, <2>1
  <2> QED
    BY <2>3, <2>4, <2>5 DEF PromiseInv
<1>9. ASSUME NEW c \in Calls, D!Return(c) \/ D!Raise(c) \/ D!Refuse(c) \/ D!BreakOff(c) \/ D!Leave(c)
      PROVE  PromiseInv'
  <2>1. UNCHANGED <<remote, yielded, seen>>
    BY <1>9 DEF D!Return, D!Raise, D!Refuse, D!BreakOff, D!Leave, D!Tell
  <2>2. \A d \in Calls \ {c} : told'[d] = told[d]
    BY <1>1, <1>9 DEF D!Return, D!Raise, D!Refuse, D!BreakOff, D!Leave, D!Tell
  <2>3. SeenOK(c)'
    BY <1>1, <1>3, <2>1
  <2>4. EndTrue(c)'
    <3>1. CASE D!Return(c)
      <4>1. /\ told'[c] = "completed" /\ remote[c] = "completed"
            /\ c \notin Lossy => D!Last(c) = yielded[c]
        BY <1>1, <3>1 DEF D!Return, D!Tell
      <4>2. c \notin Lossy => D!Last(c) = Len(seen[c])
        <5>1. YieldsSeen(seen[c], yielded[c], c \notin Lossy) /\ yielded[c] \in Nat
          BY <1>1 DEF PromiseInv, SeenOK
        <5>2. c \notin Lossy => LastOf(seen[c]) = Len(seen[c])
          BY <5>1, SeenLast
        <5> QED
          BY <5>2 DEF D!Last, LastOf
      <4> QED
        BY <1>2, <2>1, <4>1, <4>2 DEF EndTrue
    <3>2. CASE D!Raise(c)
      BY <1>1, <2>1, <3>2 DEF D!Raise, D!Tell, EndTrue, D!Ends, Ends
    <3>3. CASE D!Refuse(c) \/ D!BreakOff(c) \/ D!Leave(c)
      <4>1. told'[c] \in {"refused", "unanswered", "cancelled", "abandoned"}
        BY <1>1, <3>3 DEF D!Refuse, D!BreakOff, D!Leave, D!Tell
      <4> QED
        BY <4>1 DEF EndTrue
    <3> QED
      BY <1>9, <3>1, <3>2, <3>3
  <2>5. ASSUME NEW d \in Calls \ {c} PROVE SeenOK(d)' /\ EndTrue(d)'
    BY <1>5, <2>1, <2>2
  <2> QED
    BY <2>3, <2>4, <2>5 DEF PromiseInv
<1> QED
  BY <1>6, <1>7, <1>8, <1>9 DEF D!Next

\* Steps the promise does not speak of leave it true.
LEMMA QuietPromise ==
    ASSUME PromiseInv, UNCHANGED D!vars
    PROVE  PromiseInv'
<1>1. UNCHANGED <<seen, yielded, told, remote>> /\ Lossy' = Lossy
  BY DEF D!vars
<1> QED
  BY <1>1 DEF PromiseInv, SeenOK, EndTrue

\* The invariant is what Delegation says.
LEMMA PromiseIsKept == PromiseInv => D!SeenInOrder /\ D!EndIsTrue
  BY DEF PromiseInv, SeenOK, EndTrue, YieldsSeen, D!SeenInOrder, D!EndIsTrue, D!Ends, Ends

\* Hence, for any calls and any number of yields, a caller is given the yields of
\* its task in order, none twice and none left out unless a mirror was lost, and
\* a call that returns or raises stands for a task that did (aassign).
THEOREM CallerGetsWhatIsTrue == Spec => [](D!SeenInOrder /\ D!EndIsTrue)
<1>1. IInv /\ IInv' /\ PromiseInv /\ [Next]_vars => PromiseInv'
  BY StepDelegates, StepPromise, QuietPromise
<1> QED
  BY <1>1, InitPromise, PromiseIsKept, CallerInvariant, PTL DEF Spec

=============================================================================
