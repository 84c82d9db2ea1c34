---------------------------- MODULE ReportStream ----------------------------
(***************************************************************************)
(* The agent's outbound event stream: BaseAgent._adispatch numbers every   *)
(* event and retains the terminal ones, the websocket transport's sender   *)
(* task drains the send queue into whatever socket is live, the backend    *)
(* acknowledges what it made durable, and an Init received after a         *)
(* reconnect resends everything still retained, and then answers what the  *)
(* backend asks about the tasks whose end it has not recorded.  The socket *)
(* may drop at any step, and takes with it what is in flight and the       *)
(* message the sender had already taken from the queue; when it is the     *)
(* sender that notices first, the transport does not reconnect any more.   *)
(*                                                                         *)
(* The agent's tasks are assigned already.  Each answer to an inquiry is a *)
(* step of its own, for process awaits once per inquiry; with the          *)
(* websocket transport no other task runs in between.                      *)
(*                                                                         *)
(* Heartbeats, state patches and lock notices use the same queue; they     *)
(* carry no retention and are left out.  The backend (persist, then ack;   *)
(* one Init per Register) is external to the repository.                   *)
(***************************************************************************)
EXTENDS Integers, Sequences, SequencesExt

CONSTANTS
    Reports,        \* the events actors and the agent report, by message id
    Terminals,      \* those of a type in _TERMINAL_FROM_AGENT_TYPES
    Answers,        \* those that process(Init) makes: Progress or Critical
    Untracking,     \* the Cancelled reports that follow the removal of the
                    \* task from _running_asyncio_tasks
    TaskOf,         \* the task each report is about
    Managed,        \* managed_assignments; other tasks were lost on their
                    \* way, or are an earlier process's
    Inquiries,      \* what an Init may ask about: sequences of tasks
    RegisterMsg,    \* the Register sent first on every connection
    NoReport,       \* the sender task holds no message
    MaxDrops,       \* bound: how many times the socket drops
    MaxAsks         \* bound: how often the backend asks about one task

Tasks == {TaskOf[r] : r \in Reports}

\* messages.Init, with its inquiries
InitMsgs == [inquiries : Inquiries]

\* Only a task that was assigned reports of its own accord that it goes on.
ASSUME StreamAssumption ==
    /\ Terminals \subseteq Reports /\ Answers \subseteq Reports
    /\ Untracking \subseteq Terminals \ Answers
    /\ \A r \in Reports \ (Terminals \cup Answers) : TaskOf[r] \in Managed
    /\ Inquiries \subseteq Seq(Tasks)
    /\ ({RegisterMsg, NoReport} \cup InitMsgs) \cap Reports = {}
    /\ RegisterMsg # NoReport
    /\ MaxDrops \in Nat /\ MaxAsks \in Nat

VARIABLES
    dispatched,     \* the reports that _adispatch has numbered
    unackedEvents,  \* _unacked_events, in the dict's insertion order
    sendQueue,      \* the transport's _send_queue; survives reconnects
    connected,      \* the transport holds a live client and a sender task
    inHand,         \* what the sender took from the queue and has not sent
    wire,           \* agent -> backend, on the current connection
    replies,        \* backend -> agent, on the current connection
    inQueue,        \* the transport's _in_queue: received, not yet processed
    asking,         \* the inquiries of the Init in process, not yet answered
    over,           \* the connection task has ended with the sender's error
    drops,          \* how often the socket has dropped
    durable,        \* external: the terminal reports the backend persisted
    arrived,        \* external: the other reports the backend received
    asks            \* external: how often it asked about each task

agentVars == <<dispatched, unackedEvents>>
backendVars == <<durable, arrived, asks>>
socketVars == <<connected, over, drops>>
vars == <<agentVars, sendQueue, inHand, wire, replies, inQueue, asking,
          socketVars, backendVars>>

Init ==
    /\ dispatched = {}
    /\ unackedEvents = <<>>
    /\ sendQueue = <<>>
    /\ connected = FALSE
    /\ inHand = NoReport
    /\ wire = <<>>
    /\ replies = <<>>
    /\ inQueue = <<>>
    /\ asking = <<>>
    /\ over = FALSE
    /\ drops = 0
    /\ durable = {}
    /\ arrived = {}
    /\ asks = [t \in Tasks |-> 0]

-----------------------------------------------------------------------------
(* The agent. *)

\* Mutation: the report is retained only if the socket is up.
AdispatchRetainsWhenConnected(r) ==
    /\ dispatched' = dispatched \cup {r}
    /\ unackedEvents' = IF r \in Terminals /\ connected
                        THEN Append(unackedEvents, r) ELSE unackedEvents
    /\ sendQueue' = Append(sendQueue, r)

\* Mutation: a terminal report jumps the queue.
AdispatchTerminalFirst(r) ==
    /\ dispatched' = dispatched \cup {r}
    /\ unackedEvents' = IF r \in Terminals
                        THEN Append(unackedEvents, r) ELSE unackedEvents
    /\ sendQueue' = IF r \in Terminals THEN <<r>> \o sendQueue ELSE Append(sendQueue, r)

\* _adispatch: number the event, retain it if it is terminal, queue it.
Adispatch(r) ==
    /\ dispatched' = dispatched \cup {r}
    /\ unackedEvents' = IF r \in Terminals
                        THEN Append(unackedEvents, r) ELSE unackedEvents
    /\ sendQueue' = Append(sendQueue, r)

\* The ends that the actor of a task has reported.
OwnEnds(t) == {q \in (Terminals \ Answers) \cap dispatched : TaskOf[q] = t}

\* An actor reports nothing more about a task once it has reported its end,
\* except a second end: a Cancel that finds the task done reports Cancelled.
\* A task that was cancelled while it ran is forgotten.
MayDispatch(r) ==
    /\ r \notin Answers \cup dispatched
    /\ r \in Terminals \ Untracking \/ OwnEnds(TaskOf[r]) = {}
    /\ OwnEnds(TaskOf[r]) \cap Untracking = {}

\* An actor reports.
Dispatch(r) ==
    /\ MayDispatch(r)
    /\ Adispatch(r)
    /\ UNCHANGED <<inHand, wire, replies, inQueue, asking, socketVars, backendVars>>

\* dict.pop(key, None)
Pop(s, r) ==
    IF \E i \in 1..Len(s) : s[i] = r
    THEN RemoveAt(s, CHOOSE i \in 1..Len(s) : s[i] = r)
    ELSE s

\* The message loop is done with one message and takes the next.
Take(messages) ==
    /\ asking = <<>>
    /\ inQueue # <<>> /\ Head(inQueue) \in messages
    /\ inQueue' = Tail(inQueue)
    /\ UNCHANGED <<inHand, wire, replies, socketVars, backendVars>>

\* Mutation: the resent reports go through _adispatch and are retained twice.
ProcessInitRetainsAgain ==
    /\ Take(InitMsgs)
    /\ sendQueue' = sendQueue \o unackedEvents
    /\ unackedEvents' = unackedEvents \o unackedEvents
    /\ asking' = Head(inQueue).inquiries
    /\ UNCHANGED dispatched

\* Mutation: what is retained is resent only if the queue is empty.
ProcessInitSkipsQueued ==
    /\ Take(InitMsgs)
    /\ sendQueue' = IF sendQueue = <<>> THEN unackedEvents ELSE sendQueue
    /\ asking' = Head(inQueue).inquiries
    /\ UNCHANGED agentVars

\* process(Init): resend every retained report, as it is and in order; then
\* come the inquiries.
ProcessInit ==
    /\ Take(InitMsgs)
    /\ sendQueue' = sendQueue \o unackedEvents
    /\ asking' = Head(inQueue).inquiries
    /\ UNCHANGED agentVars

\* acheck_task of a managed task: it stays in _running_asyncio_tasks until a
\* Cancel has stopped it, also when it completed or failed long ago.
Tracked(t) ==
    t \in Managed /\ \A q \in Untracking \cap dispatched : TaskOf[q] # t

\* process(Init), the next inquiry: "Actor is still running" for a tracked
\* task, Critical for any other.
AnswerInquiry(r) ==
    /\ asking # <<>> /\ asking' = Tail(asking)
    /\ r \in Answers \ dispatched
    /\ TaskOf[r] = Head(asking)
    /\ r \in Terminals <=> ~Tracked(Head(asking))
    /\ Adispatch(r)
    /\ UNCHANGED <<inHand, wire, replies, inQueue, socketVars, backendVars>>

\* Mutation: an acknowledgement releases the oldest retained report.
ProcessEventAckPopsOldest ==
    /\ Take(Terminals)
    /\ unackedEvents' = IF unackedEvents = <<>> THEN <<>> ELSE Tail(unackedEvents)
    /\ UNCHANGED <<dispatched, sendQueue, asking>>

\* process(EventAck): the report is durable, stop retaining it.
ProcessEventAck ==
    /\ Take(Terminals)
    /\ unackedEvents' = Pop(unackedEvents, Head(inQueue))
    /\ UNCHANGED <<dispatched, sendQueue, asking>>

-----------------------------------------------------------------------------
(* The websocket transport. *)

\* A new socket: Register goes out first, then the sender task starts.
Connect ==
    /\ ~connected /\ ~over
    /\ connected' = TRUE
    /\ wire' = <<RegisterMsg>>
    /\ UNCHANGED <<agentVars, sendQueue, inHand, replies, inQueue, asking, over, drops, backendVars>>

\* The sender task takes one message from the queue ...
SenderTake ==
    /\ connected /\ inHand = NoReport /\ sendQueue # <<>>
    /\ inHand' = Head(sendQueue)
    /\ sendQueue' = Tail(sendQueue)
    /\ UNCHANGED <<agentVars, wire, replies, inQueue, asking, socketVars, backendVars>>

\* ... and puts it on the wire.
SenderSend ==
    /\ connected /\ inHand # NoReport
    /\ wire' = Append(wire, inHand)
    /\ inHand' = NoReport
    /\ UNCHANGED <<agentVars, sendQueue, replies, inQueue, asking, socketVars,
                   backendVars>>

\* The receive loop hands one message to the agent's inbound queue.
Receive ==
    /\ connected /\ replies # <<>>
    /\ inQueue' = Append(inQueue, Head(replies))
    /\ replies' = Tail(replies)
    /\ UNCHANGED <<agentVars, sendQueue, inHand, wire, asking, socketVars, backendVars>>

\* The socket dies: everything in flight is lost, and so is the message in
\* the hand of the sender task, which is cancelled.  Both queues survive.
Drop ==
    /\ connected /\ drops < MaxDrops
    /\ connected' = FALSE
    /\ drops' = drops + 1
    /\ inHand' = NoReport
    /\ wire' = <<>>
    /\ replies' = <<>>
    /\ UNCHANGED <<agentVars, sendQueue, inQueue, asking, over, backendVars>>

\* The socket dies and the sender's own client.send raises: awaiting the dead
\* sender task in the finally block replaces the error that would have been
\* retried, and the connection task ends.
SenderFails ==
    /\ connected /\ inHand # NoReport /\ drops < MaxDrops
    /\ connected' = FALSE
    /\ over' = TRUE
    /\ drops' = drops + 1
    /\ inHand' = NoReport
    /\ wire' = <<>>
    /\ replies' = <<>>
    /\ UNCHANGED <<agentVars, sendQueue, inQueue, asking, backendVars>>

-----------------------------------------------------------------------------
(* The backend (external). *)

\* Register is answered with an Init, which may ask about tasks whose end is
\* not on record: those of an earlier process, and, once a socket was lost,
\* those this agent runs.
MayAsk(t) ==
    /\ asks[t] < MaxAsks
    /\ \A q \in durable : TaskOf[q] # t
    /\ t \in Managed => drops > 0

BackendRegister ==
    /\ wire # <<>> /\ Head(wire) = RegisterMsg
    /\ wire' = Tail(wire)
    /\ \E s \in Inquiries :
        /\ \A t \in Range(s) : MayAsk(t)
        /\ asks' = [t \in Tasks |-> IF t \in Range(s) THEN asks[t] + 1 ELSE asks[t]]
        /\ replies' = Append(replies, [inquiries |-> s])
    /\ UNCHANGED <<agentVars, sendQueue, inHand, inQueue, asking, socketVars,
                   durable, arrived>>

\* Persist, then acknowledge; a report received twice is acknowledged twice.
BackendTerminal ==
    /\ wire # <<>> /\ Head(wire) \in Terminals
    /\ durable' = durable \cup {Head(wire)}
    /\ replies' = Append(replies, Head(wire))
    /\ wire' = Tail(wire)
    /\ UNCHANGED <<agentVars, sendQueue, inHand, inQueue, asking, socketVars, arrived,
                   asks>>

BackendOther ==
    /\ wire # <<>> /\ Head(wire) \in Reports \ Terminals
    /\ arrived' = arrived \cup {Head(wire)}
    /\ wire' = Tail(wire)
    /\ UNCHANGED <<agentVars, sendQueue, inHand, replies, inQueue, asking, socketVars,
                   durable, asks>>

-----------------------------------------------------------------------------
Next ==
    \/ \E r \in Reports : Dispatch(r)
    \/ ProcessInit
    \/ \E r \in Answers : AnswerInquiry(r)
    \/ ProcessEventAck
    \/ Connect
    \/ SenderTake
    \/ SenderSend
    \/ Receive
    \/ Drop
    \/ SenderFails
    \/ BackendRegister
    \/ BackendTerminal
    \/ BackendOther

\* Nothing obliges an actor to report or a socket to drop; every task of the
\* event loop that can run does, the transport reconnects, and the backend
\* works off what it receives.
Fairness ==
    /\ WF_vars(ProcessInit) /\ WF_vars(ProcessEventAck)
    /\ WF_vars(\E r \in Answers : AnswerInquiry(r))
    /\ WF_vars(Connect) /\ WF_vars(SenderTake) /\ WF_vars(SenderSend)
    /\ WF_vars(Receive)
    /\ WF_vars(BackendRegister) /\ WF_vars(BackendTerminal) /\ WF_vars(BackendOther)

Spec == Init /\ [][Next]_vars

FairSpec == Spec /\ Fairness

-----------------------------------------------------------------------------
(* Properties. *)

\* Every variable has its type, and no report is retained twice (the keys of
\* _unacked_events are message ids).
TypeOK ==
    /\ dispatched \subseteq Reports
    /\ unackedEvents \in Seq(Terminals)
    /\ \A i, j \in 1..Len(unackedEvents) :
          unackedEvents[i] = unackedEvents[j] => i = j
    /\ sendQueue \in Seq(Reports)
    /\ connected \in BOOLEAN
    /\ over \in BOOLEAN
    /\ inHand \in Reports \cup {NoReport}
    /\ wire \in Seq(Reports \cup {RegisterMsg})
    /\ replies \in Seq(Terminals \cup InitMsgs)
    /\ inQueue \in Seq(Terminals \cup InitMsgs)
    /\ asking \in Seq(Tasks)
    /\ drops \in 0..MaxDrops
    /\ durable \subseteq Terminals
    /\ arrived \subseteq Reports
    /\ asks \in [Tasks -> 0..MaxAsks]

\* A terminal report that was dispatched is retained by the agent until the
\* backend has made it durable, wherever the connection was lost in between
\* (_adispatch, process(EventAck)).
RetainedUntilDurable ==
    \A r \in Terminals \cap dispatched :
        r \in durable \/ r \in Range(unackedEvents)

\* Across drops and resends, nothing a task reports on its way (a progress,
\* a log, a yield) reaches the backend after the end of that task was
\* recorded, be it the task's own end or a Critical that answered an inquiry:
\* the send queue outlives the socket and the resent copies come behind it.
\* The only report that may follow an end is the agent's answer to an inquiry,
\* and it does: a completed task whose report was lost is answered as "still
\* running", behind the resent report (agents/base.py process(Init)).
NothingAfterTheEnd ==
    [][\A r \in (arrived' \ arrived) \ Answers :
          \A q \in durable : TaskOf[q] # TaskOf[r]]_vars

\* The stream implements the persist-then-ack ledger.
Ledger == INSTANCE TerminalLedger WITH
    reported <- Terminals \cap dispatched,
    durable <- durable,
    forgotten <- (Terminals \cap dispatched) \ Range(unackedEvents)

ImplementsLedger == Ledger!Spec

\* Every terminal report becomes durable, however the socket dropped, as long
\* as the transport reconnects: the lost copy is resent on the next Init.
EventuallyDurable ==
    \A r \in Terminals : (r \in dispatched) ~> (r \in durable \/ over)

\* The agent does not retain a report forever: every one is acknowledged in
\* the end, also when the first acknowledgement was lost with its socket.
EventuallyForgotten ==
    \A r \in Terminals : (r \in dispatched) ~> (r \notin Range(unackedEvents) \/ over)

\* What the transport's tests say of a lost socket, that it "is retried,
\* transparently to the areceive() consumer".
LostSocketRetried == ~connected ~> connected

=============================================================================
