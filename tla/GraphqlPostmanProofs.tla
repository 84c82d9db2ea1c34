------------------------ MODULE GraphqlPostmanProofs ------------------------
(***************************************************************************)
(* Proofs about GraphqlPostman for any calls, any number of yields, a      *)
(* subscription that may come late and a feed that may break: it           *)
(* implements Delegation, where a call that missed an event is excused and *)
(* no other, and a confirmed cancellation leaves nothing behind.           *)
(***************************************************************************)
EXTENDS GraphqlPostman, SequenceLemmas

-----------------------------------------------------------------------------
(* The inductive invariant. *)

Change ==
    [type : {"event", "create"}, call : Calls,
     kind : Ends \cup {"yield", "create"}, n : Nat]

Told == {"nothing", "completed", "critical", "unanswered", "cancelled", "abandoned"}

PostmanTypeOK ==
    /\ watcher \in {"none", "starting", "alive", "dead"}
    /\ feed \in Seq(Change) /\ missed \subseteq Calls
    /\ phase \in [Calls -> Phases]
    /\ queues \subseteq Calls /\ bound \subseteq Calls
    /\ queue \in [Calls -> Seq(Change)] /\ orphans \in [Calls -> Seq(Change)]
    /\ seen \in [Calls -> Seq(Nat)]
    /\ told \in [Calls -> Told]
    /\ confirmed \subseteq Calls
    /\ remote \in [Calls -> Ends \cup {"none", "running"}]
    /\ yielded \in [Calls -> Nat]

\* The watcher is started once; without it there is no feed.
WatcherOK == (watching <=> watcher # "none") /\ (watcher # "alive" => feed = <<>>)

\* The events of a call are in its queue or among its orphans, by whether its
\* task is bound to a queue; a task nobody has created has left no trace.
TableOK(c) ==
    /\ IF c \in bound \cap queues THEN orphans[c] = <<>> ELSE queue[c] = <<>>
    /\ \A i \in 1..Len(queue[c]) : EventOf(queue[c][i], c)
    /\ \A i \in 1..Len(orphans[c]) : EventOf(orphans[c][i], c)
    /\ phase[c] = "idle" => remote[c] = "none"
    /\ phase[c] \notin {"idle", "over"} => c \in queues
    /\ phase[c] # "idle" => watcher # "none"
    /\ remote[c] = "none" =>
          /\ c \notin bound /\ orphans[c] = <<>> /\ yielded[c] = 0
          /\ \A i \in 1..Len(feed) : feed[i].call # c

TablesOK == \A c \in Calls : TableOK(c)

\* The caller still listens.
Listening(c) == phase[c] \in {"idle", "requested", "streaming", "consuming"}

ToldOnce == \A c \in Calls : Listening(c) => told[c] = "nothing"

\* The way of the events of a call: its queue, its orphans, the feed.
Pipe(c) == (queue[c] \o orphans[c]) \o feed

Flows(c) ==
    /\ D!Last(c) \in Nat /\ D!Last(c) <= yielded[c]
    /\ InStream(Pipe(c), c, D!Last(c), yielded[c], remote[c])
    /\ Listening(c) /\ c \notin missed => Whole(Pipe(c), c, D!Last(c), yielded[c])

\* What is on its way to a call is in order, and whole while it listens and has
\* missed nothing.
StreamsOK == \A c \in Calls : Flows(c)

\* Once a cancellation is confirmed, no event of its task is left or will come.
OverOK(c) ==
    /\ phase[c] = "over" /\ remote[c] \in Ends
    /\ c \notin queues /\ queue[c] = <<>> /\ orphans[c] = <<>>
    /\ \A i \in 1..Len(feed) : ~EventOf(feed[i], c)

ConfirmedIsOver == \A c \in confirmed : OverOK(c)

IInv ==
    /\ PostmanTypeOK
    /\ WatcherOK
    /\ TablesOK
    /\ ToldOnce
    /\ StreamsOK
    /\ ConfirmedIsOver

-----------------------------------------------------------------------------
(* The pipe of a call. *)

LEMMA PipeFacts ==
    ASSUME PostmanTypeOK, NEW c \in Calls
    PROVE  /\ queue[c] \in Seq(Change) /\ orphans[c] \in Seq(Change) /\ feed \in Seq(Change)
           /\ queue[c] \o orphans[c] \in Seq(Change)
           /\ Pipe(c) \in Seq(Change)
<1>1. queue[c] \in Seq(Change) /\ orphans[c] \in Seq(Change) /\ feed \in Seq(Change)
  BY DEF PostmanTypeOK
<1>2. queue[c] \o orphans[c] \in Seq(Change)
  BY <1>1, ConcatProperties
<1>3. (queue[c] \o orphans[c]) \o feed \in Seq(Change)
  BY <1>1, <1>2, ConcatProperties
<1> QED
  BY <1>1, <1>2, <1>3 DEF Pipe

\* What has been given to the caller so far.
LEMMA LastType ==
    ASSUME PostmanTypeOK, NEW c \in Calls
    PROVE  D!Last(c) \in Nat
<1>1. seen[c] \in Seq(Nat)
  BY DEF PostmanTypeOK
<1>2. CASE seen[c] = <<>>
  BY <1>2 DEF D!Last
<1>3. CASE seen[c] # <<>>
  <2>1. Len(seen[c]) \in 1..Len(seen[c])
    BY <1>1, <1>3, EmptySeq
  <2>2. seen[c][Len(seen[c])] \in Nat
    BY <1>1, <2>1, ElementOfSeq
  <2> QED
    BY <1>3, <2>2 DEF D!Last
<1> QED
  BY <1>2, <1>3

LEMMA LastAppend ==
    ASSUME PostmanTypeOK, NEW c \in Calls, NEW n \in Nat,
           seen' = [seen EXCEPT ![c] = Append(@, n)]
    PROVE  /\ seen' \in [Calls -> Seq(Nat)]
           /\ D!Last(c)' = n
           /\ \A d \in Calls \ {c} : D!Last(d)' = D!Last(d)
<1> DEFINE s == seen[c]
           t == Append(s, n)
<1>1. seen \in [Calls -> Seq(Nat)] /\ s \in Seq(Nat)
  BY DEF PostmanTypeOK
<1>2. seen'[c] = t /\ \A d \in Calls \ {c} : seen'[d] = seen[d]
  BY <1>1
<1> HIDE DEF s
<1>3. t \in Seq(Nat) /\ t # <<>> /\ t[Len(t)] = n
  <2>1. /\ t \in Seq(Nat) /\ t # <<>> /\ Len(t) = Len(s) + 1 /\ t[Len(s) + 1] = n
    BY <1>1
  <2> QED
    BY <2>1, Zenon
<1> HIDE DEF t
<1>4. D!Last(c)' = n
  BY <1>3, <1>2 DEF D!Last
<1>5. \A d \in Calls \ {c} : D!Last(d)' = D!Last(d)
  <2> TAKE d \in Calls \ {c}
  <2>1. seen'[d] = seen[d]
    BY <1>2
  <2> QED
    BY <2>1 DEF D!Last
<1>6. seen' \in [Calls -> Seq(Nat)]
  BY <1>1, <1>3 DEF s, t
<1> QED
  BY <1>4, <1>5, <1>6

\* A call whose messages, yields and task stay as they are flows on.
LEMMA FlowsOn ==
    ASSUME NEW c \in Calls, Flows(c), Pipe(c)' = Pipe(c), seen'[c] = seen[c],
           yielded'[c] = yielded[c], remote'[c] = remote[c],
           Listening(c)' => Listening(c), c \in missed => c \in missed'
    PROVE  Flows(c)'
<1>1. D!Last(c)' = D!Last(c)
  BY DEF D!Last
<1> QED
  BY <1>1 DEF Flows

\* So does a call that loses messages while nobody listens.
LEMMA FlowsDeaf ==
    ASSUME NEW c \in Calls, Flows(c), seen'[c] = seen[c],
           yielded'[c] = yielded[c], remote'[c] = remote[c],
           InStream(Pipe(c)', c, D!Last(c), yielded[c], remote[c]),
           ~Listening(c)' \/ c \in missed'
    PROVE  Flows(c)'
<1>1. D!Last(c)' = D!Last(c)
  BY DEF D!Last
<1> QED
  BY <1>1 DEF Flows

\* A change that is not of the call leaves the feed.
LEMMA FlowsAround ==
    ASSUME PostmanTypeOK, NEW c \in Calls, Flows(c), feed # <<>>, ~EventOf(Head(feed), c),
           Pipe(c)' = (queue[c] \o orphans[c]) \o Tail(feed),
           seen'[c] = seen[c], yielded'[c] = yielded[c], remote'[c] = remote[c],
           Listening(c)' => Listening(c), missed' = missed
    PROVE  Flows(c)'
<1> DEFINE s == queue[c] \o orphans[c]
<1>1. /\ s \in Seq(Change) /\ feed \in Seq(Change) /\ Pipe(c) \in Seq(Change)
      /\ Pipe(c) = s \o feed
  BY PipeFacts DEF Pipe
<1> HIDE DEF s
<1>2. /\ Len(s) + 1 \in 1..Len(Pipe(c)) /\ Pipe(c)[Len(s) + 1] = Head(feed)
      /\ s \o Tail(feed) = RemoveAt(Pipe(c), Len(s) + 1)
  BY <1>1, SkipHead
<1>3. Pipe(c)' = RemoveAt(Pipe(c), Len(s) + 1)
  BY <1>2 DEF s
<1>4. D!Last(c)' = D!Last(c)
  BY DEF D!Last
<1>5. /\ InStream(Pipe(c)', c, D!Last(c), yielded[c], remote[c])
      /\ Whole(Pipe(c), c, D!Last(c), yielded[c]) =>
            Whole(Pipe(c)', c, D!Last(c), yielded[c])
  BY <1>1, <1>2, <1>3, StreamRemove DEF Flows
<1> QED
  BY <1>4, <1>5 DEF Flows

\* A change that is not of the call joins the feed.
LEMMA FlowsBeside ==
    ASSUME PostmanTypeOK, NEW c \in Calls, Flows(c), NEW e \in Change, ~EventOf(e, c),
           feed' = Append(feed, e),
           queue'[c] = queue[c], orphans'[c] = orphans[c],
           seen'[c] = seen[c], yielded'[c] = yielded[c], remote'[c] = remote[c],
           Listening(c)' => Listening(c), missed' = missed
    PROVE  Flows(c)'
<1>1. /\ queue[c] \o orphans[c] \in Seq(Change) /\ feed \in Seq(Change)
      /\ Pipe(c) \in Seq(Change)
  BY PipeFacts
<1> DEFINE s == queue[c] \o orphans[c]
<1>2. /\ Pipe(c) = s \o feed /\ Pipe(c)' = s \o Append(feed, e)
      /\ s \in Seq(Change)
  BY <1>1 DEF Pipe
<1> HIDE DEF s
<1>3. Pipe(c)' = Append(Pipe(c), e)
  BY <1>1, <1>2, AppendSecond
<1>4. D!Last(c)' = D!Last(c)
  BY DEF D!Last
<1>5. /\ InStream(Pipe(c)', c, D!Last(c), yielded[c], remote[c])
      /\ Whole(Pipe(c), c, D!Last(c), yielded[c]) =>
            Whole(Pipe(c)', c, D!Last(c), yielded[c])
  BY <1>1, <1>3, StreamOther DEF Flows
<1> QED
  BY <1>4, <1>5 DEF Flows

\* The first event of a queue is of the call, and first in its pipe.
LEMMA QueueHead ==
    ASSUME IInv, NEW c \in Calls, queue[c] # <<>>
    PROVE  /\ c \in bound \cap queues /\ orphans[c] = <<>> /\ remote[c] # "none"
           /\ Head(queue[c]) \in Change /\ EventOf(Head(queue[c]), c)
           /\ Tail(queue[c]) \in Seq(Change)
           /\ \A i \in 1..Len(Tail(queue[c])) : EventOf(Tail(queue[c])[i], c)
           /\ Pipe(c) \in Seq(Change) /\ Pipe(c) # <<>> /\ Head(Pipe(c)) = Head(queue[c])
           /\ (Tail(queue[c]) \o orphans[c]) \o feed = Tail(Pipe(c))
<1> DEFINE q == queue[c]
           o == orphans[c]
           h == Head(q)
           t == Tail(q)
<1>1. q \in Seq(Change) /\ o \in Seq(Change) /\ feed \in Seq(Change) /\ q \o o \in Seq(Change)
  BY PipeFacts DEF IInv
<1>2. /\ c \in bound \cap queues /\ o = <<>> /\ remote[c] # "none"
      /\ \A i \in 1..Len(q) : EventOf(q[i], c)
  BY DEF IInv, TablesOK, TableOK
<1>3. q # <<>> /\ Pipe(c) = (q \o o) \o feed
  BY DEF Pipe
<1> HIDE DEF q, o
<1>4. /\ Len(q) \in Nat \ {0} /\ h \in Change /\ h = q[1]
      /\ t \in Seq(Change) /\ Len(t) = Len(q) - 1
      /\ \A i \in 1..Len(t) : t[i] = q[i + 1]
  BY <1>1, <1>3, EmptySeq, HeadTailProperties
<1>5. /\ \A i \in 1..Len(t) : i + 1 \in 1..Len(q)
      /\ 1 \in 1..Len(q)
  BY <1>4
<1>6. /\ q \o o # <<>> /\ Head(q \o o) = h /\ t \o o = Tail(q \o o)
  BY <1>1, <1>3, TakeFirst
<1>7. /\ (q \o o) \o feed \in Seq(Change) /\ (q \o o) \o feed # <<>>
      /\ Head((q \o o) \o feed) = Head(q \o o)
      /\ Tail(q \o o) \o feed = Tail((q \o o) \o feed)
  <2> DEFINE u == q \o o
  <2>1. u \in Seq(Change) /\ u # <<>>
    BY <1>1, <1>6
  <2> HIDE DEF u
  <2>2. /\ u \o feed \in Seq(Change) /\ u \o feed # <<>>
        /\ Head(u \o feed) = Head(u) /\ Tail(u) \o feed = Tail(u \o feed)
    BY <1>1, <2>1, TakeFirst
  <2> QED
    BY <2>2 DEF u
<1>8. EventOf(h, c) /\ \A i \in 1..Len(t) : EventOf(t[i], c)
  BY <1>2, <1>4, <1>5
<1> QED
  BY <1>2, <1>4, <1>6, <1>7, <1>8, <1>3 DEF q, o

\* A change leaves the feed.
LEMMA FeedHead ==
    ASSUME PostmanTypeOK, feed # <<>>
    PROVE  /\ Head(feed) \in Change /\ Head(feed) = feed[1] /\ 1 \in 1..Len(feed)
           /\ Tail(feed) \in Seq(Change)
           /\ \A i \in 1..Len(Tail(feed)) : i + 1 \in 1..Len(feed) /\ Tail(feed)[i] = feed[i + 1]
<1>1. feed \in Seq(Change)
  BY DEF PostmanTypeOK
<1>2. /\ Len(feed) \in Nat \ {0} /\ Head(feed) \in Change /\ Head(feed) = feed[1]
      /\ Tail(feed) \in Seq(Change) /\ Len(Tail(feed)) = Len(feed) - 1
      /\ \A i \in 1..Len(Tail(feed)) : Tail(feed)[i] = feed[i + 1]
  BY <1>1, EmptySeq, HeadTailProperties
<1> QED
  BY <1>2

\* The first event of a queue is the next yield, or the end, behind which
\* there is nothing.
LEMMA HeadArrives ==
    ASSUME IInv, NEW c \in Calls, queue[c] # <<>>
    PROVE  LET e == Head(queue[c]) IN
           /\ c \in bound
           /\ InStream(Tail(Pipe(c)), c, D!Last(c), yielded[c], remote[c])
           /\ e.kind = "yield" =>
                /\ e.n \in Nat /\ D!Last(c) < e.n /\ e.n <= yielded[c]
                /\ InStream(Tail(Pipe(c)), c, e.n, yielded[c], remote[c])
                /\ Whole(Pipe(c), c, D!Last(c), yielded[c]) =>
                      e.n = D!Last(c) + 1 /\ Whole(Tail(Pipe(c)), c, e.n, yielded[c])
           /\ e.kind # "yield" =>
                /\ e.kind = remote[c]
                /\ \A i \in 1..Len(feed) : ~EventOf(feed[i], c)
                /\ Whole(Pipe(c), c, D!Last(c), yielded[c]) =>
                      /\ yielded[c] <= D!Last(c)
                      /\ Whole(Tail(Pipe(c)), c, D!Last(c), yielded[c])
<1> DEFINE e == Head(queue[c])
           s == Tail(queue[c]) \o orphans[c]
<1>1. /\ c \in bound /\ EventOf(e, c)
      /\ Pipe(c) \in Seq(Change) /\ Pipe(c) # <<>> /\ Head(Pipe(c)) = e
      /\ s \o feed = Tail(Pipe(c))
  BY QueueHead
<1>2. s \in Seq(Change) /\ feed \in Seq(Change)
  <2>1. Tail(queue[c]) \in Seq(Change) /\ orphans[c] \in Seq(Change) /\ feed \in Seq(Change)
    BY QueueHead, PipeFacts DEF IInv
  <2> QED
    BY <2>1, ConcatProperties
<1>3. Flows(c) /\ D!Last(c) \in Nat /\ yielded[c] \in Nat
  BY DEF IInv, StreamsOK, Flows, PostmanTypeOK
<1> HIDE DEF e, s
<1>4. /\ InStream(Tail(Pipe(c)), c, D!Last(c), yielded[c], remote[c])
      /\ e.kind = "yield" =>
            /\ e.n \in Nat /\ D!Last(c) < e.n /\ e.n <= yielded[c]
            /\ InStream(Tail(Pipe(c)), c, e.n, yielded[c], remote[c])
            /\ Whole(Pipe(c), c, D!Last(c), yielded[c]) =>
                  e.n = D!Last(c) + 1 /\ Whole(Tail(Pipe(c)), c, e.n, yielded[c])
      /\ e.kind # "yield" =>
            /\ e.kind = remote[c]
            /\ \A i \in 1..Len(Tail(Pipe(c))) : ~EventOf(Tail(Pipe(c))[i], c)
            /\ Whole(Pipe(c), c, D!Last(c), yielded[c]) =>
                  /\ yielded[c] <= D!Last(c)
                  /\ Whole(Tail(Pipe(c)), c, D!Last(c), yielded[c])
  BY <1>1, <1>3, StreamArrives DEF Flows
<1>5. e.kind # "yield" => \A i \in 1..Len(feed) : ~EventOf(feed[i], c)
  BY <1>1, <1>2, <1>4, NoneInPart
<1> QED
  BY <1>1, <1>4, <1>5 DEF e

-----------------------------------------------------------------------------
(* The invariant is inductive. *)

\* The invariant holds at first.
LEMMA InitIInv == Init => IInv
<1> SUFFICES ASSUME Init PROVE IInv
  OBVIOUS
<1> USE DEF Init
<1>1. /\ Len(<<>>) = 0 /\ <<>> \in Seq(Change) /\ <<>> \in Seq(Nat)
      /\ <<>> \o <<>> = <<>>
  BY EmptySeq, ConcatEmptySeq
<1>2. PostmanTypeOK
  BY <1>1 DEF PostmanTypeOK, Phases, Told
<1>3. WatcherOK /\ ToldOnce /\ ConfirmedIsOver
  BY DEF WatcherOK, ToldOnce, ConfirmedIsOver, OverOK
<1>4. TablesOK
  <2> SUFFICES ASSUME NEW c \in Calls PROVE TableOK(c)
    BY DEF TablesOK
  <2>1. /\ queue[c] = <<>> /\ orphans[c] = <<>> /\ phase[c] = "idle"
        /\ remote[c] = "none" /\ yielded[c] = 0 /\ c \notin bound
        /\ Len(queue[c]) = 0 /\ Len(orphans[c]) = 0 /\ Len(feed) = 0
    BY <1>1
  <2> QED
    BY <2>1 DEF TableOK
<1>5. StreamsOK
  <2> SUFFICES ASSUME NEW c \in Calls PROVE Flows(c)
    BY DEF StreamsOK
  <2>1. Pipe(c) = <<>> /\ D!Last(c) = 0 /\ yielded[c] = 0
    BY <1>1 DEF Pipe, D!Last
  <2> QED
    BY <1>1, <2>1 DEF Flows, InStream, Whole
<1> QED
  BY <1>2, <1>3, <1>4, <1>5 DEF IInv

\* A call that goes from one wait to another, or ends, and leaves the tables
\* as they are.
LEMMA QuietIInv ==
    ASSUME IInv, NEW c \in Calls, NEW p \in Phases \ {"idle"}, Goto(c, p),
           phase[c] \notin {"idle", "over"},
           told' \in [Calls -> Told], \A d \in Calls \ {c} : told'[d] = told[d],
           p \in {"requested", "streaming", "consuming"} =>
              Listening(c) /\ told'[c] = told[c],
           UNCHANGED <<watchVars, feedVars, tableVars, seen, confirmed, backendVars>>
    PROVE  IInv'
<1> USE DEF IInv, PostmanTypeOK, watchVars, feedVars, tableVars, backendVars
<1>1. /\ phase' \in [Calls -> Phases] /\ phase'[c] = p
      /\ \A d \in Calls \ {c} : phase'[d] = phase[d]
  BY DEF Goto
<1>2. PostmanTypeOK' /\ WatcherOK'
  BY <1>1 DEF WatcherOK
<1>3. TablesOK' /\ ToldOnce'
  BY <1>1 DEF TablesOK, TableOK, ToldOnce, Listening
<1>4. StreamsOK'
  <2> SUFFICES ASSUME NEW d \in Calls PROVE Flows(d)'
    BY DEF StreamsOK
  <2>1. Flows(d) /\ Pipe(d)' = Pipe(d) /\ (Listening(d)' => Listening(d))
    BY <1>1 DEF StreamsOK, Pipe, Listening
  <2> QED
    BY <2>1, FlowsOn
<1>5. ConfirmedIsOver'
  BY <1>1 DEF ConfirmedIsOver, OverOK
<1> QED
  BY <1>2, <1>3, <1>4, <1>5

\* The first call starts the watcher; a call gets its queue.
LEMMA CallIInv ==
    ASSUME IInv, NEW c \in Calls, Call(c)
    PROVE  IInv'
<1> USE DEF IInv, Call, Goto, feedVars, backendVars
<1>1. /\ phase[c] = "idle" /\ phase' \in [Calls -> Phases] /\ phase'[c] = "requested"
      /\ \A d \in Calls \ {c} : phase'[d] = phase[d]
  BY DEF PostmanTypeOK, Phases
<1>2. watcher' # "none" /\ watcher' \in {"none", "starting", "alive", "dead"}
      /\ watching' = TRUE
      /\ (watcher' # "alive" => watcher # "alive")
  BY DEF PostmanTypeOK, WatcherOK
<1>3. PostmanTypeOK' /\ WatcherOK'
  BY <1>1, <1>2 DEF PostmanTypeOK, WatcherOK
<1>4. TablesOK'
  BY <1>1, <1>2 DEF PostmanTypeOK, TablesOK, TableOK
<1>5. ToldOnce'
  BY <1>1 DEF ToldOnce, Listening
<1>6. StreamsOK'
  <2> SUFFICES ASSUME NEW d \in Calls PROVE Flows(d)'
    BY DEF StreamsOK
  <2>1. Flows(d) /\ Pipe(d)' = Pipe(d) /\ (Listening(d)' => Listening(d))
    BY <1>1 DEF StreamsOK, Pipe, Listening
  <2> QED
    BY <1>2, <2>1, FlowsOn
<1>7. ConfirmedIsOver'
  BY <1>1 DEF ConfirmedIsOver, OverOK
<1> QED
  BY <1>3, <1>4, <1>5, <1>6, <1>7

\* _bind when the answer comes: what came before it is flushed to the queue.
LEMMA AcceptedIInv ==
    ASSUME IInv, NEW c \in Calls, Accepted(c)
    PROVE  IInv'
<1> USE DEF IInv
<1>1. /\ phase[c] = "requested" /\ remote[c] # "none"
      /\ phase' \in [Calls -> Phases] /\ phase'[c] = "streaming"
      /\ \A d \in Calls \ {c} : phase'[d] = phase[d]
      /\ UNCHANGED <<watching, watcher, feed, missed, queues, seen, told, confirmed, remote, yielded>>
      /\ c \in queues /\ c \notin confirmed
  BY DEF Accepted, Goto, PostmanTypeOK, Phases, TablesOK, TableOK, ConfirmedIsOver, OverOK, watchVars,
     feedVars, backendVars
<1>2. /\ queue[c] \in Seq(Change) /\ orphans[c] \in Seq(Change)
      /\ queue[c] \o orphans[c] \in Seq(Change)
      /\ (queue[c] \o orphans[c]) \o <<>> = queue[c] \o orphans[c]
      /\ Len(<<>>) = 0 /\ <<>> \in Seq(Change)
  BY PipeFacts, ConcatEmptySeq, EmptySeq
<1>3. /\ bound' = bound \cup {c}
      /\ queue' \in [Calls -> Seq(Change)] /\ orphans' \in [Calls -> Seq(Change)]
      /\ queue'[c] = queue[c] \o orphans[c] /\ orphans'[c] = <<>>
      /\ \A d \in Calls \ {c} : queue'[d] = queue[d] /\ orphans'[d] = orphans[d]
  BY <1>1, <1>2 DEF Accepted, Bind, PostmanTypeOK
<1>4. \A i \in 1..Len(queue'[c]) : EventOf(queue'[c][i], c)
  <2>1. CASE queue[c] = <<>>
    <3>1. queue'[c] = orphans[c]
      BY <1>2, <1>3, <2>1, ConcatEmptySeq
    <3> QED
      BY <3>1 DEF TablesOK, TableOK
  <2>2. CASE queue[c] # <<>>
    <3>1. queue'[c] = queue[c]
      BY <1>2, <1>3, <2>2, QueueHead, ConcatEmptySeq
    <3> QED
      BY <3>1 DEF TablesOK, TableOK
  <2> QED
    BY <2>1, <2>2
<1>5. PostmanTypeOK' /\ WatcherOK'
  BY <1>1, <1>3 DEF PostmanTypeOK, WatcherOK
<1>6. TablesOK'
  <2> SUFFICES ASSUME NEW d \in Calls PROVE TableOK(d)'
    BY DEF TablesOK
  <2>1. TableOK(d)
    BY DEF TablesOK
  <2>2. CASE d = c
    <3>1. c \in bound' \cap queues' /\ Len(orphans'[c]) = 0
      BY <1>1, <1>2, <1>3
    <3> QED
      BY <1>1, <1>3, <1>4, <2>1, <2>2, <3>1 DEF TableOK
  <2>3. CASE d # c
    BY <1>1, <1>3, <2>1, <2>3 DEF TableOK
  <2> QED
    BY <2>2, <2>3
<1>7. ToldOnce'
  BY <1>1 DEF ToldOnce, Listening
<1>8. StreamsOK'
  <2> SUFFICES ASSUME NEW d \in Calls PROVE Flows(d)'
    BY DEF StreamsOK
  <2>1. Flows(d) /\ (Listening(d)' => Listening(d))
    BY <1>1 DEF StreamsOK, Listening
  <2>2. Pipe(d)' = Pipe(d)
    BY <1>1, <1>2, <1>3 DEF Pipe
  <2> QED
    BY <1>1, <2>1, <2>2, FlowsOn
<1>9. ConfirmedIsOver'
  <2> SUFFICES ASSUME NEW d \in confirmed PROVE OverOK(d)'
    BY <1>1 DEF ConfirmedIsOver
  <2>1. OverOK(d) /\ d \in Calls \ {c}
    BY <1>1 DEF ConfirmedIsOver, OverOK, PostmanTypeOK
  <2> QED
    BY <1>1, <1>3, <2>1 DEF OverOK
<1> QED
  BY <1>5, <1>6, <1>7, <1>8, <1>9

\* _cleanup_reference of a call that ends, with its cancellation confirmed or
\* not.
LEMMA CleanupIInv ==
    ASSUME IInv, NEW c \in Calls, Cleanup(c), Goto(c, "over"), phase[c] \notin {"idle", "over"},
           told' \in [Calls -> Told], \A d \in Calls \ {c} : told'[d] = told[d],
           confirmed' = confirmed \/
              /\ confirmed' = confirmed \cup {c} /\ c \in bound /\ remote[c] \in Ends
              /\ \A i \in 1..Len(feed) : ~EventOf(feed[i], c),
           UNCHANGED <<watchVars, feedVars, seen, backendVars>>
    PROVE  IInv'
<1> USE DEF IInv
<1>1. /\ phase' \in [Calls -> Phases] /\ phase'[c] = "over"
      /\ \A d \in Calls \ {c} : phase'[d] = phase[d]
      /\ UNCHANGED <<watching, watcher, feed, missed, seen, remote, yielded>>
  BY DEF Goto, PostmanTypeOK, Phases, watchVars, feedVars, backendVars
<1>2. /\ queue[c] \in Seq(Change) /\ orphans[c] \in Seq(Change) /\ feed \in Seq(Change)
      /\ queue[c] \o orphans[c] \in Seq(Change)
      /\ <<>> \in Seq(Change) /\ Len(<<>>) = 0 /\ <<>> \o <<>> = <<>> /\ <<>> \o feed = feed
  BY PipeFacts, ConcatEmptySeq, EmptySeq
<1>3. /\ queues' = queues \ {c} /\ bound' = bound \ {c}
      /\ queue' \in [Calls -> Seq(Change)] /\ orphans' \in [Calls -> Seq(Change)]
      /\ queue'[c] = <<>> /\ orphans'[c] = (IF c \in bound THEN <<>> ELSE orphans[c])
      /\ \A d \in Calls \ {c} : queue'[d] = queue[d] /\ orphans'[d] = orphans[d]
  BY <1>2 DEF Cleanup, PostmanTypeOK
<1>4. /\ confirmed' \subseteq Calls /\ c \notin confirmed
      /\ \A d \in Calls : TableOK(d)
  BY <1>1 DEF PostmanTypeOK, TablesOK, ConfirmedIsOver, OverOK
<1>5. PostmanTypeOK' /\ WatcherOK'
  BY <1>1, <1>3, <1>4 DEF PostmanTypeOK, WatcherOK
<1>6. TablesOK'
  <2> SUFFICES ASSUME NEW d \in Calls PROVE TableOK(d)'
    BY DEF TablesOK
  <2>1. TableOK(d)
    BY <1>4
  <2>2. CASE d = c
    <3>1. /\ c \notin queues' /\ c \notin bound' /\ Len(queue'[c]) = 0
          /\ Len(orphans'[c]) = 0 \/ orphans'[c] = orphans[c]
      BY <1>2, <1>3
    <3> QED
      BY <1>1, <1>3, <2>1, <2>2, <3>1 DEF TableOK
  <2>3. CASE d # c
    BY <1>1, <1>3, <2>1, <2>3 DEF TableOK
  <2> QED
    BY <2>2, <2>3
<1>7. ToldOnce'
  BY <1>1 DEF ToldOnce, Listening
<1>8. StreamsOK'
  <2> SUFFICES ASSUME NEW d \in Calls PROVE Flows(d)'
    BY DEF StreamsOK
  <2>1. Flows(d) /\ (Listening(d)' => Listening(d))
    BY <1>1 DEF StreamsOK, Listening
  <2>2. CASE d # c
    <3>1. Pipe(d)' = Pipe(d)
      BY <1>1, <1>3, <2>2 DEF Pipe
    <3> QED
      BY <1>1, <2>1, <3>1, FlowsOn
  <2>3. CASE d = c /\ c \in bound
    <3>1. Pipe(c)' = feed
      BY <1>1, <1>2, <1>3, <2>3 DEF Pipe
    <3>2. InStream(feed, c, D!Last(c), yielded[c], remote[c])
      <4> DEFINE s == queue[c] \o orphans[c]
      <4>1. InStream(s \o feed, c, D!Last(c), yielded[c], remote[c]) /\ s \in Seq(Change)
        BY <1>2, <2>1, <2>3 DEF Flows, Pipe
      <4> HIDE DEF s
      <4> QED
        BY <1>2, <4>1, StreamPart
    <3>3. ~Listening(c)'
      BY <1>1 DEF Listening
    <3> QED
      BY <1>1, <2>1, <2>3, <3>1, <3>2, <3>3, FlowsDeaf
  <2>4. CASE d = c /\ c \notin bound
    <3>1. queue[c] = <<>> /\ orphans'[c] = orphans[c]
      BY <1>3, <1>4, <2>4 DEF TableOK
    <3>2. Pipe(c)' = Pipe(c)
      BY <1>1, <1>3, <3>1 DEF Pipe
    <3> QED
      BY <1>1, <2>1, <2>4, <3>2, FlowsOn
  <2> QED
    BY <2>2, <2>3, <2>4
<1>9. ConfirmedIsOver'
  <2> SUFFICES ASSUME NEW d \in confirmed' PROVE OverOK(d)'
    BY DEF ConfirmedIsOver
  <2>1. CASE d # c
    <3>1. OverOK(d) /\ d \in Calls
      BY <1>4, <2>1 DEF ConfirmedIsOver, PostmanTypeOK
    <3> QED
      BY <1>1, <1>3, <2>1, <3>1 DEF OverOK
  <2>2. CASE d = c
    BY <1>1, <1>3, <1>4, <2>2 DEF OverOK
  <2> QED
    BY <2>1, <2>2
<1> QED
  BY <1>5, <1>6, <1>7, <1>8, <1>9

\* The first event of a queue is handed to its call, or dropped where only an
\* end is of no interest to the caller.
LEMMA DequeueIInv ==
    ASSUME IInv, NEW c \in Calls, queue[c] # <<>>, phase[c] \notin {"idle", "over"},
           NEW p \in Phases \ {"idle", "over"}, Goto(c, p),
           queue' = [queue EXCEPT ![c] = Tail(@)],
           told' \in [Calls -> Told], \A d \in Calls \ {c} : told'[d] = told[d],
           Listening(c)' => Listening(c) /\ told'[c] = told[c],
           \/ /\ Head(queue[c]).kind = "yield"
              /\ seen' = [seen EXCEPT ![c] = Append(@, Head(queue[c]).n)]
           \/ seen' = seen /\ (Head(queue[c]).kind # "yield" \/ ~Listening(c)'),
           UNCHANGED <<watchVars, feedVars, queues, bound, orphans, confirmed, backendVars>>
    PROVE  IInv'
<1> USE DEF IInv
<1>1. /\ phase' \in [Calls -> Phases] /\ phase'[c] = p
      /\ \A d \in Calls \ {c} : phase'[d] = phase[d]
      /\ UNCHANGED <<watching, watcher, feed, missed, queues, bound, orphans, confirmed, remote, yielded>>
      /\ c \notin confirmed
  BY DEF Goto, PostmanTypeOK, watchVars, feedVars, backendVars, ConfirmedIsOver, OverOK
<1> DEFINE e == Head(queue[c])
           t == Tail(queue[c])
<1>2. /\ c \in bound \cap queues /\ orphans[c] = <<>> /\ remote[c] # "none"
      /\ e \in Change /\ EventOf(e, c) /\ t \in Seq(Change)
      /\ \A i \in 1..Len(t) : EventOf(t[i], c)
      /\ Pipe(c) \in Seq(Change) /\ Pipe(c) # <<>> /\ Head(Pipe(c)) = e
      /\ (t \o orphans[c]) \o feed = Tail(Pipe(c))
  BY QueueHead
<1>3. /\ queue' \in [Calls -> Seq(Change)] /\ queue'[c] = t
      /\ \A d \in Calls \ {c} : queue'[d] = queue[d]
  BY <1>2 DEF PostmanTypeOK
<1>4. \/ /\ e.kind = "yield"
         /\ seen' = [seen EXCEPT ![c] = Append(@, e.n)]
      \/ seen' = seen /\ (e.kind # "yield" \/ ~Listening(c)')
  BY Zenon
<1> HIDE DEF e, t
<1>5. Flows(c) /\ D!Last(c) \in Nat /\ yielded[c] \in Nat /\ seen \in [Calls -> Seq(Nat)]
  BY DEF StreamsOK, Flows, PostmanTypeOK
<1>6. Pipe(c)' = Tail(Pipe(c))
  BY <1>1, <1>2, <1>3 DEF Pipe
<1>7. /\ InStream(Tail(Pipe(c)), c, D!Last(c), yielded[c], remote[c])
      /\ e.kind = "yield" =>
            /\ e.n \in Nat /\ D!Last(c) < e.n /\ e.n <= yielded[c]
            /\ InStream(Tail(Pipe(c)), c, e.n, yielded[c], remote[c])
            /\ Whole(Pipe(c), c, D!Last(c), yielded[c]) =>
                  e.n = D!Last(c) + 1 /\ Whole(Tail(Pipe(c)), c, e.n, yielded[c])
      /\ e.kind # "yield" =>
            /\ e.kind = remote[c]
            /\ Whole(Pipe(c), c, D!Last(c), yielded[c]) =>
                  /\ yielded[c] <= D!Last(c)
                  /\ Whole(Tail(Pipe(c)), c, D!Last(c), yielded[c])
  BY HeadArrives DEF e
<1>8. /\ seen' \in [Calls -> Seq(Nat)]
      /\ D!Last(c)' = (IF seen' = seen THEN D!Last(c) ELSE e.n)
      /\ \A d \in Calls \ {c} : D!Last(d)' = D!Last(d)
  <2>1. CASE seen' = seen
    BY <1>5, <2>1 DEF D!Last
  <2>2. CASE seen' # seen
    <3>1. seen' = [seen EXCEPT ![c] = Append(@, e.n)] /\ e.n \in Nat
      BY <1>4, <1>7, <2>2
    <3> QED
      BY <2>2, <3>1, LastAppend
  <2> QED
    BY <2>1, <2>2
<1>9. PostmanTypeOK' /\ WatcherOK'
  BY <1>1, <1>3, <1>8 DEF PostmanTypeOK, WatcherOK
<1>10. TablesOK'
  <2> SUFFICES ASSUME NEW d \in Calls PROVE TableOK(d)'
    BY DEF TablesOK
  <2>1. TableOK(d) /\ TableOK(c)
    BY DEF TablesOK
  <2>2. CASE d = c
    BY <1>1, <1>2, <1>3, <2>1, <2>2 DEF TableOK
  <2>3. CASE d # c
    BY <1>1, <1>3, <2>1, <2>3 DEF TableOK
  <2> QED
    BY <2>2, <2>3
<1>11. ToldOnce'
  BY <1>1 DEF ToldOnce, Listening
<1>12. StreamsOK'
  <2> SUFFICES ASSUME NEW d \in Calls PROVE Flows(d)'
    BY DEF StreamsOK
  <2>1. CASE d # c
    <3>1. Flows(d) /\ Pipe(d)' = Pipe(d) /\ (Listening(d)' => Listening(d)) /\ D!Last(d)' = D!Last(d)
      BY <1>1, <1>3, <1>8, <2>1 DEF StreamsOK, Pipe, Listening
    <3> QED
      BY <1>1, <3>1 DEF Flows
  <2>2. CASE d = c /\ seen' = seen /\ (e.kind # "yield" \/ ~Listening(c)')
    <3>1. D!Last(c)' = D!Last(c)
      BY <1>8, <2>2
    <3>2. CASE e.kind # "yield"
      BY <1>1, <1>5, <1>6, <1>7, <2>2, <3>1, <3>2 DEF Flows
    <3>3. CASE ~Listening(c)'
      BY <1>1, <1>5, <1>6, <1>7, <2>2, <3>1, <3>3 DEF Flows
    <3> QED
      BY <2>2, <3>2, <3>3
  <2>3. CASE d = c /\ e.kind = "yield" /\ seen' = [seen EXCEPT ![c] = Append(@, e.n)]
    <3>1. D!Last(c)' = e.n
      BY <1>7, <2>3, LastAppend
    <3> QED
      BY <1>1, <1>5, <1>6, <1>7, <2>3, <3>1 DEF Flows
  <2> QED
    BY <1>4, <2>1, <2>2, <2>3, Zenon
<1>13. ConfirmedIsOver'
  <2> SUFFICES ASSUME NEW d \in confirmed PROVE OverOK(d)'
    BY <1>1 DEF ConfirmedIsOver
  <2>1. OverOK(d) /\ d \in Calls \ {c}
    BY <1>1 DEF ConfirmedIsOver, PostmanTypeOK
  <2> QED
    BY <1>1, <1>3, <2>1 DEF OverOK
<1> QED
  BY <1>9, <1>10, <1>11, <1>12, <1>13

\* A change of a task joins the feed, if somebody watches it.
LEMMA SentIInv ==
    ASSUME IInv, NEW c \in Calls, NEW e \in Change, e.call = c, Changed(e),
           remote' \in [Calls -> Ends \cup {"none", "running"}], yielded' \in [Calls -> Nat],
           \A d \in Calls \ {c} : remote'[d] = remote[d] /\ yielded'[d] = yielded[d],
           remote[c] # "none", remote'[c] # "none",
           remote[c] \in Ends => remote'[c] \in Ends /\ ~EventOf(e, c),
           Flows(c)',
           UNCHANGED <<watchVars, tableVars, callerVars>>
    PROVE  IInv'
<1> USE DEF IInv
<1>1. UNCHANGED <<watching, watcher, queues, queue, bound, orphans, phase, seen, told, confirmed>>
  BY DEF watchVars, tableVars, callerVars
<1>2. /\ feed \in Seq(Change) /\ Len(feed) \in Nat /\ feed' \in Seq(Change)
      /\ \A i \in 1..Len(feed') : (i \in 1..Len(feed) /\ feed'[i] = feed[i]) \/ feed'[i] = e
      /\ watcher # "alive" => feed' = feed
  <2>1. feed \in Seq(Change) /\ Len(feed) \in Nat
    BY DEF PostmanTypeOK
  <2>2. CASE watcher = "alive"
    <3>1. feed' = Append(feed, e)
      BY <2>2 DEF Changed
    <3>2. /\ feed' \in Seq(Change) /\ Len(feed') = Len(feed) + 1
          /\ \A i \in 1..Len(feed) : feed'[i] = feed[i]
          /\ feed'[Len(feed) + 1] = e
      BY <2>1, <3>1, AppendProperties
    <3> QED
      BY <2>1, <2>2, <3>2
  <2>3. CASE watcher # "alive"
    BY <2>1, <2>3 DEF Changed
  <2> QED
    BY <2>2, <2>3
<1>3. missed' \subseteq Calls /\ \A d \in Calls : d \in missed => d \in missed'
  <2>1. missed' = missed \/ missed' = missed \cup {c}
    BY DEF Changed
  <2> QED
    BY <2>1 DEF PostmanTypeOK
<1>4. PostmanTypeOK' /\ WatcherOK' /\ ToldOnce'
  BY <1>1, <1>2, <1>3 DEF PostmanTypeOK, WatcherOK, ToldOnce, Listening
<1>5. TablesOK'
  <2> SUFFICES ASSUME NEW d \in Calls PROVE TableOK(d)'
    BY DEF TablesOK
  <2>1. TableOK(d)
    BY DEF TablesOK
  <2> QED
    BY <1>1, <1>2, <2>1 DEF TableOK
<1>6. StreamsOK'
  <2> SUFFICES ASSUME NEW d \in Calls, d # c PROVE Flows(d)'
    BY DEF StreamsOK
  <2>1. Flows(d) /\ ~EventOf(e, d) /\ (Listening(d)' => Listening(d))
    BY <1>1 DEF StreamsOK, Listening, EventOf
  <2>2. CASE watcher = "alive"
    <3>1. feed' = Append(feed, e) /\ missed' = missed
      BY <2>2 DEF Changed
    <3> QED
      BY <1>1, <2>1, <3>1, FlowsBeside
  <2>3. CASE watcher # "alive"
    <3>1. Pipe(d)' = Pipe(d)
      BY <1>1, <1>2, <2>3 DEF Pipe
    <3> QED
      BY <1>1, <1>3, <2>1, <3>1, FlowsOn
  <2> QED
    BY <2>2, <2>3
<1>7. ConfirmedIsOver'
  <2> SUFFICES ASSUME NEW d \in confirmed PROVE OverOK(d)'
    BY <1>1 DEF ConfirmedIsOver
  <2>1. OverOK(d) /\ d \in Calls
    BY DEF ConfirmedIsOver, PostmanTypeOK
  <2>2. ~EventOf(e, d) /\ remote'[d] \in Ends
    BY <2>1 DEF OverOK, EventOf
  <2> QED
    BY <1>1, <1>2, <2>1, <2>2 DEF OverOK
<1> QED
  BY <1>4, <1>5, <1>6, <1>7

\* The create change, which may come late or never, is not an event.
LEMMA AnnounceIInv ==
    ASSUME IInv, NEW c \in Calls, BackendAnnounce(c)
    PROVE  IInv'
<1> USE DEF IInv
<1> DEFINE e == Created(c)
<1>1. e \in Change /\ e.call = c /\ ~EventOf(e, c)
  BY DEF Created, Change, EventOf
<1> HIDE DEF e
<1>2. /\ remote[c] # "none" /\ Changed(e)
      /\ UNCHANGED <<watchVars, tableVars, callerVars, remote, yielded>>
  BY DEF BackendAnnounce, e
<1>3. Flows(c)'
  <2>1. /\ UNCHANGED <<watcher, queue, orphans, seen, phase>> /\ Flows(c)
        /\ (Listening(c)' => Listening(c))
    BY <1>2 DEF watchVars, tableVars, callerVars, StreamsOK, Listening
  <2>2. CASE watcher = "alive"
    <3>1. feed' = Append(feed, e) /\ missed' = missed
      BY <1>2, <2>2 DEF Changed
    <3> QED
      BY <1>1, <1>2, <2>1, <3>1, FlowsBeside
  <2>3. CASE watcher # "alive"
    <3>1. Pipe(c)' = Pipe(c) /\ (c \in missed => c \in missed')
      BY <1>2, <2>1, <2>3 DEF Pipe, Changed
    <3> QED
      BY <1>2, <2>1, <3>1, FlowsOn
  <2> QED
    BY <2>2, <2>3
<1> QED
  BY <1>1, <1>2, <1>3, SentIInv DEF PostmanTypeOK

\* A task that runs has not come to an end that is on its way.
LEMMA RunningHasNoEnd ==
    ASSUME IInv, NEW c \in Calls, remote[c] \in {"none", "running"}
    PROVE  /\ Pipe(c) \in Seq(Change)
           /\ \A i \in 1..Len(Pipe(c)) :
                 EventOf(Pipe(c)[i], c) => Pipe(c)[i].kind # remote[c]
<1>1. Pipe(c) \in Seq(Change)
  BY PipeFacts DEF IInv
<1>2. \A i \in 1..Len(Pipe(c)) : Pipe(c)[i] \in Change
  BY <1>1, ElementOfSeq
<1> QED
  BY <1>1, <1>2 DEF Change, Ends

\* The task yields.
LEMMA YieldIInv ==
    ASSUME IInv, NEW c \in Calls, BackendYield(c)
    PROVE  IInv'
<1> USE DEF IInv
<1> DEFINE e == [Event(c, "yield") EXCEPT !.n = @ + 1]
<1>1. /\ yielded[c] \in Nat
      /\ e \in Change /\ e.call = c /\ EventOf(e, c) /\ e.kind = "yield"
      /\ e.n = yielded[c] + 1
  <2>1. yielded[c] \in Nat
    BY DEF PostmanTypeOK
  <2>2. e = [type |-> "event", call |-> c, kind |-> "yield", n |-> yielded[c] + 1]
    BY DEF Event
  <2> HIDE DEF e
  <2> QED
    BY <2>1, <2>2 DEF Change, EventOf
<1> HIDE DEF e
<1>2. /\ remote[c] = "running" /\ Changed(e) /\ yielded' = [yielded EXCEPT ![c] = @ + 1]
      /\ UNCHANGED <<watchVars, tableVars, callerVars, remote>>
  BY DEF BackendYield, e
<1>3. Flows(c)'
  <2>1. /\ UNCHANGED <<watcher, queue, orphans, seen, phase, remote>> /\ Flows(c)
        /\ (Listening(c)' => Listening(c))
        /\ D!Last(c)' = D!Last(c) /\ yielded'[c] = yielded[c] + 1
    BY <1>2 DEF watchVars, tableVars, callerVars, StreamsOK, Listening, D!Last, PostmanTypeOK
  <2>2. /\ D!Last(c) \in Nat /\ D!Last(c) <= yielded[c]
        /\ InStream(Pipe(c), c, D!Last(c), yielded[c], "running")
        /\ (Listening(c) /\ c \notin missed =>
              Whole(Pipe(c), c, D!Last(c), yielded[c]))
    BY <1>2, <2>1 DEF Flows
  <2>3. /\ Pipe(c) \in Seq(Change)
        /\ \A i \in 1..Len(Pipe(c)) : EventOf(Pipe(c)[i], c) => Pipe(c)[i].kind # "running"
    BY <1>2, RunningHasNoEnd
  <2>4. CASE watcher = "alive"
    <3>1. feed' = Append(feed, e) /\ missed' = missed
      BY <1>2, <2>4 DEF Changed
    <3>2. Pipe(c)' = Append(Pipe(c), e)
      <4> DEFINE s == queue[c] \o orphans[c]
      <4>1. /\ s \in Seq(Change) /\ feed \in Seq(Change)
            /\ Pipe(c) = s \o feed /\ Pipe(c)' = s \o Append(feed, e)
        BY <2>1, <3>1, PipeFacts DEF Pipe
      <4> HIDE DEF s
      <4> QED
        BY <1>1, <4>1, AppendSecond
    <3>3. /\ InStream(Append(Pipe(c), e), c, D!Last(c), yielded[c] + 1, "running")
          /\ Whole(Pipe(c), c, D!Last(c), yielded[c]) =>
                Whole(Append(Pipe(c), e), c, D!Last(c), yielded[c] + 1)
      BY <1>1, <2>2, <2>3, StreamYield
    <3> QED
      BY <1>1, <1>2, <2>1, <2>2, <3>1, <3>2, <3>3 DEF Flows
  <2>5. CASE watcher # "alive"
    <3>1. Pipe(c)' = Pipe(c) /\ c \in missed'
      BY <1>1, <1>2, <2>1, <2>5 DEF Pipe, Changed, EventOf
    <3>2. InStream(Pipe(c), c, D!Last(c), yielded[c] + 1, "running")
      <4>1. \A n \in Nat : n <= yielded[c] => n <= yielded[c] + 1
        BY <1>1
      <4> QED
        BY <2>2, <4>1 DEF InStream
    <3> QED
      BY <1>1, <1>2, <2>1, <2>2, <3>1, <3>2 DEF Flows
  <2> QED
    BY <2>4, <2>5
<1>4. yielded' \in [Calls -> Nat] /\ \A d \in Calls \ {c} : yielded'[d] = yielded[d]
  BY <1>1, <1>2 DEF PostmanTypeOK
<1> QED
  BY <1>1, <1>2, <1>3, <1>4, SentIInv DEF PostmanTypeOK, Ends

\* The task comes to an end.
LEMMA EndIInv ==
    ASSUME IInv, NEW c \in Calls, NEW kind \in Ends, BackendEnd(c, kind)
    PROVE  IInv'
<1> USE DEF IInv
<1> DEFINE e == Event(c, kind)
<1>1. /\ yielded[c] \in Nat
      /\ e \in Change /\ e.call = c /\ EventOf(e, c) /\ e.kind = kind /\ e.kind # "yield"
  BY DEF Event, Change, EventOf, PostmanTypeOK, Ends
<1> HIDE DEF e
<1>2. /\ remote[c] = "running" /\ Changed(e) /\ remote' = [remote EXCEPT ![c] = kind]
      /\ UNCHANGED <<watchVars, tableVars, callerVars, yielded>>
  BY DEF BackendEnd, e
<1>3. Flows(c)'
  <2>1. /\ UNCHANGED <<watcher, queue, orphans, seen, phase, yielded>> /\ Flows(c)
        /\ (Listening(c)' => Listening(c))
        /\ D!Last(c)' = D!Last(c) /\ remote'[c] = kind
    BY <1>2 DEF watchVars, tableVars, callerVars, StreamsOK, Listening, D!Last, PostmanTypeOK
  <2>2. /\ D!Last(c) \in Nat /\ D!Last(c) <= yielded[c]
        /\ InStream(Pipe(c), c, D!Last(c), yielded[c], "running")
        /\ (Listening(c) /\ c \notin missed =>
              Whole(Pipe(c), c, D!Last(c), yielded[c]))
    BY <1>2, <2>1 DEF Flows
  <2>3. /\ Pipe(c) \in Seq(Change)
        /\ \A i \in 1..Len(Pipe(c)) : EventOf(Pipe(c)[i], c) => Pipe(c)[i].kind # "running"
    BY <1>2, RunningHasNoEnd
  <2>4. CASE watcher = "alive"
    <3>1. feed' = Append(feed, e) /\ missed' = missed
      BY <1>2, <2>4 DEF Changed
    <3>2. Pipe(c)' = Append(Pipe(c), e)
      <4> DEFINE s == queue[c] \o orphans[c]
      <4>1. /\ s \in Seq(Change) /\ feed \in Seq(Change)
            /\ Pipe(c) = s \o feed /\ Pipe(c)' = s \o Append(feed, e)
        BY <2>1, <3>1, PipeFacts DEF Pipe
      <4> HIDE DEF s
      <4> QED
        BY <1>1, <4>1, AppendSecond
    <3>3. /\ InStream(Append(Pipe(c), e), c, D!Last(c), yielded[c], kind)
          /\ Whole(Pipe(c), c, D!Last(c), yielded[c]) =>
                Whole(Append(Pipe(c), e), c, D!Last(c), yielded[c])
      BY <1>1, <2>2, <2>3, StreamEnd
    <3> QED
      BY <1>1, <1>2, <2>1, <2>2, <3>1, <3>2, <3>3 DEF Flows
  <2>5. CASE watcher # "alive"
    <3>1. Pipe(c)' = Pipe(c) /\ c \in missed'
      BY <1>1, <1>2, <2>1, <2>5 DEF Pipe, Changed, EventOf
    <3>2. InStream(Pipe(c), c, D!Last(c), yielded[c], kind)
      BY <1>1, <2>2, <2>3 DEF InStream
    <3> QED
      BY <1>1, <1>2, <2>1, <2>2, <3>1, <3>2 DEF Flows
  <2> QED
    BY <2>4, <2>5
<1>4. /\ remote' \in [Calls -> Ends \cup {"none", "running"}] /\ remote'[c] # "none"
      /\ \A d \in Calls \ {c} : remote'[d] = remote[d]
  BY <1>1, <1>2 DEF PostmanTypeOK, Ends
<1> QED
  BY <1>1, <1>2, <1>3, <1>4, SentIInv DEF PostmanTypeOK, Ends

\* The task is created, whatever has become of the call that asked for it.
LEMMA CreateIInv ==
    ASSUME IInv, NEW c \in Calls, BackendCreate(c)
    PROVE  IInv'
<1> USE DEF IInv
<1>1. /\ remote[c] = "none" /\ phase[c] # "idle"
      /\ remote' \in [Calls -> Ends \cup {"none", "running"}] /\ remote'[c] = "running"
      /\ \A d \in Calls \ {c} : remote'[d] = remote[d]
      /\ UNCHANGED <<watching, watcher, feed, missed, queues, queue, bound, orphans, phase, seen, told,
                     confirmed, yielded>>
  BY DEF BackendCreate, PostmanTypeOK, watchVars, feedVars, tableVars, callerVars
<1>2. PostmanTypeOK' /\ WatcherOK' /\ ToldOnce'
  BY <1>1 DEF PostmanTypeOK, WatcherOK, ToldOnce, Listening
<1>3. TablesOK'
  BY <1>1 DEF TablesOK, TableOK
<1>4. StreamsOK'
  <2> SUFFICES ASSUME NEW d \in Calls PROVE Flows(d)'
    BY DEF StreamsOK
  <2>1. /\ Flows(d) /\ Pipe(d)' = Pipe(d) /\ (Listening(d)' <=> Listening(d))
        /\ D!Last(d)' = D!Last(d)
    BY <1>1 DEF StreamsOK, Pipe, Listening, D!Last
  <2>2. CASE d # c
    BY <1>1, <2>1, <2>2, FlowsOn
  <2>3. CASE d = c
    <3>1. \A i \in 1..Len(Pipe(c)) : EventOf(Pipe(c)[i], c) => Pipe(c)[i].kind # "none"
      BY <1>1, RunningHasNoEnd
    <3>2. InStream(Pipe(c), c, D!Last(c), yielded[c], "running")
      BY <1>1, <2>1, <2>3, <3>1 DEF Flows, InStream
    <3> QED
      BY <1>1, <2>1, <2>3, <3>2 DEF Flows
  <2> QED
    BY <2>2, <2>3
<1>5. ConfirmedIsOver'
  <2> SUFFICES ASSUME NEW d \in confirmed PROVE OverOK(d)'
    BY <1>1 DEF ConfirmedIsOver
  <2>1. OverOK(d) /\ d \in Calls
    BY DEF ConfirmedIsOver, PostmanTypeOK
  <2>2. d # c
    BY <1>1, <2>1 DEF OverOK, Ends
  <2> QED
    BY <1>1, <2>1, <2>2 DEF OverOK
<1> QED
  BY <1>2, <1>3, <1>4, <1>5

\* The watcher routes an event of a task to its queue or to its orphans.
LEMMA WatchEventIInv ==
    ASSUME IInv, WatchEvent
    PROVE  IInv'
<1> USE DEF IInv
<1> DEFINE h == Head(feed)
<1>1. /\ feed # <<>> /\ h.type = "event" /\ h \in Change
  BY FeedHead DEF WatchEvent, Take
<1> PICK c \in Calls : c = h.call
  BY <1>1 DEF Change
<1> DEFINE s == queue[c] \o orphans[c]
<1>2. /\ feed # <<>> /\ feed' = Tail(feed) /\ missed' = missed /\ h.type = "event"
      /\ watcher = "alive"
      /\ IF c \in bound /\ c \in queues
         THEN queue' = [queue EXCEPT ![c] = Append(@, h)] /\ UNCHANGED orphans
         ELSE orphans' = [orphans EXCEPT ![c] = Append(@, h)] /\ UNCHANGED queue
      /\ UNCHANGED <<watching, watcher, queues, bound, phase, seen, told, confirmed, remote,
                     yielded>>
  BY DEF WatchEvent, Take, watchVars, callerVars, backendVars
<1>3. /\ h \in Change /\ h = feed[1] /\ 1 \in 1..Len(feed) /\ Tail(feed) \in Seq(Change)
      /\ \A i \in 1..Len(Tail(feed)) : i + 1 \in 1..Len(feed) /\ Tail(feed)[i] = feed[i + 1]
  BY <1>2, FeedHead
<1>4. /\ EventOf(h, c) /\ \A d \in Calls \ {c} : ~EventOf(h, d)
  BY <1>2, <1>3 DEF Change, EventOf
<1>5. /\ queue[c] \in Seq(Change) /\ orphans[c] \in Seq(Change) /\ feed \in Seq(Change)
      /\ s \in Seq(Change) /\ Pipe(c) = s \o feed
      /\ queue[c] \o <<>> = queue[c] /\ <<>> \o orphans[c] = orphans[c]
      /\ Append(queue[c], h) \in Seq(Change) /\ Append(orphans[c], h) \in Seq(Change)
      /\ Append(queue[c], h) \o <<>> = Append(queue[c], h)
      /\ <<>> \o Append(orphans[c], h) = Append(orphans[c], h)
  <2>1. /\ queue[c] \in Seq(Change) /\ orphans[c] \in Seq(Change) /\ feed \in Seq(Change)
        /\ s \in Seq(Change) /\ Pipe(c) = s \o feed
    BY <1>4, PipeFacts DEF Pipe
  <2>2. Append(queue[c], h) \in Seq(Change) /\ Append(orphans[c], h) \in Seq(Change)
    BY <1>3, <2>1, AppendProperties
  <2> QED
    BY <2>1, <2>2, ConcatEmptySeq
<1>6. TableOK(c) /\ c \notin confirmed /\ remote[c] # "none"
  BY <1>3, <1>4 DEF TablesOK, TableOK, ConfirmedIsOver, OverOK
<1> HIDE DEF h, s
<1>7. /\ queue' \in [Calls -> Seq(Change)] /\ orphans' \in [Calls -> Seq(Change)]
      /\ \A d \in Calls \ {c} : queue'[d] = queue[d] /\ orphans'[d] = orphans[d]
      /\ \/ /\ c \in bound \cap queues /\ orphans[c] = <<>>
            /\ queue'[c] = Append(queue[c], h) /\ orphans'[c] = orphans[c]
         \/ /\ c \notin bound \cap queues /\ queue[c] = <<>>
            /\ queue'[c] = queue[c] /\ orphans'[c] = Append(orphans[c], h)
  <2>1. queue \in [Calls -> Seq(Change)] /\ orphans \in [Calls -> Seq(Change)]
    BY DEF PostmanTypeOK
  <2>2. IF c \in bound \cap queues THEN orphans[c] = <<>> ELSE queue[c] = <<>>
    BY <1>6 DEF TableOK
  <2>3. CASE c \in bound \cap queues
    <3>1. queue' = [queue EXCEPT ![c] = Append(queue[c], h)] /\ orphans' = orphans
      BY <1>2, <2>3
    <3> QED
      BY <1>5, <2>1, <2>2, <2>3, <3>1
  <2>4. CASE c \notin bound \cap queues
    <3>1. orphans' = [orphans EXCEPT ![c] = Append(orphans[c], h)] /\ queue' = queue
      BY <1>2, <2>4
    <3> QED
      BY <1>5, <2>1, <2>2, <2>4, <3>1
  <2> QED
    BY <2>3, <2>4
<1>8. Pipe(c)' = Pipe(c)
  <2>1. queue'[c] \o orphans'[c] = Append(s, h)
    BY <1>5, <1>7 DEF s
  <2>2. Append(s, h) \o Tail(feed) = s \o feed
    BY <1>2, <1>5, MoveHead DEF h
  <2>3. Pipe(c)' = (queue'[c] \o orphans'[c]) \o feed'
    BY DEF Pipe
  <2> QED
    BY <1>2, <1>5, <2>1, <2>2, <2>3
<1>9. PostmanTypeOK' /\ WatcherOK' /\ ToldOnce'
  BY <1>2, <1>3, <1>7 DEF PostmanTypeOK, WatcherOK, ToldOnce, Listening
<1>10. TablesOK'
  <2> SUFFICES ASSUME NEW d \in Calls PROVE TableOK(d)'
    BY DEF TablesOK
  <2>1. TableOK(d)
    BY DEF TablesOK
  <2>2. CASE d # c
    <3>1. \A i \in 1..Len(feed') : \E j \in 1..Len(feed) : feed'[i] = feed[j]
      BY <1>2, <1>3
    <3> QED
      BY <1>2, <1>7, <2>1, <2>2, <3>1 DEF TableOK
  <2>3. CASE d = c
    <3>1. ASSUME NEW q \in Seq(Change), \A i \in 1..Len(q) : EventOf(q[i], c)
          PROVE  \A i \in 1..Len(Append(q, h)) : EventOf(Append(q, h)[i], c)
      <4>1. /\ Len(Append(q, h)) = Len(q) + 1 /\ Len(q) \in Nat
            /\ \A i \in 1..Len(q) : Append(q, h)[i] = q[i]
            /\ Append(q, h)[Len(q) + 1] = h
        BY <1>3, AppendProperties
      <4> QED
        BY <1>4, <3>1, <4>1
    <3>2. /\ \A i \in 1..Len(queue'[c]) : EventOf(queue'[c][i], c)
          /\ \A i \in 1..Len(orphans'[c]) : EventOf(orphans'[c][i], c)
      BY <1>5, <1>6, <1>7, <3>1 DEF TableOK
    <3> QED
      BY <1>2, <1>6, <1>7, <2>3, <3>2 DEF TableOK
  <2> QED
    BY <2>2, <2>3
<1>11. StreamsOK'
  <2> SUFFICES ASSUME NEW d \in Calls PROVE Flows(d)'
    BY DEF StreamsOK
  <2>1. Flows(d) /\ (Listening(d)' => Listening(d))
    BY <1>2 DEF StreamsOK, Listening
  <2>2. CASE d = c
    BY <1>2, <1>8, <2>1, <2>2, FlowsOn
  <2>3. CASE d # c
    <3>1. Pipe(d)' = (queue[d] \o orphans[d]) \o Tail(feed) /\ ~EventOf(Head(feed), d)
      BY <1>2, <1>4, <1>7, <2>3 DEF Pipe, h
    <3> QED
      BY <1>2, <2>1, <3>1, FlowsAround
  <2> QED
    BY <2>2, <2>3
<1>12. ConfirmedIsOver'
  <2> SUFFICES ASSUME NEW d \in confirmed PROVE OverOK(d)'
    BY <1>2 DEF ConfirmedIsOver
  <2>1. OverOK(d) /\ d \in Calls \ {c}
    BY <1>6 DEF ConfirmedIsOver, PostmanTypeOK
  <2> QED
    BY <1>2, <1>3, <1>7, <2>1 DEF OverOK
<1> QED
  BY <1>9, <1>10, <1>11, <1>12

\* The create change relates task and reference: the orphans go to the queue,
\* or are lost when the call is over.
LEMMA WatchCreateIInv ==
    ASSUME IInv, WatchCreate
    PROVE  IInv'
<1> USE DEF IInv
<1>1. feed # <<>> /\ Head(feed) \in Change
  BY FeedHead DEF WatchCreate, Take
<1> PICK c \in Calls : c = Head(feed).call
  BY <1>1 DEF Change
<1> DEFINE s == queue[c] \o orphans[c]
<1>2. /\ feed # <<>> /\ feed' = Tail(feed) /\ missed' = missed /\ Head(feed).type = "create"
      /\ watcher = "alive"
      /\ Bind(c)
      /\ UNCHANGED <<watching, watcher, queues, phase, seen, told, confirmed, remote, yielded>>
  BY DEF WatchCreate, Take, watchVars, callerVars, backendVars
<1>3. /\ Head(feed) \in Change /\ Head(feed) = feed[1] /\ 1 \in 1..Len(feed)
      /\ Tail(feed) \in Seq(Change)
      /\ \A i \in 1..Len(Tail(feed)) : i + 1 \in 1..Len(feed) /\ Tail(feed)[i] = feed[i + 1]
  BY <1>2, FeedHead
<1>4. \A d \in Calls : ~EventOf(Head(feed), d)
  BY <1>2, <1>3 DEF Change, EventOf
<1>5. /\ queue[c] \in Seq(Change) /\ orphans[c] \in Seq(Change) /\ feed \in Seq(Change)
      /\ s \in Seq(Change) /\ Pipe(c) = s \o feed
      /\ s \o <<>> = s /\ queue[c] \o <<>> = queue[c] /\ <<>> \o orphans[c] = orphans[c]
      /\ <<>> \o Tail(feed) = Tail(feed) /\ Len(<<>>) = 0 /\ <<>> \in Seq(Change)
  BY <1>3, <1>4, PipeFacts, ConcatEmptySeq, EmptySeq DEF Pipe
<1>6. TableOK(c) /\ remote[c] # "none"
  BY <1>3, <1>4 DEF TablesOK, TableOK
<1>7. /\ bound' = bound \cup {c}
      /\ queue' \in [Calls -> Seq(Change)] /\ orphans' \in [Calls -> Seq(Change)]
      /\ orphans'[c] = <<>>
      /\ queue'[c] = (IF c \in queues THEN s ELSE queue[c])
      /\ \A d \in Calls \ {c} : queue'[d] = queue[d] /\ orphans'[d] = orphans[d]
  BY <1>2, <1>4, <1>5 DEF Bind, PostmanTypeOK
<1>8. s = queue[c] \/ s = orphans[c]
  BY <1>5, <1>6 DEF TableOK
<1>9. c \in queues => Pipe(c)' = s \o Tail(feed)
  BY <1>2, <1>5, <1>7 DEF Pipe
<1>10. c \notin queues => Pipe(c)' = Tail(feed)
  BY <1>2, <1>5, <1>6, <1>7 DEF Pipe, TableOK
<1>11. PostmanTypeOK' /\ WatcherOK' /\ ToldOnce'
  BY <1>2, <1>3, <1>4, <1>7 DEF PostmanTypeOK, WatcherOK, ToldOnce, Listening
<1>12. TablesOK'
  <2> SUFFICES ASSUME NEW d \in Calls PROVE TableOK(d)'
    BY DEF TablesOK
  <2>1. TableOK(d)
    BY DEF TablesOK
  <2>2. CASE d # c
    BY <1>2, <1>3, <1>7, <2>1, <2>2 DEF TableOK
  <2>3. CASE d = c
    <3>1. \A i \in 1..Len(queue'[c]) : EventOf(queue'[c][i], c)
      BY <1>6, <1>7, <1>8 DEF TableOK
    <3>2. c \notin queues => queue'[c] = <<>>
      BY <1>6, <1>7 DEF TableOK
    <3>3. Len(orphans'[c]) = 0
      BY <1>5, <1>7
    <3> QED
      BY <1>2, <1>6, <1>7, <2>3, <3>1, <3>2, <3>3 DEF TableOK
  <2> QED
    BY <2>2, <2>3
<1>13. StreamsOK'
  <2> SUFFICES ASSUME NEW d \in Calls PROVE Flows(d)'
    BY DEF StreamsOK
  <2>1. Flows(d) /\ (Listening(d)' => Listening(d)) /\ ~EventOf(Head(feed), d)
    BY <1>2, <1>4 DEF StreamsOK, Listening
  <2>2. CASE d # c \/ c \in queues
    <3>1. Pipe(d)' = (queue[d] \o orphans[d]) \o Tail(feed)
      <4>1. CASE d # c
        BY <1>2, <1>7, <4>1 DEF Pipe
      <4>2. CASE d = c /\ c \in queues
        BY <1>9, <4>2 DEF s
      <4> QED
        BY <2>2, <4>1, <4>2
    <3> QED
      BY <1>2, <2>1, <3>1, FlowsAround
  <2>3. CASE d = c /\ c \notin queues
    <3>1. ~Listening(c)
      BY <1>6, <2>3 DEF TableOK, Listening
    <3>2. InStream(Tail(feed), c, D!Last(c), yielded[c], remote[c])
      <4>1. InStream(s \o feed, c, D!Last(c), yielded[c], remote[c]) /\ s \in Seq(Change)
        BY <1>5, <2>1, <2>3 DEF Flows
      <4> HIDE DEF s
      <4>2. InStream(feed, c, D!Last(c), yielded[c], remote[c])
        BY <1>5, <4>1, StreamPart
      <4> QED
        BY <1>2, <1>5, <4>2, StreamTail
    <3> QED
      BY <1>2, <1>10, <2>1, <2>3, <3>1, <3>2, FlowsDeaf
  <2> QED
    BY <2>2, <2>3
<1>14. ConfirmedIsOver'
  <2> SUFFICES ASSUME NEW d \in confirmed PROVE OverOK(d)'
    BY <1>2 DEF ConfirmedIsOver
  <2>1. OverOK(d) /\ d \in Calls
    BY DEF ConfirmedIsOver, PostmanTypeOK
  <2>2. queue'[d] = <<>> /\ orphans'[d] = <<>>
    BY <1>7, <2>1 DEF OverOK
  <2> QED
    BY <1>2, <1>3, <2>1, <2>2 DEF OverOK
<1> QED
  BY <1>11, <1>12, <1>13, <1>14

\* The feed breaks: the calls with an event in it have missed one.
LEMMA DiesIInv ==
    ASSUME IInv, WatcherDies
    PROVE  IInv'
<1> USE DEF IInv
<1>1. /\ watcher # "none" /\ watcher' = "dead" /\ feed' = <<>>
      /\ UNCHANGED <<watching, queues, queue, bound, orphans, phase, seen, told, confirmed,
                     remote, yielded>>
      /\ Len(<<>>) = 0 /\ <<>> \in Seq(Change)
  BY EmptySeq DEF WatcherDies, tableVars, callerVars, backendVars
<1>2. /\ missed \subseteq missed' /\ missed' \subseteq Calls
      /\ \A d \in Calls \ missed' : \A i \in 1..Len(feed) : ~EventOf(feed[i], d)
  <2>1. missed' = missed \cup {m.call : m \in {m \in Range(feed) : m.type = "event"}}
    BY DEF WatcherDies
  <2>2. /\ feed \in Seq(Change) /\ missed \subseteq Calls
        /\ \A i \in 1..Len(feed) : feed[i] \in Range(feed)
        /\ \A m \in Range(feed) : m \in Change
    BY DEF PostmanTypeOK, Range
  <2>3. \A m \in Range(feed) : m.call \in Calls
    BY <2>2 DEF Change
  <2> QED
    BY <2>1, <2>2, <2>3 DEF EventOf
<1>3. PostmanTypeOK' /\ WatcherOK' /\ ToldOnce'
  BY <1>1, <1>2 DEF PostmanTypeOK, WatcherOK, ToldOnce, Listening
<1>4. TablesOK'
  BY <1>1 DEF TablesOK, TableOK
<1>5. StreamsOK'
  <2> SUFFICES ASSUME NEW d \in Calls PROVE Flows(d)'
    BY DEF StreamsOK
  <2> DEFINE s == queue[d] \o orphans[d]
  <2>1. /\ Flows(d) /\ s \in Seq(Change) /\ feed \in Seq(Change) /\ Pipe(d) = s \o feed
        /\ Pipe(d)' = s \o <<>>
    BY <1>1, PipeFacts DEF StreamsOK, Pipe
  <2> HIDE DEF s
  <2>2. InStream(s, d, D!Last(d), yielded[d], remote[d]) /\ Pipe(d)' = s
    BY <2>1, StreamPart, ConcatEmptySeq DEF Flows
  <2>3. CASE d \in missed'
    BY <1>1, <2>1, <2>2, <2>3, FlowsDeaf
  <2>4. CASE d \notin missed'
    <3>1. d \notin missed /\ (Listening(d)' <=> Listening(d)) /\ D!Last(d)' = D!Last(d)
      BY <1>1, <1>2, <2>4 DEF Listening, D!Last
    <3>2. Whole(s \o feed, d, D!Last(d), yielded[d]) => Whole(s, d, D!Last(d), yielded[d])
      BY <1>2, <2>1, <2>4, WholePart
    <3> QED
      BY <1>1, <2>1, <2>2, <3>1, <3>2 DEF Flows
  <2> QED
    BY <2>3, <2>4
<1>6. ConfirmedIsOver'
  BY <1>1 DEF ConfirmedIsOver, OverOK
<1> QED
  BY <1>3, <1>4, <1>5, <1>6

\* The subscription of the watcher has reached the backend.
LEMMA SubscribeIInv ==
    ASSUME IInv, Subscribe
    PROVE  IInv'
<1>1. /\ watcher = "starting" /\ watcher' = "alive"
      /\ UNCHANGED <<watching, feed, missed, phase, queues, queue, bound, orphans, seen, told,
                     confirmed, remote, yielded>>
  BY DEF Subscribe, feedVars, tableVars, callerVars, backendVars
<1>2. PostmanTypeOK' /\ WatcherOK' /\ TablesOK' /\ ToldOnce' /\ ConfirmedIsOver'
  BY <1>1 DEF IInv, PostmanTypeOK, WatcherOK, TablesOK, TableOK, ToldOnce, Listening,
              ConfirmedIsOver, OverOK
<1>3. StreamsOK'
  BY <1>1 DEF IInv, StreamsOK, Flows, Pipe, Listening, D!Last
<1> QED
  BY <1>2, <1>3 DEF IInv

\* The coroutine of a call goes on.
LEMMA CoroutineIInv ==
    ASSUME IInv, NEW c \in Calls, Coroutine(c)
    PROVE  IInv'
<1>1. told \in [Calls -> Told]
  BY DEF IInv, PostmanTypeOK
<1>2. CASE Accepted(c)
  BY <1>2, AcceptedIInv
<1>3. CASE Deliver(c)
  <2> DEFINE e == Head(queue[c])
  <2>1. /\ phase[c] = "streaming" /\ queue[c] # <<>>
        /\ queue' = [queue EXCEPT ![c] = Tail(@)]
        /\ UNCHANGED <<watchVars, feedVars, queues, bound, orphans, confirmed, backendVars>>
    BY <1>3 DEF Deliver
  <2>2. CASE /\ e.kind = "yield" /\ Goto(c, "consuming")
             /\ seen' = [seen EXCEPT ![c] = Append(@, e.n)] /\ UNCHANGED told
    BY <1>1, <2>1, <2>2, DequeueIInv DEF Phases, Listening
  <2>3. CASE /\ e.kind \in {"completed", "failed"} /\ Goto(c, "closing")
             /\ told' = [told EXCEPT ![c] = IF e.kind = "completed" THEN "completed" ELSE "critical"]
             /\ UNCHANGED seen
    <3>1. phase'[c] = "closing"
      BY <2>3 DEF Goto, IInv, PostmanTypeOK
    <3>2. /\ told' \in [Calls -> Told] /\ \A d \in Calls \ {c} : told'[d] = told[d]
          /\ "closing" \in Phases \ {"idle", "over"} /\ ~Listening(c)'
      BY <1>1, <2>3, <3>1 DEF Told, Phases, Listening
    <3> QED
      BY <2>1, <2>3, <3>2, DequeueIInv
  <2>4. CASE e.kind \in {"cancelled", "interrupted"} /\ UNCHANGED <<phase, seen, told>>
    <3>1. Goto(c, "streaming") /\ "streaming" \in Phases \ {"idle", "over"}
      BY <2>1, <2>4 DEF Goto, IInv, PostmanTypeOK, Phases
    <3> QED
      BY <1>1, <2>1, <2>4, <3>1, DequeueIInv DEF Listening
  <2> QED
    BY <1>3, <2>2, <2>3, <2>4 DEF Deliver
<1>4. CASE Consumed(c)
  BY <1>1, <1>4, QuietIInv DEF Consumed, Phases, Listening
<1>5. CASE Close(c)
  BY <1>1, <1>5, QuietIInv DEF Close, Phases
<1>6. CASE Requested(c)
  BY <1>1, <1>6, QuietIInv DEF Requested, Phases
<1>7. CASE Confirm(c)
  <2> DEFINE e == Head(queue[c])
  <2>1. /\ phase[c] \in {"confirming", "escalated"} /\ queue[c] # <<>>
        /\ UNCHANGED <<watchVars, feedVars, seen, told, backendVars>>
    BY <1>7 DEF Confirm
  <2>2. CASE e.kind \in Awaited(c)
    <3>1. Cleanup(c) /\ Goto(c, "over") /\ confirmed' = confirmed \cup {c}
      BY <1>7, <2>2 DEF Confirm
    <3>2. /\ c \in bound /\ e.kind = remote[c] /\ remote[c] \in Ends
          /\ \A i \in 1..Len(feed) : ~EventOf(feed[i], c)
      BY <2>1, <2>2, HeadArrives DEF Awaited, Ends
    <3> QED
      BY <1>1, <2>1, <3>1, <3>2, CleanupIInv
  <2>3. CASE e.kind \notin Awaited(c)
    <3>1. /\ queue' = [queue EXCEPT ![c] = Tail(@)]
          /\ UNCHANGED <<phase, queues, bound, orphans, confirmed>>
      BY <1>7, <2>3 DEF Confirm
    <3>2. Goto(c, phase[c]) /\ phase[c] \in Phases \ {"idle", "over"} /\ ~Listening(c)'
      BY <2>1, <3>1 DEF Goto, IInv, PostmanTypeOK, Phases, Listening
    <3> QED
      BY <1>1, <2>1, <3>1, <3>2, DequeueIInv
  <2> QED
    BY <2>2, <2>3
<1> QED
  BY <1>2, <1>3, <1>4, <1>5, <1>6, <1>7 DEF Coroutine

\* The calling task is cancelled, at whatever it waits for.
LEMMA CancelIInv ==
    ASSUME IInv, NEW c \in Calls, Cancel(c)
    PROVE  IInv'
<1>1. /\ told' \in [Calls -> Told] /\ \A d \in Calls \ {c} : told'[d] = told[d]
      /\ UNCHANGED <<watchVars, feedVars, seen, confirmed, backendVars>>
  BY DEF Cancel, IInv, PostmanTypeOK, Told
<1>2. CASE phase[c] = "requested" /\ Goto(c, "over") /\ UNCHANGED tableVars
  BY <1>1, <1>2, QuietIInv DEF Phases
<1>3. CASE phase[c] = "consuming" /\ Goto(c, "closing") /\ UNCHANGED tableVars
  BY <1>1, <1>3, QuietIInv DEF Phases
<1>4. CASE phase[c] = "streaming" /\ Goto(c, "cancelling") /\ UNCHANGED tableVars
  BY <1>1, <1>4, QuietIInv DEF Phases
<1>5. CASE /\ phase[c] \in {"cancelling", "confirming", "interrupting", "escalated"}
           /\ Goto(c, "over") /\ Cleanup(c)
  BY <1>1, <1>5, CleanupIInv
<1> QED
  BY <1>2, <1>3, <1>4, <1>5 DEF Cancel

\* Every step keeps the invariant.
LEMMA NextIInv == IInv /\ [Next]_vars => IInv'
<1> SUFFICES ASSUME IInv, [Next]_vars PROVE IInv'
  OBVIOUS
<1>1. told \in [Calls -> Told]
  BY DEF IInv, PostmanTypeOK
<1>2. CASE UNCHANGED vars
  <2>1. UNCHANGED <<watching, watcher, feed, missed, phase, queues, queue, bound, orphans, seen, told,
                    confirmed, remote, yielded>>
    BY <1>2 DEF vars, watchVars, feedVars, tableVars, callerVars, backendVars
  <2>2. PostmanTypeOK' /\ WatcherOK' /\ TablesOK' /\ ToldOnce' /\ ConfirmedIsOver'
    BY <2>1 DEF IInv, PostmanTypeOK, WatcherOK, TablesOK, TableOK, ToldOnce, Listening,
                ConfirmedIsOver, OverOK
  <2>3. StreamsOK'
    BY <2>1 DEF IInv, StreamsOK, Flows, Pipe, Listening, D!Last
  <2> QED
    BY <2>2, <2>3 DEF IInv
<1>3. ASSUME NEW c \in Calls,
             Call(c) \/ Coroutine(c) \/ RequestFails(c) \/ TimeOut(c) \/ Abandon(c) \/ Cancel(c)
      PROVE  IInv'
  <2>1. CASE Call(c)
    BY <2>1, CallIInv
  <2>2. CASE Coroutine(c)
    BY <2>2, CoroutineIInv
  <2>3. CASE RequestFails(c)
    BY <1>1, <2>3, QuietIInv DEF RequestFails, Phases, Told
  <2>4. CASE TimeOut(c)
    BY <1>1, <2>4, QuietIInv, CleanupIInv DEF TimeOut, Phases
  <2>5. CASE Abandon(c)
    BY <1>1, <2>5, QuietIInv DEF Abandon, Phases, Told
  <2>6. CASE Cancel(c)
    BY <2>6, CancelIInv
  <2> QED
    BY <1>3, <2>1, <2>2, <2>3, <2>4, <2>5, <2>6
<1>4. ASSUME NEW c \in Calls,
             \/ BackendCreate(c) \/ BackendAnnounce(c) \/ BackendYield(c)
             \/ BackendFinish(c) \/ BackendControl(c)
      PROVE  IInv'
  <2>1. ASSUME BackendFinish(c) \/ BackendControl(c)
        PROVE  \E kind \in Ends : BackendEnd(c, kind)
    BY <2>1, GraphqlAssumption DEF BackendFinish, BackendControl, Ends
  <2> QED
    BY <1>4, <2>1, CreateIInv, AnnounceIInv, YieldIInv, EndIInv
<1>5. CASE Watch
  BY <1>5, WatchCreateIInv, WatchEventIInv DEF Watch
<1>6. CASE WatcherDies
  BY <1>6, DiesIInv
<1>7. CASE Subscribe
  BY <1>7, SubscribeIInv
<1> QED
  BY <1>2, <1>3, <1>4, <1>5, <1>6, <1>7 DEF Next

\* In every reachable state the events of a task are on one way, in order, and
\* none is missing while its call listens and none was published without a
\* subscription or lost with it.
THEOREM GraphqlInvariant == Spec => []IInv
  BY InitIInv, NextIInv, PTL DEF Spec

\* A cancellation that the backend has confirmed leaves no queue and no event
\* (_cleanup_reference), whatever was still on its way.
THEOREM ConfirmedIsGone == Spec => []ConfirmedLeavesNothing
<1>1. IInv => ConfirmedLeavesNothing
  BY DEF IInv, ConfirmedIsOver, OverOK, ConfirmedLeavesNothing
<1> QED
  BY <1>1, GraphqlInvariant, PTL

-----------------------------------------------------------------------------
(* The refinement. *)

\* Nothing is promised yet at first.
LEMMA InitDelegates == Init => D!Init
  BY DEF Init, D!Init

\* What the queue of a call hands to its caller is a step that the promise
\* allows.
LEMMA DeliverDelegates ==
    ASSUME IInv, NEW c \in Calls, Deliver(c)
    PROVE  D!Next \/ UNCHANGED D!vars
<1> DEFINE e == Head(queue[c])
<1>1. /\ phase[c] = "streaming" /\ queue[c] # <<>>
      /\ UNCHANGED <<missed, remote, yielded>>
      /\ told[c] = "nothing" /\ Listening(c)
  BY DEF Deliver, feedVars, backendVars, IInv, ToldOnce, Listening
<1>2. /\ Flows(c) /\ D!Last(c) \in Nat /\ yielded[c] \in Nat /\ D!Last(c) <= yielded[c]
      /\ c \notin missed => Whole(Pipe(c), c, D!Last(c), yielded[c])
  BY <1>1 DEF IInv, StreamsOK, Flows, PostmanTypeOK
<1>3. CASE /\ e.kind = "yield"
           /\ seen' = [seen EXCEPT ![c] = Append(@, e.n)] /\ UNCHANGED told
  <2>1. /\ e.n \in Nat /\ e.n > D!Last(c) /\ e.n <= yielded[c]
        /\ c \notin missed => e.n = D!Last(c) + 1
    BY <1>1, <1>2, <1>3, HeadArrives
  <2>2. D!See(c, e.n) /\ e.n \in 1..yielded[c]
    BY <1>1, <1>2, <1>3, <2>1 DEF D!See
  <2> QED
    BY <2>2 DEF D!Next
<1>4. CASE /\ e.kind \in {"completed", "failed"}
           /\ told' = [told EXCEPT ![c] = IF e.kind = "completed" THEN "completed" ELSE "critical"]
           /\ UNCHANGED seen
  <2>1. e.kind = remote[c] /\ (c \notin missed => yielded[c] <= D!Last(c))
    BY <1>1, <1>2, <1>4, HeadArrives
  <2>2. D!Return(c) \/ D!Raise(c)
    <3>1. CASE e.kind = "completed"
      <4>1. remote[c] = "completed" /\ (c \notin missed => D!Last(c) = yielded[c])
        BY <1>2, <2>1, <3>1
      <4> QED
        BY <1>1, <1>4, <3>1, <4>1 DEF D!Return, D!Tell
    <3>2. CASE e.kind = "failed"
      <4>1. remote[c] \in D!Ends \ {"completed"}
        BY <2>1, <3>2 DEF D!Ends
      <4> QED
        BY <1>1, <1>4, <3>2, <4>1 DEF D!Raise, D!Tell
    <3> QED
      BY <1>4, <3>1, <3>2
  <2> QED
    BY <2>2 DEF D!Next
<1>5. CASE UNCHANGED <<seen, told>>
  BY <1>1, <1>5 DEF D!vars
<1> QED
  BY <1>3, <1>4, <1>5 DEF Deliver

\* Every step of the postman is one that the promise allows, or none.
LEMMA StepDelegates == IInv /\ [Next]_vars => [D!Next]_(D!vars)
<1> SUFFICES ASSUME IInv, [Next]_vars PROVE D!Next \/ UNCHANGED D!vars
  OBVIOUS
<1>1. ASSUME UNCHANGED <<seen, told, remote, yielded, missed>>
      PROVE  UNCHANGED D!vars
  BY <1>1 DEF D!vars
<1>2. CASE UNCHANGED vars
  BY <1>1, <1>2 DEF vars, feedVars, callerVars, backendVars
<1>3. ASSUME NEW c \in Calls,
             \/ Call(c) \/ Accepted(c) \/ Consumed(c) \/ Close(c) \/ Requested(c)
             \/ Confirm(c) \/ TimeOut(c) \/ BackendAnnounce(c)
      PROVE  UNCHANGED D!vars
  <2>1. CASE \/ Call(c) \/ Accepted(c) \/ Consumed(c) \/ Close(c) \/ Requested(c)
             \/ Confirm(c) \/ TimeOut(c)
    BY <1>1, <2>1 DEF Call, Accepted, Consumed, Close, Requested, Confirm, TimeOut,
                      feedVars, callerVars, backendVars
  <2>2. CASE BackendAnnounce(c)
    BY <1>1, <2>2 DEF BackendAnnounce, Changed, Created, callerVars
  <2> QED
    BY <1>3, <2>1, <2>2
<1>4. ASSUME NEW c \in Calls, RequestFails(c) \/ Abandon(c) \/ Cancel(c)
      PROVE  D!Next \/ UNCHANGED D!vars
  <2>1. UNCHANGED <<missed, seen, remote, yielded>>
    BY <1>4 DEF RequestFails, Abandon, Cancel, feedVars, backendVars
  <2>2. CASE RequestFails(c)
    <3>1. D!BreakOff(c)
      BY <2>1, <2>2 DEF RequestFails, D!BreakOff, D!Tell, IInv, ToldOnce, Listening
    <3> QED
      BY <3>1 DEF D!Next
  <2>3. CASE Abandon(c)
    <3>1. D!Leave(c)
      BY <2>1, <2>3 DEF Abandon, D!Leave, D!Tell, IInv, ToldOnce, Listening
    <3> QED
      BY <3>1 DEF D!Next
  <2>4. CASE Cancel(c) /\ told[c] = "nothing"
    <3>1. D!Leave(c)
      BY <2>1, <2>4 DEF Cancel, D!Leave, D!Tell, IInv, PostmanTypeOK
    <3> QED
      BY <3>1 DEF D!Next
  <2>5. CASE Cancel(c) /\ told[c] # "nothing"
    <3>1. told' = told
      BY <2>5 DEF Cancel, IInv, PostmanTypeOK
    <3> QED
      BY <1>1, <2>1, <3>1
  <2> QED
    BY <1>4, <2>2, <2>3, <2>4, <2>5
<1>5. ASSUME NEW c \in Calls, BackendCreate(c) PROVE D!Next
  BY <1>5 DEF BackendCreate, D!Next, D!Run, feedVars, callerVars
<1>6. ASSUME NEW c \in Calls, BackendYield(c) PROVE D!Next
  <2> DEFINE e == [Event(c, "yield") EXCEPT !.n = @ + 1]
  <2>1. e.call = c
    BY DEF Event
  <2> HIDE DEF e
  <2>2. missed' \in {missed, missed \cup {c}}
    BY <1>6, <2>1 DEF BackendYield, Changed, e
  <2>3. D!Yield(c)
    BY <1>6, <2>2 DEF BackendYield, D!Yield, callerVars
  <2> QED
    BY <2>3 DEF D!Next
<1>7. ASSUME NEW c \in Calls, BackendFinish(c) \/ BackendControl(c) PROVE D!Next
  <2>1. PICK kind \in Ends : BackendEnd(c, kind)
    BY <1>7, GraphqlAssumption DEF BackendFinish, BackendControl, Ends
  <2>2. missed' \in {missed, missed \cup {c}}
    BY <2>1 DEF BackendEnd, Changed, Event
  <2>3. D!End(c, kind) /\ kind \in D!Ends
    BY <2>1, <2>2 DEF BackendEnd, D!End, D!Ends, Ends, callerVars
  <2> QED
    BY <2>3 DEF D!Next
<1>8. CASE Watch \/ Subscribe
  BY <1>1, <1>8 DEF Watch, WatchCreate, WatchEvent, Take, Subscribe, feedVars, callerVars,
                    backendVars
<1>9. CASE WatcherDies
  <2> DEFINE cs == {m.call : m \in {m \in Range(feed) : m.type = "event"}}
  <2>1. cs \in SUBSET Calls
    <3>1. feed \in Seq(Change)
      BY DEF IInv, PostmanTypeOK
    <3>2. \A m \in Range(feed) : m \in Change
      BY <3>1 DEF Range
    <3>3. \A m \in Range(feed) : m.call \in Calls
      BY <3>2 DEF Change
    <3> QED
      BY <3>3
  <2>2. missed' = missed \cup cs
    BY <1>9 DEF WatcherDies
  <2> HIDE DEF cs
  <2>3. D!Lose
    BY <1>9, <2>1, <2>2 DEF WatcherDies, D!Lose, callerVars, backendVars
  <2> QED
    BY <2>3 DEF D!Next
<1> QED
  BY <1>2, <1>3, <1>4, <1>5, <1>6, <1>7, <1>8, <1>9, DeliverDelegates DEF Next, Coroutine

\* The postman keeps the promise of Delegation: a caller is given the yields in
\* order and told the true end, whichever of answer, create change and events
\* comes first; only an event of its own task that found no subscription, or
\* was lost with it, excuses a gap, and whoever's request failed, before or
\* after its task was created, is promised nothing more.
THEOREM GraphqlImplementsDelegation == Spec => ImplementsDelegation
  BY InitDelegates, StepDelegates, GraphqlInvariant, PTL DEF Spec, ImplementsDelegation, D!Spec

-----------------------------------------------------------------------------
(* What the promise means. *)

\* The caller has been given yields of its task in order, all of them if
\* nothing was lost.
SeenOK(c) == YieldsSeen(seen[c], yielded[c], c \notin missed)

\* What the caller was told is what became of the task.
EndTrue(c) ==
    /\ told[c] = "completed" =>
          remote[c] = "completed" /\ (c \notin missed => Len(seen[c]) = yielded[c])
    /\ told[c] = "critical" => remote[c] \in Ends \ {"completed"}

PromiseInv == \A c \in Calls : SeenOK(c) /\ EndTrue(c)

\* Nothing has been given or told at first.
LEMMA InitPromise == Init => PromiseInv
<1> SUFFICES ASSUME Init, NEW c \in Calls PROVE SeenOK(c) /\ EndTrue(c)
  BY DEF PromiseInv
<1>1. seen[c] = <<>> /\ told[c] = "nothing"
  BY DEF Init
<1>2. <<>> \in Seq(Nat) /\ DOMAIN <<>> = {}
  OBVIOUS
<1>3. SeenOK(c)
  BY <1>1, <1>2 DEF SeenOK, YieldsSeen
<1>4. EndTrue(c)
  BY <1>1 DEF EndTrue
<1> QED
  BY <1>3, <1>4

\* No step that the promise allows makes it untrue: an end is told once, when the
\* task has it, and a yield is given after the ones before it.
LEMMA StepPromise ==
    ASSUME IInv, IInv', PromiseInv, D!Next
    PROVE  PromiseInv'
<1>1. /\ seen \in [Calls -> Seq(Nat)] /\ told \in [Calls -> Told]
      /\ remote \in [Calls -> Ends \cup {"none", "running"}]
      /\ yielded \in [Calls -> Nat] /\ yielded' \in [Calls -> Nat]
  BY DEF IInv, PostmanTypeOK
<1>2. \A c \in Calls : c \notin missed' => c \notin missed
  BY DEF D!Next, D!Lose, D!Run, D!Yield, D!End, D!See, D!Return, D!Raise, D!Refuse, D!BreakOff,
         D!Leave, D!Tell
<1>3. ASSUME NEW c \in Calls, seen'[c] = seen[c], yielded[c] <= yielded'[c]
      PROVE  SeenOK(c)'
  <2>1. YieldsSeen(seen[c], yielded'[c], c \notin missed')
    BY <1>2, <1>1, <1>3, SeenStay DEF PromiseInv, SeenOK
  <2> QED
    BY <1>3, <2>1 DEF SeenOK
<1>4. ASSUME NEW c \in Calls,
             seen'[c] = seen[c], told'[c] = told[c],
             \/ remote'[c] = remote[c] /\ yielded'[c] = yielded[c]
             \/ remote[c] \in {"none", "running"}
      PROVE  EndTrue(c)'
  BY <1>2, <1>1, <1>4 DEF PromiseInv, EndTrue, Ends
<1>5. ASSUME NEW c \in Calls,
             seen'[c] = seen[c], told'[c] = told[c],
             remote'[c] = remote[c], yielded'[c] = yielded[c]
      PROVE  SeenOK(c)' /\ EndTrue(c)'
  BY <1>1, <1>3, <1>4, <1>5
<1>6. CASE D!Lose
  BY <1>5, <1>6 DEF D!Lose, PromiseInv
<1>7. ASSUME NEW c \in Calls, D!Run(c) \/ D!Yield(c) \/ \E kind \in D!Ends : D!End(c, kind)
      PROVE  PromiseInv'
  <2>1. UNCHANGED <<seen, told>> /\ remote[c] \in {"none", "running"}
    BY <1>7 DEF D!Run, D!Yield, D!End
  <2>2. yielded[c] <= yielded'[c]
    BY <1>1, <1>7 DEF D!Run, D!Yield, D!End
  <2>3. \A d \in Calls \ {c} : remote'[d] = remote[d] /\ yielded'[d] = yielded[d]
    BY <1>1, <1>7 DEF D!Run, D!Yield, D!End
  <2>4. SeenOK(c)' /\ EndTrue(c)'
    <3>1. seen'[c] = seen[c] /\ told'[c] = told[c]
      BY <2>1
    <3>2. SeenOK(c)'
      BY <1>3, <2>1, <2>2, <3>1
    <3>3. EndTrue(c)'
      BY <1>4, <2>1, <3>1
    <3> QED
      BY <3>2, <3>3
  <2>5. ASSUME NEW d \in Calls \ {c} PROVE SeenOK(d)' /\ EndTrue(d)'
    <3>1. /\ d \in Calls /\ seen'[d] = seen[d] /\ told'[d] = told[d]
          /\ remote'[d] = remote[d] /\ yielded'[d] = yielded[d]
      BY <2>1, <2>3
    <3> QED
      BY <1>5, <3>1
  <2> QED
    BY <2>4, <2>5 DEF PromiseInv
<1>8. ASSUME NEW c \in Calls, NEW n \in 1..yielded[c], D!See(c, n)
      PROVE  PromiseInv'
  <2>1. /\ told[c] = "nothing" /\ UNCHANGED <<remote, yielded, told>>
        /\ n > D!Last(c) /\ (c \notin missed => n = D!Last(c) + 1)
        /\ seen'[c] = Append(seen[c], n) /\ \A d \in Calls \ {c} : seen'[d] = seen[d]
    BY <1>1, <1>8 DEF D!See
  <2>2. D!Last(c) = LastOf(seen[c])
    BY DEF D!Last, LastOf
  <2>3. SeenOK(c)'
    <3>1. YieldsSeen(seen[c], yielded[c], c \notin missed)
      BY DEF PromiseInv, SeenOK
    <3>2. YieldsSeen(Append(seen[c], n), yielded[c], c \notin missed)
      BY <1>1, <2>1, <2>2, <3>1, SeenAppend
    <3>3. YieldsSeen(Append(seen[c], n), yielded[c], c \notin missed')
      <4>1. yielded[c] \in Nat /\ yielded[c] <= yielded[c]
        BY <1>1
      <4> QED
        BY <1>2, <3>2, <4>1, SeenStay
    <3> QED
      BY <2>1, <3>3 DEF SeenOK
  <2>4. EndTrue(c)'
    BY <2>1 DEF EndTrue
  <2>5. ASSUME NEW d \in Calls \ {c} PROVE SeenOK(d)' /\ EndTrue(d)'
    BY <1>5, <2>1
  <2> QED
    BY <2>3, <2>4, <2>5 DEF PromiseInv
<1>9. ASSUME NEW c \in Calls, D!Return(c) \/ D!Raise(c) \/ D!Refuse(c) \/ D!BreakOff(c) \/ D!Leave(c)
      PROVE  PromiseInv'
  <2>1. UNCHANGED <<remote, yielded, seen>>
    BY <1>9 DEF D!Return, D!Raise, D!Refuse, D!BreakOff, D!Leave, D!Tell
  <2>2. \A d \in Calls \ {c} : told'[d] = told[d]
    BY <1>1, <1>9 DEF D!Return, D!Raise, D!Refuse, D!BreakOff, D!Leave, D!Tell
  <2>3. SeenOK(c)'
    BY <1>1, <1>3, <2>1
  <2>4. EndTrue(c)'
    <3>1. CASE D!Return(c)
      <4>1. /\ told'[c] = "completed" /\ remote[c] = "completed"
            /\ c \notin missed => D!Last(c) = yielded[c]
        BY <1>1, <3>1 DEF D!Return, D!Tell
      <4>2. c \notin missed => D!Last(c) = Len(seen[c])
        <5>1. YieldsSeen(seen[c], yielded[c], c \notin missed) /\ yielded[c] \in Nat
          BY <1>1 DEF PromiseInv, SeenOK
        <5>2. c \notin missed => LastOf(seen[c]) = Len(seen[c])
          BY <5>1, SeenLast
        <5> QED
          BY <5>2 DEF D!Last, LastOf
      <4> QED
        BY <1>2, <2>1, <4>1, <4>2 DEF EndTrue
    <3>2. CASE D!Raise(c)
      BY <1>1, <2>1, <3>2 DEF D!Raise, D!Tell, EndTrue, D!Ends, Ends
    <3>3. CASE D!Refuse(c) \/ D!BreakOff(c) \/ D!Leave(c)
      <4>1. told'[c] \in {"refused", "unanswered", "cancelled", "abandoned"}
        BY <1>1, <3>3 DEF D!Refuse, D!BreakOff, D!Leave, D!Tell
      <4> QED
        BY <4>1 DEF EndTrue
    <3> QED
      BY <1>9, <3>1, <3>2, <3>3
  <2>5. ASSUME NEW d \in Calls \ {c} PROVE SeenOK(d)' /\ EndTrue(d)'
    BY <1>5, <2>1, <2>2
  <2> QED
    BY <2>3, <2>4, <2>5 DEF PromiseInv
<1> QED
  BY <1>6, <1>7, <1>8, <1>9 DEF D!Next

\* Steps the promise does not speak of leave it true.
LEMMA QuietPromise ==
    ASSUME PromiseInv, UNCHANGED D!vars
    PROVE  PromiseInv'
<1>1. UNCHANGED <<seen, yielded, told, remote>> /\ missed' = missed
  BY DEF D!vars
<1> QED
  BY <1>1 DEF PromiseInv, SeenOK, EndTrue

\* The invariant is what Delegation says.
LEMMA PromiseIsKept == PromiseInv => D!SeenInOrder /\ D!EndIsTrue
  BY DEF PromiseInv, SeenOK, EndTrue, YieldsSeen, D!SeenInOrder, D!EndIsTrue, D!Ends, Ends

\* Hence, for any calls and any number of yields, a caller is given the yields of
\* its task in order, none twice and none left out unless an event of that task
\* was missed, and a call that returns or raises stands for a task that did
\* (aassign).
THEOREM CallerGetsWhatIsTrue == Spec => [](D!SeenInOrder /\ D!EndIsTrue)
<1>1. IInv /\ IInv' /\ PromiseInv /\ [Next]_vars => PromiseInv'
  BY StepDelegates, StepPromise, QuietPromise
<1> QED
  BY <1>1, InitPromise, PromiseIsKept, GraphqlInvariant, PTL DEF Spec

=============================================================================
