--------------------------- MODULE StateOperations ---------------------------
(***************************************************************************)
(* User code on the states of an agent: the containers a fresh state is    *)
(* made of (statify, make_evented) and everything that an operation on a   *)
(* container it reaches may leave of the heap and of the event queue.      *)
(***************************************************************************)
EXTENDS EventedState, TreePatch

CONSTANTS
    Root,           \* the container of each state
    Initial,        \* the tree each state starts with
    Literals(_),    \* the new values user code puts at a path
    Uses            \* what user code does beyond the everyday

ASSUME OperationsAssumption ==
    /\ Root \in [States -> Objs] /\ DOMAIN Initial = States
    /\ Uses \subseteq {"live", "displaced", "moved", "negative", "slice", "dict set", "merge"}

\* The heap of fresh states: the fields of each are wrapped (statify).
RootsOnly ==
    [o \in {Root[s] : s \in States} |->
        [kind |-> "data", path |-> <<>>, typed |-> TRUE,
         kids |-> Initial[CHOOSE s \in States : Root[s] = o]]]

RECURSIVE WrapStates(_, _)
WrapStates(heap, todo) ==
    IF todo = {} THEN heap
    ELSE LET s == CHOOSE x \in todo : TRUE
         IN  WrapStates(WrapAll(heap, Root[s], heap[Root[s]], DOMAIN Initial[s], Initial[s]),
                        todo \ {s})

\* The states when they are made.
FreshStates == WrapStates(RootsOnly, States)

PlainStates(heap) == [s \in States |-> Plain(heap, Root[s])]

-----------------------------------------------------------------------------
RECURSIVE Below(_, _)
Below(heap, v) ==
    IF v \notin DOMAIN heap THEN {}
    ELSE {v} \cup UNION {Below(heap, heap[v].kids[i]) : i \in DOMAIN heap[v].kids}

StateOf(heap, o) == CHOOSE s \in States : o \in Below(heap, Root[s])
InStates(heap) == UNION {Below(heap, Root[s]) : s \in States}

\* Containers that events carry: they carry them, not copies.
Carried(heap, events) == UNION {Below(heap, events[i].value) : i \in DOMAIN events}

\* Containers below an item that has moved: _reindex_items corrects the path of
\* the item and not theirs, so that what they publish is for another place.
RECURSIVE Astray(_, _, _)
Astray(heap, v, path) ==
    IF v \notin DOMAIN heap THEN {}
    ELSE {x \in {v} : path # <<>> /\ Front(heap[v].path) # Front(path)}
         \cup UNION {Astray(heap, heap[v].kids[i], Append(path, Segment(heap[v], i)))
                     : i \in DOMAIN heap[v].kids}

Displaced(heap) == UNION {Astray(heap, Root[s], <<>>) : s \in States}

\* Dataclasses that are in a state already.
Dataclasses(heap) == {x \in InStates(heap) : heap[x].kind = "data"} \ {Root[s] : s \in States}

\* What user code puts at a place of a container: new values, and evented
\* dataclasses, but not into themselves.
Value(heap, o, seg) ==
    Literals(Append(heap[o].path, seg))
    \cup (IF "moved" \notin Uses THEN {}
          ELSE {[object |-> x] : x \in {x \in Dataclasses(heap) : o \notin Below(heap, x)}})

ListOperations(heap, o) ==
    LET kids == heap[o].kids n == Len(kids) IN
    {ListAppend(heap, o, t) : t \in Value(heap, o, Dash)}
    \cup {ListExtend(heap, o, <<t, u>>) : t, u \in Value(heap, o, Dash)}
    \cup {ListInsert(heap, o, i, t) : i \in {-n, 0}, t \in Value(heap, o, Dash)}
    \cup {ListSet(heap, o, i, t) : i \in 0..(n - 1), t \in Value(heap, o, Dash)}
    \cup {ListDel(heap, o, i) : i \in 0..(n - 1)}
    \cup {ListPop(heap, o, i) : i \in -n..(n - 1)}
    \cup {ListRemove(heap, o, t) : t \in Value(heap, o, Dash)}
    \cup {ListClear(heap, o), ListTimes(heap, o, 0), ListReverse(heap, o)}
    \cup {ListTimes(heap, o, m) :
            m \in {m \in {2} : "moved" \in Uses \/ Range(kids) \cap Dataclasses(heap) = {}}}
    \cup {SliceDel(heap, o, a, b) : a \in {0, 1}, b \in {n}}
    \cup (IF "negative" \notin Uses THEN {}
          ELSE {ListSet(heap, o, i, t) : i \in -n..-1, t \in Value(heap, o, Dash)}
               \cup {ListDel(heap, o, i) : i \in -n..-1}
               \cup {ListPop(heap, o, i) : i \in (-2 * n)..(-n - 1)})
    \cup (IF "slice" \notin Uses THEN {}
          ELSE {SliceSet(heap, o, a, b, ts) : a \in {0, 1} \cap 0..n, b \in {n},
                   ts \in {<<>>} \cup {<<t, t>> : t \in Value(heap, o, Dash)}})

DictOperations(heap, o) ==
    LET kids == heap[o].kids IN
    {DictDel(heap, o, k) : k \in DOMAIN kids}
    \cup {DictClear(heap, o)}
    \cup (IF "dict set" \notin Uses THEN {}
          ELSE {DictSet(heap, o, k, t) : k \in Keys, t \in Value(heap, o, Dash)}
               \cup {DictSetDefault(heap, o, k, t) : k \in Keys, t \in Value(heap, o, Dash)}
               \cup {DictUpdate(heap, o, [k \in Keys |-> t]) : t \in Value(heap, o, Dash)})
    \cup (IF "merge" \notin Uses THEN {}
          ELSE {DictMerge(heap, o, [k \in Keys |-> t]) : t \in Value(heap, o, Dash)})

FieldOperations(heap, o) ==
    UNION {{SetAttr(heap, o, k, t) : t \in Value(heap, o, k)} : k \in DOMAIN heap[o].kids}

Operations(heap, o) ==
    CASE heap[o].kind = "list" -> ListOperations(heap, o)
      [] heap[o].kind = "dict" -> DictOperations(heap, o)
      [] OTHER -> FieldOperations(heap, o)

\* What is queued: the patches of an operation on o, with their state and task.
Events(heap, o, done, task) ==
    [i \in DOMAIN done.patches |->
        [state |-> StateOf(heap, o), task |-> task] @@ done.patches[i]]

\* Containers out of the states and the queue are garbage.
WithoutGarbage(heap, events) ==
    [o \in InStates(heap) \cup Carried(heap, events) |-> heap[o]]

\* The containers that user code changes.  Everyday code changes a container
\* after the patch that carries it was shrunk, and not below an item that moved.
Reached(heap, events) ==
    InStates(heap) \ ((IF "live" \in Uses THEN {} ELSE Carried(heap, events))
                      \cup (IF "displaced" \in Uses THEN {} ELSE Displaced(heap)))

\* The outcomes of an operation of a task on a container it reaches.
OutcomesOf(heap, events, task) ==
    UNION {{LET all == events \o Events(heap, o, done, task)
            IN  [live |-> WithoutGarbage(done.heap, all), queue |-> all]
              : done \in Operations(heap, o)}
           : o \in Reached(heap, events)}
=============================================================================
