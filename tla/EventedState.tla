---------------------------- MODULE EventedState ----------------------------
(***************************************************************************)
(* The containers in which an agent keeps its states: lists, dicts and     *)
(* dataclasses that emit a JSON patch for every mutation (observable.py),  *)
(* and what a reader makes of those patches (the external jsonpatch).      *)
(*                                                                         *)
(* Containers have identity: a patch carries the container it put into the *)
(* state, not a copy, and each container remembers the path at which it    *)
(* was put.  So the live state is a heap, a function from objects to their *)
(* kind, path and members.  Readers see trees: an atom, [list |-> ...] or  *)
(* [dict |-> ...], a dataclass being a dict of its fields.  User code puts *)
(* atoms, containers of its own making ([list |-> ...], [dict |-> ...] or  *)
(* [data |-> ...]), and containers that are evented already,               *)
(* [object |-> o].  Indices in paths count from 0, as in the code.         *)
(***************************************************************************)
EXTENDS Integers, Sequences, SequencesExt, FiniteSets, TLC

CONSTANTS
    Atoms,      \* numbers, strings: values without inner structure
    Objs,       \* identities of evented containers
    Keys,       \* names of fields and keys of dicts
    Dash,       \* the path element "-", the end of a list
    None

Values == Atoms \cup Objs

\* What an operation leaves: the heap and the patches it published, in order.
Done(heap, patches) == [heap |-> heap, patches |-> patches]

\* JSON Pointer segment of the member at position i (from 1) or key i.
Segment(obj, i) == IF obj.kind = "list" THEN i - 1 ELSE i

\* _resolve_child_port: an index finds the one child of a list port and a
\* field its own; the child port of a dict is called "..." and no key is.
ChildTyped(obj) == obj.typed /\ obj.kind # "dict"

MakePatch(op, path, value, typed) ==
    [op |-> op, path |-> path, value |-> value, typed |-> typed]

(***************************************************************************)
(* Trees and what jsonpatch does to them.                                  *)
(***************************************************************************)
IsTree(t, kind) == t \notin Atoms /\ DOMAIN t = {kind}

\* The tree of a live value: what ashrink_return makes of it.
RECURSIVE Plain(_, _)
Plain(heap, v) ==
    IF v \in Atoms THEN v
    ELSE LET kids == heap[v].kids
         IN  IF heap[v].kind = "list"
             THEN [list |-> [i \in DOMAIN kids |-> Plain(heap, kids[i])]]
             ELSE [dict |-> [k \in DOMAIN kids |-> Plain(heap, kids[k])]]

Unapplicable == [failed |-> "JsonPatchException"]

ApplyHere(t, op, seg, value) ==
    IF IsTree(t, "dict")
    THEN CASE op = "remove" /\ seg \in DOMAIN t.dict ->
                [dict |-> [k \in DOMAIN t.dict \ {seg} |-> t.dict[k]]]
           [] op = "add" -> [dict |-> (seg :> value) @@ t.dict]
           [] op = "replace" /\ seg \in DOMAIN t.dict ->
                [dict |-> [t.dict EXCEPT ![seg] = value]]
           [] OTHER -> Unapplicable
    ELSE IF ~IsTree(t, "list") THEN Unapplicable
    ELSE LET n == Len(t.list)
         IN  CASE op = "add" /\ seg = Dash -> [list |-> Append(t.list, value)]
               [] op = "add" /\ seg \in 0..n ->
                    [list |-> InsertAt(t.list, seg + 1, value)]
               [] op = "remove" /\ seg \in 0..(n - 1) ->
                    [list |-> RemoveAt(t.list, seg + 1)]
               [] op = "replace" /\ seg \in 0..(n - 1) ->
                    [list |-> [t.list EXCEPT ![seg + 1] = value]]
               [] OTHER -> Unapplicable

RECURSIVE ApplyPatch(_, _, _, _)
ApplyPatch(t, op, path, value) ==
    IF Len(path) = 1 THEN ApplyHere(t, op, path[1], value)
    ELSE LET seg == path[1]
             In(kid) == ApplyPatch(kid, op, Tail(path), value)
         IN  IF IsTree(t, "dict") /\ seg \in DOMAIN t.dict
             THEN LET kid == In(t.dict[seg])
                  IN  IF kid = Unapplicable THEN kid
                      ELSE [dict |-> [t.dict EXCEPT ![seg] = kid]]
             ELSE IF IsTree(t, "list") /\ seg \in 0..(Len(t.list) - 1)
             THEN LET kid == In(t.list[seg + 1])
                  IN  IF kid = Unapplicable THEN kid
                      ELSE [list |-> [t.list EXCEPT ![seg + 1] = kid]]
             ELSE Unapplicable

-----------------------------------------------------------------------------
(* Operations of user code on a container o of the heap.  Each yields the    *)
(* heap and the patches it published; an operation that raises yields what   *)
(* it did before.                                                            *)

Fresh(heap) == CHOOSE o \in Objs \ DOMAIN heap :
                  \A p \in Objs \ DOMAIN heap : o <= p

\* A live value that is put into the state again.
Given(v) == IF v \in Atoms THEN v ELSE [object |-> v]

\* make_evented: the members are wrapped, each at its own path.  A list or a
\* dict is copied, also one that is evented already; a dataclass becomes an
\* evented one itself, and one that is so already keeps the path and the port
\* it had, while its fields are wrapped at the new path.
RECURSIVE Wrap(_, _, _, _), WrapAll(_, _, _, _, _)
Wrap(heap, t, path, typed) ==
    IF t \in Atoms THEN [heap |-> heap, value |-> t]
    ELSE LET known == DOMAIN t = {"object"}
             kind == IF known THEN heap[t.object].kind ELSE CHOOSE k \in DOMAIN t : TRUE
             trees == IF known
                      THEN [i \in DOMAIN heap[t.object].kids |-> Given(heap[t.object].kids[i])]
                      ELSE t[kind]
             obj == [kind |-> kind, path |-> path, typed |-> typed, kids |-> trees]
             o == IF known /\ kind = "data" THEN t.object ELSE Fresh(heap)
         IN  [heap |-> WrapAll(heap @@ (o :> obj), o, obj, DOMAIN trees, trees), value |-> o]

\* The members of container o, which is put in as obj.
WrapAll(heap, o, obj, todo, trees) ==
    IF todo = {} THEN heap
    ELSE LET i == CHOOSE k \in todo : TRUE
             w == Wrap(heap, trees[i], Append(obj.path, Segment(obj, i)), ChildTyped(obj))
         IN  WrapAll([w.heap EXCEPT ![o].kids[i] = w.value], o, obj, todo \ {i}, trees)

\* What == compares: lists and dicts by their members, but a dataclass only
\* with itself, for each evented one is of a class of its own.
RECURSIVE Compared(_, _)
Compared(heap, t) ==
    IF t \in Atoms \/ DOMAIN t # {"object"} \/ heap[t.object].kind = "data" THEN t
    ELSE LET obj == heap[t.object]
         IN  obj.kind :> [i \in DOMAIN obj.kids |-> Compared(heap, Given(obj.kids[i]))]

Equal(heap, v, t) == Compared(heap, Given(v)) = Compared(heap, t)

SetKids(heap, o, kids) == [heap EXCEPT ![o].kids = kids]

\* Mutation: members keep the path at which they were put in.
ReindexNothing(heap, o, start) == heap

\* _reindex_items: the members from index start on learn their new paths;
\* what lies below them does not.
Reindex(heap, o, start) ==
    LET kids == heap[o].kids
        At(x) == {i \in DOMAIN kids : i > start /\ kids[i] = x}
    IN  [x \in DOMAIN heap |->
            IF At(x) = {} THEN heap[x]
            ELSE [heap[x] EXCEPT
                    !.path = Append(heap[o].path, (CHOOSE i \in At(x) : TRUE) - 1)]]

Publish(heap, o, op, seg, value) ==
    MakePatch(op, Append(heap[o].path, seg), value, ChildTyped(heap[o]))

(* Lists.  An index counts from the end if it is negative. *)

IsIndex(kids, i) == i \in -Len(kids)..(Len(kids) - 1)
Position(kids, i) == IF i < 0 THEN Len(kids) + i + 1 ELSE i + 1

\* l[i] = v.  The path has the index as it was given.
ListSet(heap, o, i, t) ==
    IF ~IsIndex(heap[o].kids, i) THEN Done(heap, <<>>)
    ELSE LET w == Wrap(heap, t, Append(heap[o].path, i), ChildTyped(heap[o]))
             h == [w.heap EXCEPT ![o].kids[Position(heap[o].kids, i)] = w.value]
         IN  Done(h, <<Publish(h, o, "replace", i, w.value)>>)

\* del l[i].  _reindex_items starts at the index as it was given; where that
\* lies before the shortened list, it raises at once.
ListDel(heap, o, i) ==
    IF ~IsIndex(heap[o].kids, i) THEN Done(heap, <<>>)
    ELSE LET h == SetKids(heap, o, RemoveAt(heap[o].kids, Position(heap[o].kids, i)))
             p == <<Publish(h, o, "remove", i, None)>>
         IN  IF i < -Len(h[o].kids) THEN Done(h, p)
             ELSE Done(Reindex(h, o, IF i < 0 THEN 0 ELSE i), p)

\* l.pop(i).  The index is normalised once; one that is still negative counts
\* from the end a second time.
ListPop(heap, o, i) ==
    ListDel(heap, o, IF i < 0 THEN Len(heap[o].kids) + i ELSE i)

\* l.remove(v), for a value that is in the list.
ListRemove(heap, o, t) ==
    LET kids == heap[o].kids
        Where == {i \in DOMAIN kids : Equal(heap, kids[i], t)}
    IN  IF Where = {} THEN Done(heap, <<>>)
        ELSE ListDel(heap, o, (CHOOSE i \in Where : \A j \in Where : i <= j) - 1)

\* l.append(v): the patch says "-", the member knows its index.
ListAppend(heap, o, t) ==
    LET w == Wrap(heap, t, Append(heap[o].path, Len(heap[o].kids)), ChildTyped(heap[o]))
        h == SetKids(w.heap, o, Append(heap[o].kids, w.value))
    IN  Done(h, <<Publish(h, o, "add", Dash, w.value)>>)

\* l.insert(i, v): the index is normalised and clamped.
ListInsert(heap, o, i, t) ==
    LET n == Len(heap[o].kids)
        up == IF i < 0 THEN IF n + i < 0 THEN 0 ELSE n + i ELSE i
        at == IF up > n THEN n ELSE up
        w == Wrap(heap, t, Append(heap[o].path, at), ChildTyped(heap[o]))
        h == SetKids(w.heap, o, InsertAt(heap[o].kids, at + 1, w.value))
    IN  Done(Reindex(h, o, at + 1), <<Publish(h, o, "add", at, w.value)>>)

\* An operation made of others, in order.
Then(done, Op(_)) ==
    LET next == Op(done.heap) IN Done(next.heap, done.patches \o next.patches)

\* l.extend(vs) and l += vs.
RECURSIVE ListExtend(_, _, _)
ListExtend(heap, o, ts) ==
    IF ts = <<>> THEN Done(heap, <<>>)
    ELSE LET Rest(h) == ListExtend(h, o, Tail(ts))
         IN  Then(ListAppend(heap, o, Head(ts)), Rest)

\* l.clear(): pop the last while there is one.
RECURSIVE ListClear(_, _)
ListClear(heap, o) ==
    IF heap[o].kids = <<>> THEN Done(heap, <<>>)
    ELSE LET Rest(h) == ListClear(h, o) IN Then(ListPop(heap, o, -1), Rest)

\* l *= n.
ListTimes(heap, o, n) ==
    LET ts == [i \in DOMAIN heap[o].kids |-> Given(heap[o].kids[i])]
    IN  IF n <= 0 THEN ListClear(heap, o)
        ELSE ListExtend(heap, o, FlattenSeq([k \in 1..(n - 1) |-> ts]))

\* l.reverse() and l.sort(): a replace for every place that got another value.
ListPermute(heap, o, kids) ==
    LET old == heap[o].kids
        h == SetKids(heap, o, kids)
        Differs(i) == ~Equal(heap, old[i], Given(kids[i]))
        places == SelectSeq([i \in DOMAIN kids |-> i], Differs)
    IN  Done(Reindex(h, o, 0),
             [k \in DOMAIN places |->
                Publish(h, o, "replace", places[k] - 1, kids[places[k]])])

ListReverse(heap, o) == ListPermute(heap, o, Reverse(heap[o].kids))

\* l[a:b] = vs: the overlap is set element by element, with patches; then the
\* whole slice is replaced once more, without any.
RECURSIVE SetEach(_, _, _, _)
SetEach(heap, o, a, ts) ==
    IF ts = <<>> THEN Done(heap, <<>>)
    ELSE LET Rest(h) == SetEach(h, o, a + 1, Tail(ts))
         IN  Then(ListSet(heap, o, a, Head(ts)), Rest)

RECURSIVE WrapSeq(_, _, _, _, _)
WrapSeq(heap, o, a, ts, values) ==
    IF ts = <<>> THEN [heap |-> heap, values |-> values]
    ELSE LET w == Wrap(heap, Head(ts), Append(heap[o].path, a), ChildTyped(heap[o]))
         IN  WrapSeq(w.heap, o, a + 1, Tail(ts), Append(values, w.value))

SliceSet(heap, o, a, b, ts) ==
    LET overlap == SubSeq(ts, 1, IF Len(ts) < b - a THEN Len(ts) ELSE b - a)
        each == SetEach(heap, o, a, overlap)
        w == WrapSeq(each.heap, o, a, ts, <<>>)
        kids == w.heap[o].kids
        h == SetKids(w.heap, o, SubSeq(kids, 1, a) \o w.values \o SubSeq(kids, b + 1, Len(kids)))
    IN  Done(Reindex(h, o, 0), each.patches)

\* del l[a:b]: from the last to the first.
RECURSIVE SliceDel(_, _, _, _)
SliceDel(heap, o, a, b) ==
    IF a >= b THEN Done(heap, <<>>)
    ELSE LET Rest(h) == SliceDel(h, o, a, b - 1) IN Then(ListDel(heap, o, b - 1), Rest)

(* Dicts and dataclasses. *)

Put(heap, o, k, t, op) ==
    LET w == Wrap(heap, t, Append(heap[o].path, k), ChildTyped(heap[o]))
        h == SetKids(w.heap, o, (k :> w.value) @@ heap[o].kids)
    IN  Done(h, <<Publish(h, o, op, k, w.value)>>)

\* d[k] = v.
DictSet(heap, o, k, t) ==
    Put(heap, o, k, t, IF k \in DOMAIN heap[o].kids THEN "replace" ELSE "add")

\* del d[k]; d.pop(k) and d.popitem() do the same for a key that is there.
DictDel(heap, o, k) ==
    LET kids == heap[o].kids IN
    IF k \notin DOMAIN kids THEN Done(heap, <<>>)
    ELSE Done(SetKids(heap, o, [j \in DOMAIN kids \ {k} |-> kids[j]]),
              <<Publish(heap, o, "remove", k, None)>>)

RECURSIVE DictClear(_, _)
DictClear(heap, o) ==
    IF DOMAIN heap[o].kids = {} THEN Done(heap, <<>>)
    ELSE LET Rest(h) == DictClear(h, o)
         IN  Then(DictDel(heap, o, CHOOSE k \in DOMAIN heap[o].kids : TRUE), Rest)

DictSetDefault(heap, o, k, t) ==
    IF k \in DOMAIN heap[o].kids THEN Done(heap, <<>>) ELSE DictSet(heap, o, k, t)

\* d.update(other).
RECURSIVE DictUpdate(_, _, _)
DictUpdate(heap, o, trees) ==
    IF DOMAIN trees = {} THEN Done(heap, <<>>)
    ELSE LET k == CHOOSE j \in DOMAIN trees : TRUE
             Rest(h) == DictUpdate(h, o, [j \in DOMAIN trees \ {k} |-> trees[j]])
         IN  Then(DictSet(heap, o, k, trees[k]), Rest)

\* d |= other is inherited from dict: neither wrapped nor published.
DictMerge(heap, o, atoms) == Done(SetKids(heap, o, atoms @@ heap[o].kids), <<>>)

\* o.k = v: only a value that differs is set and published.
SetAttr(heap, o, k, t) ==
    IF Equal(heap, heap[o].kids[k], t) THEN Done(heap, <<>>)
    ELSE Put(heap, o, k, t, "replace")
=============================================================================
