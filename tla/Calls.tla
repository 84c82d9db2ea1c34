------------------------------- MODULE Calls -------------------------------
(***************************************************************************)
(* A typed call from end to end: functions are registered with the agent's *)
(* application, the agent publishes their definitions, a caller shrinks    *)
(* its arguments by the definition, the agent expands them for the         *)
(* function and shrinks what it returns, and the caller expands that.      *)
(*                                                                         *)
(* Functions is the table of the functions that exist (see Definitions);   *)
(* a function returns any sample of its annotation.  The agent and the     *)
(* caller have a structure registry each.  A call is made by acall (route  *)
(* "action"), by the definition the agent published, or from inside an     *)
(* actor by acall_dependency ("dependency"), by the definition of the      *)
(* protocol that it declares, of an action that satisfies its demand.      *)
(* One call is under way at a time: what two of them share is the shelf,   *)
(* and between two calls it may change in every way.                       *)
(***************************************************************************)
EXTENDS Serialization, Demands
LOCAL INSTANCE SequencesExt
LOCAL INSTANCE FiniteSets
LOCAL INSTANCE TLC

CONSTANTS
    Functions,       \* name of a function -> its record
    App,             \* the app of the agent
    MaxRegistered,   \* bound: registrations
    MaxDeclared,     \* bound: protocols that the caller's program declares
    MaxCalls         \* bound: calls

VARIABLES
    registry,          \* the agent's structure registry
    implementations,   \* interface -> the function and definition registered last
    states,            \* interface -> the definition of the state registered last
    published,         \* interface -> the definition the callers know
    providing,         \* whether the agent has started: registration is over
    registered,        \* how many registrations there were
    shelf,             \* the agent's shelf, a sequence; a collected drawer is Raised
    references,        \* the texts of the drawers that callers were told of
    imported,          \* the caller's structure registry
    protocols,         \* the protocols it has declared -> what they demand
    call,              \* the call under way
    calls              \* how many calls there were

agentVars == <<registry, implementations, states, published, providing, registered>>
callerVars == <<imported, protocols>>
shelfVars == <<shelf, references>>
vars == <<agentVars, callerVars, shelfVars, call, calls>>

Idle == [at |-> "idle"]

Init ==
    /\ registry = EmptyRegistry /\ implementations = <<>> /\ states = <<>> /\ published = <<>>
    /\ providing = FALSE /\ registered = 0
    /\ shelf = <<>> /\ references = {} /\ imported = EmptyRegistry /\ protocols = <<>>
    /\ call = Idle /\ calls = 0

(***************************************************************************)
(* What is given and returned: samples of every annotation, with one value *)
(* that the type checker would reject.  things are the values that stand   *)
(* for an object kept on the shelf.                                        *)
(***************************************************************************)
TheObject(c) == Object(c, <<>>)
Entity(c) == Object(c, "id" :> Integer(7))

RECURSIVE Samples(_, _)
ClassSamples(c, things) ==
    CASE Sort(c) = "plain" -> IF things = {} THEN {} ELSE things
      [] Sort(c) = "structure" -> {Entity(c)}
      [] Sort(c) = "enum" -> {MemberOf(c, m) : m \in DOMAIN Classes[c].members}
      [] Sort(c) = "literal" -> {Classes[c].members[m] : m \in DOMAIN Classes[c].members}
      [] OTHER ->
           LET fields == Classes[c].fields IN
           {Object(c, f) : f \in
              {g \in [{fields[i].key : i \in DOMAIN fields} ->
                        UNION {Samples(fields[i].of, things) : i \in DOMAIN fields}] :
                 \A i \in DOMAIN fields : g[fields[i].key] \in Samples(fields[i].of, things)}}

Samples(a, things) ==
    CASE a.k = "int" -> {Integer(2), Str("2")}
      [] a.k = "float" -> {Float(1), Integer(1)}
      [] a.k = "bool" -> {Bool(TRUE), Bool(FALSE)}
      [] a.k = "str" -> {Str("x"), Str("5 mV")}
      [] a.k = "date" -> {Date("2024-05-01")}
      [] a.k = "none" -> {None}
      [] a.k = "quantity" -> {Quantity(a.dim, x) : x \in {y \in Dimensions[a.dim] : y # "1 V"}}
      [] a.k = "list" -> {List(<<>>)} \cup {List(<<x>>) : x \in Samples(a.of, things)}
      [] a.k = "dict" -> {Dict("key" :> x) : x \in Samples(a.of, things)}
      [] a.k = "union" -> UNION {Samples(a.of[i], things) : i \in DOMAIN a.of}
      [] a.k \in {"annotated", "generator"} -> Samples(a.of, things)
      [] a.k = "tuple" -> {[t |-> "tuple", items |-> s] : s \in
           {<<x, y>> : x \in Samples(a.of[1], things), y \in Samples(a.of[2], things)}}
      [] OTHER -> ClassSamples(a.cls, things)

\* The argument lists of n values.
ArgumentLists(f, n) ==
    LET things == {Str(x) : x \in references}
        Possible(i) == Samples(Parameters(f)[i].of, things)
    IN  {s \in [1 .. n -> UNION {Possible(i) : i \in 1 .. n}] : \A i \in 1 .. n : s[i] \in Possible(i)}

(***************************************************************************)
(* register_func: the definition, what the function needs of states and    *)
(* contexts, and the entry at its interface, which replaces another one.   *)
(* A signature that cannot be defined leaves what the registry learned.    *)
(***************************************************************************)
register_at_interface(interface, implementation) ==
    implementations' = (interface :> implementation) @@ implementations

Registered(f, name, defined) ==
    /\ registry' = defined.reg
    /\ IF defined.definition = Raised THEN UNCHANGED implementations
       ELSE register_at_interface(f.interface,
              [fn |-> name, definition |-> defined.definition,
               needs |-> derive_implementation_details(f)])

register_func(name) ==
    /\ ~providing /\ registered < MaxRegistered
    /\ registered' = registered + 1
    /\ Registered(Functions[name], name, prepare_definition(registry, Functions[name]))
    /\ UNCHANGED <<states, published, providing, callerVars, shelfVars, call, calls>>

\* The decorator of a state: its schema, at the state's name.
RegisteredState(c, inspected) ==
    /\ registry' = inspected.reg
    /\ IF inspected.definition = Raised THEN UNCHANGED states
       ELSE states' = (Classes[c].name :> inspected.definition) @@ states

register_state(c) ==
    /\ Sort(c) = "state"
    /\ ~providing /\ registered < MaxRegistered
    /\ registered' = registered + 1
    /\ RegisteredState(c, inspect_state(registry, c))
    /\ UNCHANGED <<implementations, published, providing, callerVars, shelfVars, call, calls>>

\* The agent starts: aensure sends every implementation and state to the server.
Provide ==
    /\ ~providing /\ providing' = TRUE
    /\ published' = [i \in DOMAIN implementations |-> implementations[i].definition]
    /\ UNCHANGED <<registry, implementations, states, registered, callerVars, shelfVars, call, calls>>

\* The caller's program imports the class of a structure.
ImportStructure(c) ==
    /\ Sort(c) = "structure" /\ c \notin DOMAIN imported.known /\ call = Idle
    /\ imported' = auto_register(imported, c)
    /\ UNCHANGED <<protocols, agentVars, shelfVars, call, calls>>

\* The caller's program declares a protocol.
Declaration(c, declared) ==
    /\ imported' = declared.reg
    /\ protocols' = IF declared.protocol = Raised THEN protocols
                    ELSE (c :> declared.protocol) @@ protocols

declare(c) ==
    /\ Sort(c) = "dependency" /\ c \notin DOMAIN protocols /\ call = Idle
    /\ Cardinality(DOMAIN protocols) < MaxDeclared
    /\ Declaration(c, DeclaredAgentProtocol(imported, c))
    /\ UNCHANGED <<agentVars, shelfVars, call, calls>>

\* An implementation satisfies the i-th action of a protocol, and the agent
\* has all that the protocol does not call optional.
Fills(interface, demand) == ActionSatisfies(demand, App, interface, published[interface])

Resolves(protocol) ==
    /\ \A a \in ToSet(protocol.actions) :
          a.optional \/ \E interface \in DOMAIN published : Fills(interface, a.demand)
    /\ \A s \in ToSet(protocol.states) :
          s.optional \/ \E interface \in DOMAIN states :
                            StateSatisfies(s.demand, App, interface, states[interface])

(***************************************************************************)
(* The call.  Its record keeps what was given and returned, and the        *)
(* signature the caller has of it, for the properties only; the outcome    *)
(* names the step that refused.                                            *)
(***************************************************************************)
End(record, outcome) == [record EXCEPT !.at = "ended", !.outcome = outcome]

Made(interface, route, signature, definition, values, wire) ==
    [at |-> "sent", interface |-> interface, fn |-> implementations[interface].fn, route |-> route,
     signature |-> signature, definition |-> definition, given |-> values, wire |-> wire,
     params |-> None, result |-> None, outcome |-> None]

\* The arguments, the last one by its key if keyed.
Positional(keyed, values) == IF keyed THEN Front(values) ELSE values
Keyed(definition, keyed, values) ==
    IF keyed THEN definition.args[Len(values)].key :> Last(values) ELSE <<>>

ShrinkCall(interface, route, signature, definition, keyed, values) ==
    LET args == Positional(keyed, values)
        kwargs == Keyed(definition, keyed, values)
        wire == IF route = "action" THEN ashrink_args(imported, definition, args, kwargs)
                ELSE ashrink_actor_args(imported, definition, args, kwargs)
        made == Made(interface, route, signature, definition, values, wire)
    IN  call' = IF wire = Raised THEN End(made, "arguments refused") ELSE made

CallBy(interface, route, signature, definition) ==
    /\ \E n \in 0 .. Len(Parameters(signature)) :
       \E keyed \in (IF n = 0 THEN {FALSE} ELSE BOOLEAN) :
       \E values \in ArgumentLists(signature, n) :
          ShrinkCall(interface, route, signature, definition, keyed, values)
    /\ UNCHANGED <<agentVars, callerVars, shelfVars>>

acall ==
    \E interface \in DOMAIN published :
        CallBy(interface, "action", Functions[implementations[interface].fn], published[interface])

\* The method of a protocol, called through the slot that the server fills.
acall_dependency ==
    \E c \in {d \in DOMAIN protocols : Resolves(protocols[d])} :
    \E i \in DOMAIN protocols[c].actions, interface \in DOMAIN published :
        /\ Fills(interface, protocols[c].actions[i].demand)
        /\ CallBy(interface, "dependency", Classes[c].methods[i].fn, protocols[c].definitions[i])

Call ==
    /\ providing /\ call = Idle /\ calls < MaxCalls /\ calls' = calls + 1
    /\ acall \/ acall_dependency

\* The actor expands the arguments, and answers with Failed if it cannot.
ExpandInputs ==
    LET definition == implementations[call.interface].definition
        params == expand_inputs(registry, shelf, definition, call.wire)
    IN  /\ call.at = "sent"
        /\ call' = IF params = Raised THEN End(call, "inputs refused")
                   ELSE [call EXCEPT !.at = "running", !.params = params]
        /\ UNCHANGED <<agentVars, callerVars, shelfVars, calls>>

\* What the caller learns of an object on the shelf: the text of its drawer.
RECURSIVE DrawersIn(_)
DrawersIn(v) ==
    CASE v.t = "list" -> UNION {DrawersIn(v.items[i]) : i \in DOMAIN v.items}
      [] v.t = "dict" ->
           IF \E i \in DOMAIN shelf' : DOMAIN v.at = {"__identifier", "object"} /\ v.at["object"] = Drawer(i)
           THEN {v.at["object"].text}
           ELSE UNION {DrawersIn(v.at[k]) : k \in DOMAIN v.at}
      [] OTHER -> {}

\* The function returns; its result is shrunk and sent.  Failed answers a
\* serialization error, Critical any other.
Answer(ended, shrunk) ==
    /\ shelf' = shrunk.shelf
    /\ IF shrunk.wire \in {Raised, Mismatch}
       THEN /\ call' = End(ended, IF shrunk.wire = Raised THEN "outputs refused" ELSE "critical")
            /\ UNCHANGED references
       ELSE /\ call' = [ended EXCEPT !.at = "returned", !.wire = shrunk.wire]
            /\ references' = references \cup DrawersIn(shrunk.wire)

Return(result) ==
    /\ call.at = "running"
    /\ Answer([call EXCEPT !.result = result],
              shrink_outputs(registry, shelf, implementations[call.interface].definition, result))
    /\ UNCHANGED <<agentVars, callerVars, calls>>

ExpandReturns ==
    LET results == IF call.route = "action"
                   THEN aexpand_returns(imported, call.definition, call.wire)
                   ELSE aexpand_actor_returns(imported, call.definition, call.wire)
    IN  /\ call.at = "returned"
        /\ call' = IF results = Raised THEN End(call, "returns refused")
                   ELSE [End(call, "value") EXCEPT !.wire = results]
        /\ UNCHANGED <<agentVars, callerVars, shelfVars, calls>>

Next_call ==
    /\ call.at = "ended" /\ call' = Idle
    /\ UNCHANGED <<agentVars, callerVars, shelfVars, calls>>

\* The server collects a drawer, also while a call is on its way to it.
Collect(i) ==
    /\ shelf[i] # Raised /\ Drawer(i).text \in references
    /\ shelf' = [shelf EXCEPT ![i] = Raised]
    /\ UNCHANGED <<agentVars, callerVars, references, call, calls>>

Results(f) == Samples(f.returns, UNION {{TheObject(c)} : c \in {d \in DOMAIN Classes : Sort(d) = "plain"}})

Next ==
    \/ \E name \in DOMAIN Functions : register_func(name)
    \/ Provide
    \/ \E c \in DOMAIN Classes : register_state(c) \/ ImportStructure(c) \/ declare(c)
    \/ Call
    \/ ExpandInputs
    \/ call.at = "running" /\ \E result \in Results(Functions[call.fn]) : Return(result)
    \/ ExpandReturns
    \/ Next_call
    \/ \E i \in DOMAIN shelf : Collect(i)

Spec == Init /\ [][Next]_vars

(***************************************************************************)
(* What the signature promises, read without ports: which values belong    *)
(* to an annotation (drawn: an object of the shelf goes by the text of its *)
(* drawer), and what must come out for what went in.                       *)
(***************************************************************************)
RECURSIVE Fits(_, _, _)
Fits(v, a, drawn) ==
    CASE a.k \in {"int", "bool", "str", "date", "none"} -> v.t = a.k
      [] a.k = "float" -> v.t \in {"float", "int"}
      [] a.k = "quantity" -> v.t = "quantity" /\ v.dim = a.dim
      [] a.k = "list" -> v.t = "list" /\ \A i \in DOMAIN v.items : Fits(v.items[i], a.of, drawn)
      [] a.k = "dict" -> v.t = "dict" /\ \A k \in DOMAIN v.at : Fits(v.at[k], a.of, drawn)
      [] a.k = "union" -> \E i \in DOMAIN a.of : Fits(v, a.of[i], drawn)
      [] a.k = "annotated" -> Fits(v, a.of, drawn)
      [] a.k = "generator" -> Fits(v, a.of, drawn)
      [] a.k = "tuple" -> v.t = "tuple" /\ \A i \in DOMAIN a.of : Fits(v.items[i], a.of[i], drawn)
      [] OTHER ->
           CASE Sort(a.cls) = "plain" /\ drawn -> v.t = "str"
             [] Sort(a.cls) = "literal" -> \E m \in DOMAIN Classes[a.cls].members : Classes[a.cls].members[m] = v
             [] Sort(a.cls) = "model" ->
                  IsA(v, a.cls) /\ \A i \in DOMAIN Classes[a.cls].fields :
                    LET field == Classes[a.cls].fields[i] IN Fits(v.at[field.key], field.of, drawn)
             [] OTHER -> IsA(v, a.cls)

\* The annotations an annotation is made of.
RECURSIVE Within(_)
Within(a) ==
    {a} \cup (CASE a.k \in {"list", "dict", "annotated", "generator"} -> Within(a.of)
               [] a.k \in {"union", "tuple"} -> UNION {Within(a.of[i]) : i \in DOMAIN a.of}
               [] IsClass(a, {"model"}) -> UNION {Within(fd.of) : fd \in ToSet(Classes[a.cls].fields)}
               [] OTHER -> {})

\* Every class of the annotation is what its identifier stands for.
Owned(reg, a) ==
    \A b \in {b \in Within(a) : b.k = "cls" /\ b.cls \in DOMAIN reg.known} :
        LET type == reg.known[b.cls] IN reg.by[type.sort][type.identifier] = b.cls

\* A text that a quantity before it in the union takes for its own.
TakenForQuantity(v, a) ==
    v.t = "str" /\ \E i \in DOMAIN a.of : a.of[i].k = "quantity" /\ v.text \in Dimensions[a.of[i].dim]

RECURSIVE Arrived(_, _, _)
Arrived(got, v, a) ==
    CASE a.k = "list" -> /\ got.t = "list" /\ Len(got.items) = Len(v.items)
                         /\ \A i \in DOMAIN v.items : Arrived(got.items[i], v.items[i], a.of)
      [] a.k = "dict" -> /\ got.t = "dict" /\ DOMAIN got.at = DOMAIN v.at
                         /\ \A k \in DOMAIN v.at : Arrived(got.at[k], v.at[k], a.of)
      [] a.k = "annotated" -> Arrived(got, v, a.of)
      [] a.k = "union" ->
           IF TakenForQuantity(v, a) THEN got.t = "quantity" /\ got.text = v.text
           ELSE \E i \in DOMAIN a.of : Fits(v, a.of[i], TRUE) /\ Arrived(got, v, a.of[i])
      [] IsClass(a, {"plain"}) ->
           /\ IsA(got, a.cls)
           /\ \E i \in DOMAIN shelf : Drawer(i) = v /\ shelf[i] \in {got, Raised}
      [] IsClass(a, {"structure"}) -> IsA(got, a.cls) /\ got.at["id"] = ToStr(v.at["id"])
      [] IsClass(a, {"model"}) ->
           /\ IsA(got, a.cls)
           /\ \A fd \in ToSet(Classes[a.cls].fields) : Arrived(got.at[fd.key], v.at[fd.key], fd.of)
      [] OTHER -> Equal(got, v)

\* An int default makes the port of a float an INT.
Narrowed(p, v) == IF p.of.k = "float" /\ IsInt(p.default) THEN ToInt(v) ELSE v

\* The default a parameter has, unless its port cannot keep it: an empty
\* list, and every default of a model, a structure or a memory structure.
DefaultOf(p) == IF p.of.k = "annotated" THEN p.of.default ELSE p.default
KeptDefault(p) ==
    IF DefaultOf(p) = List(<<>>) \/ IsClass(p.of, {"model", "structure", "plain"}) THEN None ELSE DefaultOf(p)

\* The value the caller gave for a key, None for one that was left out.
GivenFor(record, key) ==
    LET ps == Parameters(record.signature)
        at == {i \in DOMAIN record.given : ps[i].key = key}
    IN  IF at = {} THEN None ELSE record.given[CHOOSE i \in at : TRUE]

\* The caller's signature declares the parameters it has as the function does,
\* and what was given belongs to them.
WellTyped(record) ==
    LET ps == Parameters(Functions[record.fn])
        qs == Parameters(record.signature)
    IN  /\ \A i \in DOMAIN ps : Owned(registry, ps[i].of)
        /\ \A q \in ToSet(qs) : \E p \in ToSet(ps) : p.key = q.key /\ p.of = q.of
        /\ \A i \in DOMAIN record.given : Fits(record.given[i], qs[i].of, TRUE)

\* A function called with values of its annotations runs with those values:
\* equal ones, the object of the drawer a reference names, the structure of
\* that id.  A parameter left out, or given None, has its default, or None
\* where the port could not keep it.  Known exceptions are the float that an
\* int default narrows and the text in a union that a quantity takes.
ArgumentsArrive ==
    call.at = "running" /\ WellTyped(call) =>
        \A p \in ToSet(Parameters(Functions[call.fn])) :
            LET v == GivenFor(call, p.key) IN
            IF v # None THEN Arrived(call.params.at[p.key], Narrowed(p, v), p.of)
            ELSE Equal(call.params.at[p.key], KeptDefault(p))

\* What a result becomes for the caller: a reference for a memory structure.
RECURSIVE CameBack(_, _, _)
CameBack(got, v, a) ==
    CASE a.k = "list" -> /\ got.t = "list" /\ Len(got.items) = Len(v.items)
                         /\ \A i \in DOMAIN v.items : CameBack(got.items[i], v.items[i], a.of)
      [] a.k = "dict" -> /\ got.t = "dict" /\ DOMAIN got.at = DOMAIN v.at
                         /\ \A k \in DOMAIN v.at : CameBack(got.at[k], v.at[k], a.of)
      [] a.k \in {"annotated", "generator"} -> CameBack(got, v, a.of)
      [] a.k = "union" -> \/ TakenForQuantity(v, a) /\ got.t = "quantity" /\ got.text = v.text
                          \/ \E i \in DOMAIN a.of : Fits(v, a.of[i], FALSE) /\ CameBack(got, v, a.of[i])
      [] IsClass(a, {"plain"}) ->
           \E i \in DOMAIN shelf : /\ got = Tagged(cls_to_identifier(a.cls), Drawer(i))
                                  /\ shelf[i] \in {v, Raised}
      [] IsClass(a, {"structure"}) -> IsA(got, a.cls) /\ got.at["id"] = ToStr(v.at["id"])
      [] OTHER -> Equal(got, v)

\* The caller's results are what the function returned: equal values, a
\* structure of that id, and for an object on the shelf the reference of a
\* drawer that holds this object and is not another object's.
ReturnsArrive ==
    LET f == Functions[call.fn]
        types == ReturnTypes(f.returns)
        values == Returned(call.result)
        drawers == {i \in DOMAIN types : IsClass(types[i], {"plain"})}
    IN  call.at = "ended" /\ call.outcome = "value" /\ Fits(call.result, f.returns, FALSE)
        /\ call.signature.returns = f.returns /\ Owned(imported, f.returns) =>
            /\ Len(call.wire.items) = Len(types)
            /\ \A i \in DOMAIN types : CameBack(call.wire.items[i], values[i], types[i])
            /\ \A i, j \in drawers : i # j => call.wire.items[i] # call.wire.items[j]

(***************************************************************************)
(* The limits of the conversions, by the step that meets them.             *)
(***************************************************************************)
Has(a, sorts) == \E b \in Within(a) : IsClass(b, sorts)
Alternatives(a) == UNION {{u.of[i] : i \in DOMAIN u.of} : u \in {b \in Within(a) : b.k = "union"}}
IsOptional(a) == is_nullable(a) /\ Len(a.of) = 2
\* A union proper whose alternatives include one of these kinds or sorts.
UnionOf(a, kinds, sorts) ==
    \E u \in {b \in Within(a) : b.k = "union" /\ ~IsOptional(b)} :
        \E b \in ToSet(u.of) : b.k \in kinds \/ IsClass(b, sorts)

\* Not given and without a default, or with one only by an annotation; an
\* alternative that no predicate finds; an int of a literal; a structure the
\* caller's program does not know.
ArgumentLimit(p, given, v) ==
    \/ ~given /\ p.default = None /\ ~is_nullable(p.of)
    \/ given /\ \/ UnionOf(p.of, {"float", "list", "union"}, {"model", "literal"})
                \/ Has(p.of, {"literal"}) /\ v.t = "int"
                \/ \E b \in Within(p.of) : IsClass(b, {"structure"}) /\ b.cls \notin DOMAIN imported.known

\* A parameter the demand says nothing of; a reference without its identifier,
\* or to a drawer that was collected; the default of a union, which does not
\* say which alternative it is for.
InputLimit(p, given, v, route) ==
    \/ ~given /\ p.default = None /\ ~is_nullable(p.of) /\ route = "dependency"
    \/ given /\ Has(p.of, {"plain"}) /\ (route = "dependency" \/ \E i \in DOMAIN shelf : shelf[i] = Raised)
    \/ (~given \/ v = None) /\ p.of.k = "union" /\ ~IsOptional(p.of)

\* A member of an enum, a model, a structure the caller does not know and a
\* reference on the way to an actor are not expanded.
ReturnLimit(a, route) ==
    \/ Has(a, {"enum", "literal", "model"})
    \/ Has(a, {"plain"}) /\ route = "dependency"
    \/ \E b \in Within(a) : IsClass(b, {"structure"}) /\ b.cls \notin DOMAIN imported.known

\* A well-typed call ends with its value, or is refused for one of the named
\* limits of the step that refused it; only a function that returns None as
\* the Optional it declares ends in a critical error.
RefusalsAreKnown ==
    call.at = "ended" /\ call.outcome # "value" /\ WellTyped(call) =>
        LET f == Functions[call.fn]
            given == {Parameters(call.signature)[i].key : i \in DOMAIN call.given}
            proper == Fits(call.result, f.returns, FALSE) /\ Owned(registry, f.returns)
        IN  CASE call.outcome = "arguments refused" ->
                   \E p \in ToSet(Parameters(call.signature)) :
                       ArgumentLimit(p, p.key \in given, GivenFor(call, p.key))
              [] call.outcome = "inputs refused" ->
                   \E p \in ToSet(Parameters(f)) :
                       InputLimit(p, p.key \in given, GivenFor(call, p.key), call.route)
              [] call.outcome = "outputs refused" ->
                   proper => UnionOf(f.returns, {"float", "union"}, {"literal"})
              [] call.outcome = "critical" -> proper => call.result = None /\ is_nullable(f.returns)
              [] OTHER -> proper /\ call.signature.returns = f.returns => ReturnLimit(f.returns, call.route)

(***************************************************************************)
(* What a demand means, read without ports: which annotations it does not  *)
(* tell apart.                                                             *)
(***************************************************************************)
RECURSIVE Alike(_, _)
RECURSIVE AlikeCores(_, _)
Unwrapped(a) == IF a.k = "annotated" THEN a.of ELSE a
\* The alternatives but None, in their order.
Core(a) == IF is_nullable(a) THEN non_nullable(a) ELSE a
\* A default may choose the type.
TypeOf(p) ==
    IF Core(p.of).k = "float" /\ IsInt(p.default) THEN [k |-> "int"] ELSE Core(Unwrapped(p.of))
AlikeFields(f, g) ==
    /\ f.key = g.key /\ AlikeCores(TypeOf(f), TypeOf(g))
    /\ is_nullable(Unwrapped(f.of)) = is_nullable(Unwrapped(g.of))
AlikeCores(a, b) ==
    CASE a.k # b.k -> FALSE
      [] a.k = b.k /\ a.k = "quantity" -> TRUE
      [] a.k = b.k /\ a.k \in {"list", "dict"} -> Alike(a.of, b.of)
      [] a.k = b.k /\ a.k = "union" ->
           Len(a.of) = Len(b.of) /\ \A i \in DOMAIN a.of : Alike(a.of[i], b.of[i])
      [] a.k = b.k /\ IsClass(a, {"model"}) /\ IsClass(b, {"model"}) ->
           LET fs == Classes[a.cls].fields  gs == Classes[b.cls].fields IN
           /\ Classes[a.cls].name = Classes[b.cls].name /\ Len(fs) = Len(gs)
           /\ \A i \in DOMAIN fs : AlikeFields(fs[i], gs[i])
      [] OTHER -> a = b
Alike(a, b) ==
    /\ is_nullable(Unwrapped(a)) = is_nullable(Unwrapped(b))
    /\ AlikeCores(Core(Unwrapped(a)), Core(Unwrapped(b)))

\* A parameter with a default is one that None may be given for.
AlikeParameters(p, q) ==
    /\ p.key = q.key /\ AlikeCores(TypeOf(p), TypeOf(q))
    /\ (is_nullable(p.of) \/ p.default # None) = (is_nullable(q.of) \/ q.default # None)

\* The function that fills a slot demanded by its ports takes the parameters
\* of the declared method first, and returns its results first, each at its
\* place and with an annotation that a port does not tell from the declared
\* one; likewise the fields of a state.  (A call changes neither side.)
SlotsAreAlike ==
    call = Idle => \A c \in DOMAIN protocols :
        /\ \A i \in DOMAIN protocols[c].actions, interface \in DOMAIN published :
              LET m == Classes[c].methods[i]
                  f == Functions[implementations[interface].fn]
                  ps == Parameters(m.fn)  qs == Parameters(f)
                  rs == ReturnTypes(m.fn.returns)  ss == ReturnTypes(f.returns)
              IN  m.override.match_ports /\ Fills(interface, protocols[c].actions[i].demand) =>
                    /\ Len(ps) <= Len(qs) /\ \A j \in DOMAIN ps : AlikeParameters(ps[j], qs[j])
                    /\ Len(rs) <= Len(ss) /\ \A j \in DOMAIN rs : Alike(rs[j], ss[j])
        /\ \A i \in DOMAIN protocols[c].states, s \in {d \in DOMAIN Classes : Sort(d) = "state"} :
              LET ps == Classes[Classes[c].states[i].cls].fields  qs == Classes[s].fields IN
              /\ Classes[s].name \in DOMAIN states
              /\ states[Classes[s].name] = inspect_state(registry, s).definition
              /\ StateSatisfies(protocols[c].states[i].demand, App, Classes[s].name, states[Classes[s].name])
              => Len(ps) <= Len(qs) /\ \A j \in DOMAIN ps : AlikeFields(ps[j], qs[j])
=============================================================================
