--------------------------- MODULE Serialization ---------------------------
(***************************************************************************)
(* Values on their way through a port: a caller shrinks its arguments to   *)
(* the wire, the agent expands them, shrinks what the function returns,    *)
(* and the caller expands that.  The wire carries JSON, which keeps the    *)
(* types that PyValues tells apart.  A refusal is the value Raised; the    *)
(* wording of errors, their paths and the logging are left out, and so are *)
(* the ports without children, which no definition has.                    *)
(*                                                                         *)
(* Memory structures stay on the agent's shelf, a sequence of objects;     *)
(* a drawer is the text that names a position of it.                       *)
(***************************************************************************)
EXTENDS Definitions
LOCAL INSTANCE SequencesExt
LOCAL INSTANCE TLC

AnyRaised(s) == \E i \in DOMAIN s : s[i] = Raised
ListOf(s) == IF AnyRaised(s) THEN Raised ELSE List(s)
DictOf(f) == IF \E k \in DOMAIN f : f[k] = Raised THEN Raised ELSE Dict(f)
ByKey(ports, values) ==
    [k \in {ports[i].key : i \in DOMAIN ports} |->
        values[CHOOSE i \in DOMAIN ports : ports[i].key = k]]

Tagged(identifier, object) ==
    Dict(("__identifier" :> Str(identifier)) @@ ("object" :> object))
IsTagged(v, identifier) ==
    /\ v.t = "dict" /\ {"__identifier", "object"} \subseteq DOMAIN v.at
    /\ v.at["__identifier"] = Str(identifier)
    /\ v.at["object"].t \in {"str", "int"}
Chosen(i, v) == IF v = Raised THEN Raised
                ELSE Dict(("__use" :> Integer(i - 1)) @@ ("__value" :> v))
IsChoice(v, n) ==
    /\ v.t = "dict" /\ {"__use", "__value"} \subseteq DOMAIN v.at
    /\ v.at["__use"].t = "int" /\ v.at["__use"].half \div 2 \in 0 .. n - 1
ChoiceOf(v) == v.at["__use"].half \div 2 + 1

ClassBy(reg, sort, identifier) ==
    IF identifier \in DOMAIN reg.by[sort] THEN reg.by[sort][identifier] ELSE "nothing"
MembersOf(c) == IF c = "nothing" THEN {} ELSE DOMAIN Classes[c].members
MemberOf(c, m) == Member(c, m, Classes[c].members[m], Classes[c].base)

Drawer(i) == Str("drawer" \o ToString(i))
\* A drawer that was collected holds nothing.
aget_from_shelve(shelf, v) ==
    IF \E i \in DOMAIN shelf : Drawer(i) = v
    THEN shelf[CHOOSE i \in DOMAIN shelf : Drawer(i) = v] ELSE Raised

\* What a structure's own ashrink and aexpand do: an object and its id.
ashrink_structure(v) ==
    IF v.t = "object" /\ "id" \in DOMAIN v.at THEN v.at["id"] ELSE Raised
aexpand_structure(reg, identifier, id) ==
    LET c == ClassBy(reg, "structure", identifier) IN
    IF c = "nothing" THEN Raised ELSE Object(c, "id" :> ToStr(id))

(***************************************************************************)
(* Which child of a union a value is for: the first whose predicate holds. *)
(* "raises" stands for the exception a predicate ends in.                  *)
(***************************************************************************)
Verdict(b) == IF b THEN "yes" ELSE "no"
AllOf(verdicts) ==
    IF "raises" \in verdicts THEN "raises" ELSE Verdict(verdicts \subseteq {"yes"})

matches_dimension(v, dim) ==
    \/ v.t = "quantity" /\ v.dim = dim
    \/ IsStr(v) /\ DimensionOf(Bare(v).text) = {dim}

\* A quantity, or a text taken for one.
shrink_quantity(v) == IF v.t = "quantity" THEN Str(v.text) ELSE ToStr(v)

PredicatePrimitive(port, v) ==
    Verdict(CASE port.kind = "DATE" -> v.t = "date"
              [] port.kind = "INT" -> IsInt(v)
              [] port.kind = "FLOAT" -> IsFloat(v)
              [] port.kind = "BOOL" -> IsBool(v)
              [] port.kind = "STRING" -> IsStr(v)
              [] OTHER -> matches_dimension(v, port.identifier))
Primitives == {"DATE", "INT", "FLOAT", "BOOL", "STRING", "QUANTITY"}

RegistrySort(kind) ==
    CASE kind = "MEMORY_STRUCTURE" -> "memory" [] kind = "STRUCTURE" -> "structure"
      [] kind = "MODEL" -> "model" [] OTHER -> "enum"
PredicateClass(reg, port, v) ==
    LET c == ClassBy(reg, RegistrySort(port.kind), port.identifier) IN
    IF c = "nothing" THEN "raises" ELSE Verdict(IsA(v, c))

\* On the agent.  A union inside a union has no predicate.
RECURSIVE predicate_port_input(_, _, _)
predicate_port_input(reg, port, v) ==
    CASE port.kind = "DICT" ->
           IF v.t # "dict" THEN "no"
           ELSE AllOf({predicate_port_input(reg, port.children[1], v.at[k]) : k \in DOMAIN v.at})
      [] port.kind = "LIST" ->
           IF v.t # "list" THEN "no"
           ELSE AllOf({predicate_port_input(reg, port.children[1], v.items[i]) : i \in DOMAIN v.items})
      [] port.kind \in Primitives -> PredicatePrimitive(port, v)
      [] port.kind = "UNION" -> "raises"
      [] OTHER -> PredicateClass(reg, port, v)

\* On the caller.  A list is sought among the keys of a dict, and a model
\* among the attributes that the values of its fields name: it never matches.
RECURSIVE predicate_serializable_port(_, _, _)
predicate_serializable_port(reg, port, v) ==
    CASE port.kind = "DICT" ->
           IF v.t # "dict" THEN "no"
           ELSE AllOf({predicate_serializable_port(reg, port.children[1], v.at[k]) : k \in DOMAIN v.at})
      [] port.kind = "LIST" ->
           IF v.t # "dict" THEN "no"
           ELSE AllOf({predicate_serializable_port(reg, port.children[1], Str(k)) : k \in DOMAIN v.at})
      [] port.kind \in {"MODEL", "UNION"} -> "raises"
      [] port.kind \in Primitives -> PredicatePrimitive(port, v)
      [] OTHER -> PredicateClass(reg, port, v)

\* The index of the child, or 0 when none holds or one raises before.
FirstMatch(verdicts) ==
    LET tried == {i \in DOMAIN verdicts : verdicts[i] # "no"} IN
    IF tried = {} THEN 0
    ELSE LET first == CHOOSE i \in tried : \A j \in tried : i <= j IN
         IF verdicts[first] = "yes" THEN first ELSE 0

(***************************************************************************)
(* The caller's arguments.  The postman wraps a reference to a drawer, the *)
(* variant for actors hands it on as it is (wrap).                         *)
(***************************************************************************)
RECURSIVE ShrinkArgument(_, _, _, _)

\* A name or member in, a name out; a bare int is no choice.
ShrinkChoice(port, value) ==
    LET v == IF value.t = "member" THEN Str(value.name) ELSE value IN
    IF v.t = "str" /\ v.text \in port.choices THEN v ELSE Raised

\* A text passes as it is: for a reference that lacks its identifier.
ShrinkStructure(reg, port, v) ==
    CASE v.t = "str" -> v
      [] v.t # "str" /\ ClassBy(reg, "structure", port.identifier) # "nothing"
         /\ ashrink_structure(v) # Raised -> Tagged(port.identifier, ToStr(ashrink_structure(v)))
      [] OTHER -> Raised

ShrinkUnion(wrap, reg, port, v) ==
    LET i == FirstMatch([j \in DOMAIN port.children |->
                          predicate_serializable_port(reg, port.children[j], v)])
    IN  IF i = 0 THEN Raised ELSE Chosen(i, ShrinkArgument(wrap, reg, port.children[i], v))

ShrinkContainer(wrap, reg, port, v) ==
    CASE port.kind = "LIST" /\ v.t = "list" ->
           ListOf([i \in DOMAIN v.items |-> ShrinkArgument(wrap, reg, port.children[1], v.items[i])])
      [] port.kind = "DICT" /\ v.t = "dict" ->
           DictOf([k \in DOMAIN v.at |-> ShrinkArgument(wrap, reg, port.children[1], v.at[k])])
      [] OTHER -> Raised

ShrinkModel(wrap, reg, port, v) ==
    IF v.t # "object" \/ ~({c.key : c \in {port.children[i] : i \in DOMAIN port.children}} \subseteq DOMAIN v.at)
    THEN Raised
    ELSE LET fields == [i \in DOMAIN port.children |->
                          ShrinkArgument(wrap, reg, port.children[i], v.at[port.children[i].key])]
         IN  IF AnyRaised(fields) THEN Raised
             ELSE Dict(("__identifier" :> Str(port.identifier)) @@ ByKey(port.children, fields))

ShrinkPrimitive(port, v) ==
    CASE port.kind = "INT" -> ToInt(v)
      [] port.kind = "FLOAT" -> ToFloat(v)
      [] port.kind = "BOOL" -> ToBool(v)
      [] port.kind = "STRING" -> ToStr(v)
      [] port.kind = "DATE" -> IF v.t = "date" THEN Str(v.iso) ELSE Raised
      [] OTHER -> shrink_quantity(v)

ShrinkReference(wrap, port, v) ==
    IF ~IsStr(v) THEN Raised ELSE IF wrap THEN Tagged(port.identifier, v) ELSE v

ShrinkArgument(wrap, reg, port, v) ==
    CASE v = None -> IF port.nullable THEN None ELSE Raised
      [] v # None /\ port.kind \in Primitives -> ShrinkPrimitive(port, v)
      [] v # None /\ port.kind \in {"LIST", "DICT"} -> ShrinkContainer(wrap, reg, port, v)
      [] v # None /\ port.kind = "UNION" -> ShrinkUnion(wrap, reg, port, v)
      [] v # None /\ port.kind = "ENUM" -> ShrinkChoice(port, v)
      [] v # None /\ port.kind = "STRUCTURE" -> ShrinkStructure(reg, port, v)
      [] v # None /\ port.kind = "MODEL" -> ShrinkModel(wrap, reg, port, v)
      [] v # None /\ port.kind = "MEMORY_STRUCTURE" -> ShrinkReference(wrap, port, v)

ashrink_arg(reg, port, v) == ShrinkArgument(TRUE, reg, port, v)
ashrink_actor_arg(reg, port, v) == ShrinkArgument(FALSE, reg, port, v)

\* Positional arguments first, then those by key; what is left out is sent
\* as None, for the agent to default.
ShrinkArguments(wrap, reg, definition, args, kwargs) ==
    LET Given(i) ==
            LET port == definition.args[i] IN
            CASE i <= Len(args) -> args[i]
              [] i > Len(args) /\ port.key \in DOMAIN kwargs -> kwargs[port.key]
              [] OTHER -> IF port.nullable \/ port.default # None THEN None ELSE Raised
        sent == [i \in DOMAIN definition.args |->
                   IF Given(i) = Raised THEN Raised
                   ELSE ShrinkArgument(wrap, reg, definition.args[i], Given(i))]
    IN  IF AnyRaised(sent) THEN Raised ELSE Dict(ByKey(definition.args, sent))

ashrink_args(reg, definition, args, kwargs) == ShrinkArguments(TRUE, reg, definition, args, kwargs)
ashrink_actor_args(reg, definition, args, kwargs) == ShrinkArguments(FALSE, reg, definition, args, kwargs)

(***************************************************************************)
(* The agent expands what came for a parameter.                            *)
(***************************************************************************)
RECURSIVE aexpand_arg(_, _, _, _)

ExpandContainer(reg, shelf, port, v) ==
    CASE port.kind = "LIST" /\ v.t = "list" ->
           ListOf([i \in DOMAIN v.items |-> aexpand_arg(reg, shelf, port.children[1], v.items[i])])
      [] port.kind = "DICT" /\ v.t = "dict" ->
           DictOf([k \in DOMAIN v.at |-> aexpand_arg(reg, shelf, port.children[1], v.at[k])])
      [] OTHER -> Raised

ExpandUnion(reg, shelf, port, v) ==
    IF IsChoice(v, Len(port.children))
    THEN aexpand_arg(reg, shelf, port.children[ChoiceOf(v)], v.at["__value"])
    ELSE Raised

\* The class that the identifier stands for now is called with the fields,
\* and refuses others than its own.
ExpandModel(reg, shelf, port, v) ==
    LET Sent(k) == IF k \in DOMAIN v.at THEN v.at[k] ELSE None
        fields == [i \in DOMAIN port.children |->
                     aexpand_arg(reg, shelf, port.children[i], Sent(port.children[i].key))]
        c == ClassBy(reg, "model", port.identifier)
    IN  IF v.t # "dict" \/ c = "nothing" THEN Raised
        ELSE IF \/ AnyRaised(fields)
                \/ {Classes[c].fields[i].key : i \in DOMAIN Classes[c].fields}
                     # {port.children[i].key : i \in DOMAIN port.children}
        THEN Raised
        ELSE Object(c, ByKey(port.children, fields))

\* A member by its name, or by the number it is.
ExpandEnum(reg, port, v) ==
    LET c == ClassBy(reg, "enum", port.identifier)
        numbered == {m \in MembersOf(c) : Classes[c].base = "IntEnum" /\ Equal(Classes[c].members[m], v)}
    IN  CASE v.t = "str" /\ v.text \in MembersOf(c) -> MemberOf(c, v.text)
          [] v.t \in {"int", "bool"} /\ numbered # {} -> MemberOf(c, CHOOSE m \in numbered : TRUE)
          [] OTHER -> Raised

\* A reference names its identifier; the object comes from the shelf or from
\* the structure's own aexpand.
ExpandReference(reg, shelf, port, v) ==
    IF ~IsTagged(v, port.identifier) THEN Raised
    ELSE IF port.kind = "MEMORY_STRUCTURE" THEN aget_from_shelve(shelf, ToStr(v.at["object"]))
    ELSE aexpand_structure(reg, port.identifier, v.at["object"])

ExpandPrimitive(port, v) ==
    CASE port.kind = "INT" -> ToInt(v)
      [] port.kind = "FLOAT" -> ToFloat(v)
      [] port.kind = "BOOL" -> ToBool(v)
      [] port.kind = "STRING" -> ToStr(v)
      [] port.kind = "DATE" -> FromIso(v)
      [] OTHER -> ToQuantity(port.identifier, v)

\* None stands for "not given" as well, and is replaced by the port's default.
\* Mutation: whatever is false in a condition is.
OrDefaultIfFalse(port, given) == IF ToBool(given) = Bool(FALSE) THEN port.default ELSE given
OrDefault(port, given) == IF given = None THEN port.default ELSE given

aexpand_arg(reg, shelf, port, given) ==
    LET v == OrDefault(port, given) IN
    CASE v = None -> IF port.nullable THEN None ELSE Raised
      [] v # None /\ port.kind \in Primitives -> ExpandPrimitive(port, v)
      [] v # None /\ port.kind \in {"LIST", "DICT"} -> ExpandContainer(reg, shelf, port, v)
      [] v # None /\ port.kind = "UNION" -> ExpandUnion(reg, shelf, port, v)
      [] v # None /\ port.kind = "ENUM" -> ExpandEnum(reg, port, v)
      [] v # None /\ port.kind = "MODEL" -> ExpandModel(reg, shelf, port, v)
      [] v # None /\ port.kind \in {"MEMORY_STRUCTURE", "STRUCTURE"} -> ExpandReference(reg, shelf, port, v)

expand_inputs(reg, shelf, definition, args) ==
    LET Sent(k) == IF k \in DOMAIN args.at THEN args.at[k] ELSE None
        params == [i \in DOMAIN definition.args |->
                     aexpand_arg(reg, shelf, definition.args[i], Sent(definition.args[i].key))]
    IN  IF AnyRaised(params) THEN Raised ELSE Dict(ByKey(definition.args, params))

(***************************************************************************)
(* What the function returned, shrunk by the agent: the wire's value and   *)
(* the shelf it leaves.  The parts of a value are shrunk each on its own:  *)
(* one that is refused does not take back what another one has shelved.    *)
(***************************************************************************)
Shrunk(wire, shelf) == [wire |-> wire, shelf |-> shelf]

\* Mutation: a float must be a float.
ShrinkResultStrictly(port, value) ==
    IF port.kind = "FLOAT" /\ ~IsFloat(value) THEN Raised ELSE value
\* The agent's conversions refuse what the caller's would convert.
ShrinkResult(port, value) ==
    LET v == Bare(value) IN
    CASE port.kind = "INT" -> IF IsInt(value) THEN Integer(v.half \div 2) ELSE Raised
      [] port.kind = "FLOAT" -> IF IsInt(value) \/ IsFloat(value) THEN Float(v.half) ELSE Raised
      [] port.kind = "DATE" -> IF v.t = "date" THEN Str(v.iso) ELSE Raised
      [] port.kind = "STRING" -> IF IsStr(value) THEN v ELSE Raised
      [] port.kind = "BOOL" ->
           CASE v \in {Str("true"), Str("True")} \/ (IsInt(value) /\ v.half = 2) -> Bool(TRUE)
             [] v \in {Str("false"), Str("False")} \/ (IsInt(value) /\ v.half = 0) -> Bool(FALSE)
             [] OTHER -> Raised
      [] OTHER -> shrink_quantity(value)

\* A member goes by its name, whatever its class; another value by its text.
ShrinkResultChoice(port, v) ==
    CASE v.t = "member" -> Str(v.name)
      [] v.t # "member" /\ ToStr(v).text \in port.choices -> ToStr(v)
      [] OTHER -> Raised

ShrinkResultStructure(reg, port, v) ==
    IF ClassBy(reg, "structure", port.identifier) = "nothing" \/ ashrink_structure(v) = Raised
    THEN Raised ELSE Tagged(port.identifier, ashrink_structure(v))

aput_on_shelve(shelf, v) == Append(shelf, v)

RECURSIVE ashrink_return(_, _, _, _)

\* Mutation: the drawers of all parts are chosen before any is filled.
ShrinkEachAtOnce(reg, shelf, ports, values) ==
    FoldLeft(LAMBDA done, i : Shrunk(Append(done.wire, ashrink_return(reg, shelf, ports[i], values[i]).wire),
                                     ashrink_return(reg, shelf, ports[i], values[i]).shelf),
             Shrunk(<<>>, shelf), [i \in DOMAIN ports |-> i])
\* Each value through its port, the shelf handed from one to the next.
AppendShrunk(done, one) == Shrunk(Append(done.wire, one.wire), one.shelf)
ShrinkEach(reg, shelf, ports, values) ==
    FoldLeft(LAMBDA done, i : AppendShrunk(done, ashrink_return(reg, done.shelf, ports[i], values[i])),
             Shrunk(<<>>, shelf), [i \in DOMAIN ports |-> i])

\* What the parts become together; a model's and a function's by their keys.
AsList(all) == Shrunk(ListOf(all.wire), all.shelf)
AsDict(keys, all) ==
    Shrunk(DictOf([k \in ToSet(keys) |-> all.wire[CHOOSE i \in DOMAIN keys : keys[i] = k]]), all.shelf)
AsFields(header, ports, all) ==
    Shrunk(IF AnyRaised(all.wire) THEN Raised ELSE Dict(header @@ ByKey(ports, all.wire)), all.shelf)
AsChoice(i, one) == Shrunk(Chosen(i, one.wire), one.shelf)

ShrinkResultDict(reg, shelf, port, at, keys) ==
    AsDict(keys, ShrinkEach(reg, shelf, [i \in DOMAIN keys |-> port.children[1]],
                            [i \in DOMAIN keys |-> at[keys[i]]]))

ShrinkResultContainer(reg, shelf, port, v) ==
    CASE port.kind = "LIST" /\ v.t = "list" ->
           AsList(ShrinkEach(reg, shelf, [i \in DOMAIN v.items |-> port.children[1]], v.items))
      [] port.kind = "DICT" /\ v.t = "dict" ->
           ShrinkResultDict(reg, shelf, port, v.at, SetToSeq(DOMAIN v.at))
      [] OTHER -> Shrunk(Raised, shelf)

ShrinkResultModel(reg, shelf, port, v) ==
    IF v.t # "object" \/ ~({c.key : c \in ToSet(port.children)} \subseteq DOMAIN v.at)
    THEN Shrunk(Raised, shelf)
    ELSE AsFields("__identifier" :> Str(port.identifier), port.children,
                  ShrinkEach(reg, shelf, port.children,
                             [i \in DOMAIN port.children |-> v.at[port.children[i].key]]))

ShrinkResultUnion(reg, shelf, port, v) ==
    LET i == FirstMatch([j \in DOMAIN port.children |-> predicate_port_input(reg, port.children[j], v)])
    IN  IF i = 0 THEN Shrunk(Raised, shelf)
        ELSE AsChoice(i, ashrink_return(reg, shelf, port.children[i], v))

ashrink_return(reg, shelf, port, v) ==
    CASE v = None -> Shrunk(IF port.nullable THEN None ELSE Raised, shelf)
      [] v # None /\ port.kind \in Primitives -> Shrunk(ShrinkResult(port, v), shelf)
      [] v # None /\ port.kind = "ENUM" -> Shrunk(ShrinkResultChoice(port, v), shelf)
      [] v # None /\ port.kind = "STRUCTURE" -> Shrunk(ShrinkResultStructure(reg, port, v), shelf)
      [] v # None /\ port.kind = "MEMORY_STRUCTURE" ->
           Shrunk(Tagged(port.identifier, Drawer(Len(shelf) + 1)), aput_on_shelve(shelf, v))
      [] v # None /\ port.kind \in {"LIST", "DICT"} -> ShrinkResultContainer(reg, shelf, port, v)
      [] v # None /\ port.kind = "MODEL" -> ShrinkResultModel(reg, shelf, port, v)
      [] v # None /\ port.kind = "UNION" -> ShrinkResultUnion(reg, shelf, port, v)

\* A function without a value returns nothing, one without a tuple returns
\* one value.  A wrong number is an assertion, no serialization error.
Mismatch == [t |-> "mismatch"]
Returned(result) == CASE result = None -> <<>> [] result.t = "tuple" -> result.items [] OTHER -> <<result>>

shrink_outputs(reg, shelf, definition, result) ==
    IF Len(Returned(result)) # Len(definition.returns) THEN Shrunk(Mismatch, shelf)
    ELSE AsFields(<<>>, definition.returns, ShrinkEach(reg, shelf, definition.returns, Returned(result)))

(***************************************************************************)
(* The caller expands what it was sent.  A reference to a drawer stays a   *)
(* reference; the variant for actors (wrap is FALSE) takes it as a text    *)
(* only, as its own arguments are.  Enums and models have no expander.     *)
(***************************************************************************)
RECURSIVE ExpandResult(_, _, _, _)

ExpandResultPrimitive(port, v) ==
    CASE port.kind = "INT" -> IF v.t \in {"int", "bool", "str"} THEN ToInt(v) ELSE Raised
      [] port.kind = "FLOAT" -> IF v.t \in {"float", "str"} THEN ToFloat(v) ELSE Raised
      [] port.kind = "BOOL" -> ToBool(v)
      [] port.kind = "STRING" -> ToStr(v)
      [] port.kind = "DATE" -> FromIso(v)
      [] OTHER -> ToQuantity(port.identifier, v)

ExpandResultContainer(wrap, reg, port, v) ==
    CASE port.kind = "LIST" /\ v.t = "list" ->
           ListOf([i \in DOMAIN v.items |-> ExpandResult(wrap, reg, port.children[1], v.items[i])])
      [] port.kind = "DICT" /\ v.t = "dict" ->
           DictOf([k \in DOMAIN v.at |-> ExpandResult(wrap, reg, port.children[1], v.at[k])])
      [] OTHER -> Raised

ExpandResult(wrap, reg, port, v) ==
    CASE v = None -> IF port.nullable THEN None ELSE Raised
      [] v # None /\ port.kind \in Primitives -> ExpandResultPrimitive(port, v)
      [] v # None /\ port.kind \in {"LIST", "DICT"} -> ExpandResultContainer(wrap, reg, port, v)
      [] v # None /\ port.kind = "UNION" ->
           IF IsChoice(v, Len(port.children))
           THEN ExpandResult(wrap, reg, port.children[ChoiceOf(v)], v.at["__value"]) ELSE Raised
      [] v # None /\ port.kind = "MEMORY_STRUCTURE" -> IF wrap \/ v.t = "str" THEN v ELSE Raised
      [] v # None /\ port.kind = "STRUCTURE" ->
           IF IsTagged(v, port.identifier)
           THEN aexpand_structure(reg, port.identifier, v.at["object"]) ELSE Raised
      [] v # None /\ port.kind \in {"ENUM", "MODEL"} -> Raised

aexpand_return(reg, port, v) == ExpandResult(TRUE, reg, port, v)
aexpand_actor_return(reg, port, v) == ExpandResult(FALSE, reg, port, v)

\* All of the ports, by position; a port nothing was sent for is None.
ExpandResults(wrap, reg, definition, returns) ==
    LET Sent(port) == IF port.key \in DOMAIN returns.at THEN returns.at[port.key] ELSE None
        expanded == [i \in DOMAIN definition.returns |->
                       ExpandResult(wrap, reg, definition.returns[i], Sent(definition.returns[i]))]
    IN  ListOf(expanded)

aexpand_returns(reg, definition, returns) == ExpandResults(TRUE, reg, definition, returns)
aexpand_actor_returns(reg, definition, returns) == ExpandResults(FALSE, reg, definition, returns)
=============================================================================
