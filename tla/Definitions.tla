---------------------------- MODULE Definitions ----------------------------
(***************************************************************************)
(* How a signature becomes a definition: the structure registry, which    *)
(* learns every class a port names, and the conversion of annotations to   *)
(* ports.  Widgets, labels, descriptions, validators and effects are left  *)
(* out, except that a widget for no port refuses the definition.           *)
(*                                                                         *)
(* An annotation is a record: [k |-> "int"], "float", "bool", "str",       *)
(* "date", "none", [k |-> "quantity", dim], [k |-> "list" or "dict", of],  *)
(* [k |-> "union", of |-> sequence], [k |-> "annotated", of, default],     *)
(* [k |-> "generator", of], [k |-> "tuple", of |-> sequence] or            *)
(* [k |-> "cls", cls].                                                     *)
(* Classes gives each class its sort ("model", "enum", "literal",          *)
(* "structure", "plain", "state", "context", "dependency"), its module,    *)
(* its name in lower case and what the sort needs: the fields of a model,  *)
(* the members and base of an enum, the locks of a state or context.       *)
(***************************************************************************)
EXTENDS PyValues
LOCAL INSTANCE SequencesExt
LOCAL INSTANCE FiniteSets
LOCAL INSTANCE TLC

CONSTANT Classes

Sort(c) == Classes[c].sort
IsClass(a, sorts) == a.k = "cls" /\ Sort(a.cls) \in sorts

(***************************************************************************)
(* The structure registry: the sort and identifier each known class has,   *)
(* and for every sort the class that an identifier stands for.             *)
(***************************************************************************)
Identified == {"model", "enum", "structure", "memory"}
EmptyRegistry == [known |-> <<>>, by |-> [s \in Identified |-> <<>>]]

\* The entry replaces whatever the class or the identifier stood for.
fullfill_registration(reg, c, sort, identifier) ==
    [known |-> (c :> [sort |-> sort, identifier |-> identifier]) @@ reg.known,
     by |-> [reg.by EXCEPT ![sort] = (identifier :> c) @@ @]]

cls_to_identifier(c) == Classes[c].module \o "." \o Classes[c].name

_literal_identifier(c) ==
    FoldLeft(LAMBDA text, m : text \o "_" \o m,
             "literal." \o Head(Classes[c].order), Tail(Classes[c].order))

\* A class that brings the protocol of a global structure names itself.
is_global_structure(c) == Sort(c) = "structure"

auto_register(reg, c) ==
    CASE Sort(c) = "literal" ->
           fullfill_registration(reg, c, "enum", _literal_identifier(c))
      [] Sort(c) = "enum" ->
           fullfill_registration(reg, c, "enum", cls_to_identifier(c))
      [] is_global_structure(c) ->
           fullfill_registration(reg, c, "structure", Classes[c].identifier)
      [] OTHER -> fullfill_registration(reg, c, "memory", cls_to_identifier(c))

get_fullfilled_type_for_cls(reg, c) ==
    IF c \in DOMAIN reg.known THEN reg ELSE auto_register(reg, c)

register_as_model(reg, c) ==
    fullfill_registration(reg, c, "model", Classes[c].name)

\* The name of the member a default is, or is the value of.
make_enum_converter(c, value) ==
    LET members == Classes[c].members
        named == {m \in DOMAIN members : \/ value.t = "member" /\ value.cls = c /\ value.name = m
                                         \/ Equal(members[m], value)}
    IN  IF named = {} THEN Raised ELSE Str(CHOOSE m \in named : TRUE)

(***************************************************************************)
(* Ports.  A conversion returns the port with the registry it leaves, and  *)
(* a raised port when the signature cannot be defined.                     *)
(***************************************************************************)
JSONTypes == {"none", "str", "int", "float", "bool", "list", "dict"}
IsJSON(v) == Bare(v).t \in JSONTypes

\* What pydantic validates when a port is built: a default is a JSON value.
Port(kind, p, ident, children, choices) ==
    IF IsJSON(p.default) /\ ~\E i \in DOMAIN children : children[i] = Raised
    THEN [t |-> "port", kind |-> kind, key |-> p.key, default |-> p.default,
          nullable |-> p.nullable, identifier |-> ident, children |-> children, choices |-> choices]
    ELSE Raised

\* What the conversion of a nested annotation is asked for.
Want(key, default, nullable) == [key |-> key, default |-> default, nullable |-> nullable]

\* A type is also chosen by its default: an int default makes a float an INT,
\* a StrEnum member as default makes its enum a STRING.
PrimitiveKind(a, default) ==
    CASE a.k = "bool" \/ IsBool(default) -> "BOOL"
      [] a.k = "int" \/ IsInt(default) -> "INT"
      [] a.k = "float" \/ IsFloat(default) -> "FLOAT"
      [] a.k = "date" \/ default.t = "date" -> "DATE"
      [] a.k = "str" \/ IsStr(default) -> "STRING"
      [] a.k = "quantity" -> "QUANTITY"
      [] OTHER -> "NONE"

\* A default that is a quantity goes by its text.
PrimitivePort(kind, a, p) ==
    Port(kind, IF p.default.t = "quantity" THEN [p EXCEPT !.default = Str(p.default.text)] ELSE p,
         IF a.k = "quantity" THEN a.dim ELSE "", <<>>, {})

\* The port of a class the registry knows or registers by itself.
PortKind == [enum |-> "ENUM", structure |-> "STRUCTURE", memory |-> "MEMORY_STRUCTURE", model |-> "MODEL"]
PortOfType(reg, c, p) ==
    LET type == reg.known[c]
        isEnum == type.sort = "enum"
        default == IF isEnum /\ p.default # None THEN make_enum_converter(c, p.default) ELSE None
    IN  [reg |-> reg,
         port |-> Port(PortKind[type.sort], [p EXCEPT !.default = default], type.identifier, <<>>,
                       IF isEnum THEN DOMAIN Classes[c].members ELSE {})]
get_port_for_cls(reg, c, p) == PortOfType(get_fullfilled_type_for_cls(reg, c), c, p)

\* An Optional is converted as the union of what else it may be.
non_nullable(a) ==
    LET rest == SelectSeq(a.of, LAMBDA b : b.k # "none") IN
    IF Len(rest) = 1 THEN rest[1] ELSE [k |-> "union", of |-> rest]
is_nullable(a) == a.k = "union" /\ \E i \in DOMAIN a.of : a.of[i].k = "none"

Failed(ports) == \E i \in DOMAIN ports : ports[i] = Raised

RECURSIVE convert_object_to_port(_, _, _)

\* The ports of a sequence of annotations, up to the first that raises.
AppendPort(done, one) == [reg |-> one.reg, ports |-> Append(done.ports, one.port)]
ConvertChildren(reg, wanted) ==
    FoldLeft(LAMBDA done, w :
                IF Failed(done.ports) THEN done
                ELSE AppendPort(done, convert_object_to_port(done.reg, w.of, w.want)),
             [reg |-> reg, ports |-> <<>>], wanted)

\* The port over its children, and the registry they leave.
PortOver(kind, p, ident, children) ==
    [reg |-> children.reg, port |-> Port(kind, p, ident, children.ports, {})]

\* A model's fields keep their defaults and are nullable only as Optional.
inspect_args_for_model(c) ==
    [i \in DOMAIN Classes[c].fields |->
        LET f == Classes[c].fields[i] IN [of |-> f.of, want |-> Want(f.key, f.default, FALSE)]]

ModelPort(reg, c, p) ==
    PortOver("MODEL", [p EXCEPT !.default = None], Classes[c].name,
             ConvertChildren(register_as_model(reg, c), inspect_args_for_model(c)))

\* An empty default list is no default.
ContainerPort(reg, a, p) ==
    LET default == IF a.k = "list" /\ ToBool(p.default) = Bool(FALSE) THEN None ELSE p.default IN
    PortOver(IF a.k = "list" THEN "LIST" ELSE "DICT", [p EXCEPT !.default = default], "",
             ConvertChildren(reg, <<[of |-> a.of, want |-> Want("...", None, FALSE)]>>))

UnionPort(reg, a, p) ==
    PortOver("UNION", p, "",
             ConvertChildren(reg, [i \in DOMAIN a.of |->
                                    [of |-> a.of[i], want |-> Want(ToString(i - 1), None, FALSE)]]))

\* The Default marker of an Annotated is for a port without another default.
extract_annotations(a, p) ==
    IF a.default = None THEN p.default
    ELSE IF p.default = None THEN a.default ELSE Raised

convert_object_to_port(reg, a, p) ==
    CASE is_nullable(a) -> convert_object_to_port(reg, non_nullable(a), [p EXCEPT !.nullable = TRUE])
      [] IsClass(a, {"model"}) -> ModelPort(reg, a.cls, p)
      [] a.k = "annotated" ->
           IF extract_annotations(a, p) = Raised THEN [reg |-> reg, port |-> Raised]
           ELSE convert_object_to_port(reg, a.of, [p EXCEPT !.default = extract_annotations(a, p)])
      [] a.k \in {"list", "dict"} -> ContainerPort(reg, a, p)
      [] a.k = "union" -> UnionPort(reg, a, p)
      [] IsClass(a, {"literal"}) -> get_port_for_cls(reg, a.cls, p)
      [] OTHER ->
           IF PrimitiveKind(a, p.default) # "NONE"
           THEN [reg |-> reg, port |-> PrimitivePort(PrimitiveKind(a, p.default), a, p)]
           ELSE get_port_for_cls(reg, a.cls, p)

convert_object_to_argport(reg, a, p) == convert_object_to_port(reg, a, p)
convert_object_to_returnport(reg, a, p) == convert_object_to_port(reg, a, p)

(***************************************************************************)
(* Functions.  f is a record: params, a sequence of [key, of, default]     *)
(* with None for a parameter without default; returns, an annotation;      *)
(* widgets, the ports that widgets are declared for; locks, the explicit   *)
(* locks or None; interface, the name it is registered at.                 *)
(***************************************************************************)
is_dependency_type(a) == IsClass(a, {"dependency"})
is_local_var(a) == IsClass(a, {"state", "context"})

\* What a function returns, port by port: a generator by what it yields.
Yielded(a) == IF a.k = "generator" THEN a.of ELSE a
ReturnTypes(a) ==
    CASE a.k = "none" -> <<>>
      [] Yielded(a).k = "tuple" -> Yielded(a).of
      [] OTHER -> <<Yielded(a)>>

ReturnKey(i) == "return" \o ToString(i - 1)

\* The arguments, then the returns of a function, with the registry they
\* leave.  A refused definition keeps what the registry has learned.
Parameters(f) ==
    SelectSeq(f.params, LAMBDA p : ~is_dependency_type(p.of) /\ ~is_local_var(p.of))

ArgumentPorts(reg, f) ==
    ConvertChildren(reg, [i \in DOMAIN Parameters(f) |->
        LET p == Parameters(f)[i] IN
        [of |-> p.of, want |-> Want(p.key, p.default, p.default # None)]])

WithReturns(ins, f) ==
    [ins |-> ins.ports,
     outs |-> IF Failed(ins.ports) \/ is_dependency_type(Yielded(f.returns))
              THEN [reg |-> ins.reg, ports |-> <<Raised>>]
              ELSE ConvertChildren(ins.reg, [i \in DOMAIN ReturnTypes(f.returns) |->
                     [of |-> ReturnTypes(f.returns)[i], want |-> Want(ReturnKey(i), None, FALSE)]])]

\* The ports that a widget can be for, the ones left out included.
WidgetKeys(f) == {p.key : p \in ToSet(f.params)} \cup {ReturnKey(i) : i \in DOMAIN ReturnTypes(f.returns)}

Defined(f, both) ==
    [reg |-> both.outs.reg,
     definition |->
        IF Failed(both.ins) \/ Failed(both.outs.ports) \/ ~(f.widgets \subseteq WidgetKeys(f)) THEN Raised
        ELSE [t |-> "definition", args |-> both.ins, returns |-> both.outs.ports,
              generator |-> f.returns.k = "generator"]]

prepare_definition(reg, f) == Defined(f, WithReturns(ArgumentPorts(reg, f), f))

(***************************************************************************)
(* What a function needs of the agent by its annotations: the contexts and *)
(* the states it is given, and their locks.                                *)
(***************************************************************************)
Taken(f, sort) ==
    {f.params[i].of.cls : i \in
        {j \in DOMAIN f.params : is_local_var(f.params[j].of) /\ Sort(f.params[j].of.cls) = sort}}

Needing(local) == [variables |-> local, locks |-> UNION {Classes[c].locks : c \in local}]

prepare_state_variables(f) == Needing(Taken(f, "state"))
prepare_context_variables(f) == Needing(Taken(f, "context"))

\* Explicit locks win over those of the states and contexts.
derive_implementation_details(f) ==
    LET states == prepare_state_variables(f)
        contexts == prepare_context_variables(f)
    IN  [states |-> states.variables, contexts |-> contexts.variables,
         locks |-> IF f.locks # None THEN f.locks.of ELSE contexts.locks \cup states.locks,
         manipulates |-> states.variables]
=============================================================================
