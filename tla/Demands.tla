------------------------------ MODULE Demands ------------------------------
(***************************************************************************)
(* Dependencies: what a declared protocol demands of the agent that a      *)
(* function is given to call.                                              *)
(*                                                                         *)
(* A class of sort "dependency" is a protocol: its app; its methods, a     *)
(* sequence of functions (see Definitions) with what demand overrides; its *)
(* states, a sequence of attributes with the class of each and what        *)
(* demand_state overrides.  "" is an app or a key that is not said, and    *)
(* AnyLength a number of ports that is not forced.  Hashes, versions and   *)
(* the protocols an action has are handed on and left out.                 *)
(***************************************************************************)
EXTENDS Definitions
LOCAL INSTANCE SequencesExt

AnyLength == -1

\* demand, demand_state: what a method or an attribute says of its action or
\* state, in place of the protocol's app and its own name.
NoOverride ==
    [app |-> "", key |-> "", args |-> AnyLength, returns |-> AnyLength,
     match_ports |-> TRUE, optional |-> FALSE]

Inherit(said, inherited) == IF said = "" THEN inherited ELSE said

(***************************************************************************)
(* Port matches: position, key, kind, identifier, nullability and children *)
(* of each port.  The dimension of a quantity, the choices of an enum and  *)
(* defaults are not demanded.                                              *)
(***************************************************************************)
RECURSIVE build_port_match(_, _)
build_port_match(index, port) ==
    [at |-> index, key |-> port.key, kind |-> port.kind, nullable |-> port.nullable,
     identifier |-> IF port.kind = "QUANTITY" THEN "" ELSE port.identifier,
     children |-> [i \in DOMAIN port.children |-> build_port_match(i, port.children[i])]]

\* Mutation: a list is a list, whatever it is of.
build_port_matchesFlat(ports) ==
    [i \in DOMAIN ports |-> [build_port_match(i, ports[i]) EXCEPT !.children = <<>>]]
build_port_matches(ports) == [i \in DOMAIN ports |-> build_port_match(i, ports[i])]

Matches(match_ports, ports) == IF match_ports THEN build_port_matches(ports) ELSE <<>>

\* The action is pinned by app and key, so that its name is not demanded.
build_action_dependency_input(method, definition, app) ==
    LET said == method.override IN
    [key |-> method.fn.interface, optional |-> said.optional,
     demand |-> [app |-> Inherit(said.app, app), key |-> Inherit(said.key, method.fn.interface),
                 argMatches |-> Matches(said.match_ports, definition.args),
                 returnMatches |-> Matches(said.match_ports, definition.returns),
                 forceArgLength |-> said.args, forceReturnLength |-> said.returns]]

build_state_dependency_input(attribute, definition, app) ==
    LET said == attribute.override IN
    [key |-> attribute.key, optional |-> said.optional,
     demand |-> [app |-> Inherit(said.app, app), key |-> Inherit(said.key, attribute.key),
                 matches |-> Matches(said.match_ports, definition.ports)]]

(***************************************************************************)
(* The definitions of states.  A field is [key, of, default].              *)
(***************************************************************************)
StateDefinition(ports) ==
    [reg |-> ports.reg,
     definition |-> IF Failed(ports.ports) THEN Raised ELSE [t |-> "state", ports |-> ports.ports]]

\* A registered state: its fields, with their defaults.
inspect_state(reg, c) ==
    StateDefinition(ConvertChildren(reg, [i \in DOMAIN Classes[c].fields |->
        LET f == Classes[c].fields[i] IN [of |-> f.of, want |-> Want(f.key, f.default, FALSE)]]))

\* A declared one: its type hints, with the attributes of the class as defaults.
inspect_declared_state(reg, c) == inspect_state(reg, c)

(***************************************************************************)
(* A protocol is declared: the annotated states in order, then the public  *)
(* methods by name; the first definition that raises ends it, with what    *)
(* the registry has learned.                                               *)
(***************************************************************************)
AppendDefined(done, one) ==
    [reg |-> one.reg, definitions |-> Append(done.definitions, one.definition)]

DeclaredAgentState(done, attribute) ==
    IF Raised \in ToSet(done.definitions) THEN done
    ELSE AppendDefined(done, inspect_declared_state(done.reg, attribute.cls))

DeclaredAgentAction(done, method) ==
    IF Raised \in ToSet(done.definitions) THEN done
    ELSE AppendDefined(done, prepare_definition(done.reg, method.fn))

\* The definitions stay in the protocol, for the calls through its slots.
to_dependency_input(c, definitions) ==
    LET n == Len(Classes[c].states) IN
    [definitions |-> SubSeq(definitions, n + 1, Len(definitions)),
     states |-> [i \in DOMAIN Classes[c].states |->
        build_state_dependency_input(Classes[c].states[i], definitions[i], Classes[c].app)],
     actions |-> [i \in DOMAIN Classes[c].methods |->
        build_action_dependency_input(Classes[c].methods[i], definitions[n + i], Classes[c].app)]]

Declared(c, all) ==
    [reg |-> all.reg,
     protocol |-> IF Raised \in ToSet(all.definitions) THEN Raised
                  ELSE to_dependency_input(c, all.definitions)]

DeclaredAgentProtocol(reg, c) ==
    Declared(c, FoldLeft(DeclaredAgentAction,
                    FoldLeft(DeclaredAgentState, [reg |-> reg, definitions |-> <<>>], Classes[c].states),
                    Classes[c].methods))

(***************************************************************************)
(* The server looks for an agent that has all that is not optional.        *)
(***************************************************************************)
RECURSIVE PortMatches(_, _)
PortMatches(m, ports) ==
    /\ m.at \in DOMAIN ports
    /\ LET port == ports[m.at] IN
       /\ m.kind = port.kind /\ m.key = port.key /\ m.nullable = port.nullable
       /\ m.identifier \in {"", port.identifier}
       /\ \A i \in DOMAIN m.children : PortMatches(m.children[i], port.children)

AllMatch(matches, ports) == \A i \in DOMAIN matches : PortMatches(matches[i], ports)

ActionSatisfies(demand, app, key, definition) ==
    /\ demand.app \in {"", app} /\ demand.key = key
    /\ AllMatch(demand.argMatches, definition.args)
    /\ AllMatch(demand.returnMatches, definition.returns)
    /\ demand.forceArgLength \in {AnyLength, Len(definition.args)}
    /\ demand.forceReturnLength \in {AnyLength, Len(definition.returns)}

StateSatisfies(demand, app, key, definition) ==
    /\ demand.app \in {"", app} /\ demand.key = key
    /\ AllMatch(demand.matches, definition.ports)
=============================================================================
