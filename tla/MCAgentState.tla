---------------------------- MODULE MCAgentState ----------------------------
(* Two states: one with a list of dataclasses that have a list, and a dict,  *)
(* one with a number.  One client asks for everything, one for the second    *)
(* state only.                                                               *)
EXTENDS AgentState, StateOperations

CONSTANTS a, b, items, parts, meta, size, key, s1, s2, c1, c2

MCRoot == [s \in States |-> IF s = s1 THEN 1 ELSE 2]

Item(x) == [data |-> (parts :> [list |-> <<x>>])]

MCInitial ==
    [s \in States |->
        IF s = s2 THEN size :> a
        ELSE (items :> [list |-> <<Item(a)>>]) @@ (meta :> [dict |-> (key :> a)])]

MCLiterals(path) ==
    CASE path = <<items>> -> {[list |-> <<Item(b)>>]}
      [] path = <<meta>> -> {[dict |-> (key :> b)]}
      [] path[Len(path)] = parts -> {[list |-> <<b>>]}
      [] path[1] = items /\ Len(path) = 2 -> {Item(b)}
      [] OTHER -> {b}

MCSubscribed == (c1 :> {}) @@ (c2 :> {s2})
=============================================================================
