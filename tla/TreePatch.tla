------------------------------ MODULE TreePatch ------------------------------
(***************************************************************************)
(* A patch of the tree of a state, as the patch loop applies it, messages  *)
(* carry it and rows keep it (messages.StatePatch).  What it makes of a    *)
(* tree is a parameter (the external jsonpatch): everything that publishes *)
(* or replays patches is the same for any.                                 *)
(***************************************************************************)
CONSTANTS
    States,             \* the interfaces of the states
    Apply(_, _, _, _),  \* the tree after a patch: tree, op, path, value
    PatchError          \* what it is if the patch cannot be applied
=============================================================================
