---------------------------- MODULE MCAssignments ----------------------------
(* Two tasks of one serial actor, the second of which may swallow its      *)
(* cancellation, one assigned to an interface nobody implements, and one   *)
(* left over from an earlier process.                                      *)
EXTENDS Assignments, TLC

CONSTANTS t1, t2, lost, old, serial, missing

MCInterfaceOf == (t1 :> serial) @@ (t2 :> serial) @@ (lost :> missing)

==============================================================================
