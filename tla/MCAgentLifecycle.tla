--------------------------- MODULE MCAgentLifecycle ---------------------------
(* Two workers, which are alike, and two hooks of each kind.                 *)
EXTENDS AgentLifecycle
=============================================================================
