--------------------------- MODULE ClientBroadcast ---------------------------
(***************************************************************************)
(* The websocket clients of a FastAPI agent (FastAPIConnectionManager and  *)
(* handle_websocket): a client subscribes to states and gets a first       *)
(* message with their values, and from then on every patch of them.        *)
(*                                                                         *)
(* A broadcast holds the lock of the manager and suspends at every send; a *)
(* connection whose send fails is dropped when all sends are done.         *)
(* Registration takes the lock and is followed, without a suspension, by   *)
(* the first message.  The client itself is external: it keeps a copy and  *)
(* applies what is newer than the revision it has seen.                    *)
(***************************************************************************)
EXTENDS Integers, TreePatch

CONSTANTS
    Clients,
    Subscribed      \* the states each client asks for; {} asks for all

VARIABLES
    conn,           \* each connection: none, open, failed (not dropped yet) or gone
    view,           \* the client's copies
    seen,           \* the revision of the client
    joined,         \* the session of the client's first message
    sending,        \* the message under broadcast
    todo            \* the connections it has not been sent to

clientVars == <<conn, view, seen, joined, sending, todo>>

\* Patches lead to revision 1 and on.
NoMessage == [rev |-> 0]

ClientInit ==
    /\ conn = [c \in Clients |-> "none"]
    /\ view = [c \in Clients |-> <<>>]
    /\ seen = [c \in Clients |-> 0] /\ joined = [c \in Clients |-> 0]
    /\ sending = NoMessage /\ todo = {}

LockFree == sending = NoMessage

\* _matches_subscription for patches; nothing else of a state is sent.
Matches(c, state) == Subscribed[c] = {} \/ state \in Subscribed[c]

\* aget_state_views: the states of the first message.
StateViews(c, trees) == [s \in {x \in DOMAIN trees : Matches(c, x)} |-> trees[s]]

\* connect, then the first message.
Register(c, trees, revision, number) ==
    /\ conn[c] = "none" /\ LockFree
    /\ conn' = [conn EXCEPT ![c] = "open"]
    /\ view' = [view EXCEPT ![c] = StateViews(c, trees)]
    /\ seen' = [seen EXCEPT ![c] = revision]
    /\ joined' = [joined EXCEPT ![c] = number]
    /\ UNCHANGED <<sending, todo>>

\* Mutation: only connections that were there before the patch was applied.
BeginBroadcastOfSeen(msg) ==
    /\ LockFree
    /\ sending' = msg
    /\ todo' = {c \in Clients : conn[c] = "open" /\ Matches(c, msg.state) /\ seen[c] + 1 = msg.rev}
    /\ UNCHANGED <<conn, view, seen, joined>>

\* broadcast_model takes the lock.
BeginBroadcast(msg) ==
    /\ LockFree
    /\ sending' = msg
    /\ todo' = {c \in Clients : conn[c] \in {"open", "failed"} /\ Matches(c, msg.state)}
    /\ UNCHANGED <<conn, view, seen, joined>>

\* The client (external): a patch it has not seen yet changes its copy.
ClientApplies(c, msg) ==
    IF msg.rev <= seen[c] THEN UNCHANGED <<view, seen>>
    ELSE /\ view' = [view EXCEPT ![c][msg.state] = Apply(@, msg.op, msg.path, msg.value)]
         /\ seen' = [seen EXCEPT ![c] = msg.rev]

\* Mutation: a connection that fails is not ticked off.
SendToOpen(c) ==
    /\ c \in todo /\ conn[c] = "open"
    /\ todo' = todo \ {c}
    /\ ClientApplies(c, sending)
    /\ UNCHANGED <<conn, joined, sending>>

\* send_text ends, or raises.
SendTo(c) ==
    /\ c \in todo
    /\ todo' = todo \ {c}
    /\ IF conn[c] = "open" THEN ClientApplies(c, sending) ELSE UNCHANGED <<view, seen>>
    /\ UNCHANGED <<conn, joined, sending>>

\* A client goes away; the agent notices when it sends, or when the endpoint
\* reads the disconnect.
ClientFails(c) ==
    /\ conn[c] = "open"
    /\ conn' = [conn EXCEPT ![c] = "failed"]
    /\ view' = [view EXCEPT ![c] = <<>>] /\ seen' = [seen EXCEPT ![c] = 0]
    /\ UNCHANGED <<joined, sending, todo>>

\* disconnect waits for the lock.
Disconnect(c) ==
    /\ conn[c] = "failed" /\ LockFree
    /\ conn' = [conn EXCEPT ![c] = "gone"]
    /\ UNCHANGED <<view, seen, joined, sending, todo>>

EndBroadcast ==
    /\ sending # NoMessage /\ todo = {}
    /\ sending' = NoMessage
    /\ UNCHANGED <<conn, view, seen, joined, todo>>

\* A broadcast is cancelled where it waits for a send: the lock is released
\* and the rest gets nothing.
AbortBroadcast ==
    /\ sending' = NoMessage /\ todo' = {}
    /\ UNCHANGED <<conn, view, seen, joined>>
=============================================================================
