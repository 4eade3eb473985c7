------------------------------ MODULE CausalLog -----------------------------
(***************************************************************************)
(* What a device's event log promises to the rest of the node, without     *)
(* inbox, replay order or drain loop: a set of events that grows one event *)
(* at a time, parents first; a stable copy that outlives a crash; and a    *)
(* recovery that brings back, in one step, exactly the stable events whose *)
(* whole history is stable too.                                            *)
(***************************************************************************)
EXTENDS EventGraph

VARIABLES
    status,  \* "up" while the node serves requests, else "down"
    log,     \* events the node shows to its callers
    stable   \* events that survive a crash

clVars == <<status, log, stable>>

CLInit ==
    /\ status = "down"
    /\ log = {}
    /\ stable = {}

\* An event joins the log and the stable copy.
Record(e) ==
    /\ status = "up"
    /\ ParentsOf[e] \subseteq log
    /\ log' = log \cup {e}
    /\ stable' = stable \cup {e}
    /\ UNCHANGED status

\* The store refuses the event: it is visible but will not survive.
RecordVolatile(e) ==
    /\ status = "up"
    /\ ParentsOf[e] \subseteq log
    /\ log' = log \cup {e}
    /\ UNCHANGED <<status, stable>>

Lose ==
    /\ status = "up"
    /\ status' = "down"
    /\ log' = {}
    /\ UNCHANGED stable

Recover ==
    /\ status = "down"
    /\ status' = "up"
    /\ log' = CausalCore(stable)
    /\ UNCHANGED stable

CLNext ==
    \/ \E e \in Event : Record(e) \/ RecordVolatile(e)
    \/ Lose
    \/ Recover

CLSpec == CLInit /\ [][CLNext]_clVars
=============================================================================
