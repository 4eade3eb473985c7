---------------------------- MODULE RoomRegistry ----------------------------
(***************************************************************************)
(* The RoomRegistry of td-event (room.rs) beside the event log of its      *)
(* device, for one room and several devices: who is a member is folded     *)
(* from create and membership events in the order in which the device      *)
(* applies them.                                                           *)
(*                                                                         *)
(* The log is the abstract log of CausalLog plus the parked events.  An    *)
(* event that some device signed may reach any other device at any time    *)
(* and in any order (ingest_remote).  membership_event has no RPC of its   *)
(* own; its event is committed to the log the way create_room's is.        *)
(***************************************************************************)
EXTENDS EventGraph

CONSTANTS
    Device,
    KindOf,      \* the kind field of an event
    AuthorOf,    \* the author_device field, and creator or actor of a payload
    ActionOf,    \* the action field of a membership payload
    TargetOf,    \* the target field of a membership payload
    MaxCrashes   \* bound: restarts of a device

ASSUME RegistryAssumption ==
    /\ KindOf \in [Event -> {"create", "membership", "message"}]
    /\ AuthorOf \in [Event -> Device]
    /\ ActionOf \in [Event -> {"join", "invite", "leave", "ban"}]
    /\ TargetOf \in [Event -> Device]
    /\ MaxCrashes \in Nat

VARIABLES
    log,      \* accepted events of every device, all of them stored
    parked,   \* events in every device's inbox
    reg,      \* the RoomState of every device, if it has one
    todo,     \* events load_from_data_dir has still to apply
    mode,     \* "up", or "load" inside load_from_data_dir
    refused,  \* history: own events that membership_event has put into the
              \* registry's DAG and then given up with an error
    crashes

vars == <<log, parked, reg, todo, mode, refused, crashes>>

MemberState == {"none", "invited", "joined", "left", "banned"}

RoomState == [room : BOOLEAN, dag : SUBSET Event,
              members : [Device -> MemberState], tips : SUBSET Event]

NoRoom == [room |-> FALSE, dag |-> {}, members |-> [d \in Device |-> "none"],
           tips |-> {}]

Init ==
    /\ log = [d \in Device |-> {}]
    /\ parked = [d \in Device |-> {}]
    /\ reg = [d \in Device |-> NoRoom]
    /\ todo = [d \in Device |-> {}]
    /\ mode = [d \in Device |-> "up"]
    /\ refused = [d \in Device |-> {}]
    /\ crashes = 0
-----------------------------------------------------------------------------
(***************************************************************************)
(* apply_event: the RoomState that results, which is g itself when the     *)
(* event is a duplicate or refused.                                        *)
(***************************************************************************)

\* Mutation of DagTakes: parents are not asked for.
DagTakesAny(g, e) == e \notin g.dag

\* RoomDag::ingest of the registry's own DAG inserts e.
DagTakes(g, e) == e \notin g.dag /\ ParentsOf[e] \subseteq g.dag

Insert(g, e) ==
    [g EXCEPT !.dag = @ \cup {e}, !.tips = TipsOf(g.dag \cup {e})]

ApplyCreate(g, e) ==
    IF ~DagTakes(g, e) THEN g
    ELSE IF g.room THEN Insert(g, e)
    ELSE [Insert(g, e) EXCEPT !.room = TRUE,
                              !.members[AuthorOf[e]] = "joined"]

\* The state of the target after an accepted membership event.
NewState(action) ==
    CASE action = "invite" -> "invited"
      [] action = "join"   -> "joined"
      [] action = "leave"  -> "left"
      [] action = "ban"    -> "banned"

\* Mutation of OfBanned: only invitations are looked at.
InviteOfBanned(g, e) == ActionOf[e] = "invite" /\ g.members[TargetOf[e]] = "banned"

\* InvalidTransition: an invite or join of a banned device.
OfBanned(g, e) ==
    ActionOf[e] \in {"invite", "join"} /\ g.members[TargetOf[e]] = "banned"

\* The error comes after the DAG has taken the event: members and tips stay
\* as they were.
ApplyMembership(g, e) ==
    IF ~g.room \/ ~DagTakes(g, e) THEN g
    ELSE IF OfBanned(g, e)
    THEN [g EXCEPT !.dag = @ \cup {e}]
    ELSE [Insert(g, e) EXCEPT !.members[TargetOf[e]] = NewState(ActionOf[e])]

ApplyMessage(g, e) ==
    IF g.room /\ g.members[AuthorOf[e]] = "joined" /\ DagTakes(g, e)
    THEN Insert(g, e)
    ELSE g

ApplyEvent(g, e) ==
    CASE KindOf[e] = "create"     -> ApplyCreate(g, e)
      [] KindOf[e] = "membership" -> ApplyMembership(g, e)
      [] KindOf[e] = "message"    -> ApplyMessage(g, e)
-----------------------------------------------------------------------------
\* The log of d after ingest_event of e: an event that is known or whose
\* parents are missing changes nothing, another is accepted and the inbox is
\* drained.
LogWith(d, e) ==
    IF e \notin log[d] /\ ParentsOf[e] \subseteq log[d]
    THEN CausalCore(log[d] \cup parked[d] \cup {e})
    ELSE log[d]

\* The device's log takes an event and drains its inbox.
Ingest(d, e) ==
    LET next == LogWith(d, e)
    IN  /\ log' = [log EXCEPT ![d] = next]
        /\ parked' = [parked EXCEPT ![d] = (@ \cup {e}) \ next]

\* The events that a device may send to another one: a parked event goes
\* neither into the outbox nor into a sync response.
Signed == UNION {log[d] : d \in Device}

\* sign_event of a new event of d, and apply_event of it.
Sign(d, e) ==
    /\ mode[d] = "up"
    /\ AuthorOf[e] = d /\ e \notin Signed \cup reg[d].dag
    /\ reg' = [reg EXCEPT ![d] = ApplyEvent(@, e)]
    /\ UNCHANGED <<todo, mode, crashes>>

\* commit_local of an event d has just signed.
Commit(d, e) ==
    /\ Sign(d, e)
    /\ Ingest(d, e)
    /\ UNCHANGED refused

CreateRoom(d, e) ==
    /\ KindOf[e] = "create" /\ ParentsOf[e] = {}
    /\ Commit(d, e)

\* send_message: a non-member may still write if the log knows the room.
SendMessage(d, e) ==
    /\ KindOf[e] = "message"
    /\ reg[d].members[d] = "joined" \/ log[d] # {}
    /\ ParentsOf[e] = TipsOf(log[d])
    /\ Commit(d, e)

\* Mutation of MayChange: whoever wants to may join.
MayChangeOpen(g, actor, action, target) ==
    CASE action \in {"invite", "ban"} -> g.members[actor] = "joined"
      [] action \in {"join", "leave"} -> actor = target

\* The checks of membership_event against the actor's own registry.
MayChange(g, actor, action, target) ==
    CASE action \in {"invite", "ban"} -> g.members[actor] = "joined"
      [] action \in {"join", "leave"} ->
             actor = target /\ g.members[target] \in {"invited", "joined"}

\* An error of apply_event ends membership_event: the caller gets no event to
\* commit, and the registry's DAG keeps it.
Withhold(d, e) ==
    /\ Sign(d, e)
    /\ refused' = [refused EXCEPT ![d] = @ \cup {e}]
    /\ UNCHANGED <<log, parked>>

MembershipEvent(d, e) ==
    /\ KindOf[e] = "membership"
    /\ reg[d].room
    /\ MayChange(reg[d], d, ActionOf[e], TargetOf[e])
    /\ ParentsOf[e] = reg[d].tips
    /\ IF OfBanned(reg[d], e) THEN Withhold(d, e) ELSE Commit(d, e)

\* ingest_remote: the log takes or parks the event; create and membership
\* events are also applied to the registry, once, at this moment.
IngestRemote(d, e) ==
    /\ mode[d] = "up"
    /\ e \in Signed
    /\ Ingest(d, e)
    /\ reg' = [reg EXCEPT ![d] = IF KindOf[e] = "message" THEN @
                                 ELSE ApplyEvent(@, e)]
    /\ UNCHANGED <<todo, mode, refused, crashes>>

\* The process ends and load_from_data_dir has read the log back.
Restart(d) ==
    /\ crashes < MaxCrashes
    /\ crashes' = crashes + 1
    /\ mode' = [mode EXCEPT ![d] = "load"]
    /\ parked' = [parked EXCEPT ![d] = {}]
    /\ reg' = [reg EXCEPT ![d] = NoRoom]
    /\ todo' = [todo EXCEPT ![d] = log[d]]
    /\ refused' = [refused EXCEPT ![d] = {}]
    /\ UNCHANGED log

\* load_from_data_dir: apply the events in the order of list_events, ignoring
\* the ones the registry refuses.
Load(d, e) ==
    /\ mode[d] = "load"
    /\ e \in FirstOf(todo[d])
    /\ todo' = [todo EXCEPT ![d] = @ \ {e}]
    /\ reg' = [reg EXCEPT ![d] = ApplyEvent(@, e)]
    /\ UNCHANGED <<log, parked, mode, refused, crashes>>

LoadDone(d) ==
    /\ mode[d] = "load" /\ todo[d] = {}
    /\ mode' = [mode EXCEPT ![d] = "up"]
    /\ UNCHANGED <<log, parked, reg, todo, refused, crashes>>

Author(d, e) == CreateRoom(d, e) \/ SendMessage(d, e) \/ MembershipEvent(d, e)

Next ==
    \E d \in Device :
        \/ \E e \in Event : Author(d, e) \/ IngestRemote(d, e) \/ Load(d, e)
        \/ Restart(d) \/ LoadDone(d)

Spec == Init /\ [][Next]_vars
-----------------------------------------------------------------------------
(***************************************************************************)
(* Properties.                                                             *)
(***************************************************************************)

\* Every variable has the type of the Rust field it stands for.
TypeOK ==
    /\ log \in [Device -> SUBSET Event]
    /\ parked \in [Device -> SUBSET Event]
    /\ reg \in [Device -> RoomState]
    /\ todo \in [Device -> SUBSET Event]
    /\ mode \in [Device -> {"up", "load"}]
    /\ refused \in [Device -> SUBSET Event]
    /\ crashes \in 0..MaxCrashes

\* The registry and the log are fed by separate calls, and the registry is
\* told of events the log only parks.  Its DAG is parent-closed, also in the
\* middle of a load, and within the log but for the own invitations of banned
\* devices that membership_event gave up with an error, and for what builds on
\* them: these have their place in the registry alone.
RegistryWithinLog ==
    \A d \in Device :
        /\ ParentClosed(reg[d].dag)
        /\ CausalCore(reg[d].dag \ refused[d]) \subseteq log[d]

Invites(e, x) == KindOf[e] = "membership" /\ ActionOf[e] = "invite" /\ TargetOf[e] = x
Joins(e, x)   == KindOf[e] = "membership" /\ ActionOf[e] = "join" /\ TargetOf[e] = x

Bans(e, x)    == KindOf[e] = "membership" /\ ActionOf[e] = "ban" /\ TargetOf[e] = x
Leaves(e, x)  == KindOf[e] = "membership" /\ ActionOf[e] = "leave" /\ TargetOf[e] = x

\* A ban counts in whatever order a registry hears of it and of the joins and
\* invitations it crosses on the way, and again after a load, which applies
\* them in another order.  Only a leave of the banned device undoes it:
\* apply_event takes that from a banned device too.
BanHolds ==
    \A d, x \in Device :
        (\E b \in reg[d].dag : Bans(b, x)) =>
            \/ reg[d].members[x] = "banned"
            \/ \E l \in reg[d].dag : Leaves(l, x)

\* A device that a registry counts as joined created the room or accepted an
\* invitation: apply_event does not check this, it follows from what
\* membership_event lets the authors sign and from the causal order.
JoinedWasInvited ==
    \A d, x \in Device :
        reg[d].members[x] = "joined" =>
            \/ \E e \in reg[d].dag : KindOf[e] = "create" /\ AuthorOf[e] = x
            \/ \E i, j \in reg[d].dag : Joins(j, x) /\ Invites(i, x) /\ i \in Past(j)

\* "Ingest a remote signed event into DAG + room registry": a create or
\* membership event the log has accepted is in the registry.
RegistryHasMembership ==
    \A d \in Device :
        mode[d] = "up" =>
            \A e \in log[d] : KindOf[e] # "message" => e \in reg[d].dag
=============================================================================
