------------------------------ MODULE PondSync ------------------------------
(***************************************************************************)
(* Several devices that share one room, and the three ways an event gets   *)
(* from one to another without the relay (rpc.rs of td-node): the          *)
(* bidirectional sync_peer call, the fan-out of send_message over HTTP,    *)
(* and the best-effort P2P copy that follows it.                           *)
(*                                                                         *)
(* Each device is the abstract log of CausalLog plus the events it parked. *)
(* A handler releases the device's lock around every request it makes, so  *)
(* it is one action per locked section or request; what it read before a   *)
(* request is kept in its record and may be stale afterwards.  A device    *)
(* runs one sync_peer and one send_message at a time here.                 *)
(***************************************************************************)
EXTENDS EventGraph

CONSTANTS
    Device,
    PeersOf,     \* the peers a device knows by their RPC address
    AuthorOf,    \* the author_device of an event
    Known,       \* history of the room that all devices have from the start
    None,        \* no device or event
    MaxDrops,    \* bound: requests and frames that may be lost
    MaxCrashes   \* bound: device crashes

ASSUME PondAssumption ==
    /\ PeersOf \in [Device -> SUBSET Device]
    /\ \A d \in Device : d \notin PeersOf[d]
    /\ AuthorOf \in [Event -> Device]
    /\ Known \subseteq Event /\ ParentClosed(Known)
    /\ None \notin Device \cup Event
    /\ MaxDrops \in Nat /\ MaxCrashes \in Nat

VARIABLES
    log,      \* accepted events of every device, all of them stored
    parked,   \* events in every device's inbox
    sync,     \* the sync_peer call of every device
    send,     \* the send_message call of every device
    net,      \* P2P frames under way
    drops,
    crashes

vars == <<log, parked, sync, send, net, drops, crashes>>

\* Locals of sync_peer.  "done" keeps the last completed call for inspection.
NoSync == [stage |-> "idle", peer |-> None, have |-> {}, missing |-> {}]

\* Locals of send_message.  cut is history: the peers to whom a request, or
\* from whom an answer, was lost.
NoSend == [stage |-> "idle", ev |-> None, dag |-> {}, left |-> {},
           peer |-> None, cut |-> {}]

Init ==
    /\ log = [d \in Device |-> Known]
    /\ parked = [d \in Device |-> {}]
    /\ sync = [d \in Device |-> NoSync]
    /\ send = [d \in Device |-> NoSend]
    /\ net = {}
    /\ drops = 0 /\ crashes = 0

\* Device d ingests a batch under its lock (ingest_remote for every event).
\* Whatever the order, the accepted events are then those whose ancestors are
\* all among the events the device holds: DrainReachesFixedPoint.
Ingest(d, batch) ==
    LET held == log[d] \cup parked[d] \cup batch
        core == CausalCore(held)
    IN  /\ log' = [log EXCEPT ![d] = core]
        /\ parked' = [parked EXCEPT ![d] = held \ core]

Lost == drops < MaxDrops /\ drops' = drops + 1

Returned(call) == call.stage \in {"idle", "done"}
-----------------------------------------------------------------------------
(***************************************************************************)
(* sync_peer: snapshot, pull, apply, push.                                 *)
(***************************************************************************)
\* Mutation of SyncStart: the snapshot of the last completed call is reused.
SyncStartCached(d, p) ==
    /\ p \in PeersOf[d]
    /\ Returned(sync[d])
    /\ sync' = [sync EXCEPT ![d] =
           [stage |-> "pull", peer |-> p, missing |-> {},
            have |-> IF sync[d].stage = "done" THEN sync[d].have ELSE log[d]]]
    /\ UNCHANGED <<log, parked, send, net, drops, crashes>>

SyncStart(d, p) ==
    /\ p \in PeersOf[d]
    /\ Returned(sync[d])
    /\ sync' = [sync EXCEPT ![d] = [stage |-> "pull", peer |-> p,
                                    have |-> log[d], missing |-> {}]]
    /\ UNCHANGED <<log, parked, send, net, drops, crashes>>

\* Mutation of SyncOffer: the peer answers with its tips only.
SyncOfferTips(d) ==
    LET s == sync[d]
    IN  /\ s.stage = "pull"
        /\ sync' = [sync EXCEPT ![d] = [s EXCEPT !.stage = "apply",
                                        !.missing = TipsOf(log[s.peer]) \ s.have]]
        /\ UNCHANGED <<log, parked, send, net, drops, crashes>>

\* The peer's sync_offer: what the peer has and the snapshot lacks.
SyncOffer(d) ==
    LET s == sync[d]
    IN  /\ s.stage = "pull"
        /\ sync' = [sync EXCEPT ![d] = [s EXCEPT !.stage = "apply",
                                        !.missing = log[s.peer] \ s.have]]
        /\ UNCHANGED <<log, parked, send, net, drops, crashes>>

SyncApply(d) ==
    /\ sync[d].stage = "apply"
    /\ Ingest(d, sync[d].missing)
    /\ sync' = [sync EXCEPT ![d].stage = "push"]
    /\ UNCHANGED <<send, net, drops, crashes>>

\* Mutation of SyncPush: nothing is pushed to a peer that had nothing to give.
SyncPushSkips(d) ==
    LET s == sync[d]
    IN  /\ s.stage = "push"
        /\ Ingest(s.peer, IF s.missing = {} THEN {} ELSE s.have)
        /\ sync' = [sync EXCEPT ![d].stage = "done"]
        /\ UNCHANGED <<send, net, drops, crashes>>

\* The peer's sync_ingest takes the events of the snapshot.
SyncPush(d) ==
    LET s == sync[d]
    IN  /\ s.stage = "push"
        /\ Ingest(s.peer, s.have)
        /\ sync' = [sync EXCEPT ![d].stage = "done"]
        /\ UNCHANGED <<send, net, drops, crashes>>

\* A request or its answer is lost: the offer ends the call with 502, the
\* push ends it with pushed_accepted 0, whether or not the peer ingested it.
SyncFails(d) ==
    LET s == sync[d]
    IN  /\ ~Returned(s)
        /\ Lost
        /\ sync' = [sync EXCEPT ![d] = NoSync]
        /\ \/ UNCHANGED <<log, parked>>
           \/ s.stage = "push" /\ Ingest(s.peer, s.have)
        /\ UNCHANGED <<send, net, crashes>>
-----------------------------------------------------------------------------
(***************************************************************************)
(* send_message: commit, then for every peer the new event, and the whole  *)
(* DAG if the peer did not accept it, then P2P.                            *)
(***************************************************************************)
SendCommit(d, e) ==
    /\ Returned(send[d])
    /\ AuthorOf[e] = d /\ e \notin log[d]
    /\ ParentsOf[e] = TipsOf(log[d])
    /\ Ingest(d, {e})
    /\ send' = [send EXCEPT ![d] = [stage |-> "fanout", ev |-> e, dag |-> log'[d],
                                    left |-> PeersOf[d], peer |-> None,
                                    cut |-> {}]]
    /\ UNCHANGED <<sync, net, drops, crashes>>

\* Mutation of SendDelta: a peer that parks the event is taken as served.
SendDeltaOnly(d, p) ==
    LET s == send[d]
    IN  /\ s.stage = "fanout" /\ p \in s.left
        /\ Ingest(p, {s.ev})
        /\ send' = [send EXCEPT ![d].left = @ \ {p}]
        /\ UNCHANGED <<sync, net, drops, crashes>>

\* The peer's sync_ingest of the new event alone.  It answers accepted = 0 if
\* it has the event already or had to park it.
SendDelta(d, p) ==
    LET s == send[d]
        accepted == s.ev \notin log[p] /\ ParentsOf[s.ev] \subseteq log[p]
    IN  /\ s.stage = "fanout" /\ p \in s.left
        /\ Ingest(p, {s.ev})
        /\ send' = [send EXCEPT ![d] = IF accepted
                                       THEN [s EXCEPT !.left = @ \ {p}]
                                       ELSE [s EXCEPT !.stage = "full", !.peer = p]]
        /\ UNCHANGED <<sync, net, drops, crashes>>

\* The result of the full-DAG post is not looked at: the peer is done and
\* counted in fanout_ok, whatever came of it.
SendFull(d) ==
    LET s == send[d]
        counted == [s EXCEPT !.stage = "fanout", !.peer = None,
                             !.left = @ \ {s.peer}]
    IN  /\ s.stage = "full"
        /\ \/ /\ Ingest(s.peer, s.dag)
              /\ send' = [send EXCEPT ![d] = counted]
              /\ UNCHANGED drops
           \/ /\ Lost
              /\ Ingest(s.peer, s.dag) \/ UNCHANGED <<log, parked>>
              /\ send' = [send EXCEPT ![d] = [counted EXCEPT !.cut = @ \cup {s.peer}]]
        /\ UNCHANGED <<sync, net, crashes>>

\* The key share or the post of the new event fails: p goes to fanout_errors.
SendMisses(d, p) ==
    LET s == send[d]
    IN  /\ s.stage = "fanout" /\ p \in s.left
        /\ Lost
        /\ Ingest(p, {s.ev}) \/ UNCHANGED <<log, parked>>
        /\ send' = [send EXCEPT ![d].left = @ \ {p}, ![d].cut = @ \cup {p}]
        /\ UNCHANGED <<sync, net, crashes>>

\* After the last peer the new event is sent to every peer by P2P as well.
SendReturns(d) ==
    LET s == send[d]
    IN  /\ s.stage = "fanout" /\ s.left = {}
        /\ net' = net \cup {[to |-> p, ev |-> s.ev] : p \in PeersOf[d]}
        /\ send' = [send EXCEPT ![d].stage = "done"]
        /\ UNCHANGED <<log, parked, sync, drops, crashes>>

\* start_p2p_listener: frames arrive in any order.
P2PArrives(m) ==
    /\ m \in net
    /\ net' = net \ {m}
    /\ Ingest(m.to, {m.ev})
    /\ UNCHANGED <<sync, send, drops, crashes>>

P2PLost(m) ==
    /\ m \in net
    /\ net' = net \ {m}
    /\ Lost
    /\ UNCHANGED <<log, parked, sync, send, crashes>>

\* The process ends and comes up again: the log is replayed from the store,
\* the inbox and the running handlers are gone.
Crash(d) ==
    /\ crashes < MaxCrashes
    /\ crashes' = crashes + 1
    /\ parked' = [parked EXCEPT ![d] = {}]
    /\ sync' = [sync EXCEPT ![d] = NoSync]
    /\ send' = [send EXCEPT ![d] = NoSend]
    /\ UNCHANGED <<log, net, drops>>
-----------------------------------------------------------------------------
SyncStep(d) == SyncOffer(d) \/ SyncApply(d) \/ SyncPush(d)

SendStep(d) == SendFull(d) \/ SendReturns(d) \/ \E p \in Device : SendDelta(d, p)

Fault(d) == SyncFails(d) \/ Crash(d) \/ \E p \in Device : SendMisses(d, p)

Next ==
    \/ \E d \in Device :
           \/ SyncStep(d) \/ SendStep(d) \/ Fault(d)
           \/ \E p \in Device : SyncStart(d, p)
           \/ \E e \in Event : SendCommit(d, e)
    \/ \E m \in net : P2PArrives(m) \/ P2PLost(m)

Spec == Init /\ [][Next]_vars

\* A running handler goes on, and the web client's peerSyncLoop calls
\* sync_peer for every peer of its device again and again.
Fairness ==
    \A d \in Device :
        /\ WF_vars(SyncStep(d)) /\ WF_vars(SendStep(d))
        /\ \A p \in PeersOf[d] : SF_vars(SyncStart(d, p))

FairSpec == Spec /\ Fairness
-----------------------------------------------------------------------------
(***************************************************************************)
(* Properties.                                                             *)
(***************************************************************************)

\* Every variable has the type of the state or locals it stands for.
TypeOK ==
    /\ log \in [Device -> SUBSET Event]
    /\ parked \in [Device -> SUBSET Event]
    /\ sync \in [Device -> [stage : {"idle", "pull", "apply", "push", "done"},
                            peer : Device \cup {None},
                            have : SUBSET Event, missing : SUBSET Event]]
    /\ send \in [Device -> [stage : {"idle", "fanout", "full", "done"},
                            ev : Event \cup {None}, dag : SUBSET Event,
                            left : SUBSET Device, peer : Device \cup {None},
                            cut : SUBSET Device]]
    /\ net \subseteq [to : Device, ev : Event]
    /\ drops \in 0..MaxDrops /\ crashes \in 0..MaxCrashes

\* A sync_peer that got both answers has exchanged both histories, though
\* both devices went on meanwhile: the caller has what it had and what the
\* peer had when it made the offer, and the peer has the caller's snapshot.
SyncExchanges ==
    \A d \in Device :
        sync[d].stage = "done" =>
            /\ sync[d].have \cup sync[d].missing \subseteq log[d]
            /\ sync[d].have \subseteq log[sync[d].peer]

\* A send_message that returns has the message accepted, not only parked, by
\* every peer it exchanged all its requests with, though both sides went on
\* between the post of the event and the post of the DAG snapshot.
FanoutReaches ==
    \A d \in Device :
        send[d].stage = "done" =>
            \A p \in PeersOf[d] \ send[d].cut : send[d].ev \in log[p]

\* A pulled or pushed batch never leaves one of its events parked, though it
\* was computed from a snapshot that is stale when the batch is applied.
BatchesAreComplete ==
    [][\A d \in Device :
           SyncApply(d) \/ SyncPush(d) \/ SendFull(d) =>
               \A p \in Device : parked'[p] \subseteq parked[p]]_vars

\* The periodic sync_peer brings every device to the same log and empties the
\* inboxes, whatever was lost before.
Converges ==
    <>[](\A d, p \in Device : log[d] = log[p] /\ parked[d] = {})
=============================================================================
