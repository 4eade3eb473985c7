---------------------------- MODULE RelayMailbox ----------------------------
(***************************************************************************)
(* Offline catch-up through the assist relay: one sending device with its  *)
(* outbox (push_outbox_to_relay), td-relay with its envelope table and its *)
(* rate limiter, and the receiving devices (poll_relay_once).              *)
(*                                                                         *)
(* A push and a poll are one action per request and per locked section:    *)
(* calls of POST /v1/relay/push may overlap, and so may the background     *)
(* poller and POST /v1/relay/poll.  A receiving device is the log, inbox   *)
(* and store of DeviceNode with ingest_event as one step; the events are   *)
(* the sender's own, which the room's DAG accepts, so the one error of     *)
(* ingest_event is a put that the receiver's store refuses.                *)
(***************************************************************************)
EXTENDS EventGraph, Sequences, SequencesExt

CONSTANTS
    Recipient,   \* receiving devices
    Pusher,      \* concurrent pushes of the sender
    Poller,      \* concurrent polls of one device
    Timer,       \* the poll of spawn_relay_poller
    LinkedFirst, \* recipients linked before the sender writes anything
    Known,       \* history of the room that all devices have from the start
    Seal,        \* how an event is sealed, see SealOpens
    None,        \* no envelope
    Batch,       \* events taken from the outbox by one push
    RateMax,     \* puts the relay accepts from one sender in a window
    FetchMax,    \* envelopes the relay returns to one fetch
    MaxFaults,   \* bound: requests and puts into a store that fail
    MaxCrashes   \* bound: crashes of a device

ASSUME RelayAssumption ==
    /\ Timer \in Poller
    /\ LinkedFirst \subseteq Recipient
    /\ Known \subseteq Event /\ ParentClosed(Known)
    /\ Seal \subseteq {"aead", "olm", "foreign"}
    /\ {Batch, RateMax, FetchMax} \subseteq Nat \ {0}
    /\ MaxFaults \in Nat /\ MaxCrashes \in Nat

Envelope == [to : Recipient, ev : Event, seal : Seal]

VARIABLES
    authored,  \* own events of the sender, in its log
    outbox,    \* own events not yet taken for the relay, oldest first
    linked,    \* relay_recipients of the sender
    sealed,    \* envelopes every running push has still to put
    box,       \* rows of the relay's table
    puts,      \* limiter: puts of the sender in this window
    log,       \* accepted events of every recipient
    parked,    \* events in every recipient's inbox
    stored,    \* rows of every recipient's store
    opened,    \* Olm envelopes a recipient's ratchet has used up
    saved,     \* the part of opened that the last persist_e2ee wrote
    poll,      \* the running polls of every recipient
    refused,   \* history: events a recipient gave up, or has in memory only,
               \* since its store refused a put
    due,       \* history: <<e, r>> where e was written for the linked r and
               \* nothing has happened that may lose it
    faults,
    crashes

sender == <<authored, outbox, linked, sealed>>
relay  == <<box, puts>>
node   == <<log, parked, stored, refused>>
device == <<node, opened, saved, poll>>
bounds == <<faults, crashes>>
vars   == <<sender, relay, device, due, bounds>>

\* Locals of poll_relay_once: envelopes not looked at yet, the envelope whose
\* event is opened but not ingested yet, and those to acknowledge.
NoPoll == [stage |-> "idle", items |-> {}, hand |-> None, acks |-> {}]

Init ==
    /\ authored = {} /\ outbox = <<>> /\ linked = LinkedFirst
    /\ sealed = [p \in Pusher |-> {}]
    /\ box = {} /\ puts = 0
    /\ log = [r \in Recipient |-> Known]
    /\ parked = [r \in Recipient |-> {}]
    /\ stored = [r \in Recipient |-> Known]
    /\ refused = [r \in Recipient |-> {}]
    /\ opened = [r \in Recipient |-> {}]
    /\ saved = [r \in Recipient |-> {}]
    /\ poll = [r \in Recipient |-> [q \in Poller |-> NoPoll]]
    /\ due = {} /\ faults = 0 /\ crashes = 0

Fails == faults < MaxFaults /\ faults' = faults + 1

\* The envelopes of S that may come first in the order of their timestamps.
Oldest(S) == {v \in S : \A w \in S : TsOf[v.ev] <= TsOf[w.ev]}
-----------------------------------------------------------------------------
(***************************************************************************)
(* The sender.                                                             *)
(***************************************************************************)

\* commit_local of an event whose parents the sender has.
Author(e) ==
    /\ e \notin authored \cup Known
    /\ ParentsOf[e] \subseteq authored \cup Known
    /\ authored' = authored \cup {e}
    /\ outbox' = Append(outbox, e)
    /\ due' = due \cup ({e} \X linked)
    /\ UNCHANGED <<linked, sealed, relay, device, bounds>>

\* A device is linked, or its keys are trusted.
Link(r) ==
    /\ r \notin linked
    /\ linked' = linked \cup {r}
    /\ UNCHANGED <<due, authored, outbox, sealed, relay, device, bounds>>

\* One envelope for each event and recipient, sealed by Olm if there is a
\* session or cached keys, else with the shared key (seal_event_for_recipient).
SealedAs(how) == {[to |-> p[1], ev |-> p[2], seal |-> how[p]] : p \in DOMAIN how}

\* Mutation of PushTake: a batch is popped and its first event sealed.
PushTakeOne(p) ==
    /\ sealed[p] = {}
    /\ outbox # <<>>
    /\ outbox' = SubSeq(outbox, Batch + 1, Len(outbox))
    /\ \E how \in Seal :
           sealed' = [sealed EXCEPT ![p] =
                         {[to |-> r, ev |-> Head(outbox), seal |-> how] : r \in linked}]
    /\ UNCHANGED <<due, authored, linked, relay, device, bounds>>

\* push_outbox_to_relay up to the connect: the events leave the outbox before
\* anything is known about recipients, connection or relay.
PushTake(p) ==
    LET n     == IF Len(outbox) < Batch THEN Len(outbox) ELSE Batch
        taken == ToSet(SubSeq(outbox, 1, n))
    IN  /\ sealed[p] = {}
        /\ outbox # <<>>
        /\ outbox' = SubSeq(outbox, n + 1, Len(outbox))
        /\ \E how \in [linked \X taken -> Seal] :
               sealed' = [sealed EXCEPT ![p] = SealedAs(how)]
        /\ UNCHANGED <<due, authored, linked, relay, device, bounds>>

\* One client.put that the relay's handle accepts.
PushPut(p) ==
    /\ puts < RateMax
    /\ \E v \in Oldest(sealed[p]) :
           /\ sealed' = [sealed EXCEPT ![p] = @ \ {v}]
           /\ box' = box \cup {v}
    /\ puts' = puts + 1
    /\ UNCHANGED <<due, authored, outbox, linked, device, bounds>>

\* The error ends the push, and what it has not put is given up.
PushGivesUp(p) ==
    /\ sealed[p] # {}
    /\ sealed' = [sealed EXCEPT ![p] = {}]
    /\ due' = due \ {<<v.ev, v.to>> : v \in sealed[p]}
    /\ UNCHANGED <<authored, outbox, linked, relay, device>>

\* RateLimiter::allow says no.
PushLimited(p) ==
    /\ puts >= RateMax
    /\ PushGivesUp(p)
    /\ UNCHANGED bounds

\* The connect or a put fails.
PushFails(p) ==
    /\ Fails
    /\ PushGivesUp(p)
    /\ UNCHANGED crashes

\* RateLimiter::allow: RATE_WINDOW has passed.
WindowEnds ==
    /\ puts > 0
    /\ puts' = 0
    /\ UNCHANGED <<due, sender, box, device, bounds>>

\* The envelopes of all running pushes.
Sealed == UNION {sealed[p] : p \in Pusher}

\* The outbox and the running pushes are memory only.
SenderCrash ==
    /\ crashes < MaxCrashes
    /\ crashes' = crashes + 1
    /\ outbox' = <<>> /\ sealed' = [p \in Pusher |-> {}]
    /\ due' = {d \in due : d[1] \notin ToSet(outbox) /\ \A v \in Sealed : <<v.ev, v.to>> # d}
    /\ UNCHANGED <<authored, linked, relay, device, faults>>
-----------------------------------------------------------------------------
(***************************************************************************)
(* A recipient.                                                            *)
(***************************************************************************)

\* open_from_relay_auto: an AEAD envelope opens with the shared key as often
\* as one likes, an Olm envelope once, and an envelope sealed with a key or
\* session the recipient does not have never.
SealOpens(r, v) ==
    \/ v.seal = "aead"
    \/ v.seal = "olm" /\ v \notin opened[r]

\* The log after ingest_event of e: an event that is known or whose parents
\* are missing changes nothing, another is accepted and drain_inbox takes in
\* the parked ones that it completes.
LogWith(r, e) ==
    IF e \notin log[r] /\ ParentsOf[e] \subseteq log[r]
    THEN CausalCore(log[r] \cup parked[r] \cup {e})
    ELSE log[r]

\* ingest_remote, and every put succeeds.
Ingest(r, e) ==
    LET next == LogWith(r, e)
    IN  /\ log' = [log EXCEPT ![r] = next]
        /\ parked' = [parked EXCEPT ![r] = (@ \cup {e}) \ next]
        /\ stored' = [stored EXCEPT ![r] = @ \cup (next \ log[r])]
        /\ refused' = [refused EXCEPT ![r] = @ \ (({e} \cup next) \ log[r])]
        /\ UNCHANGED <<due, bounds>>

\* The store refuses the put of an accepted event, last: e itself, or one that
\* drain_inbox accepts after it.  It stays in memory, the error ends the call,
\* and the parked events that the drain has put aside (`rest') are dropped.
IngestFails(r, e) ==
    /\ Fails /\ UNCHANGED crashes
    /\ e \notin log[r] /\ ParentsOf[e] \subseteq log[r]
    /\ \E new \in SUBSET (LogWith(r, e) \ log[r]) : \E last \in new :
           /\ ParentClosed(log[r] \cup new) /\ ParentClosed((log[r] \cup new) \ {last})
           /\ e \in new /\ (last = e => new = {e})
           /\ \E rest \in SUBSET {x \in parked[r] \ new :
                                     last # e /\ ~(ParentsOf[x] \subseteq log[r] \cup {e})} :
                  /\ log' = [log EXCEPT ![r] = @ \cup new]
                  /\ parked' = [parked EXCEPT ![r] = @ \ (new \cup rest)]
                  /\ stored' = [stored EXCEPT ![r] = @ \cup (new \ {last})]
                  /\ refused' = [refused EXCEPT ![r] = (@ \ new) \cup {last} \cup rest]
                  /\ due' = due \ (({last} \cup rest) \X {r})

\* EnvelopeStore::fetch: the oldest FetchMax envelopes of r.
Fetched(r) ==
    LET mine == {v \in box : v.to = r}
        full(S) == Cardinality(S) = FetchMax \/ S = mine
    IN  {S \in SUBSET mine :
            /\ Cardinality(S) <= FetchMax /\ full(S)
            /\ \A v \in S : \A w \in mine \ S : TsOf[v.ev] <= TsOf[w.ev]}

PollFetch(r, q) ==
    /\ poll[r][q].stage = "idle"
    /\ \E S \in Fetched(r) :
           /\ S # {}
           /\ poll' = [poll EXCEPT ![r][q] = [stage |-> "open", items |-> S,
                                              hand |-> None, acks |-> {}]]
    /\ UNCHANGED <<due, sender, relay, node, opened, saved, bounds>>

PollOpen(r, q) ==
    /\ poll[r][q].stage = "open"
    /\ \E v \in Oldest(poll[r][q].items) :
           /\ SealOpens(r, v)
           /\ poll' = [poll EXCEPT ![r][q].stage = "ingest",
                                   ![r][q].items = @ \ {v},
                                   ![r][q].hand = v]
           /\ opened' = [opened EXCEPT ![r] =
                             IF v.seal = "olm" THEN @ \cup {v} ELSE @]
    /\ UNCHANGED <<due, sender, relay, node, saved, bounds>>

\* Mutation of PollSkip: an envelope that does not open is acknowledged too.
PollSkipAcks(r, q) ==
    /\ poll[r][q].stage = "open"
    /\ \E v \in Oldest(poll[r][q].items) :
           /\ ~SealOpens(r, v)
           /\ poll' = [poll EXCEPT ![r][q].items = @ \ {v},
                                   ![r][q].acks = @ \cup {v}]
    /\ UNCHANGED <<due, sender, relay, node, opened, saved, bounds>>

\* An envelope that does not open is left on the relay.
PollSkip(r, q) ==
    /\ poll[r][q].stage = "open"
    /\ \E v \in Oldest(poll[r][q].items) :
           /\ ~SealOpens(r, v)
           /\ poll' = [poll EXCEPT ![r][q].items = @ \ {v}]
    /\ UNCHANGED <<due, sender, relay, node, opened, saved, bounds>>

\* `ingest_remote(ev).unwrap_or(false)', then acked.push whatever it returned.
PollIngest(r, q) ==
    LET v == poll[r][q].hand
    IN  /\ poll[r][q].stage = "ingest"
        /\ Ingest(r, v.ev) \/ IngestFails(r, v.ev)
        /\ poll' = [poll EXCEPT ![r][q].stage = "open", ![r][q].hand = None,
                                ![r][q].acks = @ \cup {v}]
        /\ UNCHANGED <<sender, relay, opened, saved>>

\* Mutation of PollAck: the poll returns without an ack.
PollAckMissing(r, q) ==
    /\ poll[r][q].stage = "open" /\ poll[r][q].items = {}
    /\ poll' = [poll EXCEPT ![r][q] = NoPoll]
    /\ UNCHANGED <<due, sender, relay, node, opened, saved, bounds>>

PollAck(r, q) ==
    /\ poll[r][q].stage = "open" /\ poll[r][q].items = {}
    /\ box' = box \ poll[r][q].acks
    /\ poll' = [poll EXCEPT ![r][q] = NoPoll]
    /\ UNCHANGED <<due, sender, puts, node, opened, saved, bounds>>

\* The ack request fails; the poll ignores the error.
PollAckFails(r, q) ==
    /\ poll[r][q].stage = "open" /\ poll[r][q].items = {}
    /\ poll[r][q].acks # {}
    /\ Fails
    /\ poll' = [poll EXCEPT ![r][q] = NoPoll]
    /\ UNCHANGED <<due, sender, relay, node, opened, saved, crashes>>

\* The event also arrives by sync or P2P.
Direct(r, e) ==
    /\ e \in authored \ log[r]
    /\ Ingest(r, e) \/ IngestFails(r, e)
    /\ UNCHANGED <<sender, relay, opened, saved, poll>>

\* Some handler of the recipient writes its ratchets to disk.  The poll does
\* not do it itself.
PersistE2ee(r) ==
    /\ saved' = [saved EXCEPT ![r] = opened[r]]
    /\ UNCHANGED <<due, sender, relay, node, opened, poll, bounds>>

\* Only the rows come back: replay accepts their causal core and parks the
\* rest.
RecipientCrash(r) ==
    /\ crashes < MaxCrashes
    /\ crashes' = crashes + 1
    /\ log' = [log EXCEPT ![r] = CausalCore(stored[r])]
    /\ parked' = [parked EXCEPT ![r] = stored[r] \ CausalCore(stored[r])]
    /\ opened' = [opened EXCEPT ![r] = saved[r]]
    /\ poll' = [poll EXCEPT ![r] = [q \in Poller |-> NoPoll]]
    /\ due' = due \ ((parked[r] \ stored[r]) \X {r})
    /\ UNCHANGED <<sender, relay, stored, refused, saved, faults>>
-----------------------------------------------------------------------------
Push(p) == PushTake(p) \/ PushPut(p) \/ PushLimited(p) \/ PushFails(p)

PollStep(r, q) == PollOpen(r, q) \/ PollSkip(r, q) \/ PollIngest(r, q)
                      \/ PollAck(r, q)

Next ==
    \/ \E e \in Event : Author(e)
    \/ \E p \in Pusher : Push(p)
    \/ WindowEnds \/ SenderCrash
    \/ \E r \in Recipient :
           \/ Link(r) \/ PersistE2ee(r) \/ RecipientCrash(r)
           \/ \E e \in Event : Direct(r, e)
           \/ \E q \in Poller :
                  PollFetch(r, q) \/ PollStep(r, q) \/ PollAckFails(r, q)

Spec == Init /\ [][Next]_vars

\* spawn_relay_poller fetches every ten seconds, and a poll that has fetched
\* goes on.  Nothing pushes or links by itself.
Fairness ==
    \A r \in Recipient :
        /\ WF_vars(PollFetch(r, Timer))
        /\ \A q \in Poller : WF_vars(PollStep(r, q))

FairSpec == Spec /\ Fairness
-----------------------------------------------------------------------------
(***************************************************************************)
(* Properties.                                                             *)
(***************************************************************************)

\* Every variable has the type of the state or locals it stands for; puts in
\* one window never pass the limit.
TypeOK ==
    /\ authored \subseteq Event /\ outbox \in Seq(Event)
    /\ linked \subseteq Recipient /\ sealed \in [Pusher -> SUBSET Envelope]
    /\ box \subseteq Envelope /\ puts \in 0..RateMax
    /\ {log, parked, stored, refused} \subseteq [Recipient -> SUBSET Event]
    /\ {opened, saved} \subseteq [Recipient -> SUBSET Envelope]
    /\ poll \in [Recipient -> [Poller ->
                    [stage : {"idle", "open", "ingest"},
                     items : SUBSET Envelope,
                     hand : Envelope \cup {None},
                     acks : SUBSET Envelope]]]
    /\ due \subseteq Event \X Recipient
    /\ faults \in 0..MaxFaults /\ crashes \in 0..MaxCrashes

\* The relay gives up an envelope only when its event is stored by the
\* recipient or in its inbox, with two polls at work, a crash between open and
\* ack, and envelopes that never open.  There is one exception: the poll takes
\* the error of a store for `not new' and acknowledges, so an event whose put
\* was refused, or that the error threw out of the inbox, leaves the relay
\* though no restart will find it.
DroppedIsHeld ==
    [][\A v \in box \ box' : v.ev \in stored[v.to] \cup parked[v.to] \cup refused[v.to]]_vars

\* An event is waiting for a push, is being put, is on the relay, or has
\* reached the device.
OnTheWay(e, r) ==
    \/ e \in ToSet(outbox)
    \/ \E v \in Sealed \cup box : v.to = r /\ v.ev = e
    \/ e \in stored[r] \cup parked[r]

\* What a device writes for a linked device can be lost in four ways: the push
\* that took it ends with an error, the sender restarts before it was put, the
\* receiver restarts while it is parked, or the receiver's store refuses a put.
\* No order of pushes, polls, acks and losses of acks loses it otherwise.
PushedIsOnTheWay == \A d \in due : OnTheWay(d[1], d[2])

\* An envelope that r can never open: sealed for another key, or its ratchet
\* used up before it was ingested or by a poll whose ack was lost.
Hopeless(r, v) ==
    /\ ~SealOpens(r, v)
    /\ \A q \in Poller : v # poll[r][q].hand /\ v \notin poll[r][q].acks

\* Hopeless envelopes are all that a fetch of r returns.
Clogged(r) == Cardinality({v \in box : v.to = r /\ Hopeless(r, v)}) >= FetchMax

\* An envelope is sooner or later ingested, though a fetch returns only the
\* oldest, unless it is hopeless or hopeless envelopes fill the fetch.
Delivered ==
    \A r \in Recipient, e \in Event :
        (\E v \in box : v.to = r /\ v.ev = e)
            ~> \/ e \in log[r] \cup parked[r]
               \/ Clogged(r)
               \/ \E v \in box : v.to = r /\ v.ev = e /\ Hopeless(r, v)
=============================================================================
