----------------------------- MODULE DeviceNode -----------------------------
(***************************************************************************)
(* DeviceNode of td-node (sync.rs): the event log of one device, with its  *)
(* per-room DAGs, its inbox of events that wait for a parent, its outbox   *)
(* for the relay and its SQLite log.                                       *)
(*                                                                         *)
(* The node is owned by one mutex, so calls do not interleave.  What can   *)
(* happen at any point is the end of the process: drain_inbox is therefore *)
(* one action per loop iteration, and with_sqlite one action per replayed  *)
(* event, so that a crash may fall between any two writes to the store.    *)
(* An admission (RoomDag::ingest, events.insert, store.put) is one action: *)
(* of the three only the put outlives a crash.                             *)
(***************************************************************************)
EXTENDS EventGraph, Sequences, Functions

CONSTANTS
    Own,         \* the events this device may author
    None,        \* no event: a call that owes nobody an answer
    MaxFaults,   \* bound: how often the store may refuse a write
    MaxCrashes   \* bound: how often the process may end

ASSUME NodeAssumption ==
    /\ Own \subseteq Event
    /\ None \notin Event
    /\ MaxFaults \in Nat
    /\ MaxCrashes \in Nat

VARIABLES
    ctx,       \* "down", "replay" (inside with_sqlite) or "up"
    events,    \* accepted events
    dags,      \* the RoomDag of every room, as its set of events
    inbox,     \* events that wait for a parent, oldest first
    outbox,    \* local events for the relay, oldest first
    durable,   \* rows of events.sqlite
    todo,      \* events of list_all that with_sqlite has still to replay
    drain,     \* where drain_inbox stands, see below
    rest,      \* drain_inbox: events of this pass that still wait
    current,   \* the event of the running commit call
    minted,    \* history: own events signed so far
    acked,     \* history: events whose commit call returned Ok(true)
    faults,    \* number of refused writes so far
    crashes    \* number of crashes so far

memory  == <<events, dags, inbox, outbox>>
frame   == <<todo, drain, rest, current>>
history == <<minted, acked>>
bounds  == <<faults, crashes>>
vars    == <<ctx, memory, durable, frame, history, bounds>>

\* drain is "pass" inside drain_inbox while the local `progress` is false and
\* "progress" once it is true.  Outside it is "off", or "cut" when an error
\* kept the last admission from a full drain.
Draining == drain \in {"pass", "progress"}

EmptyDags == [r \in Room |-> {}]

Init ==
    /\ ctx = "down"
    /\ events = {} /\ dags = EmptyDags /\ inbox = <<>> /\ outbox = <<>>
    /\ durable = {}
    /\ todo = {} /\ drain = "off" /\ rest = <<>> /\ current = None
    /\ minted = {} /\ acked = {}
    /\ faults = 0 /\ crashes = 0

Idle == ctx = "up" /\ ~Draining

\* Every parent is an accepted event, of whatever room.
ParentsKnown(e) == ParentsOf[e] \subseteq events

\* Mutation of DagAccepts: the DAG takes an event without looking for parents.
DagAcceptsAny(e) == e \in Event

\* RoomDag::ingest succeeds: every parent is in the DAG of the event's room.
DagAccepts(e) == ParentsOf[e] \subseteq dags[RoomOf[e]]

\* The process forgets everything it does not read back from the store.
Forget ==
    /\ ctx' = "down"
    /\ events' = {} /\ dags' = EmptyDags /\ inbox' = <<>> /\ outbox' = <<>>
    /\ todo' = {} /\ drain' = "off" /\ rest' = <<>> /\ current' = None

\* RoomDag::ingest, then events.insert.
InsertInMemory(e) ==
    /\ dags' = [dags EXCEPT ![RoomOf[e]] = @ \cup {e}]
    /\ events' = events \cup {e}

StoreRefuses == faults < MaxFaults /\ faults' = faults + 1

\* Why a known-parents event makes ingest_event fail: RoomDag::ingest reports
\* a missing parent or, if it does not, the store refuses the row.
ErrorExit(e) == IF DagAccepts(e) THEN StoreRefuses ELSE UNCHANGED faults
-----------------------------------------------------------------------------
(***************************************************************************)
(* ingest_event, one action per exit.  Known and Park return Ok(false) and *)
(* Reject an error; Admit goes on to drain_inbox; PutFails is the error    *)
(* exit after the event is in memory.                                      *)
(***************************************************************************)
IngestKnown(e) ==
    /\ e \in events
    /\ UNCHANGED <<ctx, memory, durable, drain, rest, current, acked, faults>>

\* Mutation of IngestPark: an event with a missing parent is dropped.
IngestParkDrops(e) ==
    /\ e \notin events
    /\ ~ParentsKnown(e)
    /\ UNCHANGED <<ctx, memory, durable, drain, rest, current, acked, faults>>

IngestPark(e) ==
    /\ e \notin events
    /\ ~ParentsKnown(e)
    /\ inbox' = IF e \in Range(inbox) THEN inbox ELSE Append(inbox, e)
    /\ UNCHANGED <<ctx, events, dags, outbox, durable, drain, rest, current,
                   acked, faults>>

\* Mutation of IngestReject: the row is put before the DAG is asked.
IngestRejectStores(e) ==
    /\ e \notin events
    /\ ParentsKnown(e)
    /\ ~DagAccepts(e)
    /\ durable' = durable \cup {e}
    /\ UNCHANGED <<ctx, memory, drain, rest, current, acked, faults>>

IngestReject(e) ==
    /\ e \notin events
    /\ ParentsKnown(e)
    /\ ~DagAccepts(e)
    /\ UNCHANGED <<ctx, memory, durable, drain, rest, current, acked, faults>>

IngestAdmit(e, toOutbox) ==
    /\ e \notin events
    /\ ParentsKnown(e)
    /\ DagAccepts(e)
    /\ InsertInMemory(e)
    /\ durable' = durable \cup {e}
    /\ outbox' = IF toOutbox THEN Append(outbox, e) ELSE outbox
    /\ drain' = "pass" /\ rest' = <<>> /\ current' = e
    /\ UNCHANGED <<ctx, inbox, acked, faults>>

IngestPutFails(e) ==
    /\ e \notin events
    /\ ParentsKnown(e)
    /\ DagAccepts(e)
    /\ StoreRefuses
    /\ InsertInMemory(e)
    /\ drain' = "cut"
    /\ UNCHANGED <<ctx, inbox, outbox, durable, rest, current, acked>>
-----------------------------------------------------------------------------
(***************************************************************************)
(* The callers of ingest_event.                                            *)
(***************************************************************************)

\* commit_local: the RPC handlers sign an event whose parents are the tips of
\* its room and commit it under the same lock.
CommitLocal(e) ==
    /\ Idle
    /\ e \in Own \ minted
    /\ ParentsOf[e] = TipsOf(dags[RoomOf[e]])
    /\ minted' = minted \cup {e}
    /\ IngestAdmit(e, TRUE) \/ IngestPutFails(e)
    /\ UNCHANGED <<todo, crashes>>

\* commit_remote: any event that exists may arrive, at any time, any number of
\* times and in any order, from P2P, the relay or a sync batch.
CommitRemote(e) ==
    /\ Idle
    /\ ({e} \cup Past(e)) \cap Own \subseteq minted
    /\ \/ IngestKnown(e)
       \/ IngestPark(e)
       \/ IngestReject(e)
       \/ IngestAdmit(e, FALSE)
       \/ IngestPutFails(e)
    /\ UNCHANGED <<todo, minted, crashes>>

PopOutbox ==
    /\ Idle
    /\ outbox # <<>>
    /\ outbox' = Tail(outbox)
    /\ UNCHANGED <<ctx, events, dags, inbox, durable, frame, history, bounds>>

\* Mutation of Restart: the store is read up to the first sort key only.
RestartPartial ==
    /\ ctx = "down"
    /\ ctx' = "replay"
    /\ todo' = FirstOf(durable)
    /\ UNCHANGED <<memory, durable, drain, rest, current, history, bounds>>

\* with_sqlite: open the store and read all of it.
Restart ==
    /\ ctx = "down"
    /\ ctx' = "replay"
    /\ todo' = durable
    /\ UNCHANGED <<memory, durable, drain, rest, current, history, bounds>>

\* with_sqlite: replay one event, in the order of list_all, without outbox.
Replay(e) ==
    /\ ctx = "replay" /\ ~Draining
    /\ e \in FirstOf(todo)
    /\ todo' = todo \ {e}
    /\ IngestKnown(e) \/ IngestPark(e) \/ IngestAdmit(e, FALSE)
    /\ UNCHANGED <<minted, crashes>>

\* with_sqlite: an error of ingest_event is passed on and the node is dropped.
ReplayFails(e) ==
    /\ ctx = "replay" /\ ~Draining
    /\ e \in FirstOf(todo)
    /\ e \notin events /\ ParentsKnown(e)
    /\ ErrorExit(e)
    /\ Forget
    /\ UNCHANGED <<durable, history, crashes>>

\* Mutation of ReplayDone: the node serves requests before the replay ends.
ReplayDoneEarly ==
    /\ ctx = "replay" /\ ~Draining
    /\ ctx' = "up"
    /\ todo' = {}
    /\ UNCHANGED <<memory, durable, drain, rest, current, history, bounds>>

ReplayDone ==
    /\ ctx = "replay" /\ ~Draining
    /\ todo = {}
    /\ ctx' = "up"
    /\ UNCHANGED <<memory, durable, frame, history, bounds>>

Crash ==
    /\ ctx # "down"
    /\ crashes < MaxCrashes
    /\ crashes' = crashes + 1
    /\ Forget
    /\ UNCHANGED <<durable, history, faults>>
-----------------------------------------------------------------------------
(***************************************************************************)
(* drain_inbox, one action per iteration of its inner loop and one for the *)
(* end of a pass.                                                          *)
(***************************************************************************)
DrainSkip ==
    /\ Draining /\ inbox # <<>>
    /\ Head(inbox) \in events
    /\ inbox' = Tail(inbox)
    /\ UNCHANGED <<ctx, events, dags, outbox, durable, frame, history, bounds>>

\* Mutation of DrainKeep: putting an event back counts as progress.
DrainKeepProgresses ==
    /\ Draining /\ inbox # <<>>
    /\ Head(inbox) \notin events
    /\ ~ParentsKnown(Head(inbox))
    /\ inbox' = Tail(inbox)
    /\ rest' = Append(rest, Head(inbox))
    /\ drain' = "progress"
    /\ UNCHANGED <<ctx, events, dags, outbox, durable, todo, current, history,
                   bounds>>

DrainKeep ==
    /\ Draining /\ inbox # <<>>
    /\ Head(inbox) \notin events
    /\ ~ParentsKnown(Head(inbox))
    /\ inbox' = Tail(inbox)
    /\ rest' = Append(rest, Head(inbox))
    /\ UNCHANGED <<ctx, events, dags, outbox, durable, todo, drain, current,
                   history, bounds>>

\* Mutation of DrainAdmit: `progress` is not set, so there is one pass only.
DrainAdmitOnePass ==
    /\ Draining /\ inbox # <<>>
    /\ Head(inbox) \notin events
    /\ ParentsKnown(Head(inbox)) /\ DagAccepts(Head(inbox))
    /\ InsertInMemory(Head(inbox))
    /\ durable' = durable \cup {Head(inbox)}
    /\ inbox' = Tail(inbox)
    /\ UNCHANGED <<ctx, outbox, todo, drain, rest, current, history, bounds>>

DrainAdmit ==
    /\ Draining /\ inbox # <<>>
    /\ Head(inbox) \notin events
    /\ ParentsKnown(Head(inbox)) /\ DagAccepts(Head(inbox))
    /\ InsertInMemory(Head(inbox))
    /\ durable' = durable \cup {Head(inbox)}
    /\ inbox' = Tail(inbox)
    /\ drain' = "progress"
    /\ UNCHANGED <<ctx, outbox, todo, rest, current, history, bounds>>

\* The `?` exits of drain_inbox.  The popped event and the pass-local deque
\* rest are dropped; the part of the inbox not yet looked at stays.
DrainError ==
    /\ inbox' = Tail(inbox)
    /\ rest' = <<>>
    /\ drain' = "cut"
    /\ current' = None
    /\ UNCHANGED <<ctx, outbox, durable, todo, history, crashes>>

DrainReject ==
    /\ Draining /\ inbox # <<>>
    /\ Head(inbox) \notin events
    /\ ParentsKnown(Head(inbox)) /\ ~DagAccepts(Head(inbox))
    /\ ctx = "up"
    /\ DrainError
    /\ UNCHANGED <<events, dags, faults>>

DrainPutFails ==
    /\ Draining /\ inbox # <<>>
    /\ Head(inbox) \notin events
    /\ ParentsKnown(Head(inbox)) /\ DagAccepts(Head(inbox))
    /\ ctx = "up"
    /\ StoreRefuses
    /\ InsertInMemory(Head(inbox))
    /\ DrainError

\* The same exits during a replay end with_sqlite.
DrainFailsReplay ==
    /\ Draining /\ inbox # <<>>
    /\ Head(inbox) \notin events
    /\ ParentsKnown(Head(inbox))
    /\ ctx = "replay"
    /\ ErrorExit(Head(inbox))
    /\ Forget
    /\ UNCHANGED <<durable, history, crashes>>

\* Mutation of DrainPass: `self.inbox = rest` is missing.
DrainPassDropsRest ==
    /\ Draining /\ inbox = <<>>
    /\ inbox' = <<>> /\ rest' = <<>>
    /\ drain' = "off"
    /\ current' = None
    /\ acked' = IF ctx = "up" THEN acked \cup {current} ELSE acked
    /\ UNCHANGED <<ctx, events, dags, outbox, durable, todo, minted, bounds>>

\* End of a pass: `self.inbox = rest`, and another pass if this one admitted
\* anything.  With the last pass ingest_event returns Ok(true).
DrainPass ==
    /\ Draining /\ inbox = <<>>
    /\ inbox' = rest
    /\ rest' = <<>>
    /\ \/ /\ drain = "progress"
          /\ drain' = "pass"
          /\ UNCHANGED <<current, acked>>
       \/ /\ drain = "pass"
          /\ drain' = "off"
          /\ current' = None
          /\ acked' = IF ctx = "up" THEN acked \cup {current} ELSE acked
    /\ UNCHANGED <<ctx, events, dags, outbox, durable, todo, minted, bounds>>

Drain == DrainSkip \/ DrainKeep \/ DrainAdmit \/ DrainReject \/ DrainPutFails
             \/ DrainFailsReplay \/ DrainPass

ReplayStep == ReplayDone \/ \E e \in todo : Replay(e) \/ ReplayFails(e)

Next ==
    \/ \E e \in Event : CommitLocal(e) \/ CommitRemote(e)
    \/ PopOutbox
    \/ Restart
    \/ ReplayStep
    \/ Drain
    \/ Crash

Spec == Init /\ [][Next]_vars

\* drain_inbox and with_sqlite are straight-line code that holds the node's
\* lock, and the service manager starts a process that ended.
Fairness == WF_vars(Drain) /\ WF_vars(ReplayStep) /\ WF_vars(Restart)

FairSpec == Spec /\ Fairness
-----------------------------------------------------------------------------
(***************************************************************************)
(* Properties.                                                             *)
(***************************************************************************)

\* Every variable has the type of the Rust field or local it stands for.
TypeOK ==
    /\ ctx \in {"down", "replay", "up"}
    /\ events \in SUBSET Event
    /\ dags \in [Room -> SUBSET Event]
    /\ inbox \in Seq(Event)
    /\ outbox \in Seq(Event)
    /\ durable \in SUBSET Event
    /\ todo \in SUBSET Event
    /\ drain \in {"off", "pass", "progress", "cut"}
    /\ rest \in Seq(Event)
    /\ current \in IF Draining THEN Event ELSE {None}
    /\ minted \in SUBSET Own
    /\ acked \in SUBSET Event
    /\ faults \in 0..MaxFaults
    /\ crashes \in 0..MaxCrashes

\* What the node shows is causally complete at every moment, also between two
\* iterations of drain_inbox and in the middle of a replay whose load order
\* is not parents-first: an accepted event has all its parents accepted, and
\* in the DAG of its own room.
CausallyComplete ==
    \A e \in events : \A p \in ParentsOf[e] :
        p \in events /\ p \in dags[RoomOf[e]]

\* drain_inbox reaches its fixed point: when a call has returned and no error
\* cut its drain short, no parked event could be accepted.
ParkedAreBlocked ==
    ctx = "up" /\ drain = "off" => \A e \in Range(inbox) : ~ParentsKnown(e)

\* The order of arrival does not matter: when a call has returned and no error
\* cut its drain short, the accepted events are exactly those, among all that
\* the node holds, whose ancestors it holds too.
ShownIsCore ==
    ctx = "up" /\ drain = "off" => events = CausalCore(events \cup Range(inbox))

\* A restart brings back the history: when with_sqlite has replayed the last
\* row, the accepted events are exactly the stored events whose ancestors are
\* all stored, though list_all loads some children before their parents.
RecoveryComplete ==
    ctx = "replay" /\ ~Draining /\ todo = {} => events = CausalCore(durable)

\* An event whose commit call answered Ok(true) is stored, whatever crashes
\* and store errors follow.
AckedAreDurable == acked \subseteq durable

\* The store can always rebuild what was acknowledged: as long as no write
\* was refused, a crash at any point leaves a parent-closed set of rows.
StoreIsCausal == faults = 0 => ParentClosed(durable)

\* As long as no write was refused, an acknowledged event is served whenever
\* the node is up, after any crash and replay.
AckedAreServed == Idle /\ faults = 0 => acked \subseteq events

\* The relay outbox holds events this device authored, each once, and only
\* events the store already has: a remote or replayed event is never echoed.
OutboxIsOwn ==
    /\ Range(outbox) \subseteq minted \cap durable
    /\ \A i, j \in 1..Len(outbox) : outbox[i] = outbox[j] => i = j

\* A stored event is never rejected when it is read back, so a stored log
\* cannot keep the node from starting.
ReplayNeverRejects ==
    ctx = "replay" =>
        \A e \in todo \cup Range(inbox) \cup Range(rest) :
            ParentsKnown(e) => DagAccepts(e)

\* While the process lives, only an error inside drain_inbox drops a parked
\* event that has not been accepted.
ParkedUntilError ==
    [][ctx = "up" /\ ctx' = "up" =>
        \/ Range(inbox) \cup Range(rest)
               \subseteq Range(inbox') \cup Range(rest') \cup events'
        \/ Draining /\ drain' = "cut"]_vars

\* Nothing keeps the node busy for ever: no stored log keeps it down or
\* replaying after a crash, and no order of parked events keeps a drain, of a
\* call or of the replay, from ending.
NeverStuck == <>[](ctx = "up") /\ (Draining ~> ~Draining)

\* The abstract log: what is accepted while the node is up, and what is stored.
Log == INSTANCE CausalLog
           WITH status <- IF ctx = "up" THEN "up" ELSE "down",
                log <- IF ctx = "up" THEN events ELSE {},
                stable <- durable

\* Drain loop, parking and replay together implement the abstract log.
ImplementsCausalLog == Log!CLSpec
=============================================================================
