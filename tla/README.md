# Thunderducks: TLA+ models, checks and proofs

Thunderducks is a chat system without a central server. Every device (a *pond*)
runs `tducks`, keeps a signed, hash-linked DAG of events per room in SQLite,
exchanges events with peers over HTTP and P2P, and uses an optional relay as a
mailbox for devices that are offline. This directory holds TLA+ models of the
parts with state of their own, the TLC runs that check them, and TLAPS proofs of
every safety property that a passing run checks.

`PROJECT.json` maps every definition to the source lines it stands for and lists
runs, mutants, findings, hazards and theorems.

## 1. The system

| Part | State | Operations | What is hard about it | What makes it correct |
|---|---|---|---|---|
| Device log: `td-node/src/sync.rs`, `td-event/src/dag.rs`, `store.rs` | accepted events, a DAG per room, inbox of parked events, outbox, SQLite rows | commit_local, commit_remote, drain_inbox, pop_outbox, with_sqlite | crash or refused write in the middle of a drain; load order that is not causal | causally complete log; nothing acknowledged is lost; recovery is complete |
| Pond sync: `sync_peer`, `sync_offer`, `sync_ingest`, `send_message`, P2P listener in `rpc.rs` | the logs of all devices, the locals of running handlers | exchange with one peer, fan-out of one message, P2P frame | the lock is released across every await; lost requests and answers; restarts | an exchange that answers Ok has exchanged; convergence |
| Relay mailbox: `td-relay`, `push_outbox_to_relay`, `poll_relay_once` | envelopes, rate counter, outbox, Olm ratchet | push, put, fetch, open, ingest, ack | two pushes or polls at once; lost acks; a refused write; one-time Olm messages; limits | an envelope is given up only when its event is held or was refused by the store; delivery |
| Room registry: `td-event/src/room.rs` | per room: DAG of applied events, members | create, invite, join, leave, ban, apply, rebuild at load | events in different orders on different devices; an error after the DAG has taken the event | registry is part of the log; members follow from the DAG; a ban counts |
| Ownership: claim, recovery login, owner sessions, pair tokens in `rpc.rs`, `persist.rs` | claim in memory and on disk, session and token tables, failure counter | claim, login, logout, pair, redeem, restart | failed save, crash before the answer, expiry, caps | claim is final; lockout holds; a token works once |
| Live updates: `RoomNotify`, `stream_messages`, `wait_messages` | broadcast channel, Notify, per-stream count | insert, notify, subscribe, receive, long poll | insert and notify, snapshot and wait are separate steps | a quiet stream is current; a poll answers |
| Room keys: `td-crypto/src/e2ee.rs`, sharing and sending in `rpc.rs`, the files of `persist.rs` | outbound and inbound Megolm sessions, Olm sessions and one-time keys, the counter of `next_ts`; `e2ee.json`, `meta.json` | ensure_room_e2ee, send, share over Olm, plain export and import, restart | the lock is released between export, encryption and fan-out; exports arrive out of order; a crash or an unnoticed failed save between stamp, encrypt and commit; an import that is not saved | a sender reads its own messages; who is counted in `fanout_ok` reads the message; ratchet and time stamps do not go back |
| OTA update: the `ota_*` handlers of `rpc.rs`, `scripts/tducks-ota-apply.sh`, the systemd path unit | binary, staged file, rollback slot, `pending.json`, `ota-state.json`, lock directory | check, download, apply, rollback; the steps of the root helper | node and helper have no common lock; requests overlap; power loss and failing commands at every step | no torn binary is run or kept; the slot is what was replaced; a request takes effect |
| The way into the RPC: `RateLimitBook`, `authn_rate_middleware`, `wifi_apply`, the passkey handlers with `td-crypto/src/passkey.rs` | windows per client and path, sessions, `wifi.json`, challenges and credentials | arrive, check, handle; begin and finish of a ceremony | two locks one after the other, and the handler's own; `nmcli` runs without a lock and outlives its request; failed saves | limits hold across windows; an ended session gets no further; `wifi.json` tells the truth; a challenge works once |
| Transports: `td-net` (`peer.rs`, `frame.rs`, `noise.rs`, `quic.rs`), `start_p2p_listener`, `build_quic_tls_config` | peer table, accept loop, one task per connection, unread bytes | dial, accept, handshake, write and read a frame | frames do not align with Noise messages; connections break inside a frame; dialers that are silent or speak something else | frames arrive whole and in order; pins keep others out; one dialer does not hold up another |
| CLI, web client, SDKs, packaging | – | – | – | not modelled |

How they interact: RPC handlers share one mutex (`RpcState.inner`) around
`NodeSession`, which owns the device log, the registry and the ownership tables.
A handler that talks to a peer or to the relay releases it around each await.
Handlers that insert messages call `RoomNotify` afterwards. The registry is
derived from the log: at load from all rows, later event by event. The outbox of
the log feeds the relay push; the relay poll and the sync handlers feed
`commit_remote`. A message is encrypted with the room's Megolm session before
`commit_local`. The OTA helper is another process, started by systemd when
`pending.json` exists, and shares only files with the node. Every request passes
the rate book and then the owner check before its handler runs, each under a lock
of its own. Events that come over a P2P connection go to the same
`ingest_remote` as those of the sync handlers.

## 2. Modules

| Module | Models | Extends |
|---|---|---|
| `EventGraph` | a finite universe of events with parents, room and timestamp; tips; the sort of `missing_for_peer` and `list_all`; `CausalCore`, the largest parent-closed subset; `Past`, the ancestors of an event | – |
| `CausalLog` | **abstract** log: accepts events in causal order, and comes back from a crash with a causally complete part that contains the rows it promised | `EventGraph` |
| `DeviceNode` | `DeviceNode` of `sync.rs`, one action per drain iteration and per replayed row | `EventGraph` |
| `PondSync` | several devices; `Ingest` is the fixed point that `DeviceNode` shows a drain reaches | `EventGraph` |
| `RelayMailbox` | one sender, its recipients and the relay | `EventGraph` |
| `RoomRegistry` | logs and registries of several devices | `EventGraph` |
| `PondOwner`, `LiveFeed` | one node's tables for its clients | – |
| `RoomKeys` | the keys of one room on several devices, with their saved copies | – |
| `RpcGate` | requests in progress at one node: middleware, Wi-Fi setup, passkeys | – |
| `PeerLink` | one listener and its dialers | – |
| `OtaUpdate` | one device: node handler, helper and the files between them | – |
| `MC…` | the instances that TLC checks | the module named; `MCSessionMemory`: `PondOwner` and `LiveFeed` |
| `…Proofs` | theorems about `DeviceNode`, `PondSync`, `RelayMailbox`, `RoomRegistry`, `PondOwner`, `RpcGate`, `RoomKeys` | the module named, `TLAPS` |
| `ServiceProofs` | theorems about `OtaUpdate`, `LiveFeed` and `PeerLink` | these, `TLAPS` |

`LiveFeed` and `PeerLink` name their specifications `FeedInit`, `FeedNext`,
`FeedSpec` and `LinkInit`, `LinkNext`, `LinkSpec`, so that one module can extend
both and `OtaUpdate`. `MCSessionMemory` extends `PondOwner` and `LiveFeed`, which
have no variable in common; as interleaving them would show no more than each
alone, a behaviour moves one of the two.

Correspondence in short:

* **DeviceNode.** `events`, `dags`, `inbox`, `outbox` are the fields; `durable`
  the rows. `drain`, `rest`, `current`, `todo` are the locals of `drain_inbox`,
  of a commit and of `with_sqlite`. A commit is one `Ingest…` action by outcome
  (known, parked, rejected, admitted, put failed), followed by drain steps, one
  per loop iteration, in which the process may end. No other call runs during a
  drain, since the caller holds the mutex.
* **PondSync.** `sync[d]` and `send[d]` are the locals of the one `sync_peer`
  and the one `send_message` a device runs, with the stage between two awaits as
  program counter. A request can be lost before it is handled (`SyncFails`,
  `SendMisses`) or its answer afterwards; `SendFull` covers that the result of
  the full-DAG post is not looked at.
* **RelayMailbox.** A push is `PushTake` (pops, seals) and then one put per
  recipient and event; several pushes may be under way, since the lock is given up
  over the puts. A poll is fetch, one `PollOpen`/`PollIngest`/`PollSkip` per
  envelope, and an ack. An Olm envelope opens once per ratchet state; the saved
  ratchet is what a restart goes back to. A recipient has a log, an inbox and rows;
  `IngestFails` is the one error `ingest_event` can meet here, a put that the store
  refuses, of the event itself or in the drain after it. `PollIngest` acknowledges
  whatever came out. The history variable `refused` holds what a recipient has in
  memory only, or has dropped, since such an error. `due` holds what was written
  for a linked device and not given up since: by a push that failed
  (`PushGivesUp`), by a crash of the sender, with the parked events of a recipient
  that crashed, or by a refused put.
* **RoomRegistry.** `ApplyEvent` is `apply_event` with its early returns;
  `Commit` and `IngestRemote` are the two ways events reach registry and log.
  `Withhold` is the `?` of `membership_event` after `apply_event`: an invitation of
  a banned device has reached the registry's DAG, and the caller gets no event to
  commit. `refused` (history) names these events.
* **PondOwner.** Handlers are atomic (they hold the lock throughout). Tokens are
  fresh numbers; a code stands for its hash. `claim.json` is written through a
  temporary file and a rename, so it is old or new. The node has a data
  directory; without one nothing survives and nothing is claimed about it.
* **LiveFeed.** Messages are counted, for a snapshot shows all of them. The
  channel keeps the last `Capacity` values and marks a lag; `notify_waiters`
  wakes only polls that already wait. `Silent` names the writers that do not
  notify (`sync_peer` in the code); `due` counts the messages up to the
  last one of a writer that does.
* **RoomKeys.** A Megolm session is named after its creator and the number of
  restarts before it (a session whose save failed is gone after the next); the
  outbound side keeps the next index, the inbound side the first index it can
  read. A send stamps its message (`SendStamp`, `next_ts`), creates or exports a
  session, encrypts, saves and commits in separate steps; a save may fail
  without notice (`unsaved`), which does harm to that device if its process ends
  before a later one succeeds (`hurt`). `offered` records which exports were
  made for whom, over Olm or in the clear. A device runs several calls at once
  (`Handler`), which exclude each other only while they hold the lock
  (`Locked`). An Olm session is named by its initiator and the one-time key it
  used up. Each running call keeps what it read before an unlock (session,
  export, index) as a local; `saved` is what `e2ee.json` holds and a restart
  reads. A plain export is carried by a client from one device to another and
  outlives the exporter.
* **OtaUpdate.** Files are variables whose value is a release, `Torn` or `None`.
  The node's handler and download and the helper's program counter advance one
  file operation at a time; a failing command ends the helper where the script's
  `set -e` would, running its `trap`, and a power loss ends both without. No
  handler but `ota_rollback` looks at `pending.json`, so applies come at any time:
  while another downloads, is pending or is being installed. `StartLimitHit` is
  systemd giving up the path unit after `StartBurst` starts; `HelperKicked` is the
  handler's own `systemctl start`. History variables: `asked` (what was installed
  when the last apply was asked for), `replaced` (what the last install of an apply
  replaced), and what the properties make exceptions for: `crowded` (that apply
  came before an earlier request was finished), `spoiled` (a helper failed between
  install and clear), `rewritten` (an artifact was written again while its install
  was asked for), `orphaned` (power was lost while the lock directory existed).
* **RpcGate.** A slot of `req` is a request in progress, with what its handler
  keeps over an await. `Arrive` is the rate limit, `Gate` the rest of the
  middleware, the handler's actions follow; `Disconnect` drops a request anywhere,
  as axum does when the client goes away, and leaves a started `nmcli` running.
  One route of each kind of limit, publicness and session check stands for the
  table of routes. `wifi.json` is written in place, so a failed write may leave a
  text that reads as no configuration.
* **PeerLink.** A frame is one unit for the length and one per part of the body,
  so that a Noise message of two units cuts frames at any place. The wire is a
  sequence of units, of which the last one of a piece (a Noise message, or one
  unit of a byte stream) is marked; a connection breaks between two pieces, and
  `read_exact` reads whole pieces and leaves in `buf`, which is `read_buf`, what
  it was not asked for. `Options` are the settings of `build_quic_tls_config`,
  all combinations of them.

## 3. Runs that pass

| Run | Checks | Bounds and why they are enough |
|---|---|---|
| `node` | causal completeness, fixed point of a drain, complete recovery, served acks, parked events dropped by an error only, no row rejected when it is read back, every drain and every start comes to its end, refinement of `CausalLog` | a diamond with a reply (so that the load order is not causal) and an event with a parent in another room; 2 refused writes and 2 crashes, so that a crash can follow the recovery from another |
| `sync` | an Ok exchange has exchanged; a complete fan-out has reached its peer; no batch leaves an event parked; convergence | 3 devices in a star whose hub knows nobody; both ends write concurrently and one merges; 1 loss and 1 crash, at any stage of any exchange |
| `relay` | an event written for a linked device is stored, parked, in the outbox, under way or in the mailbox unless it was given up in a stated way; an envelope is dropped only when its event is stored or parked or was refused by the store; the poller delivers | 2 pushes, 2 polls of one device, AEAD, Olm and foreign envelopes, 2 messages through a fetch of 1 and a rate limit of 1, 2 failing requests or writes, 1 crash of either side. Two messages do not reach an error that drops a third, parked one (`rest` of `IngestFails`); the proof covers it, and the run `node` has it in detail |
| `registry` | a ban counts unless the banned device leaves; the registry is closed and, but for refused invitations and what builds on them, within the log; joining needs an invitation in the causal past | 3 devices, 9 events: a ban that is concurrent with join and leave, an invitation of the banned device that its author's registry refuses, a later event with that one as parent, which the log parks, and a join without invitation; 1 restart |
| `clients` | final claim, lockout, sessions, pairing; quiet streams have shown all that is notified, streams catch up and polls answer | ownership: 2 sessions, 2 strikes, 5 clock ticks (more than a session lives), 1 failed save, 1 restart; live updates: two writers that notify and one that does not, a channel of 2 against 4 messages and 2 of other rooms, so that it overflows |
| `ota` | no torn binary is installed or kept for rollback; rollback brings back what was replaced; a requested apply takes effect; each with the exceptions it names | 2 releases and a third whose artifact is too small; the default settings, no rollback slot and no restart, staging only; 3 applies or rollbacks that overlap at will, so that a request can come between two others; 1 failing helper or power loss at any step; 2 starts before the limit of systemd |
| `keys` | own messages and fanned-out messages are readable; neither ratchet nor readable history goes back; time stamps of a device only grow | 2 devices with two calls each at a time, so that exports overtake each other, 2 sends, so that both directions or a second message of a session occur, 1 share, 1 lost request, 1 failing save and 1 crash, after which a session can be made again; devices and calls are interchangeable, so symmetry is used, and no property is a liveness property; the bounds end every behaviour, so deadlock is not checked |
| `gate` | twice the limit at most in any window's length and no refusal without cause; ended sessions stay out; `wifi.json` agrees with the network; ceremonies complete once | 2 requests at once, loopback and remote mode; each behaviour draws one of three loads, as their state is independent: 5 requests to a path with two methods and to another, over time, so that windows restart and the book is pruned; Wi-Fi with two networks; passkeys, with sessions that end meanwhile; 1 failing save, 1 restart; requests are bounded, so deadlock is not checked |
| `link` | frames are whole and in order; only pinned dialers are heard; connections are served | 2 connections over each transport, all QUIC settings; a frame that is cut into two Noise messages and one that is too large, two frames in a row; 1 cut or failing accept; a link whose dialers are done may rest, so deadlock is not checked |

Every property of these runs has a mutant: an altered definition kept beside the
original (`Mutation of …` in the modules) under which TLC finds it violated.
Every module has a `TypeOK` (`FeedTypeOK`, `LinkTypeOK`). No run lists it, for no
plausible change of the code would break it alone; it holds when it is added to a
run, and it, or the types in the inductive invariant, is proved for every module
with proofs.

**Fairness.** `DeviceNode`: a drain and a replay are straight-line code under
the lock, and the service manager restarts the process (`packaging`).
`PondSync`: running handlers go on (their HTTP client has a timeout), and the
client calls `sync_peer` for each peer again and again; strong fairness, as a
device with a sync under way does not start another. `RelayMailbox`: the poller
of ten seconds, and a poll that has fetched goes on; nothing pushes by itself.
`LiveFeed`: handlers go on and timers fire. `PeerLink`: the listener's tasks,
which tokio runs when they can go on, and the QUIC library, which ends an idle
handshake; nothing is assumed of dialers. `OtaUpdate`: the helper goes on and
is started again while `pending.json` exists, for the path unit watches it with
`PathExists`, as long as systemd's limit on starts has not stopped the unit
(`watching`). Nothing is assumed of the node or of the owner.

## 4. Disagreements

Each of these runs checks one statement of the repository against the code, and
TLC shows a behaviour of the code that contradicts it. Quotes are in
`PROJECT.json`.

| Run | Statement | What happens |
|---|---|---|
| `registry_chat` | ingested "into DAG + room registry" | a membership event after a remote message is never applied |
| `gate_burst` | "Sliding-window counters" | windows are fixed: with a limit of 2 and a window of 2, requests at 1, 2 and 2 pass, three within one window's length; `RateHolds` and its proof say that it is never more than twice the limit |
| `keys_reboot` | sessions are kept "so history decrypts after reboot" | `import_session_olm` never saves, so a device that only received has lost them |

The models also show these smaller departures, for which no run is kept:

* a refused put leaves the event in memory; a child that is acknowledged then is
  not served after a restart (`AckedAreServed` holds while no write was refused);
* an error in `drain_inbox` drops the parked events this pass has moved to `rest`
  (`ParkedUntilError` says that nothing else does);
* `missing_for_peer` puts a reply (1 parent) before the merge (2 parents) it
  replies to, despite "parent-before-child order"; a receiver parks and drains,
  so the batch is complete all the same (`BatchesAreComplete`);
* `fanout_ok` counts a peer that parked the event and missed the full DAG;
* a poll acknowledges envelopes whose event is only parked, and those whose event
  the store refused, as `unwrap_or(false)` takes the error for an old event
  (`refused`, the exception of `DroppedIsHeld`); a push that fails or meets the
  relay's limit loses the rest of its batch, and a crash loses the outbox and what
  is parked (these are the exceptions that `due` makes);
* after a lost ack, Olm envelopes that never open again stay in the mailbox, and
  enough of them fill every fetch (`Clogged`, the exception of `Delivered`);
* an invitation of a banned device is refused after the registry's DAG has taken
  it: the event is nowhere else, the next insertion makes it a tip of the registry,
  and the author's later membership events then have a parent that no log gets,
  and stay parked in every log (`refused` and `CausalCore` in `RegistryWithinLog`);
* a banned device that leaves is no longer banned (the exception of `BanHolds`);
* two registries with equal DAGs may differ in members, and the rebuild at load
  refuses events whose parent sorts later;
* a claim whose process ends between save and answer has a code nobody has seen
  (`ClaimUnanswered`);
* `sync_peer` wakes no stream, though `docs/harness.md:60` says peer sync "wakes
  SSE"; its messages show with the next notified one (`StreamIsCurrent` speaks of
  `due`);
* a change between the snapshot of a long poll and its wait is noticed at the
  deadline only;
* `ota_apply` does not look at `pending.json`: a second one of the same release
  truncates the file that the helper copies (`rewritten`, the exception of
  `BinaryIsWhole`), and a second one while the helper runs may be removed by the
  helper's clear (`crowded`, in `ApplyTakesEffect`);
* `ota_check` and `ota_apply` overwrite `ota-state.json` and with it the
  `installed_version` and `previous_*` the helper wrote, and the rollback's
  read-modify-write can restore an old `installed_version`;
* a power loss leaves the helper's `.apply.lock` for ever, a fault between install
  and clearing the request makes the rerun overwrite the rollback slot with the
  new binary, and an artifact that is too small stays pending; in the first and the
  last case the path unit starts the helper until systemd stops the unit
  (`ApplyTakesEffect` and `RollbackRestores` name these exceptions);
* two overlapping calls of one device, or a plain export during a fan-out, can
  make the later of two exports arrive first, after which the earlier message is
  not readable (`Overtaken`, the exception of `FanoutIsReadable`);
* `import_session` takes a key without the outbound session, and
  `import_session_olm` takes both: a device that was first given a later key in
  the clear and then an earlier outbound session cannot read what it sends with it
  (the second exception of `OwnIsReadable`);
* Olm sessions that both sides establish at once, or that one side lost in a
  restart, do not open each other's messages, since an existing session is
  always preferred: both keep refusing;
* after a save of `e2ee.json` that failed unnoticed, a crash rolls the ratchet
  back; a peer that holds a later key takes the older outbound session over and
  may not read what it sends itself (`hurt` is the first exception of
  `OwnIsReadable`; `FanoutIsReadable` speaks of the time before a restart);
* the key of the rate book is client and path, so that `GET /v1/claim` uses up the
  limit of `POST /v1/claim`, and a restart empties the book;
* a session that ends between middleware and handler is noticed by handlers that
  look again (`wifi_apply`) and not by the others (passkeys);
  `docs/ota-wifi.md:10` calls `GET /v1/wifi` public, `is_public_path` does not;
* two overlapping applies of Wi-Fi, or the `nmcli` of a dropped request, can leave
  a `wifi.json` that is ok for another network than the one connected
  (`WifiAgrees` names the exception), and `wifi_apply` answers `persisted: true`
  although its last save failed;
* passkey challenges do not expire and a `sign_count` that goes back is accepted;
* `upsert_peer` puts `td://` before `td-noise://` and `td-quic://` addresses, which
  then do not resolve, and `send_message` dials every peer over plain TCP: no node
  delivers by P2P to a Noise or QUIC listener;
* one failed or idle QUIC handshake ends the QUIC listener and a failed `accept`
  the TCP listener (`loop = "ended"`, the exception of `Served`); a QUIC dialer
  that drops its connection after the write may lose the event; the Noise writer
  does not refuse a frame that the reader will;
* `TD_QUIC_MTLS` has no effect with an identity in memory and no pins.

## 5. Proofs

All constants are arbitrary, under the assumptions named in the modules: parents
are events and hash links have no cycle (`FieldsAssumption`,
`AcyclicAssumption` of `EventGraph`); `None` is not a value it stands beside;
peers, recipients and routes are from their sets; limits, windows and lives are
positive, and the time after which the rate book may prune is no shorter than a
window (`GateAssumption`; 120 and 60 seconds in the code); bounds are naturals.
TLC evaluates the assumptions in every run. The facts about parent-closed sets
(`CausalCore` is the largest closed part; inserting an event whose parents are
there keeps a set closed) stand in the modules that use them.

**DeviceNodeProofs.** `TypeCorrect` first, since the other parts use it primed.
The safety properties are not inductive; the strengthening is

    IInv == TypeOK /\ LogInv /\ FrameInv /\ ReplayCover /\ QueueInv
            /\ StoreInv /\ AckInv /\ OutboxIsOwn

* `LogInv`: the log is parent-closed, every DAG is the log's part of its room,
  and the parents of logged and stored events are in their own room: this is why
  `RoomDag::ingest` accepts a row that is read back.
* `FrameInv`: which locals are live in which context, for example that no drain
  runs while the node is down.
* `ReplayCover`: during a replay every row is in the log, in the inbox, in `rest`
  or still to come. With the next part it gives `RecoveryComplete`: when the
  replay ends, what is left parked is blocked, so the log contains `CausalCore`
  of the rows.
* `QueueInv`: in a pass without progress so far, everything in `rest` is
  blocked. It turns the last pass into the fixed point of `ParkedAreBlocked`.
* `StoreInv`: until a write is refused the rows are parent-closed and equal the
  log of a node that is up.
* `AckInv`: acknowledged events, and the one about to be, have rows.

Steps are classified by their effect on log and store (`StableStep`,
`VolatileStep`, `ForgetStep`, `QuietStep`); each lemma handles the class instead
of every action. From `IInv` follow the invariants of the run `node`, the action
property `ParkedUntilError`, and `Refinement`: under the mapping of
`ImplementsCausalLog` every step is a step of `CausalLog` or a stutter. Some
consequences are theorems of their own and not properties of a run: the
rows stay causal (`StoreStaysCausal`), what was acknowledged has a row
(`AcknowledgedIsDurable`), the outbox holds own logged events
(`OutboxIsSound`), a replay is never refused (`ReplayIsAccepted`), and what a
node shows is `CausalCore` of all events it holds, so that the order in which
they arrived does not matter (`ArrivalOrderIsIrrelevant`, which also justifies
that `Ingest` of `PondSync` is one step). The last one and `RecoveryComplete`
share the lemma `CoreIsAccepted`: a closed set of accepted and parked events
that is not accepted altogether has, as hash links have no cycle, a member whose
parents are all accepted, and that one cannot be parked.

**RoomRegistryProofs.** `IInv == TypeOK /\ LogsClosed /\ LoadsLog /\
RegistryWithinLog`; `LogsClosed` is needed because ingest applies an event as
soon as the log has its parents, `LoadsLog` because a rebuild applies only rows.
An event that builds on a refused one can be in the registry and not in the log;
`CoreAfterInsert` says that it does not enter the `CausalCore` of the rest.
`BansHold` follows from one fact about `apply_event` (`ApplyBan`): no accepted event
but a leave takes `banned` from a member, and a registry without a room is empty.
`MembersWereInvited` needs more: `apply_event` takes any join, so the invitation
must follow from what authors sign. `MemberInv`: the grounds of an invited or
joined member lie at or below the tips of the registry that says so (`Grounded`),
for these tips become the parents of the member's join, and every join that anybody
holds has grounds in its past (`JoinSound`). It rests on `TipsReachAll`: a closed
set with the tips of a finite set has all of it, which `FiniteHasTip` derives from
a well-founded order (finite subsets under inclusion) instead of an induction.

**PondSyncProofs.** Handlers act on snapshots that are stale. The invariant says
what stays true of them: logs are parent-closed (`LogsClosed`) and grow, so that
what a `sync_peer` has read stays in the log it came from, and `have` with
`missing` is closed (`SyncSound`); a `send_message` has served every peer that is
neither left nor cut off (`SendSound`). `BatchesComplete` is the action property:
a closed batch over a closed log leaves nothing parked.

**RelayMailboxProofs.** `RelayInv` adds to `PushedIsOnTheWay` that every poll has
fetched envelopes of its own device only and has marked for an ack only what the
device has stored, parked or refused (`PollSound`); that what a device has in its
log is stored or refused and nothing refused is due (`NodeSound`), so that the
accepted parents of a due event do not hide a loss; that only written events come
up (`Written`); and that events are due to linked devices only (`DueLinked`), since
a push seals for these. `IngestTakes` and `FailureTakes` say what the two outcomes
of `ingest_event` do to log, inbox, rows and `refused`, for any batch of drained
events. A restart of the recipient ends its polls, without which `PollSound` would
not survive the loss of parked events.

**PondOwnerProofs.** `TypeInv` adds to the types that tokens in the tables are
older than the next one. `PairInv`: a token stands once in its table, and one that
has linked a device is marked or gone. `LockInv`: the tries are in order, and those
that no longer count in `failures` ended in a lockout that began at a known try.

**RpcGateProofs.** One invariant per property. `SessionInv`: the token of a waiting
request was minted before it came, so that it is valid now only if it was valid
then. `WifiInv`: until applies overlap there is one `nmcli` and one waiting request
at most, the same, and meanwhile `wifi.json` does not say ok. `CeremonyInv`: a
challenge that can still be answered has completed nothing, and every credential
comes from a completed registration. `RateInv` relates the book to the requests
that passed lately (a history): the window of a key counts what passed since it
began, what passed since and what passed before it fit under any limit on their own
(`WindowFits`), and so does all that is left of a key whose window the book has
forgotten (`RestFits`).

**RoomKeysProofs.** `TypeInv` is `TypeOK` and a bound on all time stamps
(`Within`). `RatchetOnlyAdvances` needs no more. `StampInv`: of the calls of a
device one at most is between stamp and commit, its stamp is the counter and
later than all own messages in the log, and the counter is never behind these.
`KeyInv`, for `OwnMessagesReadable`: in memory and in `e2ee.json` alike, a
device with an outbound session can open what that will send or was given a
later key in the clear, and a device without one was given keys in the clear
only (`Held`); own messages open with the sessions in memory, and with those on
disk unless a save is outstanding (`OwnOpens`). `FanInv`: every index at which a
device can begin to read is 0 or was offered to it (`Sourced`), and a call whose
message reached the peer has offered its key there. The calls are functions of
functions of records, which is why most of this module is about one call
changing and the others not.

**ServiceProofs, OtaUpdate.** Nothing is assumed of the owner or of the order of
requests. The invariant is `TypeOK /\ OtaInv`. `JobIsAsked`: while the helper works
something is pending, and only an apply can have overwritten its job. `SlotKeeps`:
the slot is what the last install of an apply replaced, except while an apply is
asked for, and then the helper's stage says which of the two it is; this gives
`RollbackRestores` for any overlap. `ReplacedIsAsked`: without overlap and failure
after the install, that is what was installed at the request. `SourceIsWhole`:
until a release is applied again under the helper's hands, the artifacts that are
asked for or being installed are whole, and so are the binary and the one it
replaced; with `SlotKeeps` the slot is whole whenever nothing is pending.

**ServiceProofs, LiveFeed.** `StreamIsCurrent` speaks of a stream whose channel is
empty; the strengthening `FeedInv` says what holds while it is not: whatever a
stream in its loop has not shown yet is announced by a writer between insert and
notify, by a value of this room in the stream's channel, or by the mark that
values were dropped (`Followed`, `Announced`). `ReceivedAnnounces` is the lemma
about the broadcast channel: a send keeps what was announced, also when it drops
the oldest value. A value of another room may be read without a snapshot, since
it announces nothing.

**ServiceProofs, PeerLink.** `LinkInv` says of every connection in which `Stage` it
is (not dialed, first or third handshake message awaited, plain frames, a plain
dialer at a Noise listener, over) and what is on the wire then. In the stage of
plain frames, what is left in `buf` and on the wire (`Stock`) goes on with the
frames that were written and not handed on yet: `Follows`. A definition of that
by recursion over the frames would need an induction; instead `Follows` says
that there is a function giving the place where every frame begins (`Placed`). A
write extends this function (`FollowsFrame`), a read shifts it (`FollowsHead`,
`FollowsBody`), and a break needs no change, for frames may begin beyond the end
once the dialer is gone (`FollowsPrefix`). The lemma `ReadOf` is about
`read_exact`: whether it is served from `buf` or from further pieces, `Stock`
loses exactly the units that were asked for. TLC has checked `LinkInv` on the
instance of the run `link`. For `PinnedPeersOnly`, `PinInv` says that whoever is
past the TLS handshake, or was heard, passed `PinAllowed`, and the options do
not change.

## 6. Only model-checked

Liveness (`NeverStuck`, `Converges`, `Delivered`, `StreamCatchesUp`,
`WaitAnswers`, `ApplyTakesEffect`, `Served`), for the prover has no fairness.
Every other property of a passing run is proved.

## 7. Not modelled

Signatures, hashes and encodings (events are values; a forged event is one that
`DagAccepts` refuses); the inside of QUIC, Noise and TLS (handshakes are
messages that succeed or fail); the link of two devices, which is a pair of
signatures without protocol state (the set of linked devices is a variable of
`RelayMailbox`); the full table of RPC paths (one of each kind is in `RpcGate`);
node-to-node requests that are refused because they carry no owner token, which
are lost requests of `PondSync`; configuration; the CLI, the web client and the
SDKs, whose retries are requests to the modelled handlers. Cryptography is
ideal: a message opens for who holds the right session state and for nobody
else. Of the file system the models assume that a completed write and a rename
survive a power loss, that the small JSON files are written whole (a copied
binary can be torn), and that systemd runs one helper at a time.

## 8. Plan

Done: the models of all parts named in section 1; the proofs of section 5. Left:
`PondSync` with the registry, to say under which order of events members
converge when logs do.
