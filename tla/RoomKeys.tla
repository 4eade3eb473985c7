------------------------------ MODULE RoomKeys ------------------------------
(***************************************************************************)
(* The keys of one room: Megolm sessions that devices create, send with,   *)
(* hand to each other over Olm, and keep in e2ee.json (e2ee.rs; the send   *)
(* path, share_megolm_olm_to_peer and import_session_olm in rpc.rs).       *)
(*                                                                         *)
(* A Megolm session is named after the device that created it and the      *)
(* number of crashes there were: a device has created at most one since it *)
(* started.  A ciphertext is its session and index; an outbound session is *)
(* a session and its next index, an inbound one the first index it can     *)
(* open.                                                                   *)
(* An Olm session is named after its initiator and the one-time key used.  *)
(* Message events also reach devices by sync; here only who can read them  *)
(* is of interest, and the time stamps that next_ts gives them.            *)
(***************************************************************************)
EXTENDS Integers, FiniteSets

CONSTANTS
    Device,
    Handler,     \* send_message and share_session calls a device runs at once
    MaxSends,    \* bound on messages
    MaxShares,   \* bound on calls of share_session and trust_olm_keys
    MaxLosses,   \* bound on requests that fail
    MaxFaults,   \* bound on writes of e2ee.json and meta.json that fail
    MaxCrashes,
    None

VARIABLES
    outbound,    \* outbound_megolm of the room
    inbound,     \* inbound_megolm
    olm,         \* olm_sessions
    otks,        \* one-time keys the account can still be reached with
    saved,       \* e2ee.json
    ts,          \* ts_counter
    meta,        \* ts_counter of meta.json
    log,         \* messages in the device's log
    call,        \* locals of the running handlers
    published,   \* one-time keys handed out, over all devices
    unsaved,     \* history: the last write of e2ee.json failed
    hurt,        \* history: the process ended before that was made good
    offered,     \* history: the exports made for the device, and of which message
    sends, shares, losses, faults, crashes

keys   == <<outbound, inbound, olm, otks>>
stamps == <<ts, meta>>
harm   == <<unsaved, hurt, faults>>
bounds == <<sends, shares, losses, crashes>>
vars   == <<keys, stamps, saved, log, call, published, offered, harm, bounds>>

Session == Device \X (0..MaxCrashes)
Package == [session : Session, index : Nat]
Message == [by : Device, session : Session, index : Nat, ts : Nat]

ASSUME KeysAssumption ==
    /\ None \notin Device \cup Nat \cup Package \cup Message
    /\ {MaxSends, MaxShares, MaxLosses, MaxFaults, MaxCrashes} \subseteq Nat

Idle == [stage |-> "idle"]

\* An export of the session at the index of m: in the clear, or over Olm.
Offer(m, clear) == [session |-> m.session, index |-> m.index, clear |-> clear]

Fresh == [outbound |-> None, inbound |-> [s \in Session |-> None],
          olm |-> [p \in Device |-> None], otks |-> {}]

Init ==
    /\ outbound = [d \in Device |-> None]
    /\ inbound = [d \in Device |-> Fresh.inbound]
    /\ olm = [d \in Device |-> Fresh.olm]
    /\ otks = [d \in Device |-> {}]
    /\ saved = [d \in Device |-> Fresh]
    /\ ts = [d \in Device |-> 1] /\ meta = [d \in Device |-> 1]
    /\ log = [d \in Device |-> {}]
    /\ call = [d \in Device |-> [h \in Handler |-> Idle]]
    /\ published = 0
    /\ unsaved = [d \in Device |-> FALSE] /\ hurt = [d \in Device |-> FALSE]
    /\ offered = [d \in Device |-> {}]
    /\ faults = 0 /\ sends = 0 /\ shares = 0 /\ losses = 0 /\ crashes = 0

\* megolm_decrypt succeeds.
Readable(d, m) ==
    inbound[d][m.session] # None /\ inbound[d][m.session] <= m.index

\* A handler of d holds the node's lock between two writes.
Locked(d) == \E h \in Handler : call[d][h].stage \in {"stamped", "commit"}

\* persist_e2ee, with the Megolm sessions as this step leaves them and the Olm
\* sessions as it finds them: no caller has touched these before the save.
\* That the save fails is ignored.
PersistE2ee(d) ==
    \/ /\ saved' = [saved EXCEPT ![d] = [outbound |-> outbound'[d],
                                         inbound |-> inbound'[d],
                                         olm |-> olm[d], otks |-> otks[d]]]
       /\ unsaved' = [unsaved EXCEPT ![d] = FALSE]
       /\ UNCHANGED <<hurt, faults>>
    \/ /\ faults < MaxFaults /\ faults' = faults + 1
       /\ unsaved' = [unsaved EXCEPT ![d] = TRUE]
       /\ UNCHANGED <<saved, hurt>>

\* ensure_room_e2ee: the outbound session, and with a new one its inbound.
Ensured(d) ==
    IF outbound[d] = None THEN [session |-> <<d, crashes>>, index |-> 0] ELSE outbound[d]
EnsuredInbound(d) ==
    IF outbound[d] = None THEN [inbound[d] EXCEPT ![<<d, crashes>>] = 0] ELSE inbound[d]
EnsureRoomE2ee(d) ==
    /\ outbound' = [outbound EXCEPT ![d] = Ensured(d)]
    /\ inbound' = [inbound EXCEPT ![d] = EnsuredInbound(d)]
    /\ IF outbound[d] # None THEN UNCHANGED <<saved, harm>> ELSE PersistE2ee(d)
-----------------------------------------------------------------------------
(***************************************************************************)
(* Sending and sharing.                                                    *)
(***************************************************************************)

\* send_message takes the lock: next_ts counts and saves the counter; that
\* the save fails is ignored.
SendStamp(d, h) ==
    /\ call[d][h].stage = "idle" /\ ~Locked(d)
    /\ sends < MaxSends /\ sends' = sends + 1
    /\ ts' = [ts EXCEPT ![d] = @ + 1]
    /\ \/ meta' = [meta EXCEPT ![d] = ts'[d]] /\ UNCHANGED faults
       \/ faults < MaxFaults /\ faults' = faults + 1 /\ UNCHANGED meta
    /\ call' = [call EXCEPT ![d][h] = [stage |-> "stamped", ts |-> ts'[d]]]
    /\ UNCHANGED <<offered, keys, saved, log, published, unsaved, hurt, shares, losses, crashes>>

\* ... ensure_room_e2ee, when it has a session to create.
SendCreate(d, h) ==
    /\ call[d][h].stage = "stamped" /\ outbound[d] = None
    /\ UNCHANGED <<olm, otks>>
    /\ EnsureRoomE2ee(d)
    /\ UNCHANGED <<offered, stamps, log, call, published, bounds>>

\* The message that the package out encrypts, and the handler that fans it out.
Sending(d, h, out, pkg) ==
    [stage |-> "commit", pkg |-> pkg, todo |-> Device \ {d},
     msg |-> [by |-> d, session |-> out.session, index |-> out.index,
              ts |-> call[d][h].ts]]

\* Mutation of SendEncrypt: the moved ratchet is not saved.
SendEncryptUnsaved(d, h) ==
    LET out == outbound[d]
    IN  /\ call[d][h].stage = "stamped" /\ out # None
        /\ outbound' = [outbound EXCEPT ![d] = [out EXCEPT !.index = @ + 1]]
        /\ call' = [call EXCEPT ![d][h] = Sending(d, h, out, out)]
        /\ UNCHANGED <<offered, inbound, olm, otks, stamps, saved, log, published, harm, bounds>>

\* Mutation of SendEncrypt: the package is exported after the encryption.
SendEncryptFirst(d, h) ==
    LET out  == outbound[d]
        next == [out EXCEPT !.index = @ + 1]
    IN  /\ call[d][h].stage = "stamped" /\ out # None
        /\ outbound' = [outbound EXCEPT ![d] = next]
        /\ call' = [call EXCEPT ![d][h] = Sending(d, h, out, next)]
        /\ UNCHANGED <<inbound, olm, otks>>
        /\ PersistE2ee(d)
        /\ UNCHANGED <<offered, stamps, log, published, bounds>>

\* ... export, encrypt, save.
SendEncrypt(d, h) ==
    LET out == outbound[d]
    IN  /\ call[d][h].stage = "stamped" /\ out # None
        /\ outbound' = [outbound EXCEPT ![d] = [out EXCEPT !.index = @ + 1]]
        /\ call' = [call EXCEPT ![d][h] = Sending(d, h, out, out)]
        /\ UNCHANGED <<inbound, olm, otks>>
        /\ PersistE2ee(d)
        /\ UNCHANGED <<offered, stamps, log, published, bounds>>

\* ... commit_local and the release of the lock.
SendCommit(d, h) ==
    /\ call[d][h].stage = "commit"
    /\ log' = [log EXCEPT ![d] = @ \cup {call[d][h].msg}]
    /\ call' = [call EXCEPT ![d][h].stage = "next"]
    /\ UNCHANGED <<offered, keys, stamps, harm, saved, published, bounds>>

\* share_session: the package is exported when it is wrapped.
ShareSession(d, h, p) ==
    /\ call[d][h].stage = "idle" /\ p # d
    /\ shares < MaxShares /\ shares' = shares + 1
    /\ call' = [call EXCEPT ![d][h] =
                   [stage |-> "next", pkg |-> None, todo |-> {p}, msg |-> None]]
    /\ UNCHANGED <<offered, keys, stamps, harm, saved, log, published, sends, losses, crashes>>

\* export_session: the key of the session as it is now, in the clear, for a
\* client to carry to p.
ExportSession(d, h, p) ==
    /\ call[d][h].stage = "idle" /\ p # d /\ ~Locked(d)
    /\ shares < MaxShares /\ shares' = shares + 1
    /\ UNCHANGED <<olm, otks>>
    /\ EnsureRoomE2ee(d)
    /\ call' = [call EXCEPT ![d][h] =
                   [stage |-> "carry", pkg |-> None, todo |-> {}, msg |-> None,
                    peer |-> p, body |-> Ensured(d)]]
    /\ offered' = [offered EXCEPT ![p] = @ \cup {Offer(Ensured(d), TRUE)}]
    /\ UNCHANGED <<stamps, log, published, sends, losses, crashes>>

\* GET /v1/e2ee/olm-keys of the next peer: publish_keys hands out a one-time
\* key, of the batch on disk or of one generated since.
FetchKeys(d, h) ==
    /\ call[d][h].stage = "next"
    /\ \E p \in call[d][h].todo :
           /\ ~Locked(p)
           /\ published' = published + 1
           /\ otks' = [otks EXCEPT ![p] = @ \cup {published'}]
           /\ \/ UNCHANGED saved
              \/ /\ saved[p] # Fresh
                 /\ saved' = [saved EXCEPT ![p].otks = @ \cup {published'}]
           /\ call' = [call EXCEPT ![d][h] =
                  [stage |-> "wrap", pkg |-> @.pkg, todo |-> @.todo \ {p},
                   msg |-> @.msg, peer |-> p, otk |-> published']]
    /\ UNCHANGED <<offered, stamps, harm, outbound, inbound, olm, log, bounds>>

\* The Olm session to p: the one there is, or a new one for the fetched key.
OlmTo(d, p, otk) ==
    IF olm[d][p] # None THEN olm[d][p]
    ELSE [name |-> [from |-> d, otk |-> otk], mine |-> TRUE, heard |-> FALSE]

\* trust_olm_keys with keys that p has published: an Olm session without a
\* message.
TrustOlmKeys(d, p) ==
    /\ p # d /\ ~Locked(d) /\ ~Locked(p)
    /\ olm[d][p] = None
    /\ shares < MaxShares /\ shares' = shares + 1
    /\ published' = published + 1
    /\ otks' = [otks EXCEPT ![p] = @ \cup {published'}]
    /\ olm' = [olm EXCEPT ![d][p] = OlmTo(d, p, published')]
    /\ UNCHANGED <<offered, stamps, harm, outbound, inbound, saved, log, call, sends, losses, crashes>>

\* ensure_room_e2ee, which saves a session it creates; then
\* establish_olm_outbound, whose Olm session is not saved; export if there is
\* no package yet, olm_encrypt.
ShareWrap(d, h) ==
    LET c    == call[d][h]
        sess == OlmTo(d, c.peer, c.otk)
    IN  /\ c.stage = "wrap" /\ ~Locked(d)
        /\ olm' = [olm EXCEPT ![d][c.peer] = sess] /\ UNCHANGED otks
        /\ EnsureRoomE2ee(d)
        /\ call' = [call EXCEPT ![d][h] =
               [stage |-> "post", pkg |-> c.pkg, todo |-> c.todo, msg |-> c.msg,
                peer |-> c.peer,
                body |-> IF c.pkg = None THEN Ensured(d) ELSE c.pkg,
                session |-> sess.name, prekey |-> sess.mine /\ ~sess.heard]]
        /\ offered' = [offered EXCEPT ![c.peer] = @ \cup
               {Offer(IF c.msg = None THEN Ensured(d) ELSE c.msg, FALSE)}]
        /\ UNCHANGED <<stamps, log, published, bounds>>

\* A call goes on to its next peer or ends.
Continued(c) ==
    IF c.todo = {} THEN Idle
    ELSE [stage |-> "next", pkg |-> c.pkg, todo |-> c.todo, msg |-> c.msg]

(***************************************************************************)
(* import_session_olm at the peer.                                         *)
(***************************************************************************)

\* olm_decrypt: with the session there is, whether it is the right one or not;
\* without one a pre-key message starts it.
OlmOpens(p, d, c) ==
    IF olm[p][d] # None THEN olm[p][d].name = c.session
    ELSE c.prekey /\ c.session.otk \in otks[p]

OlmAfter(p, d, c) ==
    IF olm[p][d] # None THEN [olm[p][d] EXCEPT !.heard = TRUE]
    ELSE [name |-> c.session, mine |-> FALSE, heard |-> TRUE]

\* Mutation of ImportKey: a later export replaces the session.
ImportKeyReplaces(p, pkg) == [inbound[p] EXCEPT ![pkg.session] = pkg.index]

\* import_group_session_key never replaces a session.
ImportKey(p, pkg) ==
    [inbound[p] EXCEPT ![pkg.session] = IF @ = None THEN pkg.index ELSE @]

\* import_room_outbound: another session, or a ratchet that is ahead, stays.
ImportOutbound(p, pkg) ==
    IF outbound[p] = None THEN pkg
    ELSE IF outbound[p].session # pkg.session THEN outbound[p]
    ELSE IF outbound[p].index > pkg.index THEN outbound[p]
    ELSE pkg

\* The peer imports the package; nothing is saved.
ImportOlm(d, h) ==
    LET c == call[d][h]
        p == c.peer
    IN  /\ c.stage = "post" /\ ~Locked(p)
        /\ OlmOpens(p, d, c)
        /\ olm' = [olm EXCEPT ![p][d] = OlmAfter(p, d, c)]
        /\ otks' = [otks EXCEPT ![p] = IF olm[p][d] = None THEN @ \ {c.session.otk} ELSE @]
        /\ inbound' = [inbound EXCEPT ![p] = ImportKey(p, c.body)]
        /\ outbound' = [outbound EXCEPT ![p] = ImportOutbound(p, c.body)]
        /\ call' = [call EXCEPT ![d][h] =
               IF c.msg = None THEN Idle
               ELSE [stage |-> "ingest", pkg |-> c.pkg, todo |-> c.todo,
                     msg |-> c.msg, peer |-> p]]
        /\ UNCHANGED <<offered, stamps, harm, saved, log, published, bounds>>

\* import_session at p: the inbound session only.
ImportSession(d, h) ==
    LET c == call[d][h]
    IN  /\ c.stage = "carry" /\ ~Locked(c.peer)
        /\ inbound' = [inbound EXCEPT ![c.peer] = ImportKey(c.peer, c.body)]
        /\ call' = [call EXCEPT ![d][h] = Idle]
        /\ UNCHANGED <<offered, stamps, harm, outbound, olm, otks, saved, log, published, bounds>>

\* "olm decrypt" or "no session": the peer is left out of this fan-out.
ImportRefused(d, h) ==
    /\ call[d][h].stage = "post" /\ ~Locked(call[d][h].peer)
    /\ ~OlmOpens(call[d][h].peer, d, call[d][h])
    /\ call' = [call EXCEPT ![d][h] = Continued(@)]
    /\ UNCHANGED <<offered, keys, stamps, harm, saved, log, published, bounds>>

\* sync/ingest of the message: the peer counts in fanout_ok.
FanoutIngest(d, h) ==
    /\ call[d][h].stage = "ingest" /\ ~Locked(call[d][h].peer)
    /\ log' = [log EXCEPT ![call[d][h].peer] = @ \cup {call[d][h].msg}]
    /\ call' = [call EXCEPT ![d][h].stage = "counted"]
    /\ UNCHANGED <<offered, keys, stamps, harm, saved, published, bounds>>

FanoutNext(d, h) ==
    /\ call[d][h].stage = "counted"
    /\ call' = [call EXCEPT ![d][h] = Continued(@)]
    /\ UNCHANGED <<offered, keys, stamps, harm, saved, log, published, bounds>>

\* A request to the peer fails, before or after it was handled.
RequestFails(d, h) ==
    /\ call[d][h].stage \in {"next", "post", "ingest", "carry"}
    /\ losses < MaxLosses /\ losses' = losses + 1
    /\ \E p \in IF call[d][h].stage = "next" THEN call[d][h].todo
                                             ELSE {call[d][h].peer} :
           call' = [call EXCEPT ![d][h] = Continued([call[d][h] EXCEPT !.todo = @ \ {p}])]
    /\ UNCHANGED <<offered, keys, stamps, harm, saved, log, published, sends, shares, crashes>>

Ahead(n, S) == IF \E m \in S : m.ts >= n
               THEN CHOOSE k \in {m.ts + 1 : m \in S} : \A m \in S : m.ts < k
               ELSE n

\* Mutation of ReloadTs: the counter of meta.json is believed.
ReloadTsMeta(d) == meta[d]

\* load_from_data_dir: the counter is put ahead of every event of the log.
ReloadTs(d) == Ahead(meta[d], log[d])

\* The process ends and comes back with e2ee.json, meta.json and the log.  A
\* key that a client carries is not lost.
Crash(d) ==
    /\ crashes < MaxCrashes /\ crashes' = crashes + 1
    /\ outbound' = [outbound EXCEPT ![d] = saved[d].outbound]
    /\ inbound' = [inbound EXCEPT ![d] = saved[d].inbound]
    /\ olm' = [olm EXCEPT ![d] = saved[d].olm]
    /\ otks' = [otks EXCEPT ![d] = saved[d].otks]
    /\ ts' = [ts EXCEPT ![d] = ReloadTs(d)]
    /\ call' = [call EXCEPT ![d] = [h \in Handler |->
                   IF @[h].stage = "carry" THEN @[h] ELSE Idle]]
    /\ unsaved' = [unsaved EXCEPT ![d] = FALSE]
    /\ hurt' = [hurt EXCEPT ![d] = @ \/ unsaved[d]]
    /\ UNCHANGED <<offered, meta, saved, log, published, sends, shares, losses, faults>>
-----------------------------------------------------------------------------
Next ==
    \E d \in Device :
        \/ Crash(d)
        \/ \E p \in Device : TrustOlmKeys(d, p)
        \/ \E h \in Handler :
               \/ SendStamp(d, h) \/ SendCreate(d, h)
               \/ SendEncrypt(d, h) \/ SendCommit(d, h)
               \/ \E p \in Device : ShareSession(d, h, p) \/ ExportSession(d, h, p)
               \/ FetchKeys(d, h) \/ ShareWrap(d, h)
               \/ ImportOlm(d, h) \/ ImportRefused(d, h) \/ ImportSession(d, h)
               \/ FanoutIngest(d, h) \/ FanoutNext(d, h)
               \/ RequestFails(d, h)

Spec == Init /\ [][Next]_vars
-----------------------------------------------------------------------------
(***************************************************************************)
(* Properties.                                                             *)
(***************************************************************************)

\* The locals of a call of d, by its stage.
Peer(d) == Device \ {d}
OwnMsg(d) == {m \in Message : m.by = d}
MsgOf(d) == OwnMsg(d) \cup {None}
Pkg == Package \cup {None}
OlmName == [from : Device, otk : Nat]

AtStamp == [stage : {"stamped"}, ts : Nat]
AtCommit(d) ==
    [stage : {"commit"}, pkg : Package, todo : SUBSET Peer(d), msg : OwnMsg(d)]
AtNext(d) ==
    [stage : {"next"}, pkg : Pkg, todo : SUBSET Peer(d), msg : MsgOf(d)]
AtWrap(d) ==
    [stage : {"wrap"}, pkg : Pkg, todo : SUBSET Peer(d), msg : MsgOf(d), peer : Peer(d),
     otk : Nat]
AtPost(d) ==
    [stage : {"post"}, pkg : Pkg, todo : SUBSET Peer(d), msg : MsgOf(d), peer : Peer(d),
     body : Package, session : OlmName, prekey : BOOLEAN]
AtIngest(d) ==
    [stage : {"ingest", "counted"}, pkg : Pkg, todo : SUBSET Peer(d), msg : OwnMsg(d),
     peer : Peer(d)]
AtCarry(d) ==
    [stage : {"carry"}, pkg : {None}, todo : {{}}, msg : {None}, peer : Peer(d),
     body : Package]

CallOf(d) ==
    {Idle} \cup AtStamp \cup AtCommit(d) \cup AtNext(d) \cup AtWrap(d) \cup AtPost(d)
    \cup AtIngest(d) \cup AtCarry(d)

OlmSession == [name : OlmName, mine : BOOLEAN, heard : BOOLEAN]

\* The shape of sessions, files, messages and handlers.
TypeOK ==
    /\ outbound \in [Device -> Package \cup {None}]
    /\ inbound \in [Device -> [Session -> Nat \cup {None}]]
    /\ olm \in [Device -> [Device -> OlmSession \cup {None}]]
    /\ otks \in [Device -> SUBSET Nat] /\ published \in Nat
    /\ saved \in [Device -> [outbound : Package \cup {None},
                            inbound : [Session -> Nat \cup {None}],
                            olm : [Device -> OlmSession \cup {None}],
                            otks : SUBSET Nat]]
    /\ ts \in [Device -> Nat] /\ meta \in [Device -> Nat]
    /\ log \in [Device -> SUBSET Message]
    /\ call = [d \in Device |-> call[d]]
    /\ \A d \in Device : call[d] \in [Handler -> CallOf(d)]
    /\ unsaved \in [Device -> BOOLEAN] /\ hurt \in [Device -> BOOLEAN]
    /\ offered \in [Device -> SUBSET [session : Session, index : Nat, clear : BOOLEAN]]
    /\ sends \in Nat /\ shares \in Nat /\ losses \in Nat /\ faults \in Nat
    /\ crashes \in 0..MaxCrashes

\* A key of the session that starts after m was exported for d.
Overtaken(d, m, exports) ==
    \E g \in offered[d] : g.session = m.session /\ g.index > m.index /\ g.clear \in exports

\* A device can read every message it has sent, also after a restart, with its
\* own session or with one it was given: the ratchet is saved before the
\* message is committed, and takes the given session to disk with it.  There
\* are two exceptions.  A save that failed, which send_message ignores, does
\* harm if the process ends before a later one succeeds.  And the two endpoints
\* for session keys do not agree: import_session installs no outbound session,
\* so that a later key carried there in the clear can come before the package
\* the device then sends with.
OwnIsReadable ==
    \A d \in Device : \A m \in log[d] :
        m.by = d => hurt[d] \/ Readable(d, m) \/ Overtaken(d, m, {TRUE})

\* next_ts, load_from_data_dir: a message that a device commits has a later time
\* stamp than all it has committed before, although saves of the counter fail
\* and the process ends between the stamp, the save and the commit.
TimestampsAdvance ==
    [][\A d \in Device : \A m \in log'[d] \ log[d] :
           m.by = d => \A o \in log[d] : o.by = d => o.ts < m.ts]_vars

\* While a device runs, what it could read stays readable and the ratchet of
\* its session "only advances (never regresses)", whatever older or newer
\* exports of the session arrive, in whatever order.
RatchetAdvances ==
    [][\A d \in Device : crashes' = crashes =>
           /\ \A s \in Session : inbound[d][s] # None =>
                  inbound'[d][s] # None /\ inbound'[d][s] <= inbound[d][s]
           /\ outbound[d] # None =>
                  /\ outbound'[d].session = outbound[d].session
                  /\ outbound'[d].index >= outbound[d].index]_vars

\* "Auto share-on-send makes multi-node decrypt+shared-send work": a peer that
\* fanout_ok counts can read the message, until a device restarts, unless it was
\* overtaken: a later message was fanned out to that peer, or the session shared
\* with it, by a call that did not wait for this one.
FanoutIsReadable ==
    crashes = 0 =>
        \A d \in Device, h \in Handler :
            LET c == call[d][h]
            IN  c.stage = "counted" =>
                    Readable(c.peer, c.msg) \/ Overtaken(c.peer, c.msg, BOOLEAN)

\* "e2ee.json ... so history decrypts after reboot": what a device has in its
\* log and can read, it can read after a restart.
HistoryDecrypts ==
    [][\A d \in Device : \A m \in log[d] : Readable(d, m) => Readable(d, m)']_vars
=============================================================================
