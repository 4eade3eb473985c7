------------------------------ MODULE RpcGate -------------------------------
(***************************************************************************)
(* What a request to the node's HTTP interface passes before and in its    *)
(* handler (rpc.rs of td-node): the rate limit, the check of the owner's   *)
(* session, and two handlers that keep state over several requests or      *)
(* several locks: the Wi-Fi setup and the passkey ceremonies of            *)
(* td-crypto.                                                              *)
(*                                                                         *)
(* The middleware takes and releases two locks one after the other, and    *)
(* the handler takes the node's lock again; requests interleave between    *)
(* them, and a client that goes away drops its request at any point.       *)
(* Sessions are a set of valid tokens (PondOwner has their life).  Of a    *)
(* clock instant only its distance matters; the unit is part of a window.  *)
(***************************************************************************)
EXTENDS Naturals, Sequences, FiniteSets

CONSTANTS
    Ip,           \* clients
    Token,        \* tokens of owner sessions
    Slot,         \* requests in progress at once
    Ssid,         \* Wi-Fi networks
    Cred,         \* passkey credentials
    None,
    Loads,        \* bound: routes that clients use, how often, and how long
    StrictLimit,  \* requests per window: POST /v1/claim
    WriteLimit,   \* other writes
    ReadLimit,    \* reads
    Window,       \* length of a window
    Keep,         \* age at which a large book forgets a window
    BookSize,     \* windows above which the book is pruned
    MaxFaults,    \* bound: writes of wifi.json that fail
    MaxRestarts   \* bound: restarts of the process

ASSUME GateAssumption ==
    /\ None \notin Token \cup Ssid
    /\ {StrictLimit, WriteLimit, ReadLimit, Window, BookSize} \subseteq Nat \ {0}
    /\ Keep \in Nat /\ Keep >= Window
    /\ {MaxFaults, MaxRestarts} \subseteq Nat
    /\ \A l \in Loads : l.requests \in Nat /\ l.time \in Nat

VARIABLES
    load,        \* what clients use
    remote,      \* require_owner: the node listens beyond loopback
    valid,       \* tokens of owner sessions that are valid
    minted,      \* tokens that were minted
    now,
    book,        \* RateLimitBook.windows
    req,         \* the requests in progress
    file,        \* wifi.json: network and whether the last apply succeeded
    net,         \* the network that nmcli connected
    running,     \* nmcli processes
    challenges,  \* challenges of the passkey registry, with their purpose
    creds,       \* registered credentials
    passed,      \* history: what passed the limit in the last window, with
                 \* client and path
    asked,       \* history: the purpose of every challenge ever minted
    done,        \* history: completed ceremonies of this process
    overlap,     \* history: the last apply overlapped another
    count,       \* requests so far
    faults,
    restarts

sessionVars == <<load, remote, valid, minted>>
rateVars    == <<now, book, passed, count>>
wifiVars    == <<file, net, running, overlap, faults>>
passkeyVars == <<challenges, creds, asked, done>>
vars == <<sessionVars, rateVars, wifiVars, passkeyVars, req, restarts>>
-----------------------------------------------------------------------------
(***************************************************************************)
(* Routes of each kind, by the name of their handler.                      *)
(***************************************************************************)
Purpose == {"register", "authenticate"}
Begin  == [register |-> "register_begin",  authenticate |-> "auth_begin"]
Finish == [register |-> "register_finish", authenticate |-> "auth_finish"]

Route ==
    {"claim_status", "claim_node", "wifi_status", "wifi_apply"}
        \cup {Begin[p] : p \in Purpose} \cup {Finish[p] : p \in Purpose}

ASSUME RoutesAssumption == \A l \in Loads : l.routes \subseteq Route

\* GET and POST of /v1/claim are one path.
Path(r) == IF r \in {"claim_status", "claim_node"} THEN "claim" ELSE r

Public(r) == r \in {"claim_status", "claim_node"}

\* rate_rule_for: the limit depends on path and method, all windows are equal.
Limit(r) == CASE r = "claim_node" -> StrictLimit
              [] r \in {"claim_status", "wifi_status"} -> ReadLimit
              [] OTHER -> WriteLimit

Key == Ip \X {Path(r) : r \in Route}

NoRequest == [stage |-> "none"]

Init ==
    /\ load \in Loads /\ remote \in BOOLEAN /\ valid = {} /\ minted = {}
    /\ now = 0 /\ book = <<>> /\ count = 0
    /\ passed = {}
    /\ req = [s \in Slot |-> NoRequest]
    /\ file = [ssid |-> None, ok |-> FALSE] /\ net = None
    /\ running = {} /\ overlap = FALSE
    /\ challenges = {} /\ creds = {} /\ asked = <<>> /\ done = <<>>
    /\ faults = 0 /\ restarts = 0
-----------------------------------------------------------------------------
(***************************************************************************)
(* The middleware.                                                         *)
(***************************************************************************)

\* The window that a request of key k counts in: a new one where there is
\* none or it is over.
Current(k) ==
    IF k \in DOMAIN book /\ now - book[k].start < Window
    THEN book[k] ELSE [start |-> now, count |-> 0]

\* Mutation of Pruned: a large book is cleared.
PrunedAll(b) == IF Cardinality(DOMAIN b) <= BookSize THEN b ELSE <<>>

\* A large book forgets the windows that began long ago.
Pruned(b) ==
    IF Cardinality(DOMAIN b) <= BookSize THEN b
    ELSE [k \in {k \in DOMAIN b : b[k].start + Keep > now} |-> b[k]]

\* RateLimitBook::check, under its own lock: the first thing a request meets.
\* A request that is refused is answered and leaves the book as it was.
Arrive(s, ip, r, t) ==
    LET k == <<ip, Path(r)>>  w == Current(k)
    IN  /\ req[s] = NoRequest
        /\ count < load.requests /\ count' = count + 1
        /\ w.count < Limit(r)
        /\ book' = Pruned([x \in DOMAIN book \cup {k} |->
                              IF x = k THEN [w EXCEPT !.count = @ + 1]
                              ELSE book[x]])
        /\ passed' = passed \cup {[id |-> count, key |-> k, at |-> now,
                                   limit |-> Limit(r)]}
        /\ req' = [req EXCEPT ![s] = [stage |-> "counted", id |-> count, route |-> r,
                                      token |-> t, live |-> t \in valid]]
        /\ UNCHANGED <<sessionVars, now, wifiVars, passkeyVars, restarts>>

Answered(s) == req' = [req EXCEPT ![s] = NoRequest]

\* Mutation of Gate: a token is asked for and not looked up.
GateAnyToken(s) ==
    /\ req[s].stage = "counted"
    /\ \/ /\ ~remote \/ Public(req[s].route) \/ req[s].token # None
          /\ req' = [req EXCEPT ![s].stage = "admitted"]
       \/ /\ remote /\ ~Public(req[s].route) /\ req[s].token = None
          /\ Answered(s)
    /\ UNCHANGED <<sessionVars, rateVars, wifiVars, passkeyVars, restarts>>

\* The rest of authn_rate_middleware, under the node's lock: beyond loopback
\* a path that is not public needs a valid session.
Gate(s) ==
    /\ req[s].stage = "counted"
    /\ \/ /\ ~remote \/ Public(req[s].route) \/ req[s].token \in valid
          /\ req' = [req EXCEPT ![s].stage = "admitted"]
       \/ /\ remote /\ ~Public(req[s].route) /\ req[s].token \notin valid
          /\ Answered(s)
    /\ UNCHANGED <<sessionVars, rateVars, wifiVars, passkeyVars, restarts>>

\* The client closes the connection: the request is dropped where it waits.
\* An nmcli that it started goes on.
Disconnect(s) ==
    /\ req[s] # NoRequest
    /\ Answered(s)
    /\ UNCHANGED <<sessionVars, rateVars, wifiVars, passkeyVars, restarts>>

Admitted(s, r) == req[s].stage = "admitted" /\ req[s].route = r
-----------------------------------------------------------------------------
(***************************************************************************)
(* Handlers of the claim: the owner's session (PondOwner has the rest).    *)
(***************************************************************************)

\* claim_status and wifi_status only look.
Look(s) ==
    /\ Admitted(s, "claim_status") \/ Admitted(s, "wifi_status")
    /\ Answered(s)
    /\ UNCHANGED <<sessionVars, rateVars, wifiVars, passkeyVars, restarts>>

\* claim_node or recovery_login mints a session, or refuses.
ClaimNode(s) ==
    /\ Admitted(s, "claim_node")
    /\ \/ \E t \in Token \ minted :
              /\ valid' = valid \cup {t} /\ minted' = minted \cup {t}
       \/ UNCHANGED <<valid, minted>>
    /\ Answered(s)
    /\ UNCHANGED <<load, remote, rateVars, wifiVars, passkeyVars, restarts>>

\* A session ends: logout, expiry, or eviction by a newer one.
EndSession(t) ==
    /\ t \in valid
    /\ valid' = valid \ {t}
    /\ UNCHANGED <<load, remote, minted, rateVars, wifiVars, passkeyVars, req, restarts>>
-----------------------------------------------------------------------------
(***************************************************************************)
(* Wi-Fi setup.                                                            *)
(***************************************************************************)
Applying == {s \in Slot : req[s].stage = "nmcli"}

\* save_wifi_disk rewrites the file in place: a write that fails leaves the
\* old text or one that load_wifi_state reads as no configuration.
Save(ssid, ok) == file' = [ssid |-> ssid, ok |-> ok]

SaveFails ==
    /\ faults < MaxFaults /\ faults' = faults + 1
    /\ file' \in {file, [ssid |-> None, ok |-> FALSE]}

\* nmcli is started once the lock is released; the handler waits for it.
StartNmcli(s, ssid) ==
    /\ running' = running \cup {[id |-> req[s].id, ssid |-> ssid]}
    /\ req' = [req EXCEPT ![s] = [stage |-> "nmcli", id |-> @.id, ssid |-> ssid,
                                  result |-> "none", live |-> @.live]]
    /\ overlap' = (running # {} \/ Applying # {})

\* Mutation of WifiBegin: nothing is saved before nmcli has answered.
WifiBeginUnsaved(s, ssid) ==
    /\ Admitted(s, "wifi_apply")
    /\ req[s].token \in valid
    /\ StartNmcli(s, ssid)
    /\ UNCHANGED <<sessionVars, rateVars, file, net, faults, passkeyVars, restarts>>

\* wifi_apply up to the await: in every mode the session is checked again,
\* under the lock in which the request is saved as pending.
WifiBegin(s, ssid) ==
    /\ Admitted(s, "wifi_apply")
    /\ req[s].token \in valid
    /\ Save(ssid, FALSE)
    /\ StartNmcli(s, ssid)
    /\ UNCHANGED <<sessionVars, rateVars, net, faults, passkeyVars, restarts>>

\* ... and its early returns: no session, or the file cannot be written.
WifiRefused(s) ==
    /\ Admitted(s, "wifi_apply")
    /\ Answered(s)
    /\ \/ req[s].token \notin valid /\ UNCHANGED <<file, faults>>
       \/ req[s].token \in valid /\ SaveFails
    /\ UNCHANGED <<sessionVars, rateVars, net, running, overlap, passkeyVars,
                   restarts>>

\* nmcli ends; one that fails may have left the network it was on.
NmcliEnds(p) ==
    /\ running' = running \ {p}
    /\ \E ok \in BOOLEAN :
        /\ IF ok THEN net' = p.ssid ELSE net' \in {net, None}
        /\ req' = [s \in Slot |->
                      IF req[s].stage = "nmcli" /\ req[s].id = p.id
                      THEN [req[s] EXCEPT !.result = IF ok THEN "ok" ELSE "failed"]
                      ELSE req[s]]
    /\ UNCHANGED <<sessionVars, rateVars, file, overlap, faults, passkeyVars,
                   restarts>>

\* The second lock of wifi_apply; a failed save is ignored.
WifiEnd(s) ==
    /\ req[s].stage = "nmcli" /\ req[s].result # "none"
    /\ \/ Save(req[s].ssid, req[s].result = "ok") /\ UNCHANGED faults
       \/ SaveFails
    /\ Answered(s)
    /\ UNCHANGED <<sessionVars, rateVars, net, running, overlap, passkeyVars,
                   restarts>>
-----------------------------------------------------------------------------
(***************************************************************************)
(* Passkey ceremonies; their handlers do not look at the session again.    *)
(***************************************************************************)

\* begin_registration and begin_authentication: a fresh challenge.
CeremonyBegin(s, p) ==
    /\ Admitted(s, Begin[p])
    /\ asked' = Append(asked, p)
    /\ challenges' = challenges \cup {[id |-> Len(asked'), purpose |-> p]}
    /\ Answered(s)
    /\ UNCHANGED <<sessionVars, rateVars, wifiVars, creds, done, restarts>>

\* What the checks after the lookup of the challenge c say of an answer of
\* credential cred, if its client data and signature are good.
Completes(p, c, cred) == c.purpose = p /\ (p = "authenticate" => cred \in creds)

Complete(p, c, cred) ==
    /\ done' = Append(done, [id |-> c.id, purpose |-> p, cred |-> cred])
    /\ creds' = creds \cup {cred}

\* Mutation of CeremonyFinish: the challenge is looked up and stays.
CeremonyFinishKeeps(s, p, c, cred) ==
    /\ Admitted(s, Finish[p])
    /\ \/ Completes(p, c, cred) /\ Complete(p, c, cred)
       \/ UNCHANGED <<creds, done>>
    /\ Answered(s)
    /\ UNCHANGED <<sessionVars, rateVars, wifiVars, challenges, asked, restarts>>

\* finish_registration and finish_authentication: the challenge is removed
\* first, whatever the checks that follow say.
CeremonyFinish(s, p, c, cred) ==
    /\ Admitted(s, Finish[p])
    /\ challenges' = challenges \ {c}
    /\ \/ Completes(p, c, cred) /\ Complete(p, c, cred)
       \/ UNCHANGED <<creds, done>>
    /\ Answered(s)
    /\ UNCHANGED <<sessionVars, rateVars, wifiVars, asked, restarts>>

\* An answer to a challenge that is not known.
CeremonyUnknown(s) ==
    /\ \E p \in Purpose : Admitted(s, Finish[p])
    /\ Answered(s)
    /\ UNCHANGED <<sessionVars, rateVars, wifiVars, passkeyVars, restarts>>
-----------------------------------------------------------------------------
\* The process ends and starts again.  Everything but wifi.json, the network
\* and a started nmcli was in memory.
Restart ==
    /\ restarts < MaxRestarts /\ restarts' = restarts + 1
    /\ valid' = {} /\ book' = <<>> /\ passed' = {}
    /\ req' = [s \in Slot |-> NoRequest]
    /\ challenges' = {} /\ creds' = {} /\ done' = <<>>
    /\ UNCHANGED <<load, remote, minted, now, count, wifiVars, asked>>

Tick ==
    /\ now < load.time /\ now' = now + 1
    /\ passed' = {p \in passed : p.at + Window > now'}
    /\ UNCHANGED <<sessionVars, book, count, wifiVars, passkeyVars, req, restarts>>

Handler(s) ==
    \/ Look(s)
    \/ ClaimNode(s)
    \/ \E ssid \in Ssid : WifiBegin(s, ssid)
    \/ WifiRefused(s)
    \/ WifiEnd(s)
    \/ \E p \in Purpose : CeremonyBegin(s, p)
    \/ \E p \in Purpose, c \in challenges, cred \in Cred : CeremonyFinish(s, p, c, cred)
    \/ CeremonyUnknown(s)

Next ==
    \/ \E s \in Slot, ip \in Ip, r \in load.routes, t \in minted \cup {None} :
           Arrive(s, ip, r, t)
    \/ \E s \in Slot : Gate(s) \/ Disconnect(s) \/ Handler(s)
    \/ \E p \in running : NmcliEnds(p)
    \/ \E t \in Token : EndSession(t)
    \/ Restart
    \/ Tick

Spec == Init /\ [][Next]_vars
-----------------------------------------------------------------------------
(***************************************************************************)
(* Correctness.                                                            *)
(***************************************************************************)

\* The state has the shape of the code's fields.
TypeOK ==
    /\ load \in Loads /\ remote \in BOOLEAN /\ valid \subseteq minted /\ minted \subseteq Token
    /\ now \in 0..load.time /\ count \in 0..load.requests
    /\ DOMAIN book \subseteq Key
    /\ \A k \in DOMAIN book : book[k].start \in 0..now /\ book[k].count \in Nat \ {0}
    /\ \A s \in Slot : req[s] = NoRequest \/ req[s].id \in 0..(count - 1)
    /\ file \in [ssid : Ssid \cup {None}, ok : BOOLEAN]
    /\ net \in Ssid \cup {None}
    /\ running \subseteq [id : 0..load.requests, ssid : Ssid]
    /\ challenges \subseteq [id : 1..Len(asked), purpose : Purpose]
    /\ creds \subseteq Cred /\ overlap \in BOOLEAN
    /\ faults \in 0..MaxFaults /\ restarts \in 0..MaxRestarts

PassedOf(k)    == {p \in passed : p.key = k}
Stricter(k, l) == {p \in PassedOf(k) : p.limit <= l}

\* "Sliding-window counters keyed by client IP + bucket name": in no stretch of
\* time as long as a window do more requests of one client to one path pass
\* than the limit.
SlidingWindow ==
    \A k \in Key, r \in Route : Cardinality(Stricter(k, Limit(r))) <= Limit(r)

\* RateLimitBook::check, in the life of one process.  A window is fixed, and
\* the requests before and after its end add up (SlidingWindow does not hold),
\* but only so far: in no stretch of time as long as a window do more than
\* twice the limit of requests of one client to one path pass, for each limit
\* that the path's methods have, however windows begin and the book is pruned;
\* and a request is refused only if as many as its limit of that client and
\* path passed in the last window.
RateHolds ==
    /\ \A k \in Key, r \in Route : Cardinality(Stricter(k, Limit(r))) <= 2 * Limit(r)
    /\ \A ip \in Ip, r \in Route :
           Current(<<ip, Path(r)>>).count >= Limit(r)
               => Cardinality(PassedOf(<<ip, Path(r)>>)) >= Limit(r)

\* authn_rate_middleware and wifi_apply: a request that arrives when its
\* session has ended gets no further.  It reaches no handler of a path that is
\* not public beyond loopback, and changes the Wi-Fi in no mode.
RevokedStaysOut ==
    \A s \in Slot :
        \/ req[s].stage \in {"none", "counted"}
        \/ req[s].stage = "admitted" /\ (~remote \/ Public(req[s].route))
        \/ req[s].live

\* wifi_apply and save_wifi_disk: unless two applies overlapped, a wifi.json
\* that says ok names the network that is connected, whatever writes fail and
\* wherever a request is dropped or the process ends.
WifiAgrees == ~overlap /\ file.ok => net = file.ssid

\* finish_registration and finish_authentication: a challenge completes one
\* ceremony at most, the one it was minted for, and only a credential that
\* was registered before authenticates.
CeremonyOnce ==
    \A i \in DOMAIN done :
        /\ done[i].purpose = asked[done[i].id]
        /\ \A j \in DOMAIN done : done[i].id = done[j].id => i = j
        /\ done[i].purpose = "authenticate"
               => \E j \in 1..(i - 1) : /\ done[j].purpose = "register"
                                        /\ done[j].cred = done[i].cred
=============================================================================
