---------------------------- MODULE RpcGateProofs ----------------------------
(***************************************************************************)
(* The gate of the node's HTTP interface for any clients, tokens, requests *)
(* at once, networks, limits and windows: the session check, the Wi-Fi     *)
(* setup, the passkey ceremonies and the rate limit.                       *)
(***************************************************************************)
EXTENDS RpcGate, FiniteSetTheorems, TLAPS

-----------------------------------------------------------------------------
(***************************************************************************)
(* Sessions.  The strengthening: the token of a waiting request was minted *)
(* before the request came, so that it is valid now only if it was valid   *)
(* then.                                                                   *)
(***************************************************************************)
Waiting == [stage : {"counted", "admitted"}, id : Nat, route : Route,
            token : Token \cup {None}, live : BOOLEAN]
Connecting == [stage : {"nmcli"}, id : Nat, ssid : Ssid,
               result : {"none", "ok", "failed"}, live : BOOLEAN]
Request == {NoRequest} \cup Waiting \cup Connecting

SoundRequest(q) ==
    /\ q.stage \in {"counted", "admitted"} =>
           /\ q.token \in minted \cup {None}
           /\ q.token \in valid => q.live
    /\ q.stage = "admitted" => ~remote \/ Public(q.route) \/ q.live
    /\ q.stage = "nmcli" => q.live

SessionInv ==
    /\ load \in Loads /\ count \in Nat
    /\ valid \subseteq minted /\ minted \subseteq Token
    /\ req \in [Slot -> Request]
    /\ \A s \in Slot : SoundRequest(req[s])

\* Tokens may end and fresh ones be minted; the ones that ended stay so.
TokensMove ==
    /\ load' = load /\ remote' = remote /\ count' \in Nat
    /\ minted \subseteq minted' /\ minted' \subseteq Token
    /\ valid' \subseteq minted' /\ valid' \cap minted \subseteq valid

LEMMA RequestStays ==
    ASSUME SessionInv, TokensMove, NEW q \in Request, SoundRequest(q)
    PROVE  SoundRequest(q)'
  BY GateAssumption DEF SessionInv, TokensMove, SoundRequest

\* A step that moves the request in slot s at most keeps the invariant if the
\* moved request is sound.
LEMMA RequestMoves ==
    ASSUME SessionInv, TokensMove, NEW s \in Slot, NEW q \in Request,
           req' = [req EXCEPT ![s] = q], SoundRequest(q)'
    PROVE  SessionInv'
<1>1. req \in [Slot -> Request]
  BY DEF SessionInv
<1>2. req' \in [Slot -> Request] /\ req'[s] = q /\ \A u \in Slot \ {s} : req'[u] = req[u]
  BY <1>1
<1>3. ASSUME NEW u \in Slot
      PROVE  SoundRequest(req[u])'
  <2>1. CASE u = s
    BY <1>2, <2>1
  <2>2. CASE u # s
    <3>1. PICK x : x = req[u]
      OBVIOUS
    <3>2. SoundRequest(x)'
      BY <1>1, <3>1, RequestStays DEF SessionInv
    <3> QED
      BY <1>2, <2>2, <3>1, <3>2
  <2> QED
    BY <2>1, <2>2
<1> QED
  BY <1>2, <1>3 DEF SessionInv, TokensMove

LEMMA RequestEnds ==
    ASSUME SessionInv, TokensMove, NEW s \in Slot, Answered(s)
    PROVE  SessionInv'
<1>1. NoRequest \in Request /\ SoundRequest(NoRequest)'
  BY DEF Request, NoRequest, SoundRequest
<1> QED
  BY <1>1, RequestMoves DEF Answered

LEMMA RequestsStay ==
    ASSUME SessionInv, TokensMove, req' = req
    PROVE  SessionInv'
<1>1. ASSUME NEW u \in Slot
      PROVE  SoundRequest(req[u])'
  <2>1. PICK x : x = req[u]
    OBVIOUS
  <2>2. x \in Request /\ SoundRequest(x)
    BY <2>1 DEF SessionInv
  <2>3. SoundRequest(x)'
    BY <2>2, RequestStays
  <2> QED
    BY <2>1, <2>3
<1> QED
  BY <1>1 DEF SessionInv, TokensMove

LEMMA InitSession == Init => SessionInv
  BY DEF Init, SessionInv, Request, NoRequest, SoundRequest

LEMMA NextSession == SessionInv /\ [Next]_vars => SessionInv'
<1> SUFFICES ASSUME SessionInv, [Next]_vars
             PROVE  SessionInv'
  OBVIOUS
<1> USE DEF sessionVars, rateVars, wifiVars, passkeyVars
<1>0. /\ valid \subseteq minted /\ minted \subseteq Token /\ count \in Nat
      /\ load \in Loads /\ req \in [Slot -> Request]
  BY DEF SessionInv
<1>a. ASSUME UNCHANGED <<sessionVars, count>>
      PROVE  TokensMove
  BY <1>0, <1>a DEF TokensMove
<1>1. ASSUME NEW s \in Slot, NEW ip \in Ip, NEW r \in load.routes,
             NEW t \in minted \cup {None}, Arrive(s, ip, r, t)
      PROVE  SessionInv'
  <2>q. PICK q : q = [stage |-> "counted", id |-> count, route |-> r,
                      token |-> t, live |-> t \in valid]
    OBVIOUS
  <2>1. req' = [req EXCEPT ![s] = q]
    BY <1>1, <2>q DEF Arrive
  <2>2. TokensMove /\ UNCHANGED sessionVars
    BY <1>0, <1>1 DEF Arrive, TokensMove
  <2>3. r \in Route /\ t \in Token \cup {None} /\ (t \in valid) \in BOOLEAN
    BY <1>0, RoutesAssumption
  <2>4. q \in Waiting
    BY <1>0, <2>q, <2>3 DEF Waiting
  <2>5. q.stage = "counted" /\ q.token = t /\ (t \in valid => q.live)
    BY <2>q
  <2>6. SoundRequest(q)'
    BY <2>2, <2>5 DEF SoundRequest
  <2> QED
    BY <2>1, <2>2, <2>4, <2>6, RequestMoves DEF Request
<1>2. ASSUME NEW s \in Slot, Gate(s)
      PROVE  SessionInv'
  <2>1. TokensMove
    BY <1>2, <1>a DEF Gate
  <2>2. CASE /\ ~remote \/ Public(req[s].route) \/ req[s].token \in valid
             /\ req' = [req EXCEPT ![s].stage = "admitted"]
    <3>q. PICK q : q = [req[s] EXCEPT !.stage = "admitted"]
      OBVIOUS
    <3>1. req[s] \in Waiting
      BY <1>0, <1>2 DEF Gate, Request, NoRequest, Waiting, Connecting
    <3>2. /\ q \in Waiting /\ q.stage = "admitted" /\ q.token = req[s].token
          /\ q.route = req[s].route /\ q.live = req[s].live
      BY <3>1, <3>q DEF Waiting
    <3>3. /\ req[s].token \in minted \cup {None}
          /\ req[s].token \in valid => req[s].live
      BY <1>2 DEF SessionInv, SoundRequest, Gate
    <3>4. SoundRequest(q)
      BY <2>2, <3>2, <3>3 DEF SoundRequest
    <3>5. SoundRequest(q)'
      BY <2>1, <3>2, <3>4, RequestStays DEF Request
    <3> QED
      BY <2>1, <2>2, <3>q, <3>2, <3>5, RequestMoves DEF Request
  <2> QED
    BY <1>2, <2>1, <2>2, RequestEnds DEF Gate
<1>3. ASSUME NEW s \in Slot, Disconnect(s) \/ Look(s) \/ WifiRefused(s) \/ WifiEnd(s)
      PROVE  SessionInv'
  BY <1>3, <1>a, RequestEnds DEF Disconnect, Look, WifiRefused, WifiEnd
<1>4. ASSUME NEW s \in Slot, ClaimNode(s)
      PROVE  SessionInv'
  <2>1. TokensMove
    BY <1>0, <1>4 DEF ClaimNode, TokensMove
  <2> QED
    BY <1>4, <2>1, RequestEnds DEF ClaimNode
<1>5. ASSUME NEW s \in Slot, NEW ssid \in Ssid, WifiBegin(s, ssid)
      PROVE  SessionInv'
  <2>q. PICK q : q = [stage |-> "nmcli", id |-> req[s].id, ssid |-> ssid,
                      result |-> "none", live |-> req[s].live]
    OBVIOUS
  <2>1. TokensMove
    BY <1>5, <1>a DEF WifiBegin
  <2>2. req' = [req EXCEPT ![s] = q]
    BY <1>0, <1>5, <2>q DEF WifiBegin, StartNmcli
  <2>3. req[s] \in Waiting /\ req[s].token \in valid
    BY <1>0, <1>5 DEF WifiBegin, Admitted, Request, NoRequest, Waiting, Connecting
  <2>4. req[s].live
    BY <1>5, <2>3 DEF SessionInv, SoundRequest, WifiBegin, Admitted
  <2>5. q \in Connecting /\ q.stage = "nmcli" /\ q.live = req[s].live
    BY <2>3, <2>q DEF Waiting, Connecting
  <2>6. SoundRequest(q)'
    BY <2>4, <2>5 DEF SoundRequest
  <2> QED
    BY <2>1, <2>2, <2>5, <2>6, RequestMoves DEF Request
<1>6. ASSUME NEW s \in Slot, CeremonyUnknown(s) \/ \E p \in Purpose : CeremonyBegin(s, p)
      PROVE  SessionInv'
  BY <1>6, <1>a, RequestEnds DEF CeremonyBegin, CeremonyUnknown
<1>7. ASSUME NEW s \in Slot, NEW p, NEW c, NEW cred, CeremonyFinish(s, p, c, cred)
      PROVE  SessionInv'
  BY <1>7, <1>a, RequestEnds DEF CeremonyFinish
<1>8. ASSUME NEW p \in running, NmcliEnds(p)
      PROVE  SessionInv'
  <2>1. TokensMove
    BY <1>8, <1>a DEF NmcliEnds
  <2>2. PICK res \in {"ok", "failed"} :
            req' = [s \in Slot |->
                      IF req[s].stage = "nmcli" /\ req[s].id = p.id
                      THEN [req[s] EXCEPT !.result = res] ELSE req[s]]
    BY <1>8 DEF NmcliEnds
  <2>3. ASSUME NEW u \in Slot
        PROVE  req'[u] \in Request /\ SoundRequest(req[u])'
    <3>1. PICK x : x = req[u]
      OBVIOUS
    <3>2. x \in Request /\ SoundRequest(x)
      BY <3>1 DEF SessionInv
    <3>3. CASE x.stage = "nmcli" /\ x.id = p.id
      <4>q. PICK q : q = [x EXCEPT !.result = res]
        OBVIOUS
      <4>1. x \in Connecting
        BY <3>2, <3>3 DEF Request, NoRequest, Waiting, Connecting
      <4>2. q \in Connecting /\ q.stage = "nmcli" /\ q.live = x.live
        BY <4>1, <4>q DEF Connecting
      <4>3. SoundRequest(q)'
        BY <3>2, <3>3, <4>2 DEF SoundRequest
      <4>4. req'[u] = q
        BY <2>2, <3>1, <3>3, <4>q
      <4> QED
        BY <4>2, <4>3, <4>4 DEF Request
    <3>4. CASE ~(x.stage = "nmcli" /\ x.id = p.id)
      <4>1. req'[u] = x
        BY <2>2, <3>1, <3>4
      <4>2. SoundRequest(x)'
        BY <2>1, <3>2, RequestStays
      <4> QED
        BY <3>2, <4>1, <4>2
    <3> QED
      BY <3>3, <3>4
  <2>4. req' = [s \in Slot |-> req'[s]]
    BY <2>2
  <2>5. req' \in [Slot -> Request]
    BY <2>3, <2>4
  <2> QED
    BY <2>1, <2>3, <2>5 DEF SessionInv, TokensMove
<1>9. ASSUME NEW t \in Token, EndSession(t)
      PROVE  SessionInv'
  <2>1. TokensMove /\ req' = req
    BY <1>0, <1>9 DEF EndSession, TokensMove
  <2> QED
    BY <2>1, RequestsStay
<1>10. CASE Restart
  BY <1>0, <1>10 DEF Restart, SessionInv, Request, NoRequest, SoundRequest
<1>11. CASE Tick \/ UNCHANGED vars
  BY <1>11, <1>a, RequestsStay DEF Tick, vars
<1> QED
  BY <1>1, <1>2, <1>3, <1>4, <1>5, <1>6, <1>7, <1>8, <1>9, <1>10, <1>11
     DEF Next, Handler

LEMMA SessionInvariant == Spec => []SessionInv
  BY InitSession, NextSession, PTL DEF Spec

\* authn_rate_middleware and wifi_apply: between the arrival of a request and
\* its handler the session may end and others begin; a request whose session
\* had ended when it arrived reaches no protected handler.
THEOREM RevokedIsOut == Spec => []RevokedStaysOut
<1>1. SessionInv => RevokedStaysOut
  BY DEF SessionInv, Request, NoRequest, Waiting, Connecting, SoundRequest, RevokedStaysOut
<1> QED
  BY <1>1, SessionInvariant, PTL

-----------------------------------------------------------------------------
(***************************************************************************)
(* Wi-Fi.  The strengthening: as long as no applies overlapped there is    *)
(* one nmcli at most and one request at most that waits for one, the same; *)
(* while there is either, the file does not say ok; and a request that     *)
(* knows of success waits with its network connected.                      *)
(***************************************************************************)
OneApply ==
    /\ \A p, q \in running : p = q
    /\ \A s, t \in Applying : s = t
    /\ \A p \in running, s \in Applying :
           req[s].id = p.id /\ req[s].ssid = p.ssid /\ req[s].result = "none"

WifiInv ==
    ~overlap =>
        /\ OneApply
        /\ running # {} \/ Applying # {} => ~file.ok
        /\ \A s \in Applying : req[s].result = "ok" => net = req[s].ssid
        /\ file.ok => net = file.ssid

\* A step of requests that leaves the Wi-Fi alone; a request may be dropped
\* while its nmcli runs.
LEMMA WifiStays ==
    ASSUME WifiInv, UNCHANGED <<net, running, overlap>>,
           file' = file \/ ~file'.ok,
           \A s \in Slot : req'[s] = req[s] \/ req'[s].stage # "nmcli"
    PROVE  WifiInv'
<1>1. /\ Applying' \subseteq Applying
      /\ \A s \in Applying' : req'[s] = req[s]
  BY DEF Applying
<1> HIDE DEF Applying
<1> QED
  BY <1>1 DEF WifiInv, OneApply

LEMMA InitWifi == Init => WifiInv
<1> SUFFICES ASSUME Init
             PROVE  WifiInv
  OBVIOUS
<1>1. Applying = {} /\ running = {} /\ ~file.ok
  BY DEF Init, Applying, NoRequest
<1> QED
  BY <1>1 DEF WifiInv, OneApply

LEMMA NextWifi == SessionInv /\ WifiInv /\ [Next]_vars => WifiInv'
<1> SUFFICES ASSUME SessionInv, WifiInv, [Next]_vars
             PROVE  WifiInv'
  OBVIOUS
<1> USE DEF sessionVars, rateVars, wifiVars, passkeyVars
<1>0. req \in [Slot -> Request]
  BY DEF SessionInv
<1>a. ASSUME NEW s \in Slot, Answered(s)
      PROVE  \A u \in Slot : req'[u] = req[u] \/ req'[u].stage # "nmcli"
  BY <1>0, <1>a DEF Answered, NoRequest
<1>1. ASSUME NEW s \in Slot, NEW ip \in Ip, NEW r \in load.routes,
             NEW t \in minted \cup {None}, Arrive(s, ip, r, t)
      PROVE  WifiInv'
  BY <1>0, <1>1, WifiStays DEF Arrive
<1>2. ASSUME NEW s \in Slot, Gate(s)
      PROVE  WifiInv'
  <2>1. CASE req' = [req EXCEPT ![s].stage = "admitted"]
    <3>1. req[s] \in Waiting
      BY <1>0, <1>2 DEF Gate, Request, NoRequest, Waiting, Connecting
    <3>2. \A u \in Slot : req'[u] = req[u] \/ req'[u].stage # "nmcli"
      BY <1>0, <2>1, <3>1 DEF Waiting
    <3> QED
      BY <1>2, <3>2, WifiStays DEF Gate
  <2> QED
    BY <1>2, <1>a, <2>1, WifiStays DEF Gate
<1>3. ASSUME NEW s \in Slot, Disconnect(s) \/ Look(s) \/ ClaimNode(s) \/ CeremonyUnknown(s)
      PROVE  WifiInv'
  BY <1>3, <1>a, WifiStays DEF Disconnect, Look, ClaimNode, CeremonyUnknown
<1>4. ASSUME NEW s \in Slot, NEW p \in Purpose, CeremonyBegin(s, p)
      PROVE  WifiInv'
  BY <1>4, <1>a, WifiStays DEF CeremonyBegin
<1>5. ASSUME NEW s \in Slot, NEW p, NEW c, NEW cred, CeremonyFinish(s, p, c, cred)
      PROVE  WifiInv'
  BY <1>5, <1>a, WifiStays DEF CeremonyFinish
<1>6. ASSUME NEW s \in Slot, NEW ssid \in Ssid, WifiBegin(s, ssid)
      PROVE  WifiInv'
  <2> SUFFICES ASSUME ~overlap'
               PROVE  WifiInv'
    BY DEF WifiInv
  <2> DEFINE q == [stage |-> "nmcli", id |-> req[s].id, ssid |-> ssid,
                   result |-> "none", live |-> req[s].live]
             p == [id |-> req[s].id, ssid |-> ssid]
  <2>1. /\ running = {} /\ Applying = {} /\ running' = {p}
        /\ req' = [req EXCEPT ![s] = q] /\ ~file'.ok
    BY <1>0, <1>6 DEF WifiBegin, StartNmcli, Save
  <2>2. Applying' = {s} /\ req'[s] = q
    BY <1>0, <2>1 DEF Applying
  <2>3. q.id = p.id /\ q.ssid = p.ssid /\ q.result = "none"
    OBVIOUS
  <2> HIDE DEF p, q, Applying
  <2> QED
    BY <2>1, <2>2, <2>3 DEF WifiInv, OneApply
<1>7. ASSUME NEW s \in Slot, WifiRefused(s)
      PROVE  WifiInv'
  <2>1. file' = file \/ ~file'.ok
    BY <1>7 DEF WifiRefused, SaveFails
  <2> QED
    BY <1>7, <1>a, <2>1, WifiStays DEF WifiRefused
<1>8. ASSUME NEW s \in Slot, WifiEnd(s)
      PROVE  WifiInv'
  <2>1. CASE SaveFails
    <3>1. file' = file \/ ~file'.ok
      BY <2>1 DEF SaveFails
    <3> QED
      BY <1>8, <1>a, <3>1, WifiStays DEF WifiEnd
  <2>2. CASE Save(req[s].ssid, req[s].result = "ok")
    <3> SUFFICES ASSUME ~overlap'
                 PROVE  WifiInv'
      BY DEF WifiInv
    <3>1. /\ ~overlap /\ UNCHANGED <<net, running, overlap>>
          /\ s \in Applying /\ req[s].result # "none"
          /\ req' = [req EXCEPT ![s] = NoRequest]
      BY <1>8 DEF WifiEnd, Applying, Answered
    <3>2. running = {} /\ \A t \in Applying : t = s
      BY <3>1 DEF WifiInv, OneApply
    <3>3. Applying' = {}
      BY <1>0, <3>1, <3>2 DEF Applying, NoRequest
    <3>4. file'.ok => req[s].result = "ok" /\ file'.ssid = req[s].ssid
      BY <2>2 DEF Save
    <3>5. file'.ok => net' = file'.ssid
      BY <3>1, <3>4 DEF WifiInv
    <3> HIDE DEF Applying
    <3> QED
      BY <3>1, <3>2, <3>3, <3>5 DEF WifiInv, OneApply
  <2> QED
    BY <1>8, <2>1, <2>2 DEF WifiEnd
<1>9. ASSUME NEW p \in running, NmcliEnds(p)
      PROVE  WifiInv'
  <2> SUFFICES ASSUME ~overlap'
               PROVE  WifiInv'
    BY DEF WifiInv
  <2>1. /\ ~overlap /\ UNCHANGED <<file, overlap>> /\ running' = running \ {p}
    BY <1>9 DEF NmcliEnds
  <2>2. ~file.ok /\ running' = {} /\ OneApply
    BY <2>1 DEF WifiInv, OneApply
  <2>3. PICK res \in {"ok", "failed"} :
            /\ res = "ok" => net' = p.ssid
            /\ req' = [s \in Slot |->
                          IF req[s].stage = "nmcli" /\ req[s].id = p.id
                          THEN [req[s] EXCEPT !.result = res] ELSE req[s]]
    BY <1>9 DEF NmcliEnds
  <2>4. ASSUME NEW s \in Slot
        PROVE  /\ req'[s].stage = req[s].stage
               /\ req[s].stage = "nmcli" /\ req[s].id = p.id =>
                      req'[s].ssid = req[s].ssid /\ req'[s].result = res
    <3>1. CASE req[s].stage = "nmcli" /\ req[s].id = p.id
      <4>1. req[s] \in Connecting
        BY <1>0, <3>1 DEF Request, NoRequest, Waiting, Connecting
      <4>2. req'[s] = [req[s] EXCEPT !.result = res]
        BY <2>3, <3>1
      <4> QED
        BY <4>1, <4>2 DEF Connecting
    <3>2. CASE ~(req[s].stage = "nmcli" /\ req[s].id = p.id)
      BY <2>3, <3>2
    <3> QED
      BY <3>1, <3>2
  <2>5. Applying' = Applying
    BY <2>4 DEF Applying
  <2>6. \A s \in Applying : /\ s \in Slot /\ req[s].stage = "nmcli"
                            /\ req[s].id = p.id /\ req[s].ssid = p.ssid
    BY <2>2 DEF OneApply, Applying
  <2>7. \A s \in Applying : req'[s].result = "ok" => net' = req'[s].ssid
    BY <2>3, <2>4, <2>6
  <2> HIDE DEF Applying
  <2> QED
    BY <2>1, <2>2, <2>5, <2>7 DEF WifiInv, OneApply
<1>10. ASSUME NEW t \in Token, EndSession(t)
       PROVE  WifiInv'
  BY <1>10, WifiStays DEF EndSession
<1>11. CASE Restart
  BY <1>11, WifiStays DEF Restart, NoRequest
<1>12. CASE Tick \/ UNCHANGED vars
  BY <1>12, WifiStays DEF Tick, vars
<1> QED
  BY <1>1, <1>2, <1>3, <1>4, <1>5, <1>6, <1>7, <1>8, <1>9, <1>10, <1>11, <1>12
     DEF Next, Handler

\* wifi_apply and save_wifi_disk: unless two applies overlapped, a wifi.json
\* that says ok names the network that is connected.
THEOREM WifiFileAgrees == Spec => []WifiAgrees
<1>1. WifiInv => WifiAgrees
  BY DEF WifiInv, WifiAgrees
<1> QED
  BY <1>1, SessionInvariant, InitWifi, NextWifi, PTL DEF Spec

-----------------------------------------------------------------------------
(***************************************************************************)
(* Passkeys.  The strengthening: a challenge that can still be answered    *)
(* has completed nothing and has the purpose it was minted for, and every  *)
(* credential comes from a registration that this process completed.       *)
(***************************************************************************)
Ceremony == [id : Nat, purpose : Purpose, cred : Cred]

ChallengesOpen ==
    \A c \in challenges :
        /\ c.id \in 1..Len(asked) /\ asked[c.id] = c.purpose
        /\ \A i \in 1..Len(done) : done[i].id # c.id

DoneWereAsked == \A i \in 1..Len(done) : done[i].id \in 1..Len(asked)

CredsRegistered ==
    \A cred \in creds : \E j \in 1..Len(done) :
        done[j].purpose = "register" /\ done[j].cred = cred

CeremonyInv ==
    /\ asked \in Seq(Purpose) /\ done \in Seq(Ceremony)
    /\ challenges \subseteq [id : Nat, purpose : Purpose]
    /\ ChallengesOpen /\ DoneWereAsked /\ CredsRegistered /\ CeremonyOnce

LEMMA InitCeremony == Init => CeremonyInv
  BY DEF Init, CeremonyInv, ChallengesOpen, DoneWereAsked, CredsRegistered, CeremonyOnce

LEMMA CeremonyStays ==
    ASSUME CeremonyInv, UNCHANGED <<asked, creds, done>>, challenges' \subseteq challenges
    PROVE  CeremonyInv'
  BY DEF CeremonyInv, ChallengesOpen, DoneWereAsked, CredsRegistered, CeremonyOnce

\* begin_registration, begin_authentication: a fresh number, never completed.
LEMMA BeginKeeps ==
    ASSUME CeremonyInv, NEW s \in Slot, NEW p \in Purpose, CeremonyBegin(s, p)
    PROVE  CeremonyInv'
<1> DEFINE new == [id |-> Len(asked) + 1, purpose |-> p]
<1>1. /\ asked \in Seq(Purpose) /\ done \in Seq(Ceremony) /\ Len(asked) \in Nat
      /\ challenges \subseteq [id : Nat, purpose : Purpose]
  BY DEF CeremonyInv
<1>2. asked' = Append(asked, p) /\ UNCHANGED <<creds, done>>
  BY DEF CeremonyBegin
<1>3. /\ asked' \in Seq(Purpose) /\ Len(asked') = Len(asked) + 1
      /\ asked'[Len(asked) + 1] = p
      /\ \A i \in 1..Len(asked) : asked'[i] = asked[i]
  BY <1>1, <1>2
<1>4. challenges' = challenges \cup {new}
  BY <1>3 DEF CeremonyBegin
<1>5. new.id = Len(asked) + 1 /\ new.purpose = p /\ new \in [id : Nat, purpose : Purpose]
  BY <1>1
<1> HIDE DEF new
<1>6. challenges' \subseteq [id : Nat, purpose : Purpose]
  BY <1>1, <1>4, <1>5
<1>7. ChallengesOpen'
  <2>1. ASSUME NEW c \in challenges'
        PROVE  /\ c.id \in 1..Len(asked') /\ asked'[c.id] = c.purpose
               /\ \A i \in 1..Len(done') : done'[i].id # c.id
    <3>1. CASE c = new
      BY <1>1, <1>2, <1>3, <1>5, <3>1 DEF CeremonyInv, DoneWereAsked
    <3>2. CASE c \in challenges
      BY <1>1, <1>2, <1>3, <3>2 DEF CeremonyInv, ChallengesOpen
    <3> QED
      BY <1>4, <3>1, <3>2
  <2> QED
    BY <2>1 DEF ChallengesOpen
<1>8. DoneWereAsked'
  BY <1>1, <1>2, <1>3 DEF CeremonyInv, DoneWereAsked
<1>9. CredsRegistered'
  BY <1>2 DEF CeremonyInv, CredsRegistered
<1>10. CeremonyOnce'
  <2>1. DOMAIN done = 1..Len(done)
    BY <1>1
  <2>2. \A i \in DOMAIN done : asked'[done[i].id] = asked[done[i].id]
    BY <1>3, <2>1 DEF CeremonyInv, DoneWereAsked
  <2> QED
    BY <1>2, <2>2 DEF CeremonyInv, CeremonyOnce
<1> QED
  BY <1>1, <1>2, <1>3, <1>6, <1>7, <1>8, <1>9, <1>10 DEF CeremonyInv

\* finish_registration, finish_authentication with an answer that is good.
LEMMA CompleteKeeps ==
    ASSUME CeremonyInv, NEW p \in Purpose, NEW c \in challenges, NEW cred \in Cred,
           Completes(p, c, cred), Complete(p, c, cred),
           challenges' = challenges \ {c}, asked' = asked
    PROVE  CeremonyInv'
<1> DEFINE n == Len(done)
           new == [id |-> c.id, purpose |-> p, cred |-> cred]
<1>1. /\ asked \in Seq(Purpose) /\ done \in Seq(Ceremony) /\ n \in Nat
      /\ challenges \subseteq [id : Nat, purpose : Purpose] /\ c.id \in Nat
  BY DEF CeremonyInv
<1>2. /\ new \in Ceremony /\ new.id = c.id /\ new.purpose = p /\ new.cred = cred
      /\ done' = Append(done, new) /\ creds' = creds \cup {cred}
  BY <1>1 DEF Complete, Ceremony
<1> HIDE DEF new
<1>3. /\ done' \in Seq(Ceremony) /\ Len(done') = n + 1 /\ done'[n + 1] = new
      /\ \A i \in 1..n : done'[i] = done[i]
      /\ DOMAIN done' = 1..(n + 1) /\ DOMAIN done = 1..n
  BY <1>1, <1>2
<1>4. /\ c.id \in 1..Len(asked) /\ asked[c.id] = p
      /\ \A i \in 1..n : done[i].id # c.id
  BY DEF CeremonyInv, ChallengesOpen, Completes
<1>5. \A i \in 1..(n + 1) : i = n + 1 \/ i \in 1..n
  BY <1>1
<1>6. \A b \in challenges' : b \in challenges /\ b.id # c.id
  <2>1. ASSUME NEW b \in challenges, b.id = c.id
        PROVE  b = c
    BY <1>1, <2>1 DEF CeremonyInv, ChallengesOpen
  <2> QED
    BY <2>1
<1>7. ChallengesOpen'
  BY <1>2, <1>3, <1>5, <1>6 DEF CeremonyInv, ChallengesOpen
<1>8. DoneWereAsked'
  BY <1>2, <1>3, <1>4, <1>5 DEF CeremonyInv, DoneWereAsked
<1>9. p = "authenticate" => \E j \in 1..n : /\ done[j].purpose = "register"
                                            /\ done[j].cred = cred
  BY DEF CeremonyInv, CredsRegistered, Completes
<1>10. CredsRegistered'
  <2>1. ASSUME NEW x \in creds'
        PROVE  \E j \in 1..(n + 1) : done'[j].purpose = "register" /\ done'[j].cred = x
    <3>1. CASE \E j \in 1..n : done[j].purpose = "register" /\ done[j].cred = x
      <4>1. PICK j \in 1..n : done[j].purpose = "register" /\ done[j].cred = x
        BY <3>1
      <4>2. j \in 1..(n + 1) /\ done'[j] = done[j]
        BY <1>1, <1>3
      <4> QED
        BY <4>1, <4>2
    <3>2. CASE x = cred /\ p = "register"
      <4>1. n + 1 \in 1..(n + 1)
        BY <1>1
      <4> QED
        BY <1>2, <1>3, <3>2, <4>1
    <3> QED
      BY <1>2, <1>9, <3>1, <3>2 DEF CeremonyInv, CredsRegistered, Purpose
  <2> QED
    BY <1>3, <2>1 DEF CredsRegistered
<1>11. CeremonyOnce'
  <2>1. ASSUME NEW i \in 1..(n + 1)
        PROVE  /\ done'[i].purpose = asked[done'[i].id]
               /\ \A j \in 1..(n + 1) : done'[i].id = done'[j].id => i = j
               /\ done'[i].purpose = "authenticate"
                      => \E j \in 1..(i - 1) : /\ done'[j].purpose = "register"
                                               /\ done'[j].cred = done'[i].cred
    <3>1. CASE i = n + 1
      <4>1. i - 1 = n
        BY <1>1, <3>1
      <4> QED
        BY <1>2, <1>3, <1>4, <1>5, <1>9, <3>1, <4>1
    <3>2. CASE i \in 1..n
      <4>1. /\ done[i].purpose = asked[done[i].id]
            /\ \A j \in 1..n : done[i].id = done[j].id => i = j
            /\ done[i].purpose = "authenticate"
                   => \E j \in 1..(i - 1) : /\ done[j].purpose = "register"
                                            /\ done[j].cred = done[i].cred
        BY <1>3, <3>2 DEF CeremonyInv, CeremonyOnce
      <4>2. 1..(i - 1) \subseteq 1..n
        BY <1>1, <3>2
      <4> QED
        BY <1>2, <1>3, <1>4, <1>5, <3>2, <4>1, <4>2
    <3> QED
      BY <1>5, <3>1, <3>2
  <2> QED
    BY <1>3, <2>1 DEF CeremonyOnce
<1>12. challenges' \subseteq [id : Nat, purpose : Purpose]
  BY <1>1
<1> QED
  BY <1>1, <1>3, <1>7, <1>8, <1>10, <1>11, <1>12 DEF CeremonyInv

LEMMA NextCeremony == CeremonyInv /\ [Next]_vars => CeremonyInv'
<1> SUFFICES ASSUME CeremonyInv, [Next]_vars
             PROVE  CeremonyInv'
  OBVIOUS
<1>1. CASE UNCHANGED passkeyVars
  BY <1>1, CeremonyStays DEF passkeyVars
<1>2. ASSUME NEW s \in Slot, NEW p \in Purpose, CeremonyBegin(s, p)
      PROVE  CeremonyInv'
  BY <1>2, BeginKeeps
<1>3. ASSUME NEW s \in Slot, NEW p \in Purpose, NEW c \in challenges, NEW cred \in Cred,
             CeremonyFinish(s, p, c, cred)
      PROVE  CeremonyInv'
  BY <1>3, CompleteKeeps, CeremonyStays DEF CeremonyFinish
<1>4. CASE Restart
  BY <1>4 DEF Restart, CeremonyInv, ChallengesOpen, DoneWereAsked, CredsRegistered,
              CeremonyOnce
<1>5. ASSUME NEW s \in Slot,
             \/ Gate(s) \/ Disconnect(s) \/ Look(s) \/ ClaimNode(s)
             \/ WifiRefused(s) \/ WifiEnd(s) \/ CeremonyUnknown(s)
             \/ \E ssid \in Ssid : WifiBegin(s, ssid)
      PROVE  UNCHANGED passkeyVars
  BY <1>5 DEF Gate, Disconnect, Look, ClaimNode, WifiRefused, WifiEnd, WifiBegin,
              CeremonyUnknown
<1>6. ASSUME \/ \E s \in Slot, ip \in Ip, r \in load.routes, t \in minted \cup {None} :
                    Arrive(s, ip, r, t)
             \/ \E p \in running : NmcliEnds(p)
             \/ \E t \in Token : EndSession(t)
             \/ Tick \/ UNCHANGED vars
      PROVE  UNCHANGED passkeyVars
  BY <1>6 DEF Arrive, NmcliEnds, EndSession, Tick, vars
<1> QED
  BY <1>1, <1>2, <1>3, <1>4, <1>5, <1>6 DEF Next, Handler

\* finish_registration and finish_authentication: whatever answers come and in
\* whatever order, a challenge completes one ceremony at most, the one it was
\* minted for, and only a registered credential authenticates.
THEOREM ChallengeCompletesOnce == Spec => []CeremonyOnce
<1>1. CeremonyInv => CeremonyOnce
  BY DEF CeremonyInv
<1> QED
  BY <1>1, InitCeremony, NextCeremony, PTL DEF Spec

-----------------------------------------------------------------------------
(***************************************************************************)
(* The rate limit.  What passed in the last window of time falls in two    *)
(* windows of the book at most: the one the book has, which counts exactly *)
(* what passed since it began, and the one before.  Of either at most l    *)
(* requests had a limit up to l.  A window that the book has forgotten was *)
(* over, so that what is left of the key is from that one window.          *)
(***************************************************************************)
PassRecord == [id : Nat, key : Key, at : Nat, limit : Nat]

Mine(P, k)      == {p \in P : p.key = k}
UpTo(P, l)      == {p \in P : p.limit <= l}
Since(P, start) == {p \in P : p.at >= start}
Prior(P, start) == {p \in P : p.at < start}

\* The book b and the passes P of key k at time t, for a key with a window ...
WindowFits(w, P, t) ==
    /\ w.start \in Nat /\ w.start <= t /\ w.count \in Nat
    /\ \A p \in P : p.at < w.start + Window
    /\ \A l \in Nat : /\ Cardinality(Since(UpTo(P, l), w.start)) <= l
                      /\ Cardinality(Prior(UpTo(P, l), w.start)) <= l
    /\ t < w.start + Window => Cardinality(Since(P, w.start)) = w.count

\* ... and without one.
RestFits(P, t) ==
    /\ \A p \in P : p.at < t
    /\ \A l \in Nat : Cardinality(UpTo(P, l)) <= l

\* Passes of the last window of time up to t.
Recent(P, t) ==
    /\ IsFiniteSet(P) /\ P \subseteq PassRecord
    /\ \A p \in P : p.at <= t /\ p.at + Window > t

RateInv ==
    /\ now \in Nat /\ count \in Nat /\ load \in Loads
    /\ DOMAIN book \subseteq Key
    /\ \A k \in DOMAIN book : book[k] \in [start : Nat, count : Nat]
    /\ Recent(passed, now) /\ \A p \in passed : p.id < count
    /\ \A k \in Key :
           IF k \in DOMAIN book
           THEN WindowFits(book[k], Mine(passed, k), now)
           ELSE RestFits(Mine(passed, k), now)

\* The parts of a finite set of passes are finite, with natural sizes.
LEMMA PartsFinite ==
    ASSUME NEW P, IsFiniteSet(P), NEW T, T \subseteq P
    PROVE  /\ IsFiniteSet(T) /\ Cardinality(T) \in Nat /\ Cardinality(P) \in Nat
           /\ Cardinality(T) <= Cardinality(P)
<1>1. IsFiniteSet(T) /\ Cardinality(T) <= Cardinality(P)
  BY FS_Subset
<1> QED
  BY <1>1, FS_CardinalityType

LEMMA MineRecent ==
    ASSUME NEW P, NEW t, Recent(P, t), NEW k
    PROVE  Recent(Mine(P, k), t)
<1>1. Mine(P, k) \subseteq P
  BY DEF Mine
<1> QED
  BY <1>1, PartsFinite DEF Recent

\* A window that is over holds all that is left of its key.
LEMMA OverIsRest ==
    ASSUME NEW P, NEW t \in Nat, Recent(P, t), NEW w, WindowFits(w, P, t),
           w.start + Window <= t
    PROVE  RestFits(P, t)
<1>1. Window \in Nat /\ w.start \in Nat
  BY GateAssumption DEF WindowFits
<1>2. \A p \in P : p.at \in Nat /\ p.at < w.start + Window /\ p.at + Window > t
  BY DEF Recent, WindowFits, PassRecord
<1>3. \A p \in P : p.at < t /\ p.at >= w.start
  BY <1>1, <1>2
<1>4. \A l : Since(UpTo(P, l), w.start) = UpTo(P, l)
  BY <1>3 DEF Since, UpTo
<1> QED
  BY <1>3, <1>4 DEF RestFits, WindowFits

\* A request that passes begins a window ...
LEMMA FirstPass ==
    ASSUME NEW P, NEW t \in Nat, Recent(P, t), RestFits(P, t),
           NEW x \in PassRecord, x.at = t, x.limit > 0
    PROVE  WindowFits([start |-> t, count |-> 1], P \cup {x}, t)
<1> DEFINE w == [start |-> t, count |-> 1]
           Q == P \cup {x}
<1>1. /\ Window \in Nat \ {0} /\ x.limit \in Nat /\ w.start = t /\ w.count = 1
      /\ \A p \in P : p.at \in Nat /\ p.limit \in Nat /\ p.at < t
  BY GateAssumption DEF Recent, RestFits, PassRecord
<1>2. \A p \in Q : p.at < w.start + Window
  BY <1>1
<1>3. Since(Q, t) = {x}
  BY <1>1 DEF Since
<1>4. Cardinality({x}) = 1 /\ IsFiniteSet({x})
  BY FS_Singleton
<1>5. ASSUME NEW l \in Nat
      PROVE  /\ Cardinality(Since(UpTo(Q, l), t)) <= l
             /\ Cardinality(Prior(UpTo(Q, l), t)) <= l
  <2>1. Prior(UpTo(Q, l), t) = UpTo(P, l)
    BY <1>1 DEF Prior, UpTo
  <2>2. Since(UpTo(Q, l), t) = IF x.limit <= l THEN {x} ELSE {}
    BY <1>1 DEF Since, UpTo
  <2>3. Cardinality({}) = 0
    BY FS_EmptySet
  <2>4. Cardinality(Since(UpTo(Q, l), t)) <= l
    <3>1. CASE x.limit <= l
      <4>1. Since(UpTo(Q, l), t) = {x}
        BY <2>2, <3>1
      <4>2. Cardinality(Since(UpTo(Q, l), t)) = 1
        BY <1>4, <4>1
      <4>3. 1 <= l
        BY <1>1, <3>1
      <4> HIDE DEF Q, w
      <4> QED
        BY <4>2, <4>3
    <3>2. CASE ~(x.limit <= l)
      BY <2>2, <2>3, <3>2
    <3> QED
      BY <3>1, <3>2
  <2> QED
    BY <2>1, <2>4 DEF RestFits
<1>6. WindowFits(w, Q, t)
  <2> HIDE DEF w, Q
  <2>1. w.start \in Nat /\ w.start <= t /\ w.count \in Nat
    BY <1>1
  <2>2. Cardinality(Since(Q, w.start)) = w.count
    BY <1>1, <1>3, <1>4
  <2>3. \A l \in Nat : /\ Cardinality(Since(UpTo(Q, l), w.start)) <= l
                       /\ Cardinality(Prior(UpTo(Q, l), w.start)) <= l
    BY <1>1, <1>5
  <2> QED
    BY <1>2, <2>1, <2>2, <2>3 DEF WindowFits
<1> QED
  BY <1>6

\* ... or counts in the one there is.
LEMMA NextPass ==
    ASSUME NEW P, NEW t \in Nat, Recent(P, t), NEW w, WindowFits(w, P, t),
           t < w.start + Window, NEW x \in PassRecord, x \notin P, x.at = t,
           w.count < x.limit, NEW v, v.start = w.start, v.count = w.count + 1
    PROVE  WindowFits(v, P \cup {x}, t)
<1> DEFINE Q == P \cup {x}
           a == w.start
<1>1. /\ Window \in Nat /\ x.limit \in Nat /\ a \in Nat /\ a <= t /\ w.count \in Nat
      /\ \A p \in P : p.at \in Nat /\ p.limit \in Nat /\ p.at < a + Window
  BY GateAssumption DEF Recent, WindowFits, PassRecord
<1>2. \A p \in Q : p.at < v.start + Window
  BY <1>1
<1>3. IsFiniteSet(P) /\ Since(P, a) \subseteq P
  BY DEF Recent, Since
<1>4. IsFiniteSet(Since(P, a)) /\ Cardinality(Since(P, a)) = w.count
  BY <1>3, PartsFinite DEF WindowFits
<1>5. Since(Q, a) = Since(P, a) \cup {x} /\ x \notin Since(P, a)
  BY <1>1 DEF Since
<1>6. Cardinality(Since(Q, a)) = w.count + 1
  BY <1>4, <1>5, FS_AddElement
<1>7. ASSUME NEW l \in Nat
      PROVE  /\ Cardinality(Since(UpTo(Q, l), a)) <= l
             /\ Cardinality(Prior(UpTo(Q, l), a)) <= l
  <2>1. Prior(UpTo(Q, l), a) = Prior(UpTo(P, l), a)
    BY <1>1 DEF Prior, UpTo
  <2>2. CASE x.limit <= l
    <3>1. Since(UpTo(Q, l), a) \subseteq Since(Q, a) /\ IsFiniteSet(Since(Q, a))
      <4>1. Since(UpTo(Q, l), a) \subseteq Since(Q, a)
        BY DEF Since, UpTo
      <4>2. IsFiniteSet(Since(P, a) \cup {x})
        BY <1>4, FS_AddElement
      <4> QED
        BY <1>5, <4>1, <4>2
    <3>2. /\ Cardinality(Since(UpTo(Q, l), a)) <= Cardinality(Since(Q, a))
          /\ Cardinality(Since(UpTo(Q, l), a)) \in Nat
      BY <3>1, PartsFinite
    <3> HIDE DEF Q, a
    <3> QED
      BY <1>1, <1>6, <2>1, <2>2, <3>2 DEF WindowFits, a
  <2>3. CASE ~(x.limit <= l)
    <3>1. Since(UpTo(Q, l), a) = Since(UpTo(P, l), a)
      BY <2>3 DEF Since, UpTo
    <3> QED
      BY <2>1, <3>1 DEF WindowFits
  <2> QED
    BY <2>2, <2>3
<1>8. WindowFits(v, Q, t)
  <2> HIDE DEF Q
  <2>1. v.start = a /\ v.start \in Nat /\ v.start <= t /\ v.count \in Nat
    BY <1>1
  <2>2. Cardinality(Since(Q, v.start)) = v.count
    BY <1>6, <2>1
  <2>3. \A l \in Nat : /\ Cardinality(Since(UpTo(Q, l), v.start)) <= l
                       /\ Cardinality(Prior(UpTo(Q, l), v.start)) <= l
    BY <1>7, <2>1
  <2> HIDE DEF a
  <2> QED
    BY <1>2, <2>1, <2>2, <2>3 DEF WindowFits
<1> QED
  BY <1>8

\* Time passes and the oldest passes are no longer recent.
LEMMA TimePasses ==
    ASSUME NEW P, NEW t \in Nat, Recent(P, t), NEW Q,
           Q = {p \in P : p.at + Window > t + 1}
    PROVE  /\ Recent(Q, t + 1)
           /\ RestFits(P, t) => RestFits(Q, t + 1)
           /\ \A w : WindowFits(w, P, t) => WindowFits(w, Q, t + 1)
<1>1. /\ Window \in Nat /\ IsFiniteSet(P) /\ Q \subseteq P
      /\ \A p \in P : p.at \in Nat /\ p.at <= t
  BY GateAssumption DEF Recent, PassRecord
<1>2. Recent(Q, t + 1)
  BY <1>1, PartsFinite DEF Recent
<1>3. ASSUME NEW T, NEW U, T \subseteq U, U \subseteq P, NEW l \in Nat, Cardinality(U) <= l
      PROVE  Cardinality(T) <= l
  <2>1. IsFiniteSet(U)
    BY <1>1, <1>3, PartsFinite
  <2>2. /\ Cardinality(T) <= Cardinality(U) /\ Cardinality(T) \in Nat
        /\ Cardinality(U) \in Nat
    BY <1>3, <2>1, PartsFinite
  <2> QED
    BY <1>3, <2>2
<1>4. ASSUME RestFits(P, t)
      PROVE  RestFits(Q, t + 1)
  <2>1. \A l : UpTo(Q, l) \subseteq UpTo(P, l) /\ UpTo(P, l) \subseteq P
    BY <1>1 DEF UpTo
  <2>2. \A l \in Nat : Cardinality(UpTo(Q, l)) <= l
    BY <1>3, <1>4, <2>1 DEF RestFits
  <2> QED
    BY <1>1, <1>4, <2>2 DEF RestFits
<1>5. ASSUME NEW w, WindowFits(w, P, t)
      PROVE  WindowFits(w, Q, t + 1)
  <2>1. /\ w.start \in Nat /\ w.start <= t + 1 /\ w.count \in Nat
        /\ \A p \in Q : p.at < w.start + Window
    BY <1>1, <1>5 DEF WindowFits
  <2>2. \A l : /\ Since(UpTo(Q, l), w.start) \subseteq Since(UpTo(P, l), w.start)
               /\ Prior(UpTo(Q, l), w.start) \subseteq Prior(UpTo(P, l), w.start)
               /\ Since(UpTo(P, l), w.start) \subseteq P
               /\ Prior(UpTo(P, l), w.start) \subseteq P
    BY <1>1 DEF Since, Prior, UpTo
  <2>3. \A l \in Nat : /\ Cardinality(Since(UpTo(Q, l), w.start)) <= l
                       /\ Cardinality(Prior(UpTo(Q, l), w.start)) <= l
    BY <1>3, <1>5, <2>2 DEF WindowFits
  <2>4. ASSUME t + 1 < w.start + Window
        PROVE  Cardinality(Since(Q, w.start)) = w.count
    <3>1. Since(Q, w.start) = Since(P, w.start)
      BY <1>1, <2>1, <2>4 DEF Since
    <3>2. t < w.start + Window
      BY <1>1, <2>1, <2>4
    <3> QED
      BY <1>5, <3>1, <3>2 DEF WindowFits
  <2> QED
    BY <2>1, <2>3, <2>4 DEF WindowFits
<1> QED
  BY <1>2, <1>4, <1>5

\* RateLimitBook::check: what the book has of a key after a pass is what it
\* had, with the window of the request's own key brought up to date; a window
\* that it has forgotten is over, and never the one of the request.
LEMMA BookAfterPass ==
    ASSUME RateInv, NEW s \in Slot, NEW ip \in Ip, NEW r \in load.routes, NEW t,
           Arrive(s, ip, r, t), NEW k, k = <<ip, Path(r)>>, NEW w, w = Current(k)
    PROVE  /\ k \in DOMAIN book' /\ DOMAIN book' \subseteq DOMAIN book \cup {k}
           /\ book'[k] = [w EXCEPT !.count = @ + 1]
           /\ \A x \in DOMAIN book' \ {k} : book'[x] = book[x]
           /\ \A x \in (DOMAIN book) \ DOMAIN book' : book[x].start + Keep <= now
           /\ now' = now /\ count' = count + 1 /\ load' = load
           /\ w.count < Limit(r)
           /\ passed' = passed \cup {[id |-> count, key |-> k, at |-> now, limit |-> Limit(r)]}
<1> DEFINE b == [x \in DOMAIN book \cup {k} |->
                    IF x = k THEN [w EXCEPT !.count = @ + 1] ELSE book[x]]
<1>1. /\ book' = Pruned(b) /\ now' = now /\ count' = count + 1 /\ load' = load
      /\ w.count < Limit(r)
      /\ passed' = passed \cup {[id |-> count, key |-> k, at |-> now, limit |-> Limit(r)]}
  BY DEF Arrive, sessionVars
<1>2. /\ DOMAIN b = DOMAIN book \cup {k} /\ b[k] = [w EXCEPT !.count = @ + 1]
      /\ \A x \in (DOMAIN b) \ {k} : b[x] = book[x]
  OBVIOUS
<1>3. /\ now \in Nat /\ Window \in Nat \ {0} /\ Keep \in Nat /\ Keep >= Window
      /\ \A x \in DOMAIN book : book[x].start \in Nat
  BY GateAssumption DEF RateInv, WindowFits
<1>4. b[k].start + Keep > now
  <2>1. CASE k \in DOMAIN book /\ now - book[k].start < Window
    <3>1. w = book[k]
      BY <2>1 DEF Current
    <3>2. b[k].start = w.start
      BY <1>2
    <3> HIDE DEF b
    <3> QED
      BY <1>3, <2>1, <3>1, <3>2
  <2>2. CASE ~(k \in DOMAIN book /\ now - book[k].start < Window)
    <3>1. w = [start |-> now, count |-> 0]
      BY <2>2 DEF Current
    <3>2. b[k].start = now
      BY <1>2, <3>1
    <3> HIDE DEF b
    <3> QED
      BY <1>3, <3>2
  <2> QED
    BY <2>1, <2>2
<1> HIDE DEF b
<1>5. /\ DOMAIN book' \subseteq DOMAIN b
      /\ \A x \in DOMAIN book' : book'[x] = b[x]
      /\ \A x \in (DOMAIN b) \ DOMAIN book' : ~(b[x].start + Keep > now)
  BY <1>1 DEF Pruned
<1>6. k \in DOMAIN book'
  BY <1>2, <1>4, <1>5
<1>7. \A x \in (DOMAIN book) \ DOMAIN book' : book[x].start + Keep <= now
  <2>1. ASSUME NEW x \in (DOMAIN book) \ DOMAIN book'
        PROVE  book[x].start + Keep <= now
    <3>1. x \in DOMAIN b /\ x # k /\ b[x] = book[x]
      BY <1>2, <1>6
    <3> QED
      BY <1>3, <1>5, <3>1
  <2> QED
    BY <2>1
<1> QED
  BY <1>1, <1>2, <1>5, <1>6, <1>7

LEMMA ArriveKeeps ==
    ASSUME RateInv, NEW s \in Slot, NEW ip \in Ip, NEW r \in load.routes, NEW t,
           Arrive(s, ip, r, t)
    PROVE  RateInv'
<1>k. PICK k : k = <<ip, Path(r)>>
  OBVIOUS
<1>w. PICK w : w = Current(k)
  OBVIOUS
<1>x. PICK x : x = [id |-> count, key |-> k, at |-> now, limit |-> Limit(r)]
  OBVIOUS
<1>1. /\ k \in DOMAIN book' /\ DOMAIN book' \subseteq DOMAIN book \cup {k}
      /\ book'[k] = [w EXCEPT !.count = @ + 1]
      /\ \A u \in DOMAIN book' \ {k} : book'[u] = book[u]
      /\ \A u \in (DOMAIN book) \ DOMAIN book' : book[u].start + Keep <= now
      /\ now' = now /\ count' = count + 1 /\ load' = load
      /\ w.count < Limit(r)
      /\ passed' = passed \cup {x}
  BY <1>k, <1>w, <1>x, BookAfterPass
<1>2. /\ now \in Nat /\ count \in Nat /\ load \in Loads /\ DOMAIN book \subseteq Key
      /\ Recent(passed, now) /\ \A p \in passed : p.id < count
  BY DEF RateInv
<1>3. r \in Route /\ k \in Key
  BY <1>2, <1>k, RoutesAssumption DEF Key
<1>4. Limit(r) \in Nat \ {0}
  BY GateAssumption DEF Limit
<1>5. /\ x \in PassRecord /\ x.id = count /\ x.key = k /\ x.at = now
      /\ x.limit = Limit(r)
  BY <1>2, <1>3, <1>4, <1>x DEF PassRecord
<1>6. x \notin passed
  BY <1>2, <1>5
<1>7. Window \in Nat \ {0} /\ Keep \in Nat /\ Keep >= Window
  BY GateAssumption
<1>8. Recent(passed', now') /\ \A p \in passed' : p.id < count'
  <2>1. IsFiniteSet(passed \cup {x})
    BY <1>2, FS_AddElement DEF Recent
  <2>2. \A p \in passed : p.id \in Nat
    BY <1>2 DEF Recent, PassRecord
  <2>3. Recent(passed \cup {x}, now)
    BY <1>2, <1>5, <1>7, <2>1 DEF Recent
  <2> QED
    BY <1>1, <1>2, <1>5, <2>2, <2>3
<1>9. Mine(passed', k) = Mine(passed, k) \cup {x} /\ x \notin Mine(passed, k)
  BY <1>1, <1>5, <1>6 DEF Mine
<1>10. Recent(Mine(passed, k), now)
  BY <1>2, MineRecent
<1>11. w \in [start : Nat, count : Nat]
  BY <1>2, <1>w DEF Current, RateInv
<1>12. book'[k] \in [start : Nat, count : Nat]
  BY <1>1, <1>11
<1>13. WindowFits(book'[k], Mine(passed', k), now)
  <2>1. CASE k \in DOMAIN book /\ now - book[k].start < Window
    <3>1. w = book[k] /\ WindowFits(w, Mine(passed, k), now)
      BY <1>3, <1>w, <2>1 DEF Current, RateInv
    <3>2. now < w.start + Window
      BY <1>2, <1>7, <2>1, <3>1 DEF WindowFits
    <3>3. /\ book'[k].start = w.start /\ book'[k].count = w.count + 1
          /\ w.count < x.limit
      BY <1>1, <1>5, <1>11
    <3>4. WindowFits(book'[k], Mine(passed, k) \cup {x}, now)
      BY <1>2, <1>5, <1>9, <1>10, <3>1, <3>2, <3>3, NextPass
    <3> QED
      BY <1>9, <3>4
  <2>2. CASE ~(k \in DOMAIN book /\ now - book[k].start < Window)
    <3>1. w = [start |-> now, count |-> 0]
      BY <1>w, <2>2 DEF Current
    <3>2. book'[k] = [start |-> now, count |-> 1]
      BY <1>1, <3>1
    <3>3. RestFits(Mine(passed, k), now)
      <4>1. CASE k \in DOMAIN book
        <5>1. WindowFits(book[k], Mine(passed, k), now)
          BY <1>3, <4>1 DEF RateInv
        <5>2. book[k].start + Window <= now
          BY <1>2, <1>7, <2>2, <4>1, <5>1 DEF WindowFits
        <5> QED
          BY <1>2, <1>10, <5>1, <5>2, OverIsRest
      <4>2. CASE k \notin DOMAIN book
        BY <1>3, <4>2 DEF RateInv
      <4> QED
        BY <4>1, <4>2
    <3> QED
      BY <1>2, <1>4, <1>5, <1>9, <1>10, <3>2, <3>3, FirstPass
  <2> QED
    BY <2>1, <2>2
<1>14. ASSUME NEW u \in Key, u # k
       PROVE  IF u \in DOMAIN book'
              THEN WindowFits(book'[u], Mine(passed', u), now)
              ELSE RestFits(Mine(passed', u), now)
  <2>1. Mine(passed', u) = Mine(passed, u)
    BY <1>1, <1>5, <1>14 DEF Mine
  <2>2. IF u \in DOMAIN book THEN WindowFits(book[u], Mine(passed, u), now)
        ELSE RestFits(Mine(passed, u), now)
    BY DEF RateInv
  <2>3. CASE u \in DOMAIN book'
    BY <1>1, <1>14, <2>1, <2>2, <2>3
  <2>4. CASE u \in DOMAIN book /\ u \notin DOMAIN book'
    <3>1. WindowFits(book[u], Mine(passed, u), now) /\ book[u].start + Keep <= now
      BY <1>1, <2>2, <2>4
    <3>2. book[u].start + Window <= now
      BY <1>2, <1>7, <3>1 DEF WindowFits
    <3>3. RestFits(Mine(passed, u), now)
      BY <1>2, <3>1, <3>2, MineRecent, OverIsRest
    <3> QED
      BY <2>1, <2>4, <3>3
  <2>5. CASE u \notin DOMAIN book /\ u \notin DOMAIN book'
    BY <2>1, <2>2, <2>5
  <2> QED
    BY <2>3, <2>4, <2>5
<1>15. /\ DOMAIN book' \subseteq Key
       /\ \A u \in DOMAIN book' : book'[u] \in [start : Nat, count : Nat]
  BY <1>1, <1>2, <1>3, <1>12 DEF RateInv
<1>16. ASSUME NEW u \in Key
       PROVE  (IF u \in DOMAIN book
               THEN WindowFits(book[u], Mine(passed, u), now)
               ELSE RestFits(Mine(passed, u), now))'
  <2>1. CASE u = k
    BY <1>1, <1>13, <2>1
  <2>2. CASE u # k
    BY <1>1, <1>14, <2>2
  <2> QED
    BY <2>1, <2>2
<1>17. now' \in Nat /\ count' \in Nat /\ load' \in Loads
  BY <1>1, <1>2
<1> QED
  BY <1>8, <1>15, <1>16, <1>17 DEF RateInv

LEMMA EmptyBook ==
    ASSUME NEW t, NEW k
    PROVE  /\ RestFits(Mine({}, k), t) /\ Recent({}, t)
           /\ DOMAIN << >> = {}
<1>1. Cardinality({}) = 0 /\ IsFiniteSet({})
  BY FS_EmptySet
<1>2. Mine({}, k) = {} /\ \A l : UpTo({}, l) = {}
  BY DEF Mine, UpTo
<1> QED
  BY <1>1, <1>2 DEF RestFits, Recent

LEMMA InitRate == Init => RateInv
  BY EmptyBook DEF Init, RateInv

LEMMA NextRate == RateInv /\ [Next]_vars => RateInv'
<1> SUFFICES ASSUME RateInv, [Next]_vars
             PROVE  RateInv'
  OBVIOUS
<1> USE DEF sessionVars, rateVars, wifiVars, passkeyVars
<1>1. CASE UNCHANGED <<load, rateVars>>
  BY <1>1 DEF RateInv
<1>2. ASSUME NEW s \in Slot,
             \/ Gate(s) \/ Disconnect(s) \/ Handler(s)
      PROVE  UNCHANGED <<load, rateVars>>
  BY <1>2 DEF Gate, Disconnect, Handler, Look, ClaimNode, WifiRefused, WifiEnd,
              WifiBegin, CeremonyBegin, CeremonyFinish, CeremonyUnknown
<1>3. ASSUME \/ \E p \in running : NmcliEnds(p)
             \/ \E t \in Token : EndSession(t)
             \/ UNCHANGED vars
      PROVE  UNCHANGED <<load, rateVars>>
  BY <1>3 DEF NmcliEnds, EndSession, vars
<1>4. CASE Restart
  BY <1>4, EmptyBook DEF Restart, RateInv
<1>5. CASE Tick
  <2>1. /\ now' = now + 1 /\ passed' = {p \in passed : p.at + Window > now + 1}
        /\ UNCHANGED <<book, count, load>>
    BY <1>5 DEF Tick
  <2>2. now \in Nat /\ Recent(passed, now)
    BY DEF RateInv
  <2>3. Recent(passed', now')
    BY <2>1, <2>2, TimePasses
  <2>4. ASSUME NEW k \in Key
        PROVE  IF k \in DOMAIN book
               THEN WindowFits(book[k], Mine(passed', k), now + 1)
               ELSE RestFits(Mine(passed', k), now + 1)
    <3>1. Mine(passed', k) = {p \in Mine(passed, k) : p.at + Window > now + 1}
      BY <2>1 DEF Mine
    <3>2. Recent(Mine(passed, k), now)
      BY <2>2, MineRecent
    <3>3. /\ RestFits(Mine(passed, k), now) => RestFits(Mine(passed', k), now + 1)
          /\ \A w : WindowFits(w, Mine(passed, k), now)
                        => WindowFits(w, Mine(passed', k), now + 1)
      BY <2>2, <3>1, <3>2, TimePasses
    <3> QED
      BY <3>3 DEF RateInv
  <2> QED
    BY <2>1, <2>2, <2>3, <2>4 DEF RateInv
<1> QED
  BY <1>1, <1>2, <1>3, <1>4, <1>5, ArriveKeeps DEF Next

LEMMA BookLimits == RateInv => RateHolds
<1> SUFFICES ASSUME RateInv
             PROVE  RateHolds
  OBVIOUS
<1>0. /\ now \in Nat /\ Recent(passed, now) /\ Window \in Nat \ {0}
      /\ \A r : Limit(r) \in Nat \ {0}
      /\ \A k : PassedOf(k) = Mine(passed, k)
      /\ \A k, l : Stricter(k, l) = UpTo(Mine(passed, k), l)
  BY GateAssumption DEF RateInv, Limit, PassedOf, Stricter, Mine, UpTo
<1>1. ASSUME NEW k \in Key, NEW l \in Nat
      PROVE  Cardinality(UpTo(Mine(passed, k), l)) <= 2 * l
  <2> DEFINE U == UpTo(Mine(passed, k), l)
  <2>1. IsFiniteSet(U)
    <3>1. U \subseteq passed
      BY DEF UpTo, Mine
    <3> QED
      BY <1>0, <3>1, PartsFinite DEF Recent
  <2>2. CASE k \in DOMAIN book
    <3> DEFINE A == Since(U, book[k].start)
               B == Prior(U, book[k].start)
    <3>1. WindowFits(book[k], Mine(passed, k), now)
      BY <2>2 DEF RateInv
    <3>2. Cardinality(A) <= l /\ Cardinality(B) <= l
      BY <3>1 DEF WindowFits
    <3>3. \A p \in U : p.at \in Nat
      BY <1>0 DEF UpTo, Mine, Recent, PassRecord
    <3>4. book[k].start \in Nat
      BY <3>1 DEF WindowFits
    <3>5. U = A \cup B /\ A \subseteq U /\ B \subseteq U
      <4> HIDE DEF U
      <4> QED
        BY <3>3, <3>4 DEF Since, Prior
    <3>6. /\ IsFiniteSet(A) /\ Cardinality(A) \in Nat
          /\ IsFiniteSet(B) /\ Cardinality(B) \in Nat
      BY <2>1, <3>5, PartsFinite
    <3> HIDE DEF A, B, U
    <3>7. Cardinality(A \cup B) = Cardinality(A) + Cardinality(B) - Cardinality(A \cap B)
      BY <3>6, FS_Union
    <3>8. Cardinality(A \cap B) \in Nat
      <4>1. A \cap B \subseteq A
        OBVIOUS
      <4> QED
        BY <3>6, <4>1, PartsFinite
    <3>9. Cardinality(U) <= 2 * l
      BY <3>2, <3>5, <3>6, <3>7, <3>8
    <3> QED
      BY <3>9 DEF U
  <2>3. CASE k \notin DOMAIN book
    <3>1. Cardinality(U) <= l
      BY <2>3 DEF RateInv, RestFits
    <3>2. Cardinality(U) \in Nat
      BY <2>1, FS_CardinalityType
    <3> HIDE DEF U
    <3>3. Cardinality(U) <= 2 * l
      BY <3>1, <3>2
    <3> QED
      BY <3>3 DEF U
  <2> QED
    BY <2>2, <2>3
<1>2. ASSUME NEW ip \in Ip, NEW r \in Route, NEW k, k = <<ip, Path(r)>>,
             Current(k).count >= Limit(r)
      PROVE  Cardinality(Mine(passed, k)) >= Limit(r)
  <2>1. k \in Key
    BY <1>2 DEF Key
  <2>2. k \in DOMAIN book /\ now - book[k].start < Window
    <3> SUFFICES ASSUME ~(k \in DOMAIN book /\ now - book[k].start < Window)
                 PROVE  FALSE
      OBVIOUS
    <3>1. Current(k).count = 0
      BY DEF Current
    <3> QED
      BY <1>0, <1>2, <3>1
  <2>3. WindowFits(book[k], Mine(passed, k), now) /\ Current(k) = book[k]
    BY <2>1, <2>2 DEF RateInv, Current
  <2>4. now < book[k].start + Window
    BY <1>0, <2>2, <2>3 DEF WindowFits
  <2>5. Cardinality(Since(Mine(passed, k), book[k].start)) >= Limit(r)
    BY <1>2, <2>3, <2>4 DEF WindowFits
  <2>6. /\ Since(Mine(passed, k), book[k].start) \subseteq Mine(passed, k)
        /\ Mine(passed, k) \subseteq passed
    BY DEF Since, Mine
  <2>7. IsFiniteSet(Mine(passed, k))
    BY <1>0, <2>6, PartsFinite DEF Recent
  <2>8. /\ Cardinality(Since(Mine(passed, k), book[k].start)) <= Cardinality(Mine(passed, k))
        /\ Cardinality(Since(Mine(passed, k), book[k].start)) \in Nat
        /\ Cardinality(Mine(passed, k)) \in Nat
    BY <2>6, <2>7, PartsFinite
  <2> QED
    BY <1>0, <2>5, <2>8
<1> QED
  BY <1>0, <1>1, <1>2 DEF RateHolds

\* RateLimitBook::check: with fixed windows that begin whenever a client comes,
\* two methods of one path that share a window, and pruning of a large book,
\* no stretch of time as long as a window lets more than twice the limit pass,
\* and nobody is refused who did not use up the limit in the last window.
THEOREM RateIsLimited == Spec => []RateHolds
  BY InitRate, NextRate, BookLimits, PTL DEF Spec
=============================================================================
