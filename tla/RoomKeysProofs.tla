--------------------------- MODULE RoomKeysProofs ---------------------------
(***************************************************************************)
(* What RoomKeys promises of the keys of a room, proved for any devices,   *)
(* any number of calls at once and all bounds.                             *)
(***************************************************************************)
EXTENDS RoomKeys, FiniteSetTheorems, WellFoundedInduction, TLAPS

(***************************************************************************)
(* Types.  The locals of a call, by its stage.                             *)
(***************************************************************************)
\* The stage tells which locals a call has.
LEMMA ByStage ==
    ASSUME NEW d, NEW c \in CallOf(d)
    PROVE  /\ c.stage = "stamped" => c \in AtStamp
           /\ c.stage = "commit" => c \in AtCommit(d)
           /\ c.stage = "next" => c \in AtNext(d)
           /\ c.stage = "wrap" => c \in AtWrap(d)
           /\ c.stage = "post" => c \in AtPost(d)
           /\ c.stage \in {"ingest", "counted"} => c \in AtIngest(d)
           /\ c.stage = "carry" => c \in AtCarry(d)
<1>1. \/ c = Idle
      \/ c \in AtStamp /\ c.stage = "stamped"
      \/ c \in AtCommit(d) /\ c.stage = "commit"
      \/ c \in AtNext(d) /\ c.stage = "next"
      \/ c \in AtWrap(d) /\ c.stage = "wrap"
      \/ c \in AtPost(d) /\ c.stage = "post"
      \/ c \in AtIngest(d) /\ c.stage \in {"ingest", "counted"}
      \/ c \in AtCarry(d) /\ c.stage = "carry"
  BY DEF CallOf, AtStamp, AtCommit, AtNext, AtWrap, AtPost, AtIngest, AtCarry
<1> QED
  BY <1>1 DEF Idle

\* Continued keeps the locals of a fan-out or ends the call.
LEMMA ContinuedType ==
    ASSUME NEW d, NEW c, NEW t \in SUBSET Peer(d),
           \/ c \in AtNext(d) \/ c \in AtPost(d) \/ c \in AtIngest(d) \/ c \in AtCarry(d)
    PROVE  /\ Continued(c) \in CallOf(d)
           /\ Continued([c EXCEPT !.todo = t]) \in CallOf(d)
<1>1. Continued(c) \in {Idle} \cup AtNext(d)
  <2>1. c.pkg \in Pkg /\ c.todo \in SUBSET Peer(d) /\ c.msg \in MsgOf(d)
    BY DEF AtNext, AtPost, AtIngest, AtCarry, Pkg, MsgOf, OwnMsg
  <2> QED
    BY <2>1 DEF Continued, AtNext
<1>2. Continued([c EXCEPT !.todo = t]) \in {Idle} \cup AtNext(d)
  <2>1. c.pkg \in Pkg /\ c.msg \in MsgOf(d)
    BY DEF AtNext, AtPost, AtIngest, AtCarry, Pkg, MsgOf, OwnMsg
  <2>2. [c EXCEPT !.todo = t].pkg = c.pkg /\ [c EXCEPT !.todo = t].todo = t
        /\ [c EXCEPT !.todo = t].msg = c.msg
    BY DEF AtNext, AtPost, AtIngest, AtCarry
  <2> QED
    BY <2>1, <2>2 DEF Continued, AtNext
<1> QED
  BY <1>1, <1>2 DEF CallOf

\* A step of one call that leaves it with the locals of a stage.
CallsTyped ==
    /\ call = [d \in Device |-> call[d]]
    /\ \A d \in Device : call[d] \in [Handler -> CallOf(d)]

Calls == UNION {CallOf(d) : d \in Device}

LEMMA CallsAre ==
    ASSUME CallsTyped
    PROVE  call \in [Device -> [Handler -> Calls]]
<1>1. \A d \in Device : call[d] \in [Handler -> Calls]
  <2>1. ASSUME NEW d \in Device
        PROVE  CallOf(d) \subseteq Calls
    BY DEF Calls
  <2> QED
    BY <2>1 DEF CallsTyped
<1> QED
  BY <1>1 DEF CallsTyped

LEMMA TypedCalls ==
    ASSUME TypeOK
    PROVE  /\ CallsTyped /\ call \in [Device -> [Handler -> Calls]]
           /\ \A d \in Device, h \in Handler : call[d][h] \in CallOf(d)
<1>1. CallsTyped
  BY DEF TypeOK, CallsTyped
<1> QED
  BY <1>1, CallsAre DEF CallsTyped

LEMMA CallMoves ==
    ASSUME CallsTyped, NEW d \in Device, NEW h \in Handler, NEW c \in CallOf(d),
           call' = [call EXCEPT ![d][h] = c]
    PROVE  /\ CallsTyped' /\ call'[d][h] = c
           /\ \A e \in Device, k \in Handler :
                  <<e, k>> # <<d, h>> => call'[e][k] = call[e][k]
<1>1. call \in [Device -> [Handler -> Calls]] /\ call[d] \in [Handler -> CallOf(d)]
  BY CallsAre DEF CallsTyped
<1>2. PICK f : f = [call[d] EXCEPT ![h] = c]
  OBVIOUS
<1>3. f \in [Handler -> CallOf(d)] /\ f[h] = c /\ \A k \in Handler \ {h} : f[k] = call[d][k]
  BY <1>1, <1>2
<1>4. call' = [call EXCEPT ![d] = f]
  BY <1>1, <1>2
<1>5. /\ call'[d] = f /\ \A e \in Device \ {d} : call'[e] = call[e]
      /\ call' = [e \in Device |-> call'[e]]
  BY <1>1, <1>4
<1>6. CallsTyped'
  BY <1>3, <1>5 DEF CallsTyped
<1> QED
  BY <1>3, <1>5, <1>6

\* What the save of e2ee.json leaves.
SavedType ==
    [outbound : Package \cup {None}, inbound : [Session -> Nat \cup {None}],
     olm : [Device -> OlmSession \cup {None}], otks : SUBSET Nat]

LEMMA PersistType ==
    ASSUME TypeOK, NEW d \in Device, PersistE2ee(d),
           outbound'[d] \in Package \cup {None}, inbound'[d] \in [Session -> Nat \cup {None}]
    PROVE  /\ saved' \in [Device -> SavedType] /\ unsaved' \in [Device -> BOOLEAN]
           /\ hurt' \in [Device -> BOOLEAN] /\ faults' \in Nat
<1>1. /\ saved \in [Device -> SavedType] /\ unsaved \in [Device -> BOOLEAN]
      /\ hurt \in [Device -> BOOLEAN] /\ faults \in Nat
  BY DEF TypeOK, SavedType
<1>2. [outbound |-> outbound'[d], inbound |-> inbound'[d], olm |-> olm[d],
       otks |-> otks[d]] \in SavedType
  BY DEF SavedType, TypeOK
<1>3. saved' \in [Device -> SavedType] /\ faults' \in Nat
  BY <1>1, <1>2 DEF PersistE2ee
<1>4. /\ \/ unsaved' = [unsaved EXCEPT ![d] = TRUE]
         \/ unsaved' = [unsaved EXCEPT ![d] = FALSE]
      /\ hurt' = hurt
  BY DEF PersistE2ee
<1>5. unsaved' \in [Device -> BOOLEAN] /\ hurt' \in [Device -> BOOLEAN]
  BY <1>1, <1>4, Zenon
<1> QED
  BY <1>3, <1>5

LEMMA EnsureType ==
    ASSUME TypeOK, NEW d \in Device
    PROVE  /\ Ensured(d) \in Package
           /\ EnsuredInbound(d) \in [Session -> Nat \cup {None}]
           /\ <<d, crashes>> \in Session
  BY DEF TypeOK, Ensured, EnsuredInbound, Package, Session

LEMMA EnsureStep ==
    ASSUME TypeOK, NEW d \in Device, EnsureRoomE2ee(d)
    PROVE  /\ outbound' \in [Device -> Package \cup {None}]
           /\ inbound' \in [Device -> [Session -> Nat \cup {None}]]
           /\ saved' \in [Device -> SavedType] /\ unsaved' \in [Device -> BOOLEAN]
           /\ hurt' \in [Device -> BOOLEAN] /\ faults' \in Nat
<1>1. /\ outbound' \in [Device -> Package \cup {None}]
      /\ inbound' \in [Device -> [Session -> Nat \cup {None}]]
  BY EnsureType DEF EnsureRoomE2ee, TypeOK
<1>2. CASE outbound[d] # None
  <2>1. saved' = saved /\ unsaved' = unsaved /\ hurt' = hurt /\ faults' = faults
    BY <1>2 DEF EnsureRoomE2ee, harm
  <2> QED
    BY <1>1, <2>1 DEF TypeOK, SavedType
<1>3. CASE outbound[d] = None
  BY <1>1, <1>3, PersistType DEF EnsureRoomE2ee
<1> QED
  BY <1>1, <1>2, <1>3

\* TypeOK, with its parts as they are used below.
LEMMA TypeParts ==
    TypeOK <=>
    /\ outbound \in [Device -> Package \cup {None}]
    /\ inbound \in [Device -> [Session -> Nat \cup {None}]]
    /\ olm \in [Device -> [Device -> OlmSession \cup {None}]]
    /\ otks \in [Device -> SUBSET Nat] /\ published \in Nat
    /\ saved \in [Device -> SavedType]
    /\ ts \in [Device -> Nat] /\ meta \in [Device -> Nat]
    /\ log \in [Device -> SUBSET Message]
    /\ CallsTyped
    /\ unsaved \in [Device -> BOOLEAN] /\ hurt \in [Device -> BOOLEAN]
    /\ offered \in [Device -> SUBSET [session : Session, index : Nat, clear : BOOLEAN]]
    /\ sends \in Nat /\ shares \in Nat /\ losses \in Nat /\ faults \in Nat
    /\ crashes \in 0..MaxCrashes
  BY DEF TypeOK, SavedType, CallsTyped

LEMMA SendingType ==
    ASSUME NEW d \in Device, NEW h, NEW out \in Package, call[d][h] \in AtStamp
    PROVE  Sending(d, h, out, out) \in AtCommit(d)
<1>1. [by |-> d, session |-> out.session, index |-> out.index, ts |-> call[d][h].ts]
        \in OwnMsg(d)
  BY DEF OwnMsg, Message, Package, AtStamp
<1> QED
  BY <1>1 DEF Sending, AtCommit, Peer

LEMMA ImportType ==
    ASSUME TypeOK, NEW p \in Device, NEW pkg \in Package
    PROVE  /\ ImportKey(p, pkg) \in [Session -> Nat \cup {None}]
           /\ ImportOutbound(p, pkg) \in Package
<1>1. pkg.session \in Session /\ pkg.index \in Nat
  BY DEF Package
<1>2. ImportKey(p, pkg) \in [Session -> Nat \cup {None}]
  BY <1>1 DEF TypeOK, ImportKey
<1>3. ImportOutbound(p, pkg) \in Package
  BY DEF TypeOK, ImportOutbound
<1> QED
  BY <1>2, <1>3

LEMMA OlmTypes ==
    ASSUME TypeOK, NEW d \in Device, NEW p \in Device
    PROVE  /\ \A k \in Nat : OlmTo(d, p, k) \in OlmSession
           /\ \A c \in AtPost(d) : OlmAfter(p, d, c) \in OlmSession
<1>1. olm[d][p] \in OlmSession \cup {None} /\ olm[p][d] \in OlmSession \cup {None}
  BY DEF TypeOK
<1>2. ASSUME NEW k \in Nat
      PROVE  OlmTo(d, p, k) \in OlmSession
  BY <1>1 DEF OlmTo, OlmSession, OlmName
<1>3. ASSUME NEW c \in AtPost(d)
      PROVE  OlmAfter(p, d, c) \in OlmSession
  BY <1>1 DEF OlmAfter, OlmSession, AtPost
<1> QED
  BY <1>2, <1>3

\* The counter after a restart is later than every time stamp in the log.
LEMMA GreatestIs ==
    ASSUME NEW S \in SUBSET Nat, NEW b \in Nat, S # {}, \A n \in S : n <= b
    PROVE  \E n \in S : \A m \in S : m <= n
<1> DEFINE Up(C) == \A n \in C : \A m \in S : m > n => m \in C
           F == {C \in FiniteSubsetsOf(S) : C # {} /\ Up(C)}
<1>1. IsFiniteSet(S)
  BY FS_BoundedSetOfNaturals
<1>2. FiniteSubsetsOf(S) = SUBSET S
  BY <1>1, FS_FiniteSubsetsOfFinite
<1>3. S \in F /\ F \subseteq FiniteSubsetsOf(S) /\ F # {}
  BY <1>2
<1>4. IsWellFoundedOn(StrictSubsetOrdering(S), FiniteSubsetsOf(S))
  BY FS_StrictSubsetOrderingWellFounded
<1>5. PICK C \in F : \A D \in F : ~(<<D, C>> \in StrictSubsetOrdering(S))
  <2> HIDE DEF F
  <2> QED
    BY <1>3, <1>4, WFMin
<1>6. C \subseteq S /\ C # {} /\ Up(C)
  BY <1>2
<1>7. PICK n : n \in C
  BY <1>6
<1>8. PICK D : D = {m \in C : m > n}
  OBVIOUS
<1>9. D \subseteq C /\ D # C /\ C \in SUBSET S /\ D \in SUBSET S /\ Up(D)
  <2>1. ASSUME NEW k \in D, NEW m \in S, m > k
        PROVE  m \in D
    <3>1. k \in Nat /\ m \in Nat /\ n \in Nat /\ k > n /\ k \in C
      BY <1>6, <1>7, <1>8, <2>1
    <3>2. m \in C /\ m > n
      BY <1>6, <2>1, <3>1
    <3> QED
      BY <1>8, <3>2
  <2>2. n \in Nat /\ n \notin D
    BY <1>6, <1>7, <1>8
  <2> QED
    BY <1>6, <1>7, <1>8, <2>1, <2>2
<1>10. <<D, C>> \in StrictSubsetOrdering(S)
  BY <1>9 DEF StrictSubsetOrdering
<1>11. D \notin F
  BY <1>5, <1>10
<1>12. D = {}
  BY <1>2, <1>9, <1>11
<1>13. \A m \in S : m <= n
  BY <1>6, <1>7, <1>8, <1>12
<1> QED
  BY <1>6, <1>7, <1>13

LEMMA AheadIs ==
    ASSUME NEW S \in SUBSET Message, NEW b \in Nat, NEW n \in Nat, n <= b,
           \A m \in S : m.ts <= b
    PROVE  Ahead(n, S) \in Nat /\ Ahead(n, S) <= b + 1 /\ \A m \in S : m.ts < Ahead(n, S)
<1>1. \A m \in S : m.ts \in Nat
  BY DEF Message
<1>2. CASE ~ \E m \in S : m.ts >= n
  BY <1>1, <1>2 DEF Ahead
<1>3. CASE \E m \in S : m.ts >= n
  <2> DEFINE T == {m.ts : m \in S}
             Later(k) == k \in {m.ts + 1 : m \in S} /\ \A m \in S : m.ts < k
  <2>1. T \in SUBSET Nat /\ T # {} /\ \A k \in T : k <= b
    BY <1>1, <1>3
  <2>2. PICK k \in T : \A m \in T : m <= k
    <3> HIDE DEF T
    <3> QED
      BY <2>1, GreatestIs
  <2>3. PICK m \in S : m.ts = k
    OBVIOUS
  <2>4. Later(m.ts + 1)
    BY <1>1, <2>1, <2>2, <2>3
  <2>5. Ahead(n, S) = CHOOSE x : Later(x)
    BY <1>3 DEF Ahead
  <2>6. Later(CHOOSE x : Later(x))
    <3> HIDE DEF Later
    <3> QED
      BY <2>4
  <2>7. Later(Ahead(n, S))
    BY <2>5, <2>6
  <2> QED
    BY <1>1, <2>7
<1> QED
  BY <1>2, <1>3

(***************************************************************************)
(* Time stamps are counted: each stamp and each restart moves the highest  *)
(* one by at most one.  That bound gives load_from_data_dir a greatest     *)
(* stamp to go ahead of, which TypeOK needs to be inductive.               *)
(***************************************************************************)
CallWithin(c, b) ==
    /\ c.stage = "stamped" => c.ts <= b
    /\ c.stage \notin {"idle", "stamped"} /\ c.msg # None => c.msg.ts <= b

Within(b) ==
    /\ \A d \in Device : ts[d] <= b /\ meta[d] <= b /\ \A m \in log[d] : m.ts <= b
    /\ \A d \in Device, h \in Handler : CallWithin(call[d][h], b)

Top == 1 + sends + crashes

TypeInv == TypeOK /\ Within(Top)

LEMMA WithinGrows ==
    ASSUME NEW d, NEW c \in CallOf(d), NEW b \in Nat, NEW t \in Nat, b <= t,
           CallWithin(c, b)
    PROVE  CallWithin(c, t)
<1>1. c.stage = "stamped" => c.ts \in Nat
  BY ByStage DEF AtStamp
<1>2. c.stage \notin {"idle", "stamped"} /\ c.msg # None => c.msg.ts \in Nat
  <2>1. c.stage \notin {"idle", "stamped"} => c.msg \in Message \cup {None}
    BY DEF CallOf, Idle, AtStamp, AtCommit, AtNext, AtWrap, AtPost, AtIngest, AtCarry, MsgOf,
           OwnMsg
  <2> QED
    BY <2>1 DEF Message
<1> QED
  BY <1>1, <1>2 DEF CallWithin

LEMMA TopIsNat ==
    ASSUME TypeOK
    PROVE  Top \in Nat
  BY KeysAssumption DEF TypeOK, Top

\* The part of the invariant about calls, for a step of one call ...
LEMMA OneCall ==
    ASSUME TypeInv, Top' \in Nat, Top <= Top',
           NEW d \in Device, NEW h \in Handler, NEW c \in CallOf(d), CallWithin(c, Top'),
           call' = [call EXCEPT ![d][h] = c]
    PROVE  CallsTyped' /\ \A e \in Device, k \in Handler : CallWithin(call'[e][k], Top')
<1>1. CallsTyped
  BY DEF TypeInv, TypeOK, CallsTyped
<1>2. /\ CallsTyped' /\ call'[d][h] = c
      /\ \A e \in Device, k \in Handler : <<e, k>> # <<d, h>> => call'[e][k] = call[e][k]
  BY <1>1, CallMoves
<1>3. ASSUME NEW e \in Device, NEW k \in Handler
      PROVE  CallWithin(call[e][k], Top')
  BY WithinGrows, TopIsNat DEF TypeInv, TypeOK, Within
<1> QED
  BY <1>2, <1>3

\* ... and for a step that is none of a call's.
LEMMA NoCall ==
    ASSUME TypeInv, Top' \in Nat, Top <= Top', call' = call
    PROVE  CallsTyped' /\ \A e \in Device, k \in Handler : CallWithin(call'[e][k], Top')
<1>1. CallsTyped'
  BY DEF TypeInv, TypeOK, CallsTyped
<1>2. ASSUME NEW e \in Device, NEW k \in Handler
      PROVE  CallWithin(call[e][k], Top')
  BY WithinGrows, TopIsNat DEF TypeInv, TypeOK, Within
<1> QED
  BY <1>1, <1>2

\* Then the rest is the part about counters and logs.
StampsWithin(b) ==
    \A d \in Device : ts[d] <= b /\ meta[d] <= b /\ \A m \in log[d] : m.ts <= b

LEMMA TypeInvIs ==
    TypeInv <=> TypeOK /\ StampsWithin(Top)
                /\ \A e \in Device, k \in Handler : CallWithin(call[e][k], Top)
  BY DEF TypeInv, Within, StampsWithin

LEMMA StampsStay ==
    ASSUME TypeInv, UNCHANGED <<ts, meta, log>>, Top' \in Nat, Top <= Top'
    PROVE  StampsWithin(Top)'
<1>1. ASSUME NEW d \in Device
      PROVE  ts[d] \in Nat /\ meta[d] \in Nat /\ \A m \in log[d] : m.ts \in Nat
  BY DEF TypeInv, TypeOK, Message
<1> QED
  BY <1>1, TopIsNat DEF TypeInv, Within, StampsWithin

LEMMA TypeInit ==
    ASSUME Init
    PROVE  TypeInv
<1>1. TypeOK
  BY KeysAssumption DEF Init, TypeOK, Fresh, CallOf, Idle
<1> QED
  BY <1>1, KeysAssumption DEF Init, TypeInv, Within, CallWithin, Top, Idle

LEMMA TypeSend ==
    ASSUME TypeInv, NEW d \in Device, NEW h \in Handler,
           \/ SendStamp(d, h) \/ SendCreate(d, h) \/ SendEncrypt(d, h) \/ SendCommit(d, h)
    PROVE  TypeInv'
<1> USE KeysAssumption
<1>0. TypeOK /\ Top \in Nat
  BY TopIsNat DEF TypeInv
<1>1. CASE SendStamp(d, h)
  <2>1. Top' \in Nat /\ Top < Top' /\ ts[d] \in Nat /\ ts[d] <= Top
    BY <1>0, <1>1 DEF SendStamp, TypeOK, TypeInv, Within, Top
  <2>2. PICK c : c = [stage |-> "stamped", ts |-> ts[d] + 1]
    OBVIOUS
  <2>3. c \in CallOf(d) /\ CallWithin(c, Top') /\ call' = [call EXCEPT ![d][h] = c]
    <3>1. c \in AtStamp /\ c.stage = "stamped" /\ c.ts = ts[d] + 1
      BY <2>1, <2>2 DEF AtStamp
    <3>2. ts'[d] = ts[d] + 1
      BY <1>0, <1>1 DEF SendStamp, TypeOK
    <3>3. Top' = Top + 1
      BY <1>0, <1>1 DEF SendStamp, Top, TypeOK
    <3>4. CallWithin(c, Top')
      BY <2>1, <3>1, <3>3, <1>0 DEF CallWithin
    <3> QED
      BY <1>1, <2>2, <3>1, <3>2, <3>4 DEF SendStamp, CallOf
  <2>4. CallsTyped' /\ \A e \in Device, k \in Handler : CallWithin(call'[e][k], Top')
    <3>1. Top <= Top'
      BY <1>0, <2>1
    <3> QED
      BY <2>1, <2>3, <3>1, OneCall
  <2>5. ts' \in [Device -> Nat] /\ meta' \in [Device -> Nat] /\ faults' \in Nat
        /\ sends' \in Nat
    <3>1. ts \in [Device -> Nat] /\ meta \in [Device -> Nat] /\ faults \in Nat /\ sends \in Nat
      BY <1>0 DEF TypeOK
    <3>2. ts' \in [Device -> Nat] /\ sends' \in Nat
      BY <1>1, <3>1 DEF SendStamp
    <3>3. meta' \in [Device -> Nat] /\ faults' \in Nat
      BY <1>1, <3>1, <3>2 DEF SendStamp
    <3> QED
      BY <3>2, <3>3
  <2>6. TypeOK'
    BY <1>0, <1>1, <2>4, <2>5 DEF SendStamp, TypeOK, CallsTyped, keys
  <2>7. StampsWithin(Top)'
    <3>1. ASSUME NEW e \in Device
          PROVE  ts'[e] <= ts[e] + 1 /\ meta'[e] \in {meta[e], ts'[e]} /\ log'[e] = log[e]
      BY <1>0, <1>1 DEF SendStamp, TypeOK
    <3>2. Top' = Top + 1
      BY <1>0, <1>1 DEF SendStamp, Top, TypeOK
    <3>3. ASSUME NEW e \in Device
          PROVE  /\ ts[e] \in Nat /\ meta[e] \in Nat /\ ts'[e] \in Nat
                 /\ ts[e] <= Top /\ meta[e] <= Top
                 /\ \A m \in log[e] : m.ts \in Nat /\ m.ts <= Top
      BY <1>0, <2>5 DEF TypeOK, TypeInv, Within, Message
    <3> QED
      BY <1>0, <3>1, <3>2, <3>3 DEF StampsWithin
  <2> QED
    BY <2>4, <2>6, <2>7 DEF TypeInv, Within, StampsWithin
<1>2. CASE SendCreate(d, h)
  <2>1. Top' = Top /\ call' = call /\ UNCHANGED <<ts, meta, log>>
    BY <1>2 DEF SendCreate, Top, bounds, stamps
  <2>2. CallsTyped' /\ \A e \in Device, k \in Handler : CallWithin(call'[e][k], Top')
    BY <1>0, <2>1, NoCall
  <2>3. StampsWithin(Top)'
    BY <1>0, <2>1, StampsStay
  <2>4. /\ outbound' \in [Device -> Package \cup {None}]
        /\ inbound' \in [Device -> [Session -> Nat \cup {None}]]
        /\ saved' \in [Device -> SavedType] /\ unsaved' \in [Device -> BOOLEAN]
        /\ hurt' \in [Device -> BOOLEAN] /\ faults' \in Nat
    <3>1. EnsureRoomE2ee(d)
      BY <1>2 DEF SendCreate
    <3> QED
      BY <1>0, <3>1, EnsureStep
  <2>5. TypeOK'
    BY <1>0, <1>2, <2>2, <2>4 DEF SendCreate, TypeOK, CallsTyped, SavedType, bounds, stamps
  <2> QED
    BY <2>2, <2>3, <2>5 DEF TypeInv, Within, StampsWithin
<1>3. CASE SendEncrypt(d, h)
  <2>1. Top' = Top /\ UNCHANGED <<ts, meta, log>>
    BY <1>3 DEF SendEncrypt, Top, bounds, stamps
  <2>2. PICK out : out = outbound[d]
    OBVIOUS
  <2>3. out \in Package /\ call[d][h] \in AtStamp
    BY <1>0, <1>3, <2>2, ByStage DEF SendEncrypt, TypeOK
  <2>4. PICK c : c = Sending(d, h, out, out)
    OBVIOUS
  <2>5. c \in AtCommit(d) /\ c.stage = "commit" /\ c.msg.ts = call[d][h].ts
    BY <2>3, <2>4, SendingType DEF Sending
  <2>6. CallWithin(c, Top')
    BY <1>0, <1>3, <2>1, <2>5 DEF CallWithin, TypeInv, Within, SendEncrypt
  <2>7. CallsTyped' /\ \A e \in Device, k \in Handler : CallWithin(call'[e][k], Top')
    <3>1. c \in CallOf(d) /\ Top' \in Nat /\ Top <= Top'
      BY <1>0, <2>1, <2>5 DEF CallOf
    <3>2. call' = [call EXCEPT ![d][h] = c]
      BY <1>3, <2>2, <2>4 DEF SendEncrypt
    <3> QED
      BY <2>6, <3>1, <3>2, OneCall
  <2>8. outbound' \in [Device -> Package \cup {None}]
    <3>1. [out EXCEPT !.index = @ + 1] \in Package
      BY <2>3 DEF Package
    <3>2. outbound' = [outbound EXCEPT ![d] = [out EXCEPT !.index = @ + 1]]
      BY <1>3, <2>2 DEF SendEncrypt
    <3> QED
      BY <1>0, <3>1, <3>2 DEF TypeOK
  <2>9. /\ saved' \in [Device -> SavedType] /\ unsaved' \in [Device -> BOOLEAN]
        /\ hurt' \in [Device -> BOOLEAN] /\ faults' \in Nat
    <3>1. /\ PersistE2ee(d) /\ outbound'[d] \in Package \cup {None}
          /\ inbound'[d] \in [Session -> Nat \cup {None}]
      BY <1>0, <1>3, <2>8 DEF SendEncrypt, TypeOK
    <3> QED
      BY <1>0, <3>1, PersistType
  <2>10. TypeOK'
    BY <1>0, <1>3, <2>7, <2>8, <2>9
    DEF SendEncrypt, TypeOK, CallsTyped, SavedType, bounds, stamps
  <2> QED
    BY <1>0, <2>1, <2>7, <2>10, StampsStay DEF TypeInv, Within, StampsWithin
<1>4. CASE SendCommit(d, h)
  <2>1. Top' = Top /\ UNCHANGED <<ts, meta>>
    BY <1>4 DEF SendCommit, Top, bounds, stamps
  <2>2. call[d][h] \in AtCommit(d)
    BY <1>0, <1>4, ByStage DEF SendCommit, TypeOK
  <2>3. PICK c : c = [call[d][h] EXCEPT !.stage = "next"]
    OBVIOUS
  <2>4. c \in AtNext(d) /\ c.msg = call[d][h].msg /\ c.stage = "next"
    BY <2>2, <2>3 DEF AtCommit, AtNext, Pkg, MsgOf
  <2>5. CallWithin(c, Top')
    BY <1>0, <1>4, <2>1, <2>4 DEF CallWithin, TypeInv, Within, SendCommit
  <2>6. call' = [call EXCEPT ![d][h] = c]
    BY <1>0, <1>4, <2>3 DEF SendCommit, TypeOK
  <2>7. CallsTyped' /\ \A e \in Device, k \in Handler : CallWithin(call'[e][k], Top')
    <3>1. c \in CallOf(d) /\ Top' \in Nat /\ Top <= Top'
      BY <1>0, <2>1, <2>4 DEF CallOf
    <3> QED
      BY <2>5, <2>6, <3>1, OneCall
  <2>8. log' = [log EXCEPT ![d] = @ \cup {call[d][h].msg}]
        /\ call[d][h].msg \in Message /\ call[d][h].msg.ts <= Top
    <3>1. call[d][h].stage = "commit" /\ call[d][h].msg # None
      BY <1>4, <2>2 DEF AtCommit, OwnMsg, SendCommit
    <3> QED
      BY <1>4, <2>2, <3>1 DEF SendCommit, AtCommit, OwnMsg, TypeInv, Within, CallWithin
  <2>9. StampsWithin(Top)'
    <3>1. ASSUME NEW e \in Device
          PROVE  \A m \in log'[e] : m.ts <= Top
      BY <1>0, <2>8 DEF TypeOK, TypeInv, Within
    <3> QED
      BY <2>1, <3>1 DEF StampsWithin, TypeInv, Within
  <2>10. TypeOK'
    <3>1. log' \in [Device -> SUBSET Message]
      BY <1>0, <2>8 DEF TypeOK
    <3> QED
      BY <1>0, <1>4, <2>7, <3>1 DEF SendCommit, TypeOK, CallsTyped, keys, bounds, stamps, harm
  <2> QED
    BY <2>7, <2>9, <2>10 DEF TypeInv, Within, StampsWithin
<1> QED
  BY <1>1, <1>2, <1>3, <1>4

\* A call goes on with the message it has, or ends.
LEMMA Onward ==
    ASSUME TypeInv, Top' = Top, NEW d \in Device, NEW h \in Handler, NEW c \in CallOf(d),
           \/ c.stage = "idle"
           \/ c.stage # "stamped" /\ c.msg = None
           \/ /\ c.stage # "stamped" /\ c.msg = call[d][h].msg
              /\ call[d][h].stage \notin {"idle", "stamped"},
           call' = [call EXCEPT ![d][h] = c]
    PROVE  /\ CallsTyped'
           /\ \A e \in Device, k \in Handler : CallWithin(call'[e][k], Top')
           /\ UNCHANGED <<ts, meta, log>> => StampsWithin(Top)'
<1>1. Top' \in Nat /\ Top <= Top'
  BY TopIsNat DEF TypeInv
<1>2. CallWithin(c, Top')
  BY DEF TypeInv, Within, CallWithin
<1>3. CallsTyped' /\ \A e \in Device, k \in Handler : CallWithin(call'[e][k], Top')
  BY <1>1, <1>2, OneCall
<1> QED
  BY <1>1, <1>3, StampsStay

\* Continued(c) has no message or that of c.
LEMMA ContinuedMsg ==
    ASSUME NEW c
    PROVE  \/ Continued(c).stage = "idle"
           \/ Continued(c).stage = "next" /\ Continued(c).msg = c.msg
  BY DEF Continued, Idle

LEMMA OfferType ==
    ASSUME TypeOK, NEW p \in Device, NEW m, m.session \in Session, m.index \in Nat,
           NEW b \in BOOLEAN, offered' = [offered EXCEPT ![p] = @ \cup {Offer(m, b)}]
    PROVE  offered' \in [Device -> SUBSET [session : Session, index : Nat, clear : BOOLEAN]]
<1>1. Offer(m, b) \in [session : Session, index : Nat, clear : BOOLEAN]
  BY DEF Offer
<1>2. PICK g : g = Offer(m, b)
  OBVIOUS
<1> QED
  BY <1>1, <1>2 DEF TypeOK

LEMMA TypeTrust ==
    ASSUME TypeInv, NEW d \in Device, NEW p \in Device, TrustOlmKeys(d, p)
    PROVE  TypeInv'
<1> USE KeysAssumption
<1>0. TypeOK /\ Top \in Nat
  BY TopIsNat DEF TypeInv
<1>1. Top' = Top /\ UNCHANGED <<ts, meta, log>> /\ call' = call
  BY DEF TrustOlmKeys, Top, stamps
<1>2. published' \in Nat /\ shares' \in Nat
  BY <1>0 DEF TrustOlmKeys, TypeOK
<1>3. otks' \in [Device -> SUBSET Nat]
  BY <1>0, <1>2 DEF TrustOlmKeys, TypeOK
<1>4. olm' \in [Device -> [Device -> OlmSession \cup {None}]]
  <2>1. PICK o : o = OlmTo(d, p, published')
    OBVIOUS
  <2>2. o \in OlmSession
    BY <1>0, <1>2, <2>1, OlmTypes
  <2> QED
    BY <1>0, <2>1, <2>2 DEF TrustOlmKeys, TypeOK
<1>5. CallsTyped' /\ \A e \in Device, k \in Handler : CallWithin(call'[e][k], Top')
  BY <1>0, <1>1, NoCall
<1>6. TypeOK'
  BY <1>0, <1>2, <1>3, <1>4, <1>5 DEF TrustOlmKeys, TypeOK, CallsTyped, stamps, harm
<1> QED
  BY <1>0, <1>1, <1>5, <1>6, StampsStay DEF TypeInv, Within, StampsWithin

LEMMA TypeShare ==
    ASSUME TypeInv, NEW d \in Device, NEW h \in Handler, NEW p \in Device,
           \/ ShareSession(d, h, p) \/ ExportSession(d, h, p) \/ FetchKeys(d, h)
           \/ ShareWrap(d, h)
    PROVE  TypeInv'
<1> USE KeysAssumption
<1>0. TypeOK /\ Top \in Nat
  BY TopIsNat DEF TypeInv
<1>1. CASE ShareSession(d, h, p)
  <2>1. Top' = Top /\ UNCHANGED <<ts, meta, log>>
    BY <1>1 DEF ShareSession, Top, stamps
  <2>2. PICK c : c = [stage |-> "next", pkg |-> None, todo |-> {p}, msg |-> None]
    OBVIOUS
  <2>3. c \in CallOf(d) /\ c.stage = "next" /\ c.msg = None
    <3>1. c \in AtNext(d)
      BY <1>1, <2>2 DEF ShareSession, AtNext, Pkg, MsgOf, Peer
    <3> QED
      BY <2>2, <3>1 DEF CallOf
  <2>4. call' = [call EXCEPT ![d][h] = c]
    BY <1>1, <2>2 DEF ShareSession
  <2>5. /\ CallsTyped' /\ StampsWithin(Top)'
        /\ \A e \in Device, k \in Handler : CallWithin(call'[e][k], Top')
    BY <2>1, <2>3, <2>4, Onward
  <2>6. TypeOK'
    <3>1. shares' \in Nat /\ sends' = sends /\ losses' = losses /\ crashes' = crashes
      BY <1>0, <1>1 DEF ShareSession, TypeOK
    <3> QED
      BY <1>0, <1>1, <2>5, <3>1 DEF ShareSession, TypeOK, CallsTyped, keys, stamps, harm
  <2> QED
    BY <2>5, <2>6 DEF TypeInv, Within, StampsWithin
<1>2. CASE ExportSession(d, h, p)
  <2>1. Top' = Top /\ UNCHANGED <<ts, meta, log>>
    BY <1>2 DEF ExportSession, Top, stamps
  <2>2. PICK c : c = [stage |-> "carry", pkg |-> None, todo |-> {}, msg |-> None,
                      peer |-> p, body |-> Ensured(d)]
    OBVIOUS
  <2>3. c \in CallOf(d) /\ c.stage = "carry" /\ c.msg = None
    <3>1. c \in AtCarry(d)
      BY <1>0, <1>2, <2>2, EnsureType DEF ExportSession, AtCarry, Peer
    <3> QED
      BY <2>2, <3>1 DEF CallOf
  <2>4. call' = [call EXCEPT ![d][h] = c]
    BY <1>2, <2>2 DEF ExportSession
  <2>5. /\ CallsTyped' /\ StampsWithin(Top)'
        /\ \A e \in Device, k \in Handler : CallWithin(call'[e][k], Top')
    BY <2>1, <2>3, <2>4, Onward
  <2>6. /\ outbound' \in [Device -> Package \cup {None}]
        /\ inbound' \in [Device -> [Session -> Nat \cup {None}]]
        /\ saved' \in [Device -> SavedType] /\ unsaved' \in [Device -> BOOLEAN]
        /\ hurt' \in [Device -> BOOLEAN] /\ faults' \in Nat
    <3>1. EnsureRoomE2ee(d)
      BY <1>2 DEF ExportSession
    <3> QED
      BY <1>0, <3>1, EnsureStep
  <2>7. offered' \in [Device -> SUBSET [session : Session, index : Nat, clear : BOOLEAN]]
    <3>1. Ensured(d).session \in Session /\ Ensured(d).index \in Nat
      BY <1>0, EnsureType DEF Package
    <3> QED
      BY <1>0, <1>2, <3>1, OfferType DEF ExportSession
  <2>8. TypeOK'
    <3>1. shares' \in Nat /\ sends' = sends /\ losses' = losses /\ crashes' = crashes
      BY <1>0, <1>2 DEF ExportSession, TypeOK
    <3>2. olm' = olm /\ otks' = otks /\ ts' = ts /\ meta' = meta /\ log' = log
          /\ published' = published
      BY <1>2 DEF ExportSession, stamps
    <3> QED
      BY <1>0, <2>5, <2>6, <2>7, <3>1, <3>2 DEF TypeOK, CallsTyped, SavedType
  <2> QED
    BY <2>5, <2>8 DEF TypeInv, Within, StampsWithin
<1>3. CASE FetchKeys(d, h)
  <2>1. Top' = Top /\ UNCHANGED <<ts, meta, log>>
    BY <1>3 DEF FetchKeys, Top, stamps, bounds
  <2>2. call[d][h] \in AtNext(d) /\ call[d][h].stage = "next"
    BY <1>0, <1>3, ByStage DEF FetchKeys, TypeOK
  <2>3. published' = published + 1 /\ published' \in Nat
    BY <1>0, <1>3 DEF FetchKeys, TypeOK
  <2>4. PICK q \in call[d][h].todo :
            /\ otks' = [otks EXCEPT ![q] = @ \cup {published'}]
            /\ \/ UNCHANGED saved
               \/ saved' = [saved EXCEPT ![q].otks = @ \cup {published'}]
            /\ call' = [call EXCEPT ![d][h] =
                   [stage |-> "wrap", pkg |-> @.pkg, todo |-> @.todo \ {q},
                    msg |-> @.msg, peer |-> q, otk |-> published']]
    BY <1>3 DEF FetchKeys
  <2>5. q \in Peer(d) /\ q \in Device
    BY <2>2 DEF AtNext, Peer
  <2>6. PICK c : c = [stage |-> "wrap", pkg |-> call[d][h].pkg, todo |-> call[d][h].todo \ {q},
                      msg |-> call[d][h].msg, peer |-> q, otk |-> published']
    OBVIOUS
  <2>7. c \in CallOf(d) /\ c.stage = "wrap" /\ c.msg = call[d][h].msg
    <3>1. c \in AtWrap(d)
      BY <2>2, <2>3, <2>5, <2>6 DEF AtNext, AtWrap
    <3> QED
      BY <2>6, <3>1 DEF CallOf
  <2>8. call' = [call EXCEPT ![d][h] = c]
    BY <1>0, <2>4, <2>6 DEF TypeOK
  <2>9. /\ CallsTyped' /\ StampsWithin(Top)'
        /\ \A e \in Device, k \in Handler : CallWithin(call'[e][k], Top')
    BY <2>1, <2>2, <2>7, <2>8, Onward
  <2>10. otks' \in [Device -> SUBSET Nat]
    BY <1>0, <2>3, <2>4, <2>5 DEF TypeOK
  <2>11. saved' \in [Device -> SavedType]
    <3>1. saved \in [Device -> SavedType]
      BY <1>0 DEF TypeOK, SavedType
    <3>2. PICK v : v = [saved[q] EXCEPT !.otks = @ \cup {published'}]
      OBVIOUS
    <3>3. v \in SavedType
      BY <2>3, <2>5, <3>1, <3>2 DEF SavedType
    <3>4. saved' = saved \/ saved' = [saved EXCEPT ![q] = v]
      BY <2>4, <2>5, <3>1, <3>2
    <3> QED
      BY <2>5, <3>1, <3>3, <3>4
  <2>12. TypeOK'
    BY <1>0, <1>3, <2>3, <2>9, <2>10, <2>11
    DEF FetchKeys, TypeOK, CallsTyped, SavedType, stamps, harm, bounds
  <2> QED
    BY <2>9, <2>12 DEF TypeInv, Within, StampsWithin
<1>4. CASE ShareWrap(d, h)
  <2>1. Top' = Top /\ UNCHANGED <<ts, meta, log>>
    BY <1>4 DEF ShareWrap, Top, stamps, bounds
  <2>2. PICK c : c = call[d][h]
    OBVIOUS
  <2>3. c \in AtWrap(d) /\ c.stage = "wrap"
    BY <1>0, <1>4, <2>2, ByStage DEF ShareWrap, TypeOK
  <2>4. c.peer \in Device /\ c.peer \in Peer(d) /\ c.otk \in Nat /\ c.msg \in MsgOf(d)
        /\ c.pkg \in Pkg /\ c.todo \in SUBSET Peer(d)
    BY <2>3 DEF AtWrap, Peer
  <2>5. PICK o : o = OlmTo(d, c.peer, c.otk)
    OBVIOUS
  <2>6. o \in OlmSession
    BY <1>0, <2>4, <2>5, OlmTypes
  <2>7. PICK n : n = [stage |-> "post", pkg |-> c.pkg, todo |-> c.todo, msg |-> c.msg,
                peer |-> c.peer,
                body |-> IF c.pkg = None THEN Ensured(d) ELSE c.pkg,
                session |-> o.name, prekey |-> o.mine /\ ~o.heard]
    OBVIOUS
  <2>8. n \in CallOf(d) /\ n.stage = "post" /\ n.msg = c.msg
    <3>1. o.name \in OlmName /\ (o.mine /\ ~o.heard) \in BOOLEAN
      BY <2>6 DEF OlmSession
    <3>2. (IF c.pkg = None THEN Ensured(d) ELSE c.pkg) \in Package
      BY <1>0, <2>4, EnsureType DEF Pkg
    <3>3. n \in AtPost(d)
      BY <2>4, <2>7, <3>1, <3>2 DEF AtPost
    <3> QED
      BY <2>7, <3>3 DEF CallOf
  <2>9. /\ call' = [call EXCEPT ![d][h] = n] /\ olm' = [olm EXCEPT ![d][c.peer] = o]
        /\ offered' = [offered EXCEPT ![c.peer] = @ \cup
               {Offer(IF c.msg = None THEN Ensured(d) ELSE c.msg, FALSE)}]
        /\ EnsureRoomE2ee(d)
    BY <1>4, <2>2, <2>5, <2>7 DEF ShareWrap
  <2>10. /\ CallsTyped' /\ StampsWithin(Top)'
        /\ \A e \in Device, k \in Handler : CallWithin(call'[e][k], Top')
    BY <2>1, <2>2, <2>3, <2>8, <2>9, Onward
  <2>11. olm' \in [Device -> [Device -> OlmSession \cup {None}]]
    BY <1>0, <2>4, <2>6, <2>9 DEF TypeOK
  <2>12. offered' \in [Device -> SUBSET [session : Session, index : Nat, clear : BOOLEAN]]
    <3>1. PICK m : m = IF c.msg = None THEN Ensured(d) ELSE c.msg
      OBVIOUS
    <3>2. m.session \in Session /\ m.index \in Nat
      BY <1>0, <2>4, <3>1, EnsureType DEF Package, MsgOf, OwnMsg, Message
    <3> QED
      BY <1>0, <2>4, <2>9, <3>1, <3>2, OfferType
  <2>13. /\ outbound' \in [Device -> Package \cup {None}]
        /\ inbound' \in [Device -> [Session -> Nat \cup {None}]]
        /\ saved' \in [Device -> SavedType] /\ unsaved' \in [Device -> BOOLEAN]
        /\ hurt' \in [Device -> BOOLEAN] /\ faults' \in Nat
    BY <1>0, <2>9, EnsureStep
  <2>14. TypeOK'
    BY <1>0, <1>4, <2>10, <2>11, <2>12, <2>13
    DEF ShareWrap, TypeOK, CallsTyped, SavedType, stamps, bounds
  <2> QED
    BY <2>10, <2>14 DEF TypeInv, Within, StampsWithin
<1> QED
  BY <1>1, <1>2, <1>3, <1>4

LEMMA TypeImport ==
    ASSUME TypeInv, NEW d \in Device, NEW h \in Handler,
           \/ ImportOlm(d, h) \/ ImportRefused(d, h) \/ ImportSession(d, h)
           \/ FanoutIngest(d, h) \/ FanoutNext(d, h) \/ RequestFails(d, h)
    PROVE  TypeInv'
<1> USE KeysAssumption
<1>0. TypeOK /\ Top \in Nat /\ call[d][h] \in CallOf(d)
  BY TopIsNat DEF TypeInv, TypeOK
<1>1. CASE ImportOlm(d, h)
  <2>1. Top' = Top /\ UNCHANGED <<ts, meta, log>>
    BY <1>1 DEF ImportOlm, Top, stamps, bounds
  <2>2. PICK c : c = call[d][h]
    OBVIOUS
  <2>3. PICK p : p = c.peer
    OBVIOUS
  <2>4. c \in AtPost(d) /\ c.stage = "post"
    BY <1>0, <1>1, <2>2, ByStage DEF ImportOlm
  <2>5. p \in Device /\ p \in Peer(d) /\ c.body \in Package /\ c.session.otk \in Nat
    BY <2>3, <2>4 DEF AtPost, Peer, OlmName
  <2>6. PICK n : n = IF c.msg = None THEN Idle
               ELSE [stage |-> "ingest", pkg |-> c.pkg, todo |-> c.todo,
                     msg |-> c.msg, peer |-> p]
    OBVIOUS
  <2>7. n \in CallOf(d) /\ (n.stage = "idle" \/ (n.stage = "ingest" /\ n.msg = c.msg))
    <3>1. c.msg # None => n \in AtIngest(d)
      BY <2>3, <2>4, <2>6 DEF AtPost, AtIngest, MsgOf
    <3> QED
      BY <2>6, <3>1 DEF CallOf, Idle
  <2>8. /\ olm' = [olm EXCEPT ![p][d] = OlmAfter(p, d, c)]
        /\ otks' = [otks EXCEPT ![p] = IF olm[p][d] = None THEN @ \ {c.session.otk} ELSE @]
        /\ inbound' = [inbound EXCEPT ![p] = ImportKey(p, c.body)]
        /\ outbound' = [outbound EXCEPT ![p] = ImportOutbound(p, c.body)]
        /\ call' = [call EXCEPT ![d][h] = n]
    BY <1>1, <2>2, <2>3, <2>6 DEF ImportOlm
  <2>9. /\ CallsTyped' /\ StampsWithin(Top)'
        /\ \A e \in Device, k \in Handler : CallWithin(call'[e][k], Top')
    BY <2>1, <2>2, <2>4, <2>7, <2>8, Onward
  <2>10. olm' \in [Device -> [Device -> OlmSession \cup {None}]]
    <3>1. OlmAfter(p, d, c) \in OlmSession
      BY <1>0, <2>4, <2>5, OlmTypes
    <3> QED
      BY <1>0, <2>5, <2>8, <3>1 DEF TypeOK
  <2>11. otks' \in [Device -> SUBSET Nat]
    BY <1>0, <2>5, <2>8 DEF TypeOK
  <2>12. /\ outbound' \in [Device -> Package \cup {None}]
         /\ inbound' \in [Device -> [Session -> Nat \cup {None}]]
    <3>1. /\ ImportKey(p, c.body) \in [Session -> Nat \cup {None}]
          /\ ImportOutbound(p, c.body) \in Package
      BY <1>0, <2>5, ImportType
    <3> QED
      BY <1>0, <2>5, <2>8, <3>1 DEF TypeOK
  <2>13. TypeOK'
    BY <1>0, <1>1, <2>9, <2>10, <2>11, <2>12
    DEF ImportOlm, TypeOK, CallsTyped, stamps, harm, bounds
  <2> QED
    BY <2>9, <2>13 DEF TypeInv, Within, StampsWithin
<1>2. CASE ImportSession(d, h)
  <2>1. Top' = Top /\ UNCHANGED <<ts, meta, log>>
    BY <1>2 DEF ImportSession, Top, stamps, bounds
  <2>2. PICK c : c = call[d][h]
    OBVIOUS
  <2>3. c \in AtCarry(d)
    BY <1>0, <1>2, <2>2, ByStage DEF ImportSession
  <2>4. c.peer \in Device /\ c.body \in Package
    BY <2>3 DEF AtCarry, Peer
  <2>5. inbound' \in [Device -> [Session -> Nat \cup {None}]]
    <3>1. ImportKey(c.peer, c.body) \in [Session -> Nat \cup {None}]
      BY <1>0, <2>4, ImportType
    <3> QED
      BY <1>0, <1>2, <2>2, <2>4, <3>1 DEF ImportSession, TypeOK
  <2>6. Idle \in CallOf(d) /\ Idle.stage = "idle" /\ call' = [call EXCEPT ![d][h] = Idle]
    BY <1>2 DEF ImportSession, CallOf, Idle
  <2>7. /\ CallsTyped' /\ StampsWithin(Top)'
        /\ \A e \in Device, k \in Handler : CallWithin(call'[e][k], Top')
    BY <2>1, <2>6, Onward
  <2>8. TypeOK'
    BY <1>0, <1>2, <2>5, <2>7 DEF ImportSession, TypeOK, CallsTyped, stamps, harm, bounds
  <2> QED
    BY <2>7, <2>8 DEF TypeInv, Within, StampsWithin
<1>3. CASE ImportRefused(d, h) \/ FanoutNext(d, h) \/ RequestFails(d, h)
  <2>1. Top' = Top /\ UNCHANGED <<ts, meta, log, keys, saved, harm, published, offered, sends, shares,
                                  crashes>>
        /\ losses' \in Nat
    BY <1>0, <1>3 DEF ImportRefused, FanoutNext, RequestFails, Top, stamps, bounds, TypeOK
  <2>2. PICK c : c = call[d][h]
    OBVIOUS
  <2>3. /\ c \in AtNext(d) \/ c \in AtPost(d) \/ c \in AtIngest(d) \/ c \in AtCarry(d)
        /\ c.stage \notin {"idle", "stamped"}
    BY <1>0, <1>3, <2>2, ByStage DEF ImportRefused, FanoutNext, RequestFails
  <2>4. PICK t \in SUBSET Peer(d) :
            \/ call' = [call EXCEPT ![d][h] = Continued(c)]
            \/ call' = [call EXCEPT ![d][h] = Continued([c EXCEPT !.todo = t])]
    <3>1. call \in [Device -> [Handler -> Calls]]
      BY <1>0, TypedCalls
    <3>2. c.todo \in SUBSET Peer(d)
      BY <2>3 DEF AtNext, AtPost, AtIngest, AtCarry
    <3>3. CASE ImportRefused(d, h) \/ FanoutNext(d, h)
      BY <2>2, <3>1, <3>2, <3>3 DEF ImportRefused, FanoutNext
    <3>4. CASE RequestFails(d, h)
      <4>1. PICK p : call' = [call EXCEPT ![d][h] =
                                 Continued([call[d][h] EXCEPT !.todo = call[d][h].todo \ {p}])]
        BY <3>4 DEF RequestFails
      <4>2. call' = [call EXCEPT ![d][h] = Continued([c EXCEPT !.todo = c.todo \ {p}])]
        BY <2>2, <4>1
      <4>3. c.todo \ {p} \in SUBSET Peer(d)
        BY <3>2
      <4> QED
        BY <4>2, <4>3
    <3> QED
      BY <1>3, <3>3, <3>4
  <2>5. PICK n : n \in {Continued(c), Continued([c EXCEPT !.todo = t])}
                 /\ call' = [call EXCEPT ![d][h] = n]
    BY <2>4
  <2>6. n \in CallOf(d)
    BY <2>3, <2>5, ContinuedType
  <2>7. n.stage = "idle" \/ (n.stage = "next" /\ n.msg = c.msg)
    <3>1. PICK x : x = [c EXCEPT !.todo = t]
      OBVIOUS
    <3>2. x.msg = c.msg
      BY <2>3, <3>1 DEF AtNext, AtPost, AtIngest, AtCarry
    <3>3. n = Continued(c) \/ n = Continued(x)
      BY <2>5, <3>1
    <3> QED
      BY <3>2, <3>3, ContinuedMsg
  <2>8. /\ CallsTyped' /\ StampsWithin(Top)'
        /\ \A e \in Device, k \in Handler : CallWithin(call'[e][k], Top')
    BY <2>1, <2>2, <2>3, <2>5, <2>6, <2>7, Onward
  <2>9. TypeOK'
    BY <1>0, <2>1, <2>8 DEF TypeOK, CallsTyped, keys, harm
  <2> QED
    BY <2>8, <2>9 DEF TypeInv, Within, StampsWithin
<1>4. CASE FanoutIngest(d, h)
  <2>1. Top' = Top /\ UNCHANGED <<ts, meta>>
    BY <1>4 DEF FanoutIngest, Top, stamps, bounds
  <2>2. PICK c : c = call[d][h]
    OBVIOUS
  <2>3. c \in AtIngest(d) /\ c.stage = "ingest"
    BY <1>0, <1>4, <2>2, ByStage DEF FanoutIngest
  <2>4. PICK n : n = [c EXCEPT !.stage = "counted"]
    OBVIOUS
  <2>5. n \in AtIngest(d) /\ n.stage = "counted" /\ n.msg = c.msg
    BY <2>3, <2>4 DEF AtIngest
  <2>6. call' = [call EXCEPT ![d][h] = n]
    BY <1>0, <1>4, <2>2, <2>4 DEF FanoutIngest, TypeOK
  <2>7. n \in CallOf(d)
    BY <2>5 DEF CallOf
  <2>8. CallsTyped' /\ \A e \in Device, k \in Handler : CallWithin(call'[e][k], Top')
    BY <2>1, <2>2, <2>3, <2>5, <2>6, <2>7, Onward
  <2>9. /\ log' = [log EXCEPT ![c.peer] = @ \cup {c.msg}]
        /\ c.peer \in Device /\ c.msg \in Message /\ c.msg.ts <= Top
    <3>1. c.peer \in Device /\ c.msg \in Message
      BY <2>3 DEF AtIngest, Peer, OwnMsg
    <3> QED
      BY <1>4, <2>2, <2>3, <3>1 DEF FanoutIngest, TypeInv, Within, CallWithin
  <2>10. log' \in [Device -> SUBSET Message]
         /\ \A e \in Device : \A m \in log'[e] : m \in log[e] \/ m = c.msg
    BY <1>0, <2>9 DEF TypeOK
  <2>11. StampsWithin(Top)'
    BY <2>1, <2>9, <2>10 DEF StampsWithin, TypeInv, Within
  <2>12. TypeOK'
    BY <1>0, <1>4, <2>8, <2>10 DEF FanoutIngest, TypeOK, CallsTyped, keys, stamps, harm, bounds
  <2> QED
    BY <2>8, <2>11, <2>12 DEF TypeInv, Within, StampsWithin
<1> QED
  BY <1>1, <1>2, <1>3, <1>4

\* The calls of d that a restart leaves: those of clients.
LEMMA CrashCalls ==
    ASSUME TypeInv, NEW d \in Device, Crash(d)
    PROVE  /\ CallsTyped'
           /\ \A e \in Device, k \in Handler :
                  call'[e][k] = call[e][k] \/ (e = d /\ call'[e][k] = Idle)
           /\ \A k \in Handler : call'[d][k] = Idle \/ call'[d][k].stage = "carry"
<1>1. /\ call \in [Device -> [Handler -> Calls]] /\ call[d] \in [Handler -> CallOf(d)]
      /\ \A e \in Device : call[e] \in [Handler -> CallOf(e)]
  BY TypedCalls DEF TypeInv, CallsTyped
<1>2. PICK f : f = [k \in Handler |-> IF call[d][k].stage = "carry" THEN call[d][k] ELSE Idle]
  OBVIOUS
<1>3. f \in [Handler -> CallOf(d)]
  BY <1>1, <1>2 DEF CallOf
<1>4. call' = [call EXCEPT ![d] = f]
  BY <1>1, <1>2 DEF Crash
<1>5. /\ call' = [e \in Device |-> call'[e]] /\ call'[d] = f
      /\ \A e \in Device \ {d} : call'[e] = call[e]
  BY <1>1, <1>4
<1>6. \A e \in Device, k \in Handler :
          call'[e][k] = call[e][k] \/ (e = d /\ call'[e][k] = Idle)
  BY <1>2, <1>5
<1>7. \A k \in Handler : call'[d][k] = Idle \/ call'[d][k].stage = "carry"
  BY <1>2, <1>5
<1>8. CallsTyped'
  BY <1>1, <1>3, <1>5 DEF CallsTyped
<1> QED
  BY <1>6, <1>7, <1>8

LEMMA TypeCrash ==
    ASSUME TypeInv, NEW d \in Device, Crash(d)
    PROVE  TypeInv' /\ \A m \in log[d] : m.ts < ts'[d]
<1> USE KeysAssumption
<1>0. TypeOK /\ Top \in Nat
  BY TopIsNat DEF TypeInv
<1>1. Top' = Top + 1 /\ Top' \in Nat /\ Top <= Top' /\ crashes' \in 0..MaxCrashes
  <2>1. MaxCrashes \in Nat /\ crashes \in 0..MaxCrashes /\ sends \in Nat
    BY <1>0 DEF TypeOK
  <2>2. crashes < MaxCrashes /\ crashes' = crashes + 1 /\ sends' = sends
    BY DEF Crash
  <2> QED
    BY <1>0, <2>1, <2>2 DEF Top
<1>2. PICK n : n = ReloadTs(d)
  OBVIOUS
<1>3. n \in Nat /\ n <= Top + 1 /\ \A m \in log[d] : m.ts < n
  <2>1. log[d] \in SUBSET Message /\ meta[d] \in Nat /\ meta[d] <= Top
        /\ \A m \in log[d] : m.ts <= Top
    BY <1>0 DEF TypeOK, TypeInv, Within
  <2> QED
    BY <1>0, <1>2, <2>1, AheadIs DEF ReloadTs
<1>4. ts' = [ts EXCEPT ![d] = n] /\ meta' = meta /\ log' = log
  BY <1>2 DEF Crash
<1>5. CallsTyped' /\ \A e \in Device, k \in Handler : CallWithin(call'[e][k], Top')
  <2>1. /\ CallsTyped'
        /\ \A e \in Device, k \in Handler : call'[e][k] = call[e][k] \/ call'[e][k] = Idle
    BY CrashCalls
  <2>2. ASSUME NEW e \in Device, NEW k \in Handler
        PROVE  CallWithin(call[e][k], Top')
    <3>1. call[e][k] \in CallOf(e) /\ CallWithin(call[e][k], Top) /\ Top' \in Nat /\ Top <= Top'
      BY <1>0, <1>1 DEF TypeOK, TypeInv, Within
    <3> QED
      BY <1>0, <3>1, WithinGrows
  <2>3. CallWithin(Idle, Top')
    BY DEF CallWithin, Idle
  <2> QED
    BY <2>1, <2>2, <2>3
<1>6. StampsWithin(Top)'
  <2>1. ASSUME NEW e \in Device
        PROVE  /\ ts[e] \in Nat /\ ts[e] <= Top /\ meta[e] \in Nat /\ meta[e] <= Top
               /\ \A m \in log[e] : m.ts \in Nat /\ m.ts <= Top
    BY <1>0 DEF TypeOK, TypeInv, Within, Message
  <2>2. \A e \in Device : ts'[e] = ts[e] \/ ts'[e] = n
    BY <1>0, <1>4 DEF TypeOK
  <2> QED
    BY <1>0, <1>1, <1>3, <1>4, <2>1, <2>2 DEF StampsWithin
<1>7. /\ outbound' \in [Device -> Package \cup {None}]
      /\ inbound' \in [Device -> [Session -> Nat \cup {None}]]
      /\ olm' \in [Device -> [Device -> OlmSession \cup {None}]]
      /\ otks' \in [Device -> SUBSET Nat]
  <2>1. /\ saved[d].outbound \in Package \cup {None}
        /\ saved[d].inbound \in [Session -> Nat \cup {None}]
        /\ saved[d].olm \in [Device -> OlmSession \cup {None}] /\ saved[d].otks \in SUBSET Nat
    BY <1>0 DEF TypeOK
  <2> QED
    BY <1>0, <2>1 DEF TypeOK, Crash
<1>8. unsaved' \in [Device -> BOOLEAN] /\ hurt' \in [Device -> BOOLEAN]
  <2>1. unsaved \in [Device -> BOOLEAN] /\ hurt \in [Device -> BOOLEAN]
    BY <1>0 DEF TypeOK
  <2>2. unsaved' = [unsaved EXCEPT ![d] = FALSE] /\ hurt' = [hurt EXCEPT ![d] = @ \/ unsaved[d]]
    BY DEF Crash
  <2> QED
    BY <2>1, <2>2, Zenon
<1>9. ts' \in [Device -> Nat] /\ ts'[d] = n
  BY <1>0, <1>3, <1>4 DEF TypeOK
<1>10. TypeOK'
  BY <1>0, <1>1, <1>5, <1>7, <1>8, <1>9 DEF TypeOK, CallsTyped, Crash
<1> QED
  BY <1>3, <1>5, <1>6, <1>9, <1>10 DEF TypeInv, Within, StampsWithin

LEMMA TypeStep ==
    ASSUME TypeInv, [Next]_vars
    PROVE  TypeInv'
<1>1. CASE UNCHANGED vars
  BY <1>1 DEF vars, keys, stamps, harm, bounds, TypeInv, TypeOK, Within, Top
<1>2. CASE Next
  <2>1. PICK d \in Device :
            \/ Crash(d)
            \/ \E p \in Device : TrustOlmKeys(d, p)
            \/ \E h \in Handler :
                   \/ SendStamp(d, h) \/ SendCreate(d, h)
                   \/ SendEncrypt(d, h) \/ SendCommit(d, h)
                   \/ \E p \in Device : ShareSession(d, h, p) \/ ExportSession(d, h, p)
                   \/ FetchKeys(d, h) \/ ShareWrap(d, h)
                   \/ ImportOlm(d, h) \/ ImportRefused(d, h) \/ ImportSession(d, h)
                   \/ FanoutIngest(d, h) \/ FanoutNext(d, h)
                   \/ RequestFails(d, h)
    BY <1>2 DEF Next
  <2>2. CASE Crash(d)
    BY <2>2, TypeCrash
  <2>3. ASSUME NEW p \in Device, TrustOlmKeys(d, p)
        PROVE  TypeInv'
    BY <2>3, TypeTrust
  <2>4. ASSUME NEW h \in Handler,
               \/ SendStamp(d, h) \/ SendCreate(d, h) \/ SendEncrypt(d, h) \/ SendCommit(d, h)
        PROVE  TypeInv'
    BY <2>4, TypeSend
  <2>5. ASSUME NEW h \in Handler, NEW p \in Device,
               \/ ShareSession(d, h, p) \/ ExportSession(d, h, p)
               \/ FetchKeys(d, h) \/ ShareWrap(d, h)
        PROVE  TypeInv'
    BY <2>5, TypeShare
  <2>6. ASSUME NEW h \in Handler,
               \/ ImportOlm(d, h) \/ ImportRefused(d, h) \/ ImportSession(d, h)
               \/ FanoutIngest(d, h) \/ FanoutNext(d, h) \/ RequestFails(d, h)
        PROVE  TypeInv'
    BY <2>6, TypeImport
  <2> QED
    BY <2>1, <2>2, <2>3, <2>4, <2>5, <2>6
<1> QED
  BY <1>1, <1>2

\* Sessions, files, messages and calls keep their shape, through every save that
\* fails and every restart of a device.
THEOREM TypeCorrect == Spec => []TypeOK
<1>1. Init => TypeInv
  BY TypeInit
<1>2. TypeInv /\ [Next]_vars => TypeInv'
  BY TypeStep
<1>3. TypeInv => TypeOK
  BY DEF TypeInv
<1> QED
  BY <1>1, <1>2, <1>3, PTL DEF Spec
-----------------------------------------------------------------------------
(***************************************************************************)
(* The ratchet.                                                            *)
(***************************************************************************)

\* What may become of the keys of device d while no device restarts.
KeysAdvance(d) ==
    /\ \A s \in Session : inbound[d][s] # None =>
           /\ inbound'[d][s] # None /\ inbound'[d][s] <= inbound[d][s]
           /\ inbound'[d][s] \in {0, inbound[d][s]}
    /\ outbound[d] # None =>
           /\ outbound'[d].session = outbound[d].session
           /\ outbound'[d].index >= outbound[d].index

LEMMA KeysStay ==
    ASSUME TypeOK, NEW d \in Device, outbound'[d] = outbound[d], inbound'[d] = inbound[d]
    PROVE  KeysAdvance(d)
<1>1. \A s \in Session : inbound[d][s] \in Nat \cup {None}
  BY DEF TypeOK
<1>2. outbound[d] # None => outbound[d].index \in Nat
  BY DEF TypeOK, Package
<1> QED
  BY <1>1, <1>2 DEF KeysAdvance

LEMMA EnsureAdvances ==
    ASSUME TypeOK, NEW d \in Device, NEW e \in Device, EnsureRoomE2ee(e)
    PROVE  KeysAdvance(d)
<1>1. /\ outbound' = [outbound EXCEPT ![e] = Ensured(e)]
      /\ inbound' = [inbound EXCEPT ![e] = EnsuredInbound(e)]
      /\ outbound \in [Device -> Package \cup {None}]
      /\ inbound \in [Device -> [Session -> Nat \cup {None}]]
  BY DEF EnsureRoomE2ee, TypeOK
<1>2. CASE e # d \/ outbound[e] # None
  <2>1. outbound'[d] = outbound[d] /\ inbound'[d] = inbound[d]
    BY <1>1, <1>2 DEF Ensured, EnsuredInbound
  <2> QED
    BY <2>1, KeysStay
<1>3. CASE e = d /\ outbound[d] = None
  <2>1. inbound'[d] = [inbound[d] EXCEPT ![<<d, crashes>>] = 0]
    BY <1>1, <1>3 DEF EnsuredInbound
  <2>2. ASSUME NEW s \in Session, inbound[d][s] # None
        PROVE  /\ inbound'[d][s] # None /\ inbound'[d][s] <= inbound[d][s]
               /\ inbound'[d][s] \in {0, inbound[d][s]}
    <3>1. inbound[d][s] \in Nat /\ inbound[d] \in [Session -> Nat \cup {None}]
      BY <1>1, <2>2
    <3> QED
      BY <2>1, <2>2, <3>1, KeysAssumption
  <2> QED
    BY <1>3, <2>2 DEF KeysAdvance
<1> QED
  BY <1>2, <1>3

\* An import keeps the inbound session there is, and an outbound one that is of
\* another session or ahead.
LEMMA ImportAdvances ==
    ASSUME TypeOK, NEW d \in Device, NEW p \in Device, NEW pkg \in Package,
           inbound' = [inbound EXCEPT ![p] = ImportKey(p, pkg)],
           \/ outbound' = outbound
           \/ outbound' = [outbound EXCEPT ![p] = ImportOutbound(p, pkg)]
    PROVE  KeysAdvance(d)
<1>1. /\ outbound \in [Device -> Package \cup {None}]
      /\ inbound \in [Device -> [Session -> Nat \cup {None}]]
      /\ pkg.session \in Session /\ pkg.index \in Nat
  BY DEF TypeOK, Package
<1>2. ASSUME NEW s \in Session, inbound[d][s] # None
      PROVE  inbound'[d][s] = inbound[d][s] /\ inbound[d][s] \in Nat
  BY <1>1, <1>2 DEF ImportKey
<1>3. ASSUME outbound[d] # None
      PROVE  /\ outbound'[d].session = outbound[d].session
             /\ outbound'[d].index >= outbound[d].index
  <2>1. outbound[d].index \in Nat
    BY <1>1, <1>3 DEF Package
  <2>2. outbound'[d] = outbound[d] \/ (p = d /\ outbound'[d] = ImportOutbound(d, pkg))
    BY <1>1
  <2> QED
    BY <1>1, <1>3, <2>1, <2>2 DEF ImportOutbound
<1> QED
  BY <1>2, <1>3, KeysAssumption DEF KeysAdvance

LEMMA RatchetStep ==
    ASSUME TypeInv, [Next]_vars, crashes' = crashes, NEW d \in Device
    PROVE  KeysAdvance(d)
<1>0. TypeOK
  BY DEF TypeInv
<1>1. CASE UNCHANGED <<outbound, inbound>>
  BY <1>0, <1>1, KeysStay
<1>2. ASSUME NEW e \in Device, EnsureRoomE2ee(e)
      PROVE  KeysAdvance(d)
  BY <1>0, <1>2, EnsureAdvances
<1>3. ASSUME NEW e \in Device, NEW h \in Handler, SendEncrypt(e, h)
      PROVE  KeysAdvance(d)
  <2>1. PICK out : out = outbound[e]
    OBVIOUS
  <2>2. out \in Package /\ inbound' = inbound
        /\ outbound' = [outbound EXCEPT ![e] = [out EXCEPT !.index = @ + 1]]
    BY <1>0, <1>3, <2>1 DEF SendEncrypt, TypeOK
  <2>3. CASE e # d
    <3>1. outbound'[d] = outbound[d] /\ inbound'[d] = inbound[d]
      BY <1>0, <2>2, <2>3 DEF TypeOK
    <3> QED
      BY <1>0, <3>1, KeysStay
  <2>4. CASE e = d
    <3>1. outbound'[d] = [out EXCEPT !.index = @ + 1] /\ outbound[d] = out
      BY <1>0, <2>1, <2>2, <2>4 DEF TypeOK
    <3>2. out.index \in Nat /\ outbound'[d].session = out.session
          /\ outbound'[d].index = out.index + 1
      BY <2>2, <3>1 DEF Package
    <3>3. \A s \in Session : inbound[d][s] \in Nat \cup {None}
      BY <1>0 DEF TypeOK
    <3> QED
      BY <2>2, <3>1, <3>2, <3>3 DEF KeysAdvance
  <2> QED
    BY <2>3, <2>4
<1>4. ASSUME NEW e \in Device, NEW h \in Handler, ImportOlm(e, h) \/ ImportSession(e, h)
      PROVE  KeysAdvance(d)
  <2>1. PICK c : c = call[e][h]
    OBVIOUS
  <2>2. c \in AtPost(e) \/ c \in AtCarry(e)
    BY <1>0, <1>4, <2>1, ByStage DEF ImportOlm, ImportSession, TypeOK
  <2>3. c.peer \in Device /\ c.body \in Package
    BY <2>2 DEF AtPost, AtCarry, Peer
  <2>4. /\ inbound' = [inbound EXCEPT ![c.peer] = ImportKey(c.peer, c.body)]
        /\ \/ outbound' = outbound
           \/ outbound' = [outbound EXCEPT ![c.peer] = ImportOutbound(c.peer, c.body)]
    BY <1>4, <2>1 DEF ImportOlm, ImportSession
  <2> QED
    BY <1>0, <2>3, <2>4, ImportAdvances
<1>5. CASE UNCHANGED vars
  BY <1>1, <1>5 DEF vars, keys
<1>6. CASE Next
  <2>1. ASSUME NEW e \in Device, Crash(e)
        PROVE  FALSE
    BY <1>0, <2>1 DEF Crash, TypeOK
  <2>2. ASSUME NEW e \in Device, NEW h \in Handler, NEW p \in Device,
               \/ TrustOlmKeys(e, p) \/ SendStamp(e, h) \/ SendCommit(e, h)
               \/ ShareSession(e, h, p) \/ FetchKeys(e, h) \/ ImportRefused(e, h)
               \/ FanoutIngest(e, h) \/ FanoutNext(e, h) \/ RequestFails(e, h)
        PROVE  UNCHANGED <<outbound, inbound>>
    BY <2>2 DEF TrustOlmKeys, SendStamp, SendCommit, ShareSession, FetchKeys, ImportRefused,
                FanoutIngest, FanoutNext, RequestFails, keys
  <2>3. ASSUME NEW e \in Device, NEW p \in Device, TrustOlmKeys(e, p)
        PROVE  UNCHANGED <<outbound, inbound>>
    BY <2>3 DEF TrustOlmKeys
  <2>4. ASSUME NEW e \in Device, NEW h \in Handler, NEW p \in Device,
               SendCreate(e, h) \/ ExportSession(e, h, p) \/ ShareWrap(e, h)
        PROVE  EnsureRoomE2ee(e)
    BY <2>4 DEF SendCreate, ExportSession, ShareWrap
  <2> QED
    BY <1>1, <1>2, <1>3, <1>4, <1>6, <2>1, <2>2, <2>3, <2>4 DEF Next
<1> QED
  BY <1>5, <1>6

\* docs/harness.md of the shared session: "ratchet only advances (never
\* regresses)", by import_room_outbound and import_group_session_key.  While no
\* device restarts, whatever exports of a session reach a device, in whatever
\* order, what it could read stays readable, and its outbound session stays
\* and does not go back.
THEOREM RatchetOnlyAdvances == Spec => RatchetAdvances
<1>1. Init => TypeInv
  BY TypeInit
<1>2. TypeInv /\ [Next]_vars => TypeInv'
  BY TypeStep
<1>3. TypeInv /\ [Next]_vars =>
          [\A d \in Device : crashes' = crashes =>
               /\ \A s \in Session : inbound[d][s] # None =>
                      inbound'[d][s] # None /\ inbound'[d][s] <= inbound[d][s]
               /\ outbound[d] # None =>
                      /\ outbound'[d].session = outbound[d].session
                      /\ outbound'[d].index >= outbound[d].index]_vars
  BY RatchetStep DEF KeysAdvance
<1> QED
  BY <1>1, <1>2, <1>3, PTL DEF Spec, RatchetAdvances
-----------------------------------------------------------------------------
(***************************************************************************)
(* Time stamps.  The strengthening: one call of a device holds the lock    *)
(* between stamp and commit, its stamp is the counter, and the counter is  *)
(* not behind the device's messages.                                       *)
(***************************************************************************)
Stages == {"stamped", "commit"}
OwnLog(d) == {m \in log[d] : m.by = d}

OneLock ==
    \A d \in Device : \A h, k \in Handler :
        call[d][h].stage \in Stages /\ call[d][k].stage \in Stages => h = k

HoldsStamp(d, c) ==
    /\ c.stage = "stamped" => c.ts = ts[d]
    /\ c.stage = "commit" => c.msg.ts = ts[d]
    /\ c.stage \in Stages => \A m \in OwnLog(d) : m.ts < ts[d]

StampInv ==
    /\ TypeInv
    /\ OneLock
    /\ \A d \in Device : \A m \in OwnLog(d) : m.ts <= ts[d]
    /\ \A d \in Device, h \in Handler : HoldsStamp(d, call[d][h])

\* A step that takes no call to a stage with the lock, and leaves the counters
\* and the devices' own messages alone.
LEMMA StampFrame ==
    ASSUME StampInv, TypeInv', ts' = ts, \A d \in Device : OwnLog(d)' = OwnLog(d),
           \A d \in Device, h \in Handler :
               call'[d][h].stage \in Stages => call'[d][h] = call[d][h]
    PROVE  StampInv'
<1>1. OneLock'
  BY DEF StampInv, OneLock
<1>2. \A d \in Device : \A m \in OwnLog(d)' : m.ts <= ts'[d]
  BY DEF StampInv
<1>3. ASSUME NEW d \in Device, NEW h \in Handler
      PROVE  HoldsStamp(d, call[d][h])'
  <2>1. CASE call'[d][h].stage \in Stages
    <3>1. HoldsStamp(d, call[d][h]) /\ call'[d][h] = call[d][h]
      BY <2>1 DEF StampInv
    <3> QED
      BY <3>1 DEF HoldsStamp
  <2>2. CASE call'[d][h].stage \notin Stages
    BY <2>2 DEF HoldsStamp, Stages
  <2> QED
    BY <2>1, <2>2
<1> QED
  BY <1>1, <1>2, <1>3 DEF StampInv

\* A step of one call that does not hold the lock after it.
LEMMA StampOnward ==
    ASSUME StampInv, TypeInv', ts' = ts, \A e \in Device : OwnLog(e)' = OwnLog(e),
           NEW d \in Device, NEW h \in Handler, NEW c, c.stage \notin Stages,
           call' = [call EXCEPT ![d][h] = c]
    PROVE  StampInv'
<1>1. call \in [Device -> [Handler -> Calls]]
  BY TypedCalls DEF StampInv, TypeInv
<1>2. \A e \in Device, k \in Handler : call'[e][k] = call[e][k] \/ call'[e][k] = c
  BY <1>1
<1> QED
  BY <1>2, StampFrame

LEMMA SameLog ==
    ASSUME log' = log
    PROVE  \A d \in Device : OwnLog(d)' = OwnLog(d)
  BY DEF OwnLog

\* The steps that take a call to a stage after its commit.
LEMMA MovesOn ==
    ASSUME TypeOK, NEW d \in Device, NEW h \in Handler, NEW p \in Device,
           \/ SendCommit(d, h) \/ ShareSession(d, h, p) \/ FetchKeys(d, h) \/ ShareWrap(d, h)
           \/ ImportOlm(d, h) \/ ImportRefused(d, h) \/ ImportSession(d, h)
           \/ FanoutIngest(d, h) \/ FanoutNext(d, h) \/ RequestFails(d, h)
    PROVE  \E c : /\ c.stage \notin Stages \cup {"carry"}
                  /\ call' = [call EXCEPT ![d][h] = c]
<1>0. call \in [Device -> [Handler -> Calls]] /\ call[d][h] \in CallOf(d)
  BY TypedCalls
<1>1. CASE ShareSession(d, h, p)
  BY <1>1 DEF ShareSession, Stages
<1>2. CASE ShareWrap(d, h)
  BY <1>2 DEF ShareWrap, Stages
<1>3. CASE ImportOlm(d, h)
  BY <1>3 DEF ImportOlm, Stages, Idle
<1>4. CASE ImportSession(d, h)
  BY <1>4 DEF ImportSession, Stages, Idle
<1>5. CASE FetchKeys(d, h)
  <2>1. PICK q, n : call' = [call EXCEPT ![d][h] =
               [stage |-> "wrap", pkg |-> @.pkg, todo |-> @.todo \ {q},
                msg |-> @.msg, peer |-> q, otk |-> n]]
    BY <1>5 DEF FetchKeys
  <2>2. PICK c : c = [stage |-> "wrap", pkg |-> call[d][h].pkg,
                      todo |-> call[d][h].todo \ {q}, msg |-> call[d][h].msg,
                      peer |-> q, otk |-> n]
    OBVIOUS
  <2>3. call' = [call EXCEPT ![d][h] = c] /\ c.stage = "wrap"
    BY <1>0, <2>1, <2>2
  <2> QED
    BY <2>3 DEF Stages
<1>6. CASE ImportRefused(d, h) \/ FanoutNext(d, h) \/ RequestFails(d, h)
  <2>1. PICK c : call' = [call EXCEPT ![d][h] = Continued(c)]
    <3>1. CASE ImportRefused(d, h) \/ FanoutNext(d, h)
      BY <1>0, <3>1 DEF ImportRefused, FanoutNext
    <3>2. CASE RequestFails(d, h)
      <4>1. PICK q : call' = [call EXCEPT ![d][h] =
                                 Continued([call[d][h] EXCEPT !.todo = @ \ {q}])]
        BY <3>2 DEF RequestFails
      <4>2. PICK c : c = [call[d][h] EXCEPT !.todo = @ \ {q}]
        OBVIOUS
      <4> QED
        BY <4>1, <4>2
    <3> QED
      BY <1>6, <3>1, <3>2
  <2>2. Continued(c).stage \notin Stages \cup {"carry"}
    BY ContinuedMsg DEF Stages
  <2> QED
    BY <2>1, <2>2
<1>7. CASE FanoutIngest(d, h)
  <2>1. PICK n : n = [call[d][h] EXCEPT !.stage = "counted"]
    OBVIOUS
  <2>2. call[d][h] \in AtIngest(d) /\ call' = [call EXCEPT ![d][h] = n]
    BY <1>0, <1>7, <2>1, ByStage DEF FanoutIngest
  <2>3. n.stage = "counted"
    BY <2>1, <2>2 DEF AtIngest
  <2> QED
    BY <2>2, <2>3 DEF Stages
<1>8. CASE SendCommit(d, h)
  <2>1. PICK n : n = [call[d][h] EXCEPT !.stage = "next"]
    OBVIOUS
  <2>2. call[d][h] \in AtCommit(d) /\ call' = [call EXCEPT ![d][h] = n]
    BY <1>0, <1>8, <2>1, ByStage DEF SendCommit
  <2>3. n.stage = "next"
    BY <2>1, <2>2 DEF AtCommit
  <2> QED
    BY <2>2, <2>3 DEF Stages
<1> QED
  BY <1>1, <1>2, <1>3, <1>4, <1>5, <1>6, <1>7, <1>8

LEMMA StampSend ==
    ASSUME StampInv, TypeInv', NEW d \in Device, NEW h \in Handler,
           \/ SendStamp(d, h) \/ SendCreate(d, h) \/ SendEncrypt(d, h) \/ SendCommit(d, h)
    PROVE  /\ StampInv'
           /\ \A e \in Device : \A m \in log'[e] \ log[e] :
                  m.by = e => \A o \in log[e] : o.by = e => o.ts < m.ts
<1>0. /\ TypeOK /\ call[d][h] \in CallOf(d)
      /\ call \in [Device -> [Handler -> Calls]]
      /\ ts \in [Device -> Nat] /\ log \in [Device -> SUBSET Message]
  BY TypedCalls DEF StampInv, TypeInv, TypeOK
<1>1. CASE SendStamp(d, h)
  <2>1. /\ ts' = [ts EXCEPT ![d] = ts[d] + 1] /\ log' = log /\ ~Locked(d)
        /\ call' = [call EXCEPT ![d][h] = [stage |-> "stamped", ts |-> ts'[d]]]
    BY <1>0, <1>1 DEF SendStamp
  <2>2. PICK c : c = [stage |-> "stamped", ts |-> ts'[d]]
    OBVIOUS
  <2>3. /\ \A e \in Device, k \in Handler : (e # d \/ k # h) => call'[e][k] = call[e][k]
        /\ call'[d][h] = c
    BY <1>0, <2>1, <2>2
  <2>4. ts'[d] = ts[d] + 1 /\ \A e \in Device \ {d} : ts'[e] = ts[e]
    BY <1>0, <2>1
  <2>5. \A k \in Handler : call[d][k].stage \notin Stages
    BY <2>1 DEF Locked, Stages
  <2>6. OneLock'
    BY <2>3, <2>5 DEF OneLock, StampInv
  <2>7. \A e \in Device : OwnLog(e)' = OwnLog(e)
    BY <2>1, SameLog
  <2>8. ASSUME NEW e \in Device, NEW m \in OwnLog(e)
        PROVE  m.ts \in Nat /\ ts[e] \in Nat /\ m.ts <= ts[e]
    BY <1>0, <2>8 DEF OwnLog, Message, StampInv
  <2>9. \A e \in Device : \A m \in OwnLog(e)' : m.ts <= ts'[e]
    <3>1. ASSUME NEW e \in Device, NEW m \in OwnLog(e)
          PROVE  m.ts <= ts'[e]
      <4>1. m.ts \in Nat /\ ts[e] \in Nat /\ m.ts <= ts[e]
        BY <2>8
      <4>2. ts'[e] = ts[e] \/ ts'[e] = ts[e] + 1
        BY <2>4
      <4> QED
        BY <4>1, <4>2
    <3> QED
      BY <2>7, <3>1
  <2>10. ASSUME NEW e \in Device, NEW k \in Handler
         PROVE  HoldsStamp(e, call[e][k])'
    <3>1. CASE e = d /\ k = h
      <4>1. c.stage = "stamped" /\ c.ts = ts'[d]
        BY <2>2
      <4>2. \A m \in OwnLog(d)' : m.ts < ts'[d]
        BY <1>0, <2>4, <2>7, <2>8
      <4> QED
        BY <2>3, <3>1, <4>1, <4>2 DEF HoldsStamp
    <3>2. CASE e = d /\ k # h
      BY <2>3, <2>5, <3>2 DEF HoldsStamp, Stages
    <3>3. CASE e # d
      <4>1. HoldsStamp(e, call[e][k]) /\ call'[e][k] = call[e][k] /\ ts'[e] = ts[e]
            /\ OwnLog(e)' = OwnLog(e)
        BY <2>3, <2>4, <2>7, <3>3 DEF StampInv
      <4> QED
        BY <4>1 DEF HoldsStamp
    <3> QED
      BY <3>1, <3>2, <3>3
  <2> QED
    BY <2>1, <2>6, <2>9, <2>10 DEF StampInv
<1>2. CASE SendCreate(d, h)
  <2>1. ts' = ts /\ log' = log /\ call' = call
    BY <1>2 DEF SendCreate, stamps
  <2> QED
    BY <2>1, SameLog, StampFrame
<1>3. CASE SendEncrypt(d, h)
  <2>1. ts' = ts /\ log' = log
    BY <1>3 DEF SendEncrypt, stamps
  <2>2. PICK c : c = Sending(d, h, outbound[d], outbound[d])
    OBVIOUS
  <2>3. call' = [call EXCEPT ![d][h] = c] /\ call[d][h].stage = "stamped"
    BY <1>3, <2>2 DEF SendEncrypt
  <2>4. /\ \A e \in Device, k \in Handler : (e # d \/ k # h) => call'[e][k] = call[e][k]
        /\ call'[d][h] = c
    BY <1>0, <2>3
  <2>5. OneLock'
    BY <2>3, <2>4 DEF OneLock, StampInv, Stages
  <2>6. \A e \in Device : OwnLog(e)' = OwnLog(e)
    BY <2>1, SameLog
  <2>7. c.stage = "commit" /\ c.msg.ts = call[d][h].ts
    BY <2>2 DEF Sending
  <2>8. ASSUME NEW e \in Device, NEW k \in Handler
        PROVE  HoldsStamp(e, call[e][k])'
    <3>1. HoldsStamp(e, call[e][k]) /\ ts'[e] = ts[e] /\ OwnLog(e)' = OwnLog(e)
      BY <2>1, <2>6 DEF StampInv
    <3>2. CASE e = d /\ k = h
      BY <2>3, <2>4, <2>7, <3>1, <3>2 DEF HoldsStamp, Stages
    <3>3. CASE e # d \/ k # h
      BY <2>4, <3>1, <3>3 DEF HoldsStamp
    <3> QED
      BY <3>2, <3>3
  <2> QED
    BY <2>1, <2>5, <2>6, <2>8 DEF StampInv
<1>4. CASE SendCommit(d, h)
  <2>1. PICK c : c = call[d][h]
    OBVIOUS
  <2>2. c \in AtCommit(d) /\ c.stage = "commit"
    BY <1>0, <1>4, <2>1, ByStage DEF SendCommit
  <2>3. c.msg \in Message /\ c.msg.by = d
    BY <2>2 DEF AtCommit, OwnMsg
  <2>4. PICK n : n = [c EXCEPT !.stage = "next"]
    OBVIOUS
  <2>5. n.stage = "next"
    BY <2>2, <2>4 DEF AtCommit
  <2>6. /\ ts' = ts /\ log' = [log EXCEPT ![d] = @ \cup {c.msg}]
        /\ call' = [call EXCEPT ![d][h] = n]
    BY <1>0, <1>4, <2>1, <2>4 DEF SendCommit, stamps
  <2>7. /\ \A e \in Device, k \in Handler : (e # d \/ k # h) => call'[e][k] = call[e][k]
        /\ call'[d][h] = n
    BY <1>0, <2>6
  <2>8. /\ \A e \in Device \ {d} : log'[e] = log[e]
        /\ log'[d] = log[d] \cup {c.msg}
    BY <1>0, <2>6
  <2>9. HoldsStamp(d, c) /\ c.msg.ts = ts[d] /\ \A m \in OwnLog(d) : m.ts < ts[d]
    BY <2>1, <2>2 DEF StampInv, HoldsStamp, Stages
  <2>10. /\ \A e \in Device \ {d} : OwnLog(e)' = OwnLog(e)
         /\ OwnLog(d)' = OwnLog(d) \cup {c.msg}
    BY <2>3, <2>8 DEF OwnLog
  <2>11. \A k \in Handler : call'[d][k].stage \notin Stages
    BY <2>1, <2>2, <2>5, <2>7 DEF StampInv, OneLock, Stages
  <2>12. OneLock'
    BY <2>7, <2>11 DEF StampInv, OneLock
  <2>13. \A e \in Device : \A m \in OwnLog(e)' : m.ts <= ts'[e]
    <3>1. ts[d] \in Nat /\ ts' = ts
      BY <1>0, <2>6
    <3> QED
      BY <2>9, <2>10, <3>1 DEF StampInv
  <2>14. ASSUME NEW e \in Device, NEW k \in Handler
         PROVE  HoldsStamp(e, call[e][k])'
    <3>1. CASE e = d
      BY <2>11, <3>1 DEF HoldsStamp, Stages
    <3>2. CASE e # d
      <4>1. HoldsStamp(e, call[e][k]) /\ ts'[e] = ts[e] /\ OwnLog(e)' = OwnLog(e)
            /\ call'[e][k] = call[e][k]
        BY <2>6, <2>7, <2>10, <3>2 DEF StampInv
      <4> QED
        BY <4>1 DEF HoldsStamp
    <3> QED
      BY <3>1, <3>2
  <2>15. \A e \in Device : \A m \in log'[e] \ log[e] :
             m.by = e => \A o \in log[e] : o.by = e => o.ts < m.ts
    BY <2>8, <2>9 DEF OwnLog
  <2> QED
    BY <2>12, <2>13, <2>14, <2>15 DEF StampInv
<1> QED
  BY <1>1, <1>2, <1>3, <1>4

LEMMA StampStep ==
    ASSUME StampInv, [Next]_vars
    PROVE  /\ StampInv'
           /\ \A e \in Device : \A m \in log'[e] \ log[e] :
                  m.by = e => \A o \in log[e] : o.by = e => o.ts < m.ts
<1> DEFINE Later == \A e \in Device : \A m \in log'[e] \ log[e] :
                        m.by = e => \A o \in log[e] : o.by = e => o.ts < m.ts
<1>0. /\ TypeInv' /\ TypeInv /\ TypeOK
      /\ call \in [Device -> [Handler -> Calls]]
  BY TypeStep, TypedCalls DEF StampInv, TypeInv
<1>1. ASSUME NEW d \in Device, NEW h \in Handler,
             \/ SendStamp(d, h) \/ SendCreate(d, h) \/ SendEncrypt(d, h) \/ SendCommit(d, h)
      PROVE  StampInv' /\ Later
  BY <1>0, <1>1, StampSend
<1>2. ASSUME NEW d \in Device, NEW h \in Handler, NEW p \in Device,
             \/ ShareSession(d, h, p) \/ ShareWrap(d, h) \/ ImportOlm(d, h)
             \/ ImportSession(d, h) \/ FetchKeys(d, h) \/ ImportRefused(d, h)
             \/ FanoutNext(d, h) \/ RequestFails(d, h)
      PROVE  StampInv' /\ Later
  <2>1. ts' = ts /\ log' = log
    BY <1>2 DEF ShareSession, ShareWrap, ImportOlm, ImportSession, FetchKeys, ImportRefused,
                FanoutNext, RequestFails, stamps
  <2>2. PICK c : c.stage \notin Stages /\ call' = [call EXCEPT ![d][h] = c]
    BY <1>0, <1>2, MovesOn
  <2> QED
    BY <1>0, <2>1, <2>2, SameLog, StampOnward
<1>3. ASSUME NEW d \in Device, NEW h \in Handler, NEW p \in Device, ExportSession(d, h, p)
      PROVE  StampInv' /\ Later
  <2>1. ts' = ts /\ log' = log
    BY <1>3 DEF ExportSession, stamps
  <2>2. PICK c : c.stage \notin Stages /\ call' = [call EXCEPT ![d][h] = c]
    BY <1>3 DEF ExportSession, Stages
  <2> QED
    BY <1>0, <2>1, <2>2, SameLog, StampOnward
<1>4. ASSUME NEW d \in Device, NEW h \in Handler, FanoutIngest(d, h)
      PROVE  StampInv' /\ Later
  <2>1. PICK c : c = call[d][h]
    OBVIOUS
  <2>2. c \in AtIngest(d)
    BY <1>0, <1>4, <2>1, ByStage DEF FanoutIngest, TypeOK
  <2>3. c.peer \in Device \ {d} /\ c.msg.by = d
    BY <2>2 DEF AtIngest, Peer, OwnMsg
  <2>4. PICK n : n = [c EXCEPT !.stage = "counted"]
    OBVIOUS
  <2>5. n.stage = "counted" /\ n.stage \notin Stages
    BY <2>2, <2>4 DEF AtIngest, Stages
  <2>6. /\ ts' = ts /\ log' = [log EXCEPT ![c.peer] = @ \cup {c.msg}]
        /\ call' = [call EXCEPT ![d][h] = n]
    BY <1>0, <1>4, <2>1, <2>4 DEF FanoutIngest, stamps
  <2>7. /\ \A e \in Device : log'[e] = log[e] \/ (e = c.peer /\ log'[e] = log[e] \cup {c.msg})
    BY <1>0, <2>6 DEF TypeOK
  <2>8. \A e \in Device : OwnLog(e)' = OwnLog(e)
    BY <2>3, <2>7 DEF OwnLog
  <2>9. Later
    BY <2>3, <2>7
  <2> QED
    BY <1>0, <2>5, <2>6, <2>8, <2>9, StampOnward
<1>5. ASSUME NEW d \in Device, NEW p \in Device, TrustOlmKeys(d, p)
      PROVE  StampInv' /\ Later
  <2>1. ts' = ts /\ log' = log /\ call' = call
    BY <1>5 DEF TrustOlmKeys, stamps
  <2> QED
    BY <1>0, <2>1, SameLog, StampFrame
<1>6. ASSUME NEW d \in Device, Crash(d)
      PROVE  StampInv' /\ Later
  <2>1. log' = log /\ \A m \in log[d] : m.ts < ts'[d]
    BY <1>0, <1>6, TypeCrash DEF Crash
  <2>2. \A e \in Device \ {d} : ts'[e] = ts[e]
    BY <1>0, <1>6 DEF Crash, TypeOK
  <2>3. /\ \A e \in Device, k \in Handler :
               call'[e][k] = call[e][k] \/ (e = d /\ call'[e][k] = Idle)
        /\ \A k \in Handler : call'[d][k].stage \notin Stages
    BY <1>0, <1>6, CrashCalls DEF Idle, Stages
  <2>4. \A e \in Device : OwnLog(e)' = OwnLog(e)
    BY <2>1, SameLog
  <2>5. OneLock'
    BY <2>3 DEF StampInv, OneLock
  <2>6. \A e \in Device : \A m \in OwnLog(e)' : m.ts <= ts'[e]
    <3>1. ASSUME NEW m \in OwnLog(d)
          PROVE  m.ts <= ts'[d]
      <4>1. m \in Message /\ m \in log[d] /\ ts'[d] \in Nat
        BY <1>0 DEF OwnLog, TypeOK, TypeInv
      <4> QED
        BY <2>1, <4>1 DEF Message
    <3> QED
      BY <2>2, <2>4, <3>1 DEF StampInv
  <2>7. ASSUME NEW e \in Device, NEW k \in Handler
        PROVE  HoldsStamp(e, call[e][k])'
    <3>1. CASE e = d
      BY <2>3, <3>1 DEF HoldsStamp, Stages
    <3>2. CASE e # d
      <4>1. HoldsStamp(e, call[e][k]) /\ ts'[e] = ts[e] /\ OwnLog(e)' = OwnLog(e)
            /\ call'[e][k] = call[e][k]
        BY <2>2, <2>3, <2>4, <3>2 DEF StampInv
      <4> QED
        BY <4>1 DEF HoldsStamp
    <3> QED
      BY <3>1, <3>2
  <2> QED
    BY <1>0, <2>1, <2>5, <2>6, <2>7 DEF StampInv
<1>7. CASE UNCHANGED vars
  <2>1. ts' = ts /\ log' = log /\ call' = call
    BY <1>7 DEF vars, stamps
  <2> QED
    BY <1>0, <2>1, SameLog, StampFrame
<1> QED
  BY <1>1, <1>2, <1>3, <1>4, <1>5, <1>6, <1>7 DEF Next

\* next_ts and load_from_data_dir: a message that a device commits has a later
\* time stamp than all it has committed before, however saves of the counter
\* fail and whenever the process ends.
THEOREM StampsAdvance == Spec => TimestampsAdvance
<1>1. Init => StampInv
  <2> SUFFICES ASSUME Init PROVE StampInv
    OBVIOUS
  <2>1. TypeInv
    BY TypeInit
  <2> QED
    BY <2>1 DEF Init, StampInv, OneLock, HoldsStamp, OwnLog, Stages, Idle
<1>2. StampInv /\ [Next]_vars => StampInv'
  BY StampStep
<1>3. StampInv /\ [Next]_vars =>
          [\A d \in Device : \A m \in log'[d] \ log[d] :
               m.by = d => \A o \in log[d] : o.by = d => o.ts < m.ts]_vars
  BY StampStep
<1> QED
  BY <1>1, <1>2, <1>3, PTL DEF Spec, TimestampsAdvance
-----------------------------------------------------------------------------
(***************************************************************************)
(* Own messages.  The strengthening: an outbound session comes with the    *)
(* inbound one that opens what it sends, in memory and in e2ee.json, and   *)
(* an own message opens with the keys in memory and, unless a save failed, *)
(* with those in e2ee.json.                                                *)
(***************************************************************************)

\* import_session may have installed index k of session s at d.
Clear(d, s, k) == [session |-> s, index |-> k, clear |-> TRUE] \in offered[d]

\* The inbound sessions i of d open what is sent at the index of m, unless a
\* later key had been given to d in the clear.
Opens(d, i, m) ==
    /\ i[m.session] # None
    /\ i[m.session] <= m.index \/ Clear(d, m.session, i[m.session])

\* An outbound session comes with its inbound one; a device without one was
\* given keys in the clear only.
Held(d, o, i) ==
    /\ o # None => Opens(d, i, o)
    /\ o = None => \A s \in Session : i[s] # None => Clear(d, s, i[s])

OwnOpens(d, m) ==
    \/ hurt[d]
    \/ /\ Opens(d, inbound[d], m)
       /\ unsaved[d] \/ Opens(d, saved[d].inbound, m)

KeyInv ==
    /\ TypeInv
    /\ \A d \in Device : Held(d, outbound[d], inbound[d])
    /\ \A d \in Device : Held(d, saved[d].outbound, saved[d].inbound)
    /\ \A d \in Device : \A m \in OwnLog(d) : OwnOpens(d, m)
    /\ \A d \in Device, h \in Handler :
           LET c == call[d][h]
           IN  /\ c.stage = "commit" => OwnOpens(d, c.msg)
               /\ c.stage = "carry" => Clear(c.peer, c.body.session, c.body.index)

LEMMA OpensGrows ==
    ASSUME NEW d \in Device, offered[d] \subseteq offered'[d], NEW i, NEW m
    PROVE  /\ Opens(d, i, m) => Opens(d, i, m)'
           /\ Held(d, m, i) => Held(d, m, i)'
  BY DEF Opens, Clear, Held

\* While no device restarts, an own message that opens goes on to open.
LEMMA OpensStays ==
    ASSUME TypeOK, NEW d \in Device, KeysAdvance(d), offered[d] \subseteq offered'[d],
           NEW m, m.session \in Session, m.index \in Nat, Opens(d, inbound[d], m)
    PROVE  Opens(d, inbound[d], m)'
<1>1. PICK k : k = inbound[d][m.session]
  OBVIOUS
<1>2. k # None /\ (k <= m.index \/ Clear(d, m.session, k))
  BY <1>1 DEF Opens
<1>3. inbound'[d][m.session] # None /\ inbound'[d][m.session] \in {0, k}
  BY <1>1, <1>2 DEF KeysAdvance
<1>4. Clear(d, m.session, k) => Clear(d, m.session, k)'
  BY DEF Clear
<1>5. 0 <= m.index
  OBVIOUS
<1> QED
  BY <1>2, <1>3, <1>4, <1>5 DEF Opens

\* What a step without a restart may do to what d has saved.
SaveMoves(d) ==
    \/ /\ saved'[d].outbound = saved[d].outbound /\ saved'[d].inbound = saved[d].inbound
       /\ unsaved'[d] = unsaved[d]
    \/ saved'[d].outbound = outbound'[d] /\ saved'[d].inbound = inbound'[d]
    \/ /\ saved'[d].outbound = saved[d].outbound /\ saved'[d].inbound = saved[d].inbound
       /\ unsaved'[d] = TRUE

LEMMA PersistMoves ==
    ASSUME TypeOK, NEW d \in Device, NEW e \in Device, PersistE2ee(d)
    PROVE  SaveMoves(e) /\ hurt' = hurt
<1>1. saved = [x \in Device |-> saved[x]] /\ unsaved = [x \in Device |-> unsaved[x]]
  BY DEF TypeOK
<1>2. CASE /\ saved' = [saved EXCEPT ![d] = [outbound |-> outbound'[d], inbound |-> inbound'[d],
                                             olm |-> olm[d], otks |-> otks[d]]]
           /\ unsaved' = [unsaved EXCEPT ![d] = FALSE]
           /\ hurt' = hurt
  BY <1>1, <1>2 DEF SaveMoves
<1>3. CASE unsaved' = [unsaved EXCEPT ![d] = TRUE] /\ saved' = saved /\ hurt' = hurt
  BY <1>1, <1>3 DEF SaveMoves
<1> QED
  BY <1>2, <1>3 DEF PersistE2ee

LEMMA SavedHeld ==
    ASSUME TypeOK, NEW d \in Device, SaveMoves(d), offered[d] \subseteq offered'[d],
           Held(d, outbound[d], inbound[d])', Held(d, saved[d].outbound, saved[d].inbound)
    PROVE  Held(d, saved[d].outbound, saved[d].inbound)'
<1>1. PICK o, i : o = saved[d].outbound /\ i = saved[d].inbound
  OBVIOUS
<1>2. Held(d, o, i)'
  BY <1>1, OpensGrows
<1>3. \/ saved'[d].outbound = o /\ saved'[d].inbound = i
      \/ saved'[d].outbound = outbound'[d] /\ saved'[d].inbound = inbound'[d]
  BY <1>1 DEF SaveMoves
<1> QED
  BY <1>2, <1>3 DEF Held, Opens

LEMMA OwnStays ==
    ASSUME TypeOK, NEW d \in Device, SaveMoves(d), KeysAdvance(d), hurt' = hurt,
           offered[d] \subseteq offered'[d],
           NEW m, m.session \in Session, m.index \in Nat, OwnOpens(d, m)
    PROVE  OwnOpens(d, m)'
<1>1. CASE hurt[d]
  BY <1>1 DEF OwnOpens
<1>2. CASE Opens(d, inbound[d], m) /\ (unsaved[d] \/ Opens(d, saved[d].inbound, m))
  <2>1. Opens(d, inbound[d], m)'
    BY <1>2, OpensStays
  <2>2. (unsaved[d] \/ Opens(d, saved[d].inbound, m))'
    <3>1. CASE saved'[d].inbound = inbound'[d]
      BY <2>1, <3>1 DEF Opens
    <3>2. CASE unsaved'[d] = TRUE
      BY <3>2
    <3>3. CASE saved'[d].inbound = saved[d].inbound /\ unsaved'[d] = unsaved[d]
      <4>1. PICK i : i = saved[d].inbound
        OBVIOUS
      <4>2. Opens(d, i, m) => Opens(d, i, m)'
        BY OpensGrows
      <4> QED
        BY <1>2, <3>3, <4>1, <4>2 DEF Opens
    <3> QED
      BY <3>1, <3>2, <3>3 DEF SaveMoves
  <2> QED
    BY <2>1, <2>2 DEF OwnOpens
<1> QED
  BY <1>1, <1>2 DEF OwnOpens

\* The invariant after a step without a restart, from what the step does to the
\* keys, to the logs and to calls that commit or carry a key.
KeyCall(d, c) ==
    /\ c.stage = "commit" => OwnOpens(d, c.msg)
    /\ c.stage = "carry" => Clear(c.peer, c.body.session, c.body.index)

LEMMA KeyInvIs ==
    KeyInv <=>
    /\ TypeInv
    /\ \A d \in Device : Held(d, outbound[d], inbound[d])
    /\ \A d \in Device : Held(d, saved[d].outbound, saved[d].inbound)
    /\ \A d \in Device : \A m \in OwnLog(d) : OwnOpens(d, m)
    /\ \A d \in Device, h \in Handler : KeyCall(d, call[d][h])
  BY DEF KeyInv, KeyCall

LEMMA KeyFrame ==
    ASSUME KeyInv, [Next]_vars, crashes' = crashes, hurt' = hurt,
           \A d \in Device : SaveMoves(d),
           \A d \in Device : offered[d] \subseteq offered'[d],
           \A d \in Device : Held(d, outbound[d], inbound[d])',
           \A d \in Device : \A m \in OwnLog(d)' :
               m \in OwnLog(d) \/ \E h \in Handler : call[d][h].stage = "commit" /\ m = call[d][h].msg,
           \A d \in Device, h \in Handler :
               call'[d][h] = call[d][h] \/ KeyCall(d, call[d][h])'
    PROVE  KeyInv'
<1>1. TypeInv /\ TypeInv' /\ TypeOK /\ \A d \in Device : KeysAdvance(d)
  BY TypeStep, RatchetStep DEF KeyInv, TypeInv
<1>2. ASSUME NEW d \in Device
      PROVE  Held(d, saved[d].outbound, saved[d].inbound)'
  BY <1>1, SavedHeld DEF KeyInv
<1>3. ASSUME NEW d \in Device, NEW m \in Message, OwnOpens(d, m)
      PROVE  OwnOpens(d, m)'
  <2>1. m.session \in Session /\ m.index \in Nat
    BY DEF Message
  <2> QED
    BY <1>1, <1>3, <2>1, OwnStays
<1>4. ASSUME NEW d \in Device, NEW m \in OwnLog(d)'
      PROVE  OwnOpens(d, m)'
  <2>1. CASE m \in OwnLog(d)
    <3>1. m \in Message /\ OwnOpens(d, m)
      BY <1>1, <2>1 DEF OwnLog, TypeOK, KeyInv
    <3> QED
      BY <1>3, <3>1
  <2>2. ASSUME NEW h \in Handler, call[d][h].stage = "commit", m = call[d][h].msg
        PROVE  OwnOpens(d, m)'
    <3>1. call[d][h] \in AtCommit(d)
      BY <1>1, <2>2, TypedCalls, ByStage
    <3>2. m \in Message /\ OwnOpens(d, m)
      BY <2>2, <3>1 DEF AtCommit, OwnMsg, KeyInv
    <3> QED
      BY <1>3, <3>2
  <2> QED
    BY <1>4, <2>1, <2>2
<1>5. ASSUME NEW d \in Device, NEW h \in Handler
      PROVE  KeyCall(d, call[d][h])'
  <2>1. PICK c : c = call[d][h]
    OBVIOUS
  <2>2. c \in CallOf(d) /\ KeyCall(d, c)
    BY <1>1, <2>1, TypedCalls, KeyInvIs
  <2>3. c.stage = "commit" => OwnOpens(d, c.msg)'
    <3>1. c.stage = "commit" => c.msg \in Message /\ OwnOpens(d, c.msg)
      BY <2>2, ByStage DEF AtCommit, OwnMsg, KeyCall
    <3>2. PICK m : m = c.msg
      OBVIOUS
    <3> QED
      BY <1>3, <3>1, <3>2
  <2>4. c.stage = "carry" => Clear(c.peer, c.body.session, c.body.index)'
    <3>1. c.stage = "carry" => c.peer \in Device
      BY <2>2, ByStage DEF AtCarry, Peer
    <3> QED
      BY <2>2, <3>1 DEF KeyCall, Clear
  <2>5. KeyCall(d, c)'
    BY <2>3, <2>4 DEF KeyCall
  <2> QED
    BY <2>1, <2>5
<1> QED
  BY <1>1, <1>2, <1>4, <1>5 DEF KeyInv, KeyCall

\* The keys of every device, for the ways a step changes those of one.
LEMMA HeldStays ==
    ASSUME KeyInv, NEW d \in Device, offered[d] \subseteq offered'[d],
           outbound'[d] = outbound[d], inbound'[d] = inbound[d]
    PROVE  Held(d, outbound[d], inbound[d])'
<1>1. PICK o, i : o = outbound[d] /\ i = inbound[d]
  OBVIOUS
<1>2. Held(d, o, i)'
  BY <1>1, OpensGrows DEF KeyInv
<1> QED
  BY <1>1, <1>2

LEMMA HeldEnsured ==
    ASSUME KeyInv, NEW e \in Device, EnsureRoomE2ee(e), NEW d \in Device,
           offered[d] \subseteq offered'[d]
    PROVE  Held(d, outbound[d], inbound[d])' /\ SaveMoves(d) /\ hurt' = hurt
<1>0. TypeOK
  BY DEF KeyInv, TypeInv
<1>1. /\ outbound' = [outbound EXCEPT ![e] = Ensured(e)]
      /\ inbound' = [inbound EXCEPT ![e] = EnsuredInbound(e)]
      /\ outbound \in [Device -> Package \cup {None}]
      /\ inbound \in [Device -> [Session -> Nat \cup {None}]]
  BY <1>0 DEF EnsureRoomE2ee, TypeOK
<1>2. SaveMoves(d) /\ hurt' = hurt
  <2>1. CASE outbound[e] # None
    BY <2>1 DEF EnsureRoomE2ee, harm, SaveMoves
  <2>2. CASE outbound[e] = None
    BY <1>0, <2>2, PersistMoves DEF EnsureRoomE2ee
  <2> QED
    BY <2>1, <2>2
<1>3. CASE e # d \/ outbound[e] # None
  <2>1. outbound'[d] = outbound[d] /\ inbound'[d] = inbound[d]
    BY <1>1, <1>3 DEF Ensured, EnsuredInbound
  <2> QED
    BY <1>2, <2>1, HeldStays
<1>4. CASE e = d /\ outbound[d] = None
  <2>1. PICK o : o = [session |-> <<d, crashes>>, index |-> 0]
    OBVIOUS
  <2>2. outbound'[d] = o /\ inbound'[d] = [inbound[d] EXCEPT ![o.session] = 0]
    BY <1>1, <1>4, <2>1 DEF Ensured, EnsuredInbound
  <2>3. o \in Package /\ o.session \in Session /\ o.index = 0 /\ o # None
    BY <1>0, <2>1, EnsureType, KeysAssumption DEF Package
  <2>4. inbound'[d][o.session] = 0
    BY <1>1, <2>2, <2>3
  <2>5. 0 # None /\ 0 <= 0
    BY KeysAssumption
  <2> QED
    BY <1>2, <2>2, <2>3, <2>4, <2>5 DEF Held, Opens
<1> QED
  BY <1>3, <1>4

\* import_room_outbound takes over an outbound session that the inbound one
\* opens, unless the inbound one came in the clear.
LEMMA HeldImport ==
    ASSUME KeyInv, NEW p \in Device, NEW pkg \in Package, offered' = offered,
           outbound'[p] = ImportOutbound(p, pkg), inbound'[p] = ImportKey(p, pkg)
    PROVE  Held(p, outbound[p], inbound[p])'
<1>0. TypeOK
  BY DEF KeyInv, TypeInv
<1>1. PICK o, i : o = outbound[p] /\ i = inbound[p]
  OBVIOUS
<1>2. /\ i \in [Session -> Nat \cup {None}] /\ o \in Package \cup {None}
      /\ pkg.session \in Session /\ pkg.index \in Nat
      /\ o # None => o.session \in Session /\ o.index \in Nat
  BY <1>0, <1>1 DEF TypeOK, Package
<1>3. Held(p, o, i)
  BY <1>1 DEF KeyInv
<1>4. PICK n, j : n = outbound'[p] /\ j = inbound'[p]
  OBVIOUS
<1>5. j = [i EXCEPT ![pkg.session] = IF @ = None THEN pkg.index ELSE @]
  BY <1>1, <1>4 DEF ImportKey
<1>6. /\ \A s \in Session : i[s] # None => j[s] = i[s]
      /\ i[pkg.session] = None => j[pkg.session] = pkg.index
  BY <1>2, <1>5
<1>7. pkg # None /\ pkg.index # None /\ pkg.index <= pkg.index
  BY <1>2, KeysAssumption
<1>8. Opens(p, j, n) /\ n # None
  <2>1. CASE o = None
    <3>1. n = pkg
      BY <1>1, <1>4, <2>1 DEF ImportOutbound
    <3>2. i[pkg.session] # None => Clear(p, pkg.session, i[pkg.session])
      BY <1>2, <1>3, <2>1 DEF Held
    <3> QED
      BY <1>2, <1>6, <1>7, <3>1, <3>2 DEF Opens
  <2>2. CASE o # None
    <3>1. Opens(p, i, o) /\ j[o.session] = i[o.session]
      BY <1>2, <1>3, <1>6, <2>2 DEF Held, Opens
    <3>2. n = o \/ (n = pkg /\ o.session = pkg.session /\ ~(o.index > pkg.index))
      BY <1>1, <1>4, <2>2 DEF ImportOutbound
    <3>3. CASE n = o
      BY <2>2, <3>1, <3>3 DEF Opens
    <3>4. CASE n = pkg /\ o.session = pkg.session /\ ~(o.index > pkg.index)
      <4>1. i[o.session] \in Nat /\ (i[o.session] <= o.index \/ Clear(p, o.session, i[o.session]))
        BY <1>2, <2>2, <3>1 DEF Opens
      <4>2. i[o.session] <= o.index => i[o.session] <= pkg.index
        BY <1>2, <2>2, <3>4, <4>1
      <4> QED
        BY <1>7, <3>1, <3>4, <4>1, <4>2 DEF Opens
    <3> QED
      BY <3>2, <3>3, <3>4
  <2> QED
    BY <2>1, <2>2
<1>9. Held(p, n, j)
  BY <1>8 DEF Held
<1>10. Held(p, n, j)'
  BY <1>9, OpensGrows
<1> QED
  BY <1>4, <1>10

LEMMA HeldCarried ==
    ASSUME KeyInv, NEW p \in Device, NEW pkg \in Package, offered' = offered,
           outbound'[p] = outbound[p], inbound'[p] = ImportKey(p, pkg),
           Clear(p, pkg.session, pkg.index)
    PROVE  Held(p, outbound[p], inbound[p])'
<1>0. TypeOK
  BY DEF KeyInv, TypeInv
<1>1. PICK o, i : o = outbound[p] /\ i = inbound[p]
  OBVIOUS
<1>2. /\ i \in [Session -> Nat \cup {None}] /\ o \in Package \cup {None}
      /\ pkg.session \in Session /\ pkg.index \in Nat
      /\ o # None => o.session \in Session
  BY <1>0, <1>1 DEF TypeOK, Package
<1>3. Held(p, o, i)
  BY <1>1 DEF KeyInv
<1>4. PICK j : j = inbound'[p]
  OBVIOUS
<1>5. j = [i EXCEPT ![pkg.session] = IF @ = None THEN pkg.index ELSE @]
  BY <1>1, <1>4 DEF ImportKey
<1>6. \A s \in Session : j[s] = i[s] \/ (s = pkg.session /\ i[s] = None /\ j[s] = pkg.index)
  BY <1>2, <1>5
<1>7. Held(p, o, j)
  BY <1>2, <1>3, <1>6 DEF Held, Opens
<1>8. Held(p, o, j)'
  BY <1>7, OpensGrows
<1> QED
  BY <1>1, <1>4, <1>8

LEMMA KeyOnward ==
    ASSUME TypeOK, NEW d \in Device, NEW h \in Handler, NEW c,
           call' = [call EXCEPT ![d][h] = c], KeyCall(d, c)'
    PROVE  \A e \in Device, k \in Handler :
               call'[e][k] = call[e][k] \/ KeyCall(e, call[e][k])'
<1>1. call \in [Device -> [Handler -> Calls]]
  BY TypedCalls
<1>2. \A e \in Device, k \in Handler :
          call'[e][k] = call[e][k] \/ (e = d /\ call'[e][k] = c)
  BY <1>1
<1> QED
  BY <1>2

\* What the steps change that do not touch Megolm sessions.
LEMMA QuietStep ==
    ASSUME TypeOK, NEW d \in Device, NEW h \in Handler, NEW p \in Device,
           \/ SendStamp(d, h) \/ SendCommit(d, h)
           \/ ShareSession(d, h, p) \/ FetchKeys(d, h) \/ ImportRefused(d, h)
           \/ FanoutIngest(d, h) \/ FanoutNext(d, h) \/ RequestFails(d, h)
    PROVE  /\ UNCHANGED <<outbound, inbound, offered, hurt, crashes>>
           /\ \A e \in Device : SaveMoves(e)
<1>1. UNCHANGED <<outbound, inbound, offered, hurt, unsaved, crashes>>
  BY DEF SendStamp, SendCommit, ShareSession, FetchKeys, ImportRefused, FanoutIngest,
         FanoutNext, RequestFails, keys, harm, bounds
<1>2. CASE saved' = saved
  BY <1>1, <1>2 DEF SaveMoves
<1>3. CASE FetchKeys(d, h)
  <2>1. PICK q, n : saved' = saved \/ saved' = [saved EXCEPT ![q].otks = @ \cup {n}]
    BY <1>3 DEF FetchKeys
  <2>2. saved \in [Device -> SavedType]
    BY DEF TypeOK, SavedType
  <2>3. \A e \in Device : saved'[e].outbound = saved[e].outbound
                          /\ saved'[e].inbound = saved[e].inbound
    <3>1. PICK v : v = [saved[q] EXCEPT !.otks = @ \cup {n}]
      OBVIOUS
    <3>2. q \in Device => v.outbound = saved[q].outbound /\ v.inbound = saved[q].inbound
      BY <2>2, <3>1 DEF SavedType
    <3>3. saved' = saved \/ saved' = [saved EXCEPT ![q] = v]
      BY <2>1, <3>1
    <3> QED
      BY <2>2, <3>2, <3>3
  <2> QED
    BY <1>1, <2>3 DEF SaveMoves
<1>4. FetchKeys(d, h) \/ saved' = saved
  BY DEF SendStamp, SendCommit, ShareSession, ImportRefused, FanoutIngest, FanoutNext,
         RequestFails
<1> QED
  BY <1>1, <1>2, <1>3, <1>4

LEMMA KeyQuiet ==
    ASSUME KeyInv, [Next]_vars, UNCHANGED <<outbound, inbound, offered, hurt, crashes>>,
           \A d \in Device : SaveMoves(d),
           \A d \in Device : \A m \in OwnLog(d)' :
               m \in OwnLog(d) \/ \E h \in Handler : call[d][h].stage = "commit" /\ m = call[d][h].msg,
           \A d \in Device, h \in Handler :
               call'[d][h] = call[d][h] \/ KeyCall(d, call[d][h])'
    PROVE  KeyInv'
<1>1. \A d \in Device : Held(d, outbound[d], inbound[d])'
  BY HeldStays
<1> QED
  BY <1>1, KeyFrame

LEMMA KeySend ==
    ASSUME KeyInv, [Next]_vars, NEW d \in Device, NEW h \in Handler,
           \/ SendStamp(d, h) \/ SendCreate(d, h) \/ SendEncrypt(d, h) \/ SendCommit(d, h)
    PROVE  KeyInv'
<1>0. TypeOK
  BY DEF KeyInv, TypeInv
<1>1. CASE SendStamp(d, h)
  <2>1. PICK c : c = [stage |-> "stamped", ts |-> ts'[d]]
    OBVIOUS
  <2>2. log' = log /\ call' = [call EXCEPT ![d][h] = c] /\ KeyCall(d, c)'
    BY <1>1, <2>1 DEF SendStamp, KeyCall
  <2>3. /\ \A e \in Device, k \in Handler :
               call'[e][k] = call[e][k] \/ KeyCall(e, call[e][k])'
        /\ \A e \in Device : OwnLog(e)' = OwnLog(e)
    BY <1>0, <2>2, KeyOnward, SameLog
  <2>4. /\ UNCHANGED <<outbound, inbound, offered, hurt, crashes>>
        /\ \A e \in Device : SaveMoves(e)
    BY <1>0, <1>1, QuietStep
  <2> QED
    BY <2>3, <2>4, KeyQuiet
<1>2. CASE SendCreate(d, h)
  <2>1. EnsureRoomE2ee(d) /\ UNCHANGED <<log, call, offered, crashes>>
    BY <1>2 DEF SendCreate, bounds
  <2>2. ASSUME NEW e \in Device
        PROVE  Held(e, outbound[e], inbound[e])' /\ SaveMoves(e) /\ hurt' = hurt
    BY <2>1, HeldEnsured
  <2>3. \A e \in Device : OwnLog(e)' = OwnLog(e)
    BY <2>1, SameLog
  <2> QED
    BY <2>1, <2>2, <2>3, KeyFrame
<1>3. CASE SendEncrypt(d, h)
  <2>1. PICK out : out = outbound[d]
    OBVIOUS
  <2>2. PICK c : c = Sending(d, h, out, out)
    OBVIOUS
  <2>3. PICK n : n = [out EXCEPT !.index = @ + 1]
    OBVIOUS
  <2>4. /\ outbound' = [outbound EXCEPT ![d] = n] /\ call' = [call EXCEPT ![d][h] = c]
        /\ UNCHANGED <<inbound, log, offered, crashes>> /\ PersistE2ee(d)
        /\ out # None /\ call[d][h].stage = "stamped"
    BY <1>3, <2>1, <2>2, <2>3 DEF SendEncrypt, bounds
  <2>5. out \in Package /\ n \in Package /\ out.index \in Nat /\ out.session \in Session
        /\ n.session = out.session /\ n.index = out.index + 1 /\ n # None
    <3>1. out \in [session : Session, index : Nat]
      BY <1>0, <2>1, <2>4 DEF TypeOK, Package
    <3>2. n \in [session : Session, index : Nat]
          /\ n.session = out.session /\ n.index = out.index + 1
      BY <2>3, <3>1
    <3>3. n # None
      BY <3>2, KeysAssumption DEF Package
    <3> QED
      BY <3>1, <3>2, <3>3 DEF Package
  <2>6. PICK i : i = inbound[d]
    OBVIOUS
  <2>7. Opens(d, i, out) /\ i[out.session] \in Nat
    <3>1. i \in [Session -> Nat \cup {None}]
      BY <1>0, <2>6 DEF TypeOK
    <3>2. Held(d, out, i)
      BY <2>1, <2>6 DEF KeyInv
    <3>3. Opens(d, i, out)
      BY <2>4, <3>2 DEF Held
    <3> QED
      BY <2>5, <3>1, <3>3 DEF Opens
  <2>8. Opens(d, i, n)
    <3>1. PICK k : k = i[out.session]
      OBVIOUS
    <3>2. k \in Nat /\ k # None /\ (k <= out.index \/ Clear(d, out.session, k))
      BY <2>7, <3>1 DEF Opens
    <3>3. k <= n.index \/ Clear(d, n.session, k)
      BY <2>5, <3>2
    <3> QED
      BY <2>5, <3>1, <3>2, <3>3 DEF Opens
  <2>9. \A e \in Device : Held(e, outbound[e], inbound[e])'
    <3>1. ASSUME NEW e \in Device, e # d
          PROVE  Held(e, outbound[e], inbound[e])'
      <4>1. outbound'[e] = outbound[e] /\ inbound'[e] = inbound[e] /\ offered[e] \subseteq offered'[e]
        BY <1>0, <2>4, <3>1 DEF TypeOK
      <4> QED
        BY <4>1, HeldStays
    <3>2. Held(d, outbound[d], inbound[d])'
      <4>1. outbound'[d] = n /\ inbound'[d] = i
        BY <1>0, <2>4, <2>6 DEF TypeOK
      <4>2. Opens(d, i, n)'
        BY <2>4, <2>8, OpensGrows
      <4> QED
        BY <2>5, <4>1, <4>2 DEF Held
    <3> QED
      BY <3>1, <3>2
  <2>10. hurt' = hurt /\ \A e \in Device : SaveMoves(e)
    BY <1>0, <2>4, PersistMoves
  <2>11. /\ c.stage = "commit" /\ c.msg.session = out.session /\ c.msg.index = out.index
    BY <2>2 DEF Sending
  <2>12. PICK m : m = c.msg
    OBVIOUS
  <2>13. OwnOpens(d, m)'
    <3>1. Opens(d, i, m)
      BY <2>7, <2>11, <2>12 DEF Opens
    <3>2. Opens(d, i, m)'
      BY <2>4, <3>1, OpensGrows
    <3>3. inbound'[d] = i
      BY <2>4, <2>6
    <3>4. saved'[d].inbound = inbound'[d] \/ unsaved'[d] = TRUE
      BY <1>0, <2>4 DEF PersistE2ee, TypeOK
    <3> QED
      BY <3>2, <3>3, <3>4 DEF OwnOpens, Opens
  <2>14. KeyCall(d, c)'
    BY <2>11, <2>12, <2>13 DEF KeyCall
  <2>15. \A e \in Device, k \in Handler :
             call'[e][k] = call[e][k] \/ KeyCall(e, call[e][k])'
    BY <1>0, <2>4, <2>14, KeyOnward
  <2>16. \A e \in Device : OwnLog(e)' = OwnLog(e)
    BY <2>4, SameLog
  <2> QED
    BY <2>4, <2>9, <2>10, <2>15, <2>16, KeyFrame
<1>4. CASE SendCommit(d, h)
  <2>1. PICK c : c.stage \notin Stages \cup {"carry"} /\ call' = [call EXCEPT ![d][h] = c]
    BY <1>0, <1>4, MovesOn
  <2>2. KeyCall(d, c)'
    BY <2>1 DEF KeyCall, Stages
  <2>3. \A e \in Device, k \in Handler :
            call'[e][k] = call[e][k] \/ KeyCall(e, call[e][k])'
    BY <1>0, <2>1, <2>2, KeyOnward
  <2>4. /\ UNCHANGED <<outbound, inbound, offered, hurt, crashes>>
        /\ \A e \in Device : SaveMoves(e)
    BY <1>0, <1>4, QuietStep
  <2>5. \A e \in Device : \A m \in log'[e] :
            m \in log[e] \/ (e = d /\ call[d][h].stage = "commit" /\ m = call[d][h].msg)
    BY <1>0, <1>4 DEF SendCommit, TypeOK
  <2>6. \A e \in Device : \A m \in OwnLog(e)' :
            m \in OwnLog(e) \/ \E k \in Handler : call[e][k].stage = "commit" /\ m = call[e][k].msg
    BY <2>5 DEF OwnLog
  <2> QED
    BY <2>3, <2>4, <2>6, KeyQuiet
<1> QED
  BY <1>1, <1>2, <1>3, <1>4

LEMMA KeyShare ==
    ASSUME KeyInv, [Next]_vars, NEW d \in Device, NEW h \in Handler, NEW p \in Device,
           \/ ShareSession(d, h, p) \/ FetchKeys(d, h)
           \/ ImportRefused(d, h) \/ FanoutNext(d, h) \/ RequestFails(d, h)
           \/ ExportSession(d, h, p) \/ ShareWrap(d, h)
    PROVE  KeyInv'
<1>0. TypeOK
  BY DEF KeyInv, TypeInv
<1>1. log' = log /\ \A e \in Device : OwnLog(e)' = OwnLog(e)
  <2>1. log' = log
    BY DEF ShareSession, FetchKeys, ImportRefused, FanoutNext, RequestFails, ExportSession,
           ShareWrap
  <2> QED
    BY <2>1, SameLog
<1>2. CASE \/ ShareSession(d, h, p) \/ FetchKeys(d, h) \/ ImportRefused(d, h)
           \/ FanoutNext(d, h) \/ RequestFails(d, h)
  <2>1. PICK c : c.stage \notin Stages \cup {"carry"} /\ call' = [call EXCEPT ![d][h] = c]
    BY <1>0, <1>2, MovesOn
  <2>2. KeyCall(d, c)'
    BY <2>1 DEF KeyCall, Stages
  <2>3. \A e \in Device, k \in Handler :
            call'[e][k] = call[e][k] \/ KeyCall(e, call[e][k])'
    BY <1>0, <2>1, <2>2, KeyOnward
  <2>4. /\ UNCHANGED <<outbound, inbound, offered, hurt, crashes>>
        /\ \A e \in Device : SaveMoves(e)
    BY <1>0, <1>2, QuietStep
  <2> QED
    BY <1>1, <2>3, <2>4, KeyQuiet
<1>3. CASE ExportSession(d, h, p)
  <2>1. PICK o : o = Ensured(d)
    OBVIOUS
  <2>2. PICK c : c = [stage |-> "carry", pkg |-> None, todo |-> {}, msg |-> None,
                      peer |-> p, body |-> o]
    OBVIOUS
  <2>3. /\ EnsureRoomE2ee(d) /\ crashes' = crashes
        /\ offered' = [offered EXCEPT ![p] = @ \cup {Offer(o, TRUE)}]
        /\ call' = [call EXCEPT ![d][h] = c]
    BY <1>3, <2>1, <2>2 DEF ExportSession
  <2>4. PICK g : g = Offer(o, TRUE)
    OBVIOUS
  <2>5. /\ \A e \in Device : offered[e] \subseteq offered'[e]
        /\ g \in offered'[p]
    BY <1>0, <2>3, <2>4 DEF TypeOK
  <2>6. g = [session |-> o.session, index |-> o.index, clear |-> TRUE]
    BY <2>4 DEF Offer
  <2>7. KeyCall(d, c)'
    <3>1. c.stage = "carry" /\ c.peer = p /\ c.body = o
      BY <2>2
    <3>2. Clear(p, o.session, o.index)'
      BY <2>5, <2>6 DEF Clear
    <3> QED
      BY <3>1, <3>2 DEF KeyCall
  <2>8. \A e \in Device, k \in Handler :
            call'[e][k] = call[e][k] \/ KeyCall(e, call[e][k])'
    BY <1>0, <2>3, <2>7, KeyOnward
  <2>9. ASSUME NEW e \in Device
        PROVE  Held(e, outbound[e], inbound[e])' /\ SaveMoves(e) /\ hurt' = hurt
    BY <2>3, <2>5, HeldEnsured
  <2> QED
    BY <1>1, <2>3, <2>5, <2>8, <2>9, KeyFrame
<1>4. CASE ShareWrap(d, h)
  <2>1. PICK c : c.stage \notin Stages \cup {"carry"} /\ call' = [call EXCEPT ![d][h] = c]
    BY <1>0, <1>4, MovesOn
  <2>2. KeyCall(d, c)'
    BY <2>1 DEF KeyCall, Stages
  <2>3. \A e \in Device, k \in Handler :
            call'[e][k] = call[e][k] \/ KeyCall(e, call[e][k])'
    BY <1>0, <2>1, <2>2, KeyOnward
  <2>4. EnsureRoomE2ee(d) /\ crashes' = crashes
    BY <1>4 DEF ShareWrap, bounds
  <2>5. \A e \in Device : offered[e] \subseteq offered'[e]
    <3>1. PICK q, g : offered' = [offered EXCEPT ![q] = @ \cup {g}]
      BY <1>4 DEF ShareWrap
    <3> QED
      BY <1>0, <3>1 DEF TypeOK
  <2>6. ASSUME NEW e \in Device
        PROVE  Held(e, outbound[e], inbound[e])' /\ SaveMoves(e) /\ hurt' = hurt
    BY <2>4, <2>5, HeldEnsured
  <2> QED
    BY <1>1, <2>3, <2>4, <2>5, <2>6, KeyFrame
<1> QED
  BY <1>2, <1>3, <1>4

LEMMA KeyImport ==
    ASSUME KeyInv, [Next]_vars, NEW d \in Device, NEW h \in Handler,
           ImportOlm(d, h) \/ ImportSession(d, h) \/ FanoutIngest(d, h)
    PROVE  KeyInv'
<1>0. TypeOK
  BY DEF KeyInv, TypeInv
<1>1. PICK n : n.stage \notin Stages \cup {"carry"} /\ call' = [call EXCEPT ![d][h] = n]
  BY <1>0, MovesOn
<1>2. \A e \in Device, k \in Handler :
          call'[e][k] = call[e][k] \/ KeyCall(e, call[e][k])'
  <2>1. KeyCall(d, n)'
    BY <1>1 DEF KeyCall, Stages
  <2> QED
    BY <1>0, <1>1, <2>1, KeyOnward
<1>3. PICK c : c = call[d][h]
  OBVIOUS
<1>4. PICK p : p = c.peer
  OBVIOUS
<1>5. c \in CallOf(d) /\ KeyCall(d, c)
  BY <1>0, <1>3, TypedCalls, KeyInvIs
<1>6. CASE FanoutIngest(d, h)
  <2>1. c \in AtIngest(d)
    BY <1>3, <1>5, <1>6, ByStage DEF FanoutIngest
  <2>2. c.peer # d /\ c.msg.by = d
    BY <2>1 DEF AtIngest, Peer, OwnMsg
  <2>3. log' = [log EXCEPT ![c.peer] = @ \cup {c.msg}]
    BY <1>3, <1>6 DEF FanoutIngest
  <2>4. \A e \in Device : log'[e] = log[e] \/ (e = c.peer /\ log'[e] = log[e] \cup {c.msg})
    BY <1>0, <2>3 DEF TypeOK
  <2>5. \A e \in Device : OwnLog(e)' = OwnLog(e)
    BY <2>2, <2>4 DEF OwnLog
  <2>6. /\ UNCHANGED <<outbound, inbound, offered, hurt, crashes>>
        /\ \A e \in Device : SaveMoves(e)
    BY <1>0, <1>6, QuietStep
  <2> QED
    BY <1>2, <2>5, <2>6, KeyQuiet
<1>7. CASE ImportOlm(d, h) \/ ImportSession(d, h)
  <2>1. /\ UNCHANGED <<log, offered, crashes, hurt, saved, unsaved>>
        /\ inbound' = [inbound EXCEPT ![p] = ImportKey(p, c.body)]
        /\ \/ ImportOlm(d, h) /\ outbound' = [outbound EXCEPT ![p] = ImportOutbound(p, c.body)]
           \/ ImportSession(d, h) /\ outbound' = outbound
    BY <1>3, <1>4, <1>7 DEF ImportOlm, ImportSession, harm, bounds
  <2>2. c \in AtPost(d) \/ c \in AtCarry(d)
    BY <1>3, <1>5, <1>7, ByStage DEF ImportOlm, ImportSession
  <2>3. p \in Device /\ c.body \in Package
    BY <1>4, <2>2 DEF AtPost, AtCarry, Peer
  <2>4. ASSUME NEW e \in Device, e # p
        PROVE  Held(e, outbound[e], inbound[e])'
    <3>1. outbound'[e] = outbound[e] /\ inbound'[e] = inbound[e] /\ offered[e] \subseteq offered'[e]
      BY <1>0, <2>1, <2>3, <2>4 DEF TypeOK
    <3> QED
      BY <3>1, HeldStays
  <2>5. Held(p, outbound[p], inbound[p])'
    <3>1. inbound'[p] = ImportKey(p, c.body)
      BY <1>0, <2>1, <2>3 DEF TypeOK
    <3>2. CASE ImportOlm(d, h) /\ outbound' = [outbound EXCEPT ![p] = ImportOutbound(p, c.body)]
      <4>1. outbound'[p] = ImportOutbound(p, c.body)
        BY <1>0, <2>3, <3>2 DEF TypeOK
      <4> QED
        BY <2>1, <2>3, <3>1, <4>1, HeldImport
    <3>3. CASE ImportSession(d, h) /\ outbound' = outbound
      <4>1. Clear(p, c.body.session, c.body.index)
        BY <1>3, <1>4, <1>5, <3>3 DEF ImportSession, KeyCall
      <4> QED
        BY <2>1, <2>3, <3>1, <3>3, <4>1, HeldCarried
    <3> QED
      BY <2>1, <3>2, <3>3
  <2>6. \A e \in Device : SaveMoves(e) /\ OwnLog(e)' = OwnLog(e)
    BY <2>1, SameLog DEF SaveMoves
  <2>7. \A e \in Device : Held(e, outbound[e], inbound[e])'
    BY <2>4, <2>5
  <2> QED
    BY <1>2, <2>1, <2>6, <2>7, KeyFrame
<1> QED
  BY <1>6, <1>7

\* A restart: the keys of e2ee.json open the own messages, unless the last save
\* had failed.
LEMMA KeyCrash ==
    ASSUME KeyInv, NEW d \in Device, Crash(d)
    PROVE  KeyInv'
<1>0. TypeOK /\ TypeInv /\ TypeInv'
  BY TypeCrash DEF KeyInv, TypeInv
<1>1. /\ outbound' = [outbound EXCEPT ![d] = saved[d].outbound]
      /\ inbound' = [inbound EXCEPT ![d] = saved[d].inbound]
      /\ unsaved' = [unsaved EXCEPT ![d] = FALSE]
      /\ hurt' = [hurt EXCEPT ![d] = @ \/ unsaved[d]]
      /\ saved' = saved /\ log' = log /\ offered' = offered
  BY DEF Crash
<1>2. /\ outbound'[d] = saved[d].outbound /\ inbound'[d] = saved[d].inbound
      /\ \A e \in Device \ {d} : outbound'[e] = outbound[e] /\ inbound'[e] = inbound[e]
  BY <1>0, <1>1 DEF TypeOK
<1>3. /\ hurt'[d] = (hurt[d] \/ unsaved[d])
      /\ \A e \in Device \ {d} : hurt'[e] = hurt[e] /\ unsaved'[e] = unsaved[e]
  <2>1. hurt \in [Device -> BOOLEAN] /\ unsaved \in [Device -> BOOLEAN]
    BY <1>0 DEF TypeOK
  <2> QED
    BY <1>1, <2>1, Zenon
<1>4. ASSUME NEW e \in Device
      PROVE  Held(e, saved[e].outbound, saved[e].inbound)'
  <2>1. PICK o, i : o = saved[e].outbound /\ i = saved[e].inbound
    OBVIOUS
  <2>2. Held(e, o, i)'
    BY <1>1, <2>1, OpensGrows DEF KeyInv
  <2> QED
    BY <1>1, <2>1, <2>2
<1>5. ASSUME NEW e \in Device
      PROVE  Held(e, outbound[e], inbound[e])'
  <2>1. CASE e = d
    BY <1>1, <1>2, <1>4, <2>1
  <2>2. CASE e # d
    BY <1>1, <1>2, <2>2, HeldStays
  <2> QED
    BY <2>1, <2>2
<1>6. ASSUME NEW e \in Device, NEW m, OwnOpens(e, m)
      PROVE  OwnOpens(e, m)'
  <2>1. PICK i, j : i = inbound[e] /\ j = saved[e].inbound
    OBVIOUS
  <2>2. (Opens(e, i, m) => Opens(e, i, m)') /\ (Opens(e, j, m) => Opens(e, j, m)')
    BY <1>1, OpensGrows
  <2>3. saved'[e].inbound = j
    BY <1>1, <2>1
  <2>4. CASE e = d
    <3>1. inbound'[e] = j
      BY <1>2, <2>1, <2>4
    <3>2. CASE hurt[e] \/ unsaved[e]
      BY <1>3, <2>4, <3>2 DEF OwnOpens
    <3>3. CASE Opens(e, j, m)
      BY <2>2, <2>3, <3>1, <3>3 DEF OwnOpens
    <3> QED
      BY <1>6, <2>1, <3>2, <3>3 DEF OwnOpens
  <2>5. CASE e # d
    <3>1. inbound'[e] = i /\ hurt'[e] = hurt[e] /\ unsaved'[e] = unsaved[e]
      BY <1>2, <1>3, <2>1, <2>5
    <3> QED
      BY <1>6, <2>1, <2>2, <2>3, <3>1 DEF OwnOpens
  <2> QED
    BY <2>4, <2>5
<1>7. ASSUME NEW e \in Device, NEW m \in OwnLog(e)'
      PROVE  OwnOpens(e, m)'
  <2>1. m \in OwnLog(e)
    BY <1>1, <1>7, SameLog
  <2> QED
    BY <1>6, <2>1 DEF KeyInv
<1>8. ASSUME NEW e \in Device, NEW k \in Handler
      PROVE  KeyCall(e, call[e][k])'
  <2>1. PICK c : c = call[e][k]
    OBVIOUS
  <2>2. call'[e][k] = c \/ call'[e][k] = Idle
    BY <1>0, <2>1, CrashCalls
  <2>3. KeyCall(e, c)
    BY <2>1, KeyInvIs
  <2>4. KeyCall(e, c)'
    <3>1. PICK m : m = c.msg
      OBVIOUS
    <3>2. OwnOpens(e, m) => OwnOpens(e, m)'
      BY <1>6
    <3> QED
      BY <1>1, <2>3, <3>1, <3>2 DEF KeyCall, Clear
  <2>5. KeyCall(e, Idle)'
    BY DEF KeyCall, Idle
  <2> QED
    BY <2>2, <2>4, <2>5
<1> QED
  BY <1>0, <1>4, <1>5, <1>7, <1>8 DEF KeyInv, KeyCall

LEMMA KeyStep ==
    ASSUME KeyInv, [Next]_vars
    PROVE  KeyInv'
<1>1. CASE UNCHANGED vars
  <2>1. UNCHANGED <<outbound, inbound, offered, hurt, crashes, saved, unsaved, log, call>>
    BY <1>1 DEF vars, keys, harm, bounds
  <2>2. \A d \in Device : SaveMoves(d) /\ OwnLog(d)' = OwnLog(d)
    BY <2>1, SameLog DEF SaveMoves
  <2> QED
    BY <2>1, <2>2, KeyQuiet
<1>2. CASE Next
  <2>1. ASSUME NEW d \in Device, Crash(d)
        PROVE  KeyInv'
    BY <2>1, KeyCrash
  <2>2. ASSUME NEW d \in Device, NEW h \in Handler,
               \/ SendStamp(d, h) \/ SendCreate(d, h) \/ SendEncrypt(d, h) \/ SendCommit(d, h)
        PROVE  KeyInv'
    BY <2>2, KeySend
  <2>3. ASSUME NEW d \in Device, NEW h \in Handler, NEW p \in Device,
               \/ ShareSession(d, h, p) \/ FetchKeys(d, h)
               \/ ImportRefused(d, h) \/ FanoutNext(d, h) \/ RequestFails(d, h)
               \/ ExportSession(d, h, p) \/ ShareWrap(d, h)
        PROVE  KeyInv'
    BY <2>3, KeyShare
  <2>4. ASSUME NEW d \in Device, NEW h \in Handler,
               ImportOlm(d, h) \/ ImportSession(d, h) \/ FanoutIngest(d, h)
        PROVE  KeyInv'
    BY <2>4, KeyImport
  <2>5. ASSUME NEW d \in Device, NEW p \in Device, TrustOlmKeys(d, p)
        PROVE  KeyInv'
    <3>1. /\ UNCHANGED <<outbound, inbound, offered, hurt, crashes, saved, unsaved>>
          /\ log' = log /\ call' = call
      BY <2>5 DEF TrustOlmKeys, harm
    <3>2. \A e \in Device : SaveMoves(e) /\ OwnLog(e)' = OwnLog(e)
      BY <3>1, SameLog DEF SaveMoves
    <3> QED
      BY <3>1, <3>2, KeyQuiet
  <2> QED
    BY <1>2, <2>1, <2>2, <2>3, <2>4, <2>5 DEF Next
<1> QED
  BY <1>1, <1>2

\* A device can read every message it has sent, also after a restart: what its
\* inbound sessions in memory and in e2ee.json open is kept along with the
\* outbound session that the message was sent with.
THEOREM OwnMessagesReadable == Spec => []OwnIsReadable
<1>1. Init => KeyInv
  <2>1. SUFFICES ASSUME Init PROVE KeyInv
    OBVIOUS
  <2>2. ASSUME NEW d \in Device
        PROVE  /\ Held(d, outbound[d], inbound[d])
               /\ Held(d, saved[d].outbound, saved[d].inbound)
               /\ OwnLog(d) = {}
    BY <2>1 DEF Init, Held, OwnLog, Fresh
  <2>3. ASSUME NEW d \in Device, NEW h \in Handler
        PROVE  KeyCall(d, call[d][h])
    BY <2>1 DEF Init, KeyCall, Idle
  <2> QED
    BY <2>1, <2>2, <2>3, TypeInit, KeyInvIs
<1>2. KeyInv /\ [Next]_vars => KeyInv'
  BY KeyStep
<1>3. KeyInv => OwnIsReadable
  <2>1. SUFFICES ASSUME KeyInv, NEW d \in Device, NEW m \in log[d], m.by = d, ~hurt[d]
                 PROVE  Readable(d, m) \/ Overtaken(d, m, {TRUE})
    BY DEF OwnIsReadable
  <2>2. m \in Message /\ inbound[d] \in [Session -> Nat \cup {None}]
    BY <2>1 DEF KeyInv, TypeInv, TypeOK
  <2>3. Opens(d, inbound[d], m)
    BY <2>1 DEF KeyInv, OwnLog, OwnOpens
  <2>4. PICK k : k = inbound[d][m.session]
    OBVIOUS
  <2>5. m.session \in Session /\ m.index \in Nat /\ k \in Nat
    BY <2>2, <2>3, <2>4 DEF Message, Opens
  <2>6. CASE k <= m.index
    BY <2>3, <2>4, <2>6 DEF Opens, Readable
  <2>7. CASE k > m.index /\ Clear(d, m.session, k)
    <3>1. PICK g : g = [session |-> m.session, index |-> k, clear |-> TRUE]
      OBVIOUS
    <3>2. g \in offered[d] /\ g.session = m.session /\ g.index > m.index /\ g.clear = TRUE
      BY <2>7, <3>1 DEF Clear
    <3> QED
      BY <3>2 DEF Overtaken
  <2> QED
    BY <2>3, <2>4, <2>5, <2>6, <2>7 DEF Opens
<1> QED
  BY <1>1, <1>2, <1>3, PTL DEF Spec
-----------------------------------------------------------------------------
(***************************************************************************)
(* The fan-out.  A call that has a message carries the export from before  *)
(* it was encrypted; what it posts, or a client carries, was offered to    *)
(* the peer.  While no device has restarted a key comes from the device's  *)
(* own session or from such an offer: if it starts after the message, that *)
(* offer is the one that overtook it.                                      *)
(***************************************************************************)

PkgOf(m) == IF m = None THEN None ELSE [session |-> m.session, index |-> m.index]

FanCall(c) ==
    /\ c.stage \notin {"idle", "stamped"} => c.pkg = PkgOf(c.msg)
    /\ c.stage = "post" =>
           /\ c.pkg # None => c.body = c.pkg
           /\ Offer(c.body, FALSE) \in offered[c.peer]
    /\ c.stage = "carry" => Offer(c.body, TRUE) \in offered[c.peer]
    /\ c.stage \in {"ingest", "counted"} /\ crashes = 0 =>
           inbound[c.peer][c.msg.session] # None

\* Index k of session s, at device p, is that of its own session or of an offer.
Source(p, s, k) ==
    \/ k = None \/ k = 0
    \/ \E b \in BOOLEAN : [session |-> s, index |-> k, clear |-> b] \in offered[p]

Sourced == crashes = 0 => \A p \in Device, s \in Session : Source(p, s, inbound[p][s])

FanInv ==
    /\ TypeInv
    /\ Sourced
    /\ \A d \in Device, h \in Handler : FanCall(call[d][h])

OffersGrow == \A p \in Device : offered[p] \subseteq offered'[p]

LEMMA SourcedFrame ==
    ASSUME Sourced, crashes' = crashes, OffersGrow,
           \A p \in Device, s \in Session :
               inbound'[p][s] = inbound[p][s] \/ Source(p, s, inbound[p][s])'
    PROVE  Sourced'
<1>1. SUFFICES ASSUME crashes' = 0, NEW p \in Device, NEW s \in Session
               PROVE  Source(p, s, inbound[p][s])'
  BY DEF Sourced
<1>2. PICK k : k = inbound[p][s]
  OBVIOUS
<1>3. Source(p, s, k)
  BY <1>1, <1>2 DEF Sourced
<1>4. Source(p, s, k)'
  BY <1>3 DEF Source, OffersGrow
<1>5. CASE inbound'[p][s] = k
  BY <1>4, <1>5 DEF Source
<1> QED
  BY <1>2, <1>5

\* ensure_room_e2ee: a new session opens from the start.
LEMMA SourcedEnsure ==
    ASSUME TypeOK, Sourced, crashes' = crashes, OffersGrow, NEW d \in Device, EnsureRoomE2ee(d)
    PROVE  Sourced'
<1>1. /\ inbound' = [inbound EXCEPT ![d] = EnsuredInbound(d)]
      /\ inbound \in [Device -> [Session -> Nat \cup {None}]]
  BY DEF EnsureRoomE2ee, TypeOK
<1>2. PICK i : i = EnsuredInbound(d)
  OBVIOUS
<1>3. \A s \in Session : i[s] = inbound[d][s] \/ i[s] = 0
  BY <1>1, <1>2 DEF EnsuredInbound
<1>4. \A p \in Device, s \in Session : inbound'[p][s] = inbound[p][s] \/ inbound'[p][s] = 0
  BY <1>1, <1>2, <1>3
<1>5. \A p \in Device, s \in Session :
          inbound'[p][s] = inbound[p][s] \/ Source(p, s, inbound[p][s])'
  BY <1>4 DEF Source
<1> QED
  BY <1>5, SourcedFrame

\* import_session_olm, import_session: what is installed was offered.
LEMMA SourcedImport ==
    ASSUME TypeOK, Sourced, crashes' = crashes, offered' = offered,
           NEW p \in Device, NEW pkg \in Package, NEW b \in BOOLEAN,
           Offer(pkg, b) \in offered[p],
           inbound' = [inbound EXCEPT ![p] = ImportKey(p, pkg)]
    PROVE  /\ Sourced'
           /\ inbound'[p][pkg.session] # None
<1>1. /\ inbound \in [Device -> [Session -> Nat \cup {None}]]
      /\ pkg.session \in Session /\ pkg.index \in Nat
  BY DEF TypeOK, Package
<1>2. PICK i : i = ImportKey(p, pkg)
  OBVIOUS
<1>3. /\ \A s \in Session :
             i[s] = inbound[p][s] \/ (s = pkg.session /\ i[s] = pkg.index)
      /\ i[pkg.session] # None
  BY <1>1, <1>2, KeysAssumption DEF ImportKey
<1>4. inbound'[p] = i /\ \A q \in Device \ {p} : inbound'[q] = inbound[q]
  BY <1>1, <1>2
<1>5. \A q \in Device, s \in Session :
          inbound'[q][s] = inbound[q][s] \/ Source(q, s, inbound[q][s])'
  <2>1. Source(p, pkg.session, pkg.index)'
    BY DEF Source, Offer
  <2>2. ASSUME NEW s \in Session, s = pkg.session, i[s] = pkg.index
        PROVE  Source(p, s, inbound[p][s])'
    BY <1>4, <2>1, <2>2
  <2> QED
    BY <1>3, <1>4, <2>2
<1>6. OffersGrow
  BY DEF OffersGrow
<1> QED
  BY <1>3, <1>4, <1>5, <1>6, SourcedFrame

\* A call that a step leaves alone.
LEMMA FanStays ==
    ASSUME TypeOK, NEW d \in Device, NEW c \in CallOf(d), FanCall(c), OffersGrow,
           crashes' = 0 => crashes = 0 /\ \A e \in Device : KeysAdvance(e)
    PROVE  FanCall(c)'
<1>1. c.stage \in {"post", "carry", "ingest", "counted"} => c.peer \in Device
  BY ByStage DEF AtPost, AtCarry, AtIngest, Peer
<1>2. ASSUME c.stage \in {"ingest", "counted"}, crashes' = 0
      PROVE  inbound'[c.peer][c.msg.session] # None
  <2>1. c.msg.session \in Session
    BY <1>2, ByStage DEF AtIngest, OwnMsg, Message
  <2>2. inbound[c.peer][c.msg.session] # None
    BY <1>2 DEF FanCall
  <2> QED
    BY <1>1, <1>2, <2>1, <2>2 DEF KeysAdvance
<1>3. /\ c.stage = "post" => Offer(c.body, FALSE) \in offered'[c.peer]
      /\ c.stage = "carry" => Offer(c.body, TRUE) \in offered'[c.peer]
  BY <1>1 DEF FanCall, OffersGrow
<1> QED
  BY <1>2, <1>3 DEF FanCall

LEMMA FanFrame ==
    ASSUME FanInv, [Next]_vars, crashes' = crashes, OffersGrow, Sourced',
           NEW d \in Device, NEW h \in Handler, NEW c,
           \/ call' = call
           \/ call' = [call EXCEPT ![d][h] = c] /\ FanCall(c)'
    PROVE  FanInv'
<1>0. TypeOK /\ TypeInv
  BY DEF FanInv, TypeInv
<1>1. TypeInv'
  BY <1>0, TypeStep
<1>2. \A e \in Device : KeysAdvance(e)
  BY <1>0, RatchetStep
<1>3. call \in [Device -> [Handler -> Calls]]
  BY <1>0, TypedCalls
<1>4. \A e \in Device, k \in Handler :
          call'[e][k] = call[e][k] \/ (call'[e][k] = c /\ FanCall(c)')
  BY <1>3
<1>5. ASSUME NEW e \in Device, NEW k \in Handler
      PROVE  FanCall(call[e][k])'
  <2>1. PICK o : o = call[e][k]
    OBVIOUS
  <2>2. o \in CallOf(e) /\ FanCall(o)
    BY <1>0, <2>1, TypedCalls DEF FanInv
  <2>3. FanCall(o)'
    BY <1>0, <1>2, <2>2, FanStays
  <2> QED
    BY <1>4, <2>1, <2>3
<1> QED
  BY <1>1, <1>5 DEF FanInv

\* Before it posts, a call only has to carry the export of its message.
LEMMA FanPlain ==
    ASSUME NEW n,
           \/ n.stage \in {"idle", "stamped"}
           \/ n.stage \in {"commit", "next", "wrap"} /\ n.pkg = PkgOf(n.msg)
    PROVE  FanCall(n)'
  BY DEF FanCall, PkgOf

\* The steps that neither post, nor import, nor touch Megolm sessions.
LEMMA FanQuietCall ==
    ASSUME TypeOK, NEW d \in Device, NEW h \in Handler, NEW p \in Device,
           FanCall(call[d][h]),
           \/ SendStamp(d, h) \/ SendCommit(d, h)
           \/ ShareSession(d, h, p) \/ FetchKeys(d, h) \/ ImportRefused(d, h)
           \/ FanoutNext(d, h) \/ RequestFails(d, h)
    PROVE  \E n : call' = [call EXCEPT ![d][h] = n] /\ FanCall(n)'
<1>0. call \in [Device -> [Handler -> Calls]] /\ call[d][h] \in CallOf(d)
  BY TypedCalls
<1>1. PICK c : c = call[d][h]
  OBVIOUS
<1>2. c.stage \notin {"idle", "stamped"} => c.pkg = PkgOf(c.msg)
  BY <1>1 DEF FanCall
<1>3. CASE SendStamp(d, h)
  <2>1. PICK n : n = [stage |-> "stamped", ts |-> ts'[d]]
    OBVIOUS
  <2>2. n.stage = "stamped" /\ call' = [call EXCEPT ![d][h] = n]
    BY <1>3, <2>1 DEF SendStamp
  <2> QED
    BY <2>2, FanPlain
<1>4. CASE SendCommit(d, h)
  <2>1. PICK n : n = [c EXCEPT !.stage = "next"]
    OBVIOUS
  <2>2. c \in AtCommit(d) /\ call' = [call EXCEPT ![d][h] = n]
    BY <1>0, <1>1, <1>4, <2>1, ByStage DEF SendCommit
  <2>3. n.stage = "next" /\ n.pkg = c.pkg /\ n.msg = c.msg /\ c.stage = "commit"
    BY <2>1, <2>2 DEF AtCommit
  <2> QED
    BY <1>2, <2>2, <2>3, FanPlain
<1>5. CASE ShareSession(d, h, p)
  <2>1. PICK n : n = [stage |-> "next", pkg |-> None, todo |-> {p}, msg |-> None]
    OBVIOUS
  <2>2. n.stage = "next" /\ n.pkg = PkgOf(n.msg) /\ call' = [call EXCEPT ![d][h] = n]
    BY <1>5, <2>1 DEF ShareSession, PkgOf
  <2> QED
    BY <2>2, FanPlain
<1>6. CASE FetchKeys(d, h)
  <2>1. PICK q, k : call' = [call EXCEPT ![d][h] =
               [stage |-> "wrap", pkg |-> @.pkg, todo |-> @.todo \ {q},
                msg |-> @.msg, peer |-> q, otk |-> k]]
    BY <1>6 DEF FetchKeys
  <2>2. PICK n : n = [stage |-> "wrap", pkg |-> c.pkg, todo |-> c.todo \ {q}, msg |-> c.msg,
                      peer |-> q, otk |-> k]
    OBVIOUS
  <2>3. call' = [call EXCEPT ![d][h] = n]
    BY <1>0, <1>1, <2>1, <2>2
  <2>4. n.stage = "wrap" /\ n.pkg = c.pkg /\ n.msg = c.msg /\ c.stage = "next"
    BY <1>1, <1>6, <2>2 DEF FetchKeys
  <2> QED
    BY <1>2, <2>3, <2>4, FanPlain
<1>7. CASE ImportRefused(d, h) \/ FanoutNext(d, h) \/ RequestFails(d, h)
  <2>1. c.stage \in {"next", "post", "ingest", "counted", "carry"}
    BY <1>1, <1>7 DEF ImportRefused, FanoutNext, RequestFails
  <2>2. c \in AtNext(d) \/ c \in AtPost(d) \/ c \in AtIngest(d) \/ c \in AtCarry(d)
    BY <1>0, <1>1, <2>1, ByStage
  <2>3. PICK o : /\ call' = [call EXCEPT ![d][h] = Continued(o)]
                 /\ o.pkg = c.pkg /\ o.msg = c.msg
    <3>1. CASE ImportRefused(d, h) \/ FanoutNext(d, h)
      BY <1>0, <1>1, <3>1 DEF ImportRefused, FanoutNext
    <3>2. CASE RequestFails(d, h)
      <4>1. PICK q : call' = [call EXCEPT ![d][h] = Continued([c EXCEPT !.todo = @ \ {q}])]
        BY <1>1, <3>2 DEF RequestFails
      <4>2. PICK o : o = [c EXCEPT !.todo = @ \ {q}]
        OBVIOUS
      <4>3. o.pkg = c.pkg /\ o.msg = c.msg
        BY <2>2, <4>2 DEF AtNext, AtPost, AtIngest, AtCarry
      <4> QED
        BY <4>1, <4>2, <4>3
    <3> QED
      BY <1>7, <3>1, <3>2
  <2>4. PICK n : n = Continued(o)
    OBVIOUS
  <2>5. n.stage = "idle" \/ (n.stage = "next" /\ n.pkg = o.pkg /\ n.msg = o.msg)
    BY <2>4 DEF Continued, Idle
  <2>6. FanCall(n)'
    BY <1>2, <2>1, <2>3, <2>5, FanPlain
  <2> QED
    BY <2>3, <2>4, <2>6
<1> QED
  BY <1>3, <1>4, <1>5, <1>6, <1>7

LEMMA FanQuiet ==
    ASSUME FanInv, [Next]_vars, NEW d \in Device, NEW h \in Handler, NEW p \in Device,
           \/ SendStamp(d, h) \/ SendCommit(d, h)
           \/ ShareSession(d, h, p) \/ FetchKeys(d, h) \/ ImportRefused(d, h)
           \/ FanoutNext(d, h) \/ RequestFails(d, h)
    PROVE  FanInv'
<1>0. TypeOK /\ Sourced /\ FanCall(call[d][h])
  BY DEF FanInv, TypeInv
<1>1. UNCHANGED <<outbound, inbound, offered, hurt, crashes>>
  BY <1>0, QuietStep
<1>2. OffersGrow
  BY <1>1 DEF OffersGrow
<1>3. Sourced'
  BY <1>0, <1>1, <1>2, SourcedFrame
<1>4. PICK n : call' = [call EXCEPT ![d][h] = n] /\ FanCall(n)'
  BY <1>0, FanQuietCall
<1> QED
  BY <1>1, <1>2, <1>3, <1>4, FanFrame

LEMMA FanSend ==
    ASSUME FanInv, [Next]_vars, NEW d \in Device, NEW h \in Handler,
           SendCreate(d, h) \/ SendEncrypt(d, h)
    PROVE  FanInv'
<1>0. TypeOK /\ Sourced
  BY DEF FanInv, TypeInv
<1>1. offered' = offered /\ crashes' = crashes /\ OffersGrow
  BY DEF SendCreate, SendEncrypt, bounds, OffersGrow
<1>2. CASE SendCreate(d, h)
  <2>1. EnsureRoomE2ee(d) /\ call' = call
    BY <1>2 DEF SendCreate
  <2>2. Sourced'
    BY <1>0, <1>1, <2>1, SourcedEnsure
  <2> QED
    BY <1>1, <2>1, <2>2, FanFrame
<1>3. CASE SendEncrypt(d, h)
  <2>1. PICK out : out = outbound[d]
    OBVIOUS
  <2>2. PICK n : n = Sending(d, h, out, out)
    OBVIOUS
  <2>3. call' = [call EXCEPT ![d][h] = n] /\ inbound' = inbound /\ out \in Package
    BY <1>0, <1>3, <2>1, <2>2 DEF SendEncrypt, TypeOK
  <2>4. Sourced'
    BY <1>0, <1>1, <2>3, SourcedFrame
  <2>5. out = [session |-> out.session, index |-> out.index]
    BY <2>3 DEF Package
  <2>6. n.stage = "commit" /\ n.pkg = out /\ n.msg.session = out.session
        /\ n.msg.index = out.index
    BY <2>2 DEF Sending
  <2>7. n.msg # None
    <3>1. call[d][h] \in AtStamp
      BY <1>0, <1>3, TypedCalls, ByStage DEF SendEncrypt
    <3>2. n.msg \in Message
      BY <2>2, <2>3, <3>1 DEF Sending, Message, Package, AtStamp
    <3> QED
      BY <3>2, KeysAssumption
  <2>8. n.pkg = PkgOf(n.msg)
    BY <2>5, <2>6, <2>7 DEF PkgOf
  <2>9. FanCall(n)'
    BY <2>6, <2>8, FanPlain
  <2> QED
    BY <1>1, <2>3, <2>4, <2>9, FanFrame
<1> QED
  BY <1>2, <1>3

\* An export is recorded as offered to the peer it is made for.
LEMMA FanExport ==
    ASSUME FanInv, [Next]_vars, NEW d \in Device, NEW h \in Handler, NEW p \in Device,
           ExportSession(d, h, p) \/ ShareWrap(d, h)
    PROVE  FanInv'
<1>0. TypeOK /\ Sourced
  BY DEF FanInv, TypeInv
<1>1. EnsureRoomE2ee(d) /\ crashes' = crashes
  BY DEF ExportSession, ShareWrap, bounds
<1>2. PICK o : o = Ensured(d)
  OBVIOUS
<1>3. CASE ExportSession(d, h, p)
  <2>1. PICK n : n = [stage |-> "carry", pkg |-> None, todo |-> {}, msg |-> None,
                      peer |-> p, body |-> o]
    OBVIOUS
  <2>2. PICK g : g = Offer(o, TRUE)
    OBVIOUS
  <2>3. /\ call' = [call EXCEPT ![d][h] = n]
        /\ offered' = [offered EXCEPT ![p] = @ \cup {g}]
    BY <1>2, <1>3, <2>1, <2>2 DEF ExportSession
  <2>4. OffersGrow /\ g \in offered'[p]
    BY <1>0, <2>3 DEF TypeOK, OffersGrow
  <2>5. n.stage = "carry" /\ n.pkg = PkgOf(n.msg) /\ n.peer = p /\ n.body = o
    BY <2>1 DEF PkgOf
  <2>6. FanCall(n)'
    BY <2>2, <2>4, <2>5 DEF FanCall, PkgOf
  <2>7. Sourced'
    BY <1>0, <1>1, <2>4, SourcedEnsure
  <2> QED
    BY <1>1, <2>3, <2>4, <2>6, <2>7, FanFrame
<1>4. CASE ShareWrap(d, h)
  <2>1. PICK c : c = call[d][h]
    OBVIOUS
  <2>2. c \in AtWrap(d) /\ c.stage = "wrap"
    BY <1>0, <1>4, <2>1, TypedCalls, ByStage DEF ShareWrap
  <2>3. c.pkg = PkgOf(c.msg)
    BY <2>1, <2>2 DEF FanInv, FanCall
  <2>4. PICK body, name, pre :
            /\ body = (IF c.pkg = None THEN o ELSE c.pkg)
            /\ call' = [call EXCEPT ![d][h] =
                   [stage |-> "post", pkg |-> c.pkg, todo |-> c.todo, msg |-> c.msg,
                    peer |-> c.peer, body |-> body, session |-> name, prekey |-> pre]]
    BY <1>2, <1>4, <2>1 DEF ShareWrap
  <2>5. PICK n : n = [stage |-> "post", pkg |-> c.pkg, todo |-> c.todo, msg |-> c.msg,
                      peer |-> c.peer, body |-> body, session |-> name, prekey |-> pre]
    OBVIOUS
  <2>6. PICK g : g = Offer(IF c.msg = None THEN o ELSE c.msg, FALSE)
    OBVIOUS
  <2>7. offered' = [offered EXCEPT ![c.peer] = @ \cup {g}]
    BY <1>2, <1>4, <2>1, <2>6 DEF ShareWrap
  <2>8. c.peer \in Device /\ c.msg \in MsgOf(d)
    BY <2>2 DEF AtWrap, Peer
  <2>9. OffersGrow /\ g \in offered'[c.peer]
    BY <1>0, <2>7, <2>8 DEF TypeOK, OffersGrow
  <2>10. g = Offer(body, FALSE)
    <3>1. CASE c.msg = None
      BY <2>3, <2>4, <2>6, <3>1 DEF PkgOf
    <3>2. CASE c.msg # None
      <4>1. c.pkg = [session |-> c.msg.session, index |-> c.msg.index]
        BY <2>3, <3>2 DEF PkgOf
      <4>2. c.pkg # None
        <5>1. c.msg \in Message
          BY <2>8, <3>2 DEF MsgOf, OwnMsg
        <5>2. c.pkg \in Package
          BY <4>1, <5>1 DEF Message, Package
        <5> QED
          BY <5>2, KeysAssumption
      <4>3. body = c.pkg /\ body.session = c.msg.session /\ body.index = c.msg.index
        BY <2>4, <4>1, <4>2
      <4> QED
        BY <2>6, <3>2, <4>3 DEF Offer
    <3> QED
      BY <3>1, <3>2
  <2>11. /\ n.stage = "post" /\ n.pkg = PkgOf(n.msg) /\ n.peer = c.peer /\ n.body = body
         /\ n.pkg # None => n.body = n.pkg
    BY <2>3, <2>4, <2>5
  <2>12. FanCall(n)'
    BY <2>9, <2>10, <2>11 DEF FanCall, PkgOf
  <2>13. Sourced'
    BY <1>0, <1>1, <2>9, SourcedEnsure
  <2> QED
    BY <1>1, <2>4, <2>5, <2>9, <2>12, <2>13, FanFrame
<1> QED
  BY <1>3, <1>4

\* What a peer imports before it takes the message is the export of the message.
LEMMA FanImport ==
    ASSUME FanInv, [Next]_vars, NEW d \in Device, NEW h \in Handler,
           ImportOlm(d, h) \/ ImportSession(d, h)
    PROVE  FanInv'
<1>0. TypeOK /\ Sourced
  BY DEF FanInv, TypeInv
<1>1. PICK c : c = call[d][h]
  OBVIOUS
<1>2. PICK p : p = c.peer
  OBVIOUS
<1>3. c \in CallOf(d) /\ FanCall(c)
  BY <1>0, <1>1, TypedCalls DEF FanInv
<1>4. c \in AtPost(d) \/ c \in AtCarry(d)
  BY <1>1, <1>3, ByStage DEF ImportOlm, ImportSession
<1>5. p \in Device /\ c.body \in Package
  BY <1>2, <1>4 DEF AtPost, AtCarry, Peer
<1>6. /\ crashes' = crashes /\ offered' = offered
      /\ inbound' = [inbound EXCEPT ![p] = ImportKey(p, c.body)]
      /\ ImportOlm(d, h) => c.stage = "post"
      /\ ImportSession(d, h) => c.stage = "carry"
  BY <1>1, <1>2 DEF ImportOlm, ImportSession, bounds
<1>7. \E b \in BOOLEAN : Offer(c.body, b) \in offered[p]
  BY <1>2, <1>3, <1>6 DEF FanCall
<1>8. Sourced' /\ inbound'[p][c.body.session] # None
  BY <1>0, <1>5, <1>6, <1>7, SourcedImport
<1>9. OffersGrow
  BY <1>6 DEF OffersGrow
<1>10. CASE ImportSession(d, h) \/ (ImportOlm(d, h) /\ c.msg = None)
  <2>1. call' = [call EXCEPT ![d][h] = Idle] /\ Idle.stage = "idle"
    BY <1>1, <1>10 DEF ImportSession, ImportOlm, Idle
  <2>2. FanCall(Idle)'
    BY <2>1, FanPlain
  <2> QED
    BY <1>6, <1>8, <1>9, <2>1, <2>2, FanFrame
<1>11. CASE ImportOlm(d, h) /\ c.msg # None
  <2>1. PICK n : n = [stage |-> "ingest", pkg |-> c.pkg, todo |-> c.todo, msg |-> c.msg,
                      peer |-> p]
    OBVIOUS
  <2>2. call' = [call EXCEPT ![d][h] = n]
    BY <1>1, <1>2, <1>11, <2>1 DEF ImportOlm
  <2>3. c.pkg = PkgOf(c.msg) /\ (c.pkg # None => c.body = c.pkg) /\ c.stage = "post"
    BY <1>3, <1>6, <1>11 DEF FanCall
  <2>4. c.pkg = [session |-> c.msg.session, index |-> c.msg.index]
    BY <1>11, <2>3 DEF PkgOf
  <2>5. c.pkg # None
    <3>1. c.msg \in Message
      BY <1>3, <1>11, <2>3, ByStage DEF AtPost, MsgOf, OwnMsg
    <3>2. c.pkg \in Package
      BY <2>4, <3>1 DEF Message, Package
    <3> QED
      BY <3>2, KeysAssumption
  <2>6. c.body.session = c.msg.session
    BY <2>3, <2>4, <2>5
  <2>7. n.stage = "ingest" /\ n.pkg = PkgOf(n.msg) /\ n.peer = p /\ n.msg = c.msg
    BY <2>1, <2>3
  <2>8. FanCall(n)'
    BY <1>8, <2>6, <2>7 DEF FanCall, PkgOf
  <2> QED
    BY <1>6, <1>8, <1>9, <2>2, <2>8, FanFrame
<1> QED
  BY <1>10, <1>11

LEMMA FanIngest ==
    ASSUME FanInv, [Next]_vars, NEW d \in Device, NEW h \in Handler, FanoutIngest(d, h)
    PROVE  FanInv'
<1>0. TypeOK /\ Sourced
  BY DEF FanInv, TypeInv
<1>1. UNCHANGED <<inbound, offered, crashes>> /\ OffersGrow
  BY DEF FanoutIngest, keys, bounds, OffersGrow
<1>2. Sourced'
  BY <1>0, <1>1, SourcedFrame
<1>3. PICK c : c = call[d][h]
  OBVIOUS
<1>4. c \in AtIngest(d) /\ c.stage = "ingest" /\ FanCall(c)
  BY <1>0, <1>3, TypedCalls, ByStage DEF FanoutIngest, FanInv
<1>5. PICK n : n = [c EXCEPT !.stage = "counted"]
  OBVIOUS
<1>6. call' = [call EXCEPT ![d][h] = n]
  <2>1. call \in [Device -> [Handler -> Calls]]
    BY <1>0, TypedCalls
  <2> QED
    BY <1>3, <1>5, <2>1 DEF FanoutIngest
<1>7. n.stage = "counted" /\ n.pkg = c.pkg /\ n.msg = c.msg /\ n.peer = c.peer
  BY <1>4, <1>5 DEF AtIngest
<1>8. FanCall(n)'
  BY <1>1, <1>4, <1>7 DEF FanCall, PkgOf
<1> QED
  BY <1>1, <1>2, <1>6, <1>8, FanFrame

LEMMA FanCrash ==
    ASSUME FanInv, [Next]_vars, NEW d \in Device, Crash(d)
    PROVE  FanInv'
<1>0. TypeInv /\ TypeOK /\ TypeInv'
  BY TypeStep DEF FanInv, TypeInv
<1>1. crashes' # 0 /\ OffersGrow
  BY <1>0 DEF Crash, TypeOK, OffersGrow
<1>2. ASSUME NEW e \in Device, NEW k \in Handler
      PROVE  FanCall(call[e][k])'
  <2>1. PICK c : c = call[e][k]
    OBVIOUS
  <2>2. c \in CallOf(e) /\ FanCall(c)
    BY <1>0, <2>1, TypedCalls DEF FanInv
  <2>3. FanCall(c)'
    BY <1>0, <1>1, <2>2, FanStays
  <2>4. FanCall(Idle)'
    BY FanPlain DEF Idle
  <2>5. call'[e][k] = c \/ call'[e][k] = Idle
    BY <1>0, <2>1, CrashCalls
  <2> QED
    BY <2>3, <2>4, <2>5
<1> QED
  BY <1>0, <1>1, <1>2 DEF FanInv, Sourced

LEMMA FanStep ==
    ASSUME FanInv, [Next]_vars
    PROVE  FanInv'
<1>0. Sourced
  BY DEF FanInv
<1>1. CASE UNCHANGED vars
  BY <1>1, TypeStep DEF vars, keys, bounds, FanInv, FanCall, Sourced, Source, PkgOf
<1>2. CASE Next
  <2>1. ASSUME NEW d \in Device, Crash(d)
        PROVE  FanInv'
    BY <2>1, FanCrash
  <2>2. ASSUME NEW d \in Device, NEW h \in Handler, NEW p \in Device,
               \/ SendStamp(d, h) \/ SendCommit(d, h)
               \/ ShareSession(d, h, p) \/ FetchKeys(d, h) \/ ImportRefused(d, h)
               \/ FanoutNext(d, h) \/ RequestFails(d, h)
        PROVE  FanInv'
    BY <2>2, FanQuiet
  <2>3. ASSUME NEW d \in Device, NEW h \in Handler, SendCreate(d, h) \/ SendEncrypt(d, h)
        PROVE  FanInv'
    BY <2>3, FanSend
  <2>4. ASSUME NEW d \in Device, NEW h \in Handler, NEW p \in Device,
               ExportSession(d, h, p) \/ ShareWrap(d, h)
        PROVE  FanInv'
    BY <2>4, FanExport
  <2>5. ASSUME NEW d \in Device, NEW h \in Handler, ImportOlm(d, h) \/ ImportSession(d, h)
        PROVE  FanInv'
    BY <2>5, FanImport
  <2>6. ASSUME NEW d \in Device, NEW h \in Handler, FanoutIngest(d, h)
        PROVE  FanInv'
    BY <2>6, FanIngest
  <2>7. ASSUME NEW d \in Device, NEW p \in Device, TrustOlmKeys(d, p)
        PROVE  FanInv'
    <3>1. UNCHANGED <<inbound, offered, crashes, call>>
      BY <2>7 DEF TrustOlmKeys
    <3> QED
      BY <3>1, TypeStep DEF FanInv, FanCall, Sourced, Source, PkgOf
  <2> QED
    BY <1>2, <2>1, <2>2, <2>3, <2>4, <2>5, <2>6, <2>7 DEF Next
<1> QED
  BY <1>1, <1>2

\* ensure_room_e2ee: "Auto share-on-send makes multi-node decrypt+shared-send
\* work".  A peer that fanout_ok counts can read the message while no device
\* has restarted, whatever calls overlap and whatever requests fail, unless an
\* export of the session for that peer that starts later was made by another
\* call.
THEOREM FanoutReadable == Spec => []FanoutIsReadable
<1>1. Init => FanInv
  <2>1. SUFFICES ASSUME Init PROVE FanInv
    OBVIOUS
  <2>2. Sourced
    BY <2>1 DEF Init, Sourced, Source, Fresh
  <2>3. ASSUME NEW d \in Device, NEW h \in Handler
        PROVE  FanCall(call[d][h])
    BY <2>1 DEF Init, FanCall, Idle
  <2> QED
    BY <2>1, <2>2, <2>3, TypeInit DEF FanInv
<1>2. FanInv /\ [Next]_vars => FanInv'
  BY FanStep
<1>3. FanInv => FanoutIsReadable
  <2>1. SUFFICES ASSUME FanInv, crashes = 0, NEW d \in Device, NEW h \in Handler,
                        call[d][h].stage = "counted"
                 PROVE  \/ Readable(call[d][h].peer, call[d][h].msg)
                        \/ Overtaken(call[d][h].peer, call[d][h].msg, BOOLEAN)
    BY DEF FanoutIsReadable
  <2>2. PICK p, m : p = call[d][h].peer /\ m = call[d][h].msg
    OBVIOUS
  <2>3. TypeOK /\ call[d][h] \in AtIngest(d)
    BY <2>1, TypedCalls, ByStage DEF FanInv, TypeInv
  <2>4. p \in Device /\ m.session \in Session /\ m.index \in Nat
    BY <2>2, <2>3 DEF AtIngest, Peer, OwnMsg, Message
  <2>5. PICK k : k = inbound[p][m.session]
    OBVIOUS
  <2>6. k # None /\ k \in Nat
    <3>1. FanCall(call[d][h])
      BY <2>1 DEF FanInv
    <3>2. k # None
      BY <2>1, <2>2, <2>5, <3>1 DEF FanCall
    <3>3. inbound[p] \in [Session -> Nat \cup {None}]
      BY <2>3, <2>4 DEF TypeOK
    <3> QED
      BY <2>4, <2>5, <3>2, <3>3
  <2>7. k = 0 \/ \E b \in BOOLEAN : [session |-> m.session, index |-> k, clear |-> b] \in offered[p]
    BY <2>1, <2>4, <2>5, <2>6 DEF FanInv, Sourced, Source
  <2>8. CASE k <= m.index
    BY <2>2, <2>5, <2>6, <2>8 DEF Readable
  <2>9. CASE k > m.index
    <3>1. PICK b \in BOOLEAN : [session |-> m.session, index |-> k, clear |-> b] \in offered[p]
      BY <2>4, <2>6, <2>7, <2>9
    <3>2. PICK g : g = [session |-> m.session, index |-> k, clear |-> b]
      OBVIOUS
    <3>3. g \in offered[p] /\ g.session = m.session /\ g.index > m.index /\ g.clear \in BOOLEAN
      BY <2>9, <3>1, <3>2
    <3> QED
      BY <2>2, <3>3 DEF Overtaken
  <2> QED
    BY <2>4, <2>6, <2>8, <2>9
<1> QED
  BY <1>1, <1>2, <1>3, PTL DEF Spec
=============================================================================
