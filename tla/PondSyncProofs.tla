--------------------------- MODULE PondSyncProofs ---------------------------
(***************************************************************************)
(* Sync and fan-out for any devices, peers, events and history: what a     *)
(* completed sync_peer or send_message achieved, and that its batches are  *)
(* complete, though the handlers use snapshots that other handlers have    *)
(* overtaken.                                                              *)
(***************************************************************************)
EXTENDS PondSync, FiniteSetTheorems, TLAPS

SyncCall == [stage : {"idle", "pull", "apply", "push", "done"},
             peer : Device \cup {None},
             have : SUBSET Event, missing : SUBSET Event]
SendCall == [stage : {"idle", "fanout", "full", "done"},
             ev : Event \cup {None}, dag : SUBSET Event,
             left : SUBSET Device, peer : Device \cup {None},
             cut : SUBSET Device]

(***************************************************************************)
(* The inductive invariant.  Snapshots are parent-closed and logs only     *)
(* grow: what a sync_peer call has read stays in the log it was read from, *)
(* and with what the peer offered it makes a parent-closed set.  A         *)
(* send_message call has served every peer that is neither left nor cut.   *)
(***************************************************************************)
LogsClosed == \A d \in Device : ParentClosed(log[d])

SyncSound(d, s) ==
    s.stage # "idle" =>
        /\ s.peer \in Device
        /\ s.have \subseteq log[d] /\ ParentClosed(s.have)
        /\ ParentClosed(s.have \cup s.missing)
        /\ s.stage \in {"push", "done"} => s.missing \subseteq log[d]
        /\ s.stage = "done" => s.have \subseteq log[s.peer]

SendSound(d, s) ==
    s.stage # "idle" =>
        /\ s.ev \in s.dag /\ ParentClosed(s.dag)
        /\ s.stage = "full" => s.peer \in Device
        /\ s.stage = "done" => s.left = {}
        /\ \A p \in PeersOf[d] \ (s.left \cup s.cut) : s.ev \in log[p]

IInv ==
    /\ TypeOK /\ LogsClosed
    /\ \A d \in Device : SyncSound(d, sync[d]) /\ SendSound(d, send[d])

-----------------------------------------------------------------------------
(***************************************************************************)
(* Sets of events.                                                         *)
(***************************************************************************)
\* The causal core of a set is a parent-closed part of it.
LEMMA CoreIsClosed ==
    ASSUME NEW S
    PROVE  CausalCore(S) \subseteq S /\ ParentClosed(CausalCore(S))
  BY DEF CausalCore, ParentClosed

\* The causal core holds every parent-closed part.
LEMMA CoreIsLargest ==
    ASSUME NEW S, NEW C, C \subseteq S, ParentClosed(C)
    PROVE  C \subseteq CausalCore(S)
  BY DEF CausalCore

\* Adding an event whose parents are there keeps a set parent-closed.
LEMMA ClosedInsert ==
    ASSUME NEW S, NEW e, ParentClosed(S), ParentsOf[e] \subseteq S
    PROVE  ParentClosed(S \cup {e})
  BY DEF ParentClosed

\* The union of two parent-closed sets is parent-closed.
LEMMA ClosedUnion ==
    ASSUME NEW S, NEW T, ParentClosed(S), ParentClosed(T)
    PROVE  ParentClosed(S \cup T)
  BY DEF ParentClosed

\* Ingest keeps what the log has and keeps it parent-closed; a batch that is
\* complete over the log is accepted as a whole and parks nothing.
LEMMA IngestEffect ==
    ASSUME TypeOK, LogsClosed, NEW d \in Device, NEW batch \in SUBSET Event,
           Ingest(d, batch)
    PROVE  /\ log' \in [Device -> SUBSET Event]
           /\ parked' \in [Device -> SUBSET Event]
           /\ \A p \in Device : ParentClosed(log'[p]) /\ log[p] \subseteq log'[p]
           /\ ParentClosed(log[d] \cup batch) =>
                  /\ batch \subseteq log'[d]
                  /\ \A p \in Device : parked'[p] \subseteq parked[p]
<1> DEFINE held == log[d] \cup parked[d] \cup batch
<1>1. held \subseteq Event
  BY DEF TypeOK
<1>2. /\ log' = [log EXCEPT ![d] = CausalCore(held)]
      /\ parked' = [parked EXCEPT ![d] = held \ CausalCore(held)]
  BY DEF Ingest
<1>3. ParentClosed(log[d])
  BY DEF LogsClosed
<1>4. CausalCore(held) \subseteq held /\ ParentClosed(CausalCore(held))
  BY CoreIsClosed
<1>5. log[d] \subseteq CausalCore(held)
  BY <1>3, CoreIsLargest
<1>6. ASSUME ParentClosed(log[d] \cup batch)
      PROVE  log[d] \cup batch \subseteq CausalCore(held)
  BY <1>6, CoreIsLargest
<1> HIDE DEF held
<1>7. \A p \in Device : /\ log'[p] = IF p = d THEN CausalCore(held) ELSE log[p]
                        /\ parked'[p] = IF p = d THEN held \ CausalCore(held) ELSE parked[p]
  BY <1>2 DEF TypeOK
<1>8. /\ log' \in [Device -> SUBSET Event]
      /\ parked' \in [Device -> SUBSET Event]
  BY <1>1, <1>2, <1>4 DEF TypeOK
<1>9. \A p \in Device : ParentClosed(log'[p]) /\ log[p] \subseteq log'[p]
  BY <1>4, <1>5, <1>7 DEF LogsClosed
<1>10. ASSUME ParentClosed(log[d] \cup batch)
       PROVE  /\ batch \subseteq log'[d]
              /\ \A p \in Device : parked'[p] \subseteq parked[p]
  BY <1>6, <1>7, <1>10 DEF held
<1> QED
  BY <1>8, <1>9, <1>10

\* A call that did not move is as sound as it was when the logs have grown.
LEMMA SoundStays ==
    ASSUME NEW d \in Device, PondAssumption,
           \A p \in Device : log[p] \subseteq log'[p]
    PROVE  /\ SyncSound(d, sync[d]) /\ sync'[d] = sync[d] => SyncSound(d, sync[d])'
           /\ SendSound(d, send[d]) /\ send'[d] = send[d] => SendSound(d, send[d])'
<1>1. ASSUME SyncSound(d, sync[d]), sync'[d] = sync[d]
      PROVE  SyncSound(d, sync[d])'
  BY <1>1 DEF SyncSound, ParentClosed
<1>2. ASSUME SendSound(d, send[d]), send'[d] = send[d]
      PROVE  SendSound(d, send[d])'
  BY <1>2 DEF SendSound, ParentClosed
<1> QED
  BY <1>1, <1>2

\* What a call ingests is complete over the log it goes to.
LEMMA BatchesClosed ==
    ASSUME IInv, NEW d \in Device
    PROVE  /\ sync[d].stage \in {"apply", "push"} =>
                  ParentClosed(log[d] \cup sync[d].missing)
           /\ sync[d].stage = "push" =>
                  sync[d].peer \in Device /\ ParentClosed(log[sync[d].peer] \cup sync[d].have)
           /\ send[d].stage = "full" =>
                  send[d].peer \in Device /\ ParentClosed(log[send[d].peer] \cup send[d].dag)
<1>0. \A p \in Device : ParentClosed(log[p])
  BY DEF IInv, LogsClosed
<1>1. ASSUME sync[d].stage \in {"apply", "push"}
      PROVE  ParentClosed(log[d] \cup sync[d].missing)
  <2>1. /\ ParentClosed(sync[d].have \cup sync[d].missing)
        /\ sync[d].have \subseteq log[d]
    BY <1>1 DEF IInv, SyncSound
  <2>2. ParentClosed(log[d] \cup (sync[d].have \cup sync[d].missing))
    BY <1>0, <2>1, ClosedUnion
  <2>3. log[d] \cup (sync[d].have \cup sync[d].missing) = log[d] \cup sync[d].missing
    BY <2>1
  <2> QED
    BY <2>2, <2>3
<1>2. ASSUME sync[d].stage = "push"
      PROVE  sync[d].peer \in Device /\ ParentClosed(log[sync[d].peer] \cup sync[d].have)
  <2>1. sync[d].peer \in Device /\ ParentClosed(sync[d].have)
    BY <1>2 DEF IInv, SyncSound
  <2> QED
    BY <1>0, <2>1, ClosedUnion
<1>3. ASSUME send[d].stage = "full"
      PROVE  send[d].peer \in Device /\ ParentClosed(log[send[d].peer] \cup send[d].dag)
  <2>1. send[d].peer \in Device /\ ParentClosed(send[d].dag)
    BY <1>3 DEF IInv, SendSound
  <2> QED
    BY <1>0, <2>1, ClosedUnion
<1> QED
  BY <1>1, <1>2, <1>3

\* What a step leaves of the logs and of the calls that did not move.
GrowStep ==
    /\ log' \in [Device -> SUBSET Event] /\ parked' \in [Device -> SUBSET Event]
    /\ \A p \in Device : ParentClosed(log'[p]) /\ log[p] \subseteq log'[p]

LEMMA SameLogsGrow == ASSUME IInv, UNCHANGED <<log, parked>> PROVE GrowStep
  BY DEF IInv, TypeOK, LogsClosed, GrowStep, ParentClosed

LEMMA IngestGrows ==
    ASSUME IInv, NEW d \in Device, NEW batch \in SUBSET Event, Ingest(d, batch)
    PROVE  GrowStep
  BY IngestEffect DEF IInv, GrowStep

\* A step that moves the sync_peer call of d at most keeps the invariant if
\* the moved call is sound.
LEMMA SyncMoves ==
    ASSUME IInv, GrowStep, NEW d \in Device, NEW s \in SyncCall,
           sync' = [sync EXCEPT ![d] = s], SyncSound(d, s)', send' = send,
           net' \subseteq [to : Device, ev : Event],
           drops' \in 0..MaxDrops, crashes' \in 0..MaxCrashes
    PROVE  IInv'
<1>1. sync \in [Device -> SyncCall]
  BY DEF IInv, TypeOK, SyncCall
<1>2. sync'[d] = s /\ \A p \in Device \ {d} : sync'[p] = sync[p]
  BY <1>1
<1>3. TypeOK'
  BY <1>1 DEF IInv, TypeOK, GrowStep, SyncCall
<1>4. ASSUME NEW p \in Device
      PROVE  SyncSound(p, sync[p])'
  <2>1. CASE p = d
    BY <1>2, <2>1
  <2>2. CASE p # d
    BY <1>2, <2>2, SoundStays, PondAssumption DEF IInv, GrowStep
  <2> QED
    BY <2>1, <2>2
<1>5. \A p \in Device : SendSound(p, send[p])'
  BY SoundStays, PondAssumption DEF IInv, GrowStep
<1> QED
  BY <1>3, <1>4, <1>5 DEF IInv, GrowStep, LogsClosed

LEMMA SendMoves ==
    ASSUME IInv, GrowStep, NEW d \in Device, NEW s \in SendCall,
           send' = [send EXCEPT ![d] = s], SendSound(d, s)', sync' = sync,
           net' \subseteq [to : Device, ev : Event],
           drops' \in 0..MaxDrops, crashes' \in 0..MaxCrashes
    PROVE  IInv'
<1>1. send \in [Device -> SendCall]
  BY DEF IInv, TypeOK, SendCall
<1>2. send'[d] = s /\ \A p \in Device \ {d} : send'[p] = send[p]
  BY <1>1
<1>3. TypeOK'
  BY <1>1 DEF IInv, TypeOK, GrowStep, SendCall
<1>4. ASSUME NEW p \in Device
      PROVE  SendSound(p, send[p])'
  <2>1. CASE p = d
    BY <1>2, <2>1
  <2>2. CASE p # d
    BY <1>2, <2>2, SoundStays, PondAssumption DEF IInv, GrowStep
  <2> QED
    BY <2>1, <2>2
<1>5. \A p \in Device : SyncSound(p, sync[p])'
  BY SoundStays, PondAssumption DEF IInv, GrowStep
<1> QED
  BY <1>3, <1>4, <1>5 DEF IInv, GrowStep, LogsClosed

-----------------------------------------------------------------------------
LEMMA InitIInv == Init => IInv
<1> SUFFICES ASSUME Init
             PROVE  IInv
  OBVIOUS
<1>1. NoSync \in SyncCall /\ NoSend \in SendCall
  BY DEF NoSync, NoSend, SyncCall, SendCall
<1>2. TypeOK
  BY <1>1, PondAssumption DEF Init, TypeOK, SyncCall, SendCall
<1> QED
  BY <1>2, PondAssumption
     DEF Init, IInv, LogsClosed, SyncSound, SendSound, NoSync, NoSend

\* Every step of a sync_peer call, one that fails included.
LEMMA SyncKeeps ==
    ASSUME IInv, NEW d \in Device,
           \/ SyncStep(d) \/ SyncFails(d)
           \/ \E p \in Device : SyncStart(d, p)
    PROVE  IInv'
<1> DEFINE s == sync[d]
<1>0. /\ log \in [Device -> SUBSET Event] /\ s \in SyncCall /\ SyncSound(d, s)
      /\ sync \in [Device -> SyncCall] /\ net \subseteq [to : Device, ev : Event]
      /\ drops \in 0..MaxDrops /\ crashes \in 0..MaxCrashes
      /\ MaxDrops \in Nat /\ LogsClosed
  BY PondAssumption DEF IInv, TypeOK, SyncCall
<1>1. ASSUME NEW p \in Device, SyncStart(d, p)
      PROVE  IInv'
  <2>t. PICK t : t = [stage |-> "pull", peer |-> p, have |-> log[d], missing |-> {}]
    OBVIOUS
  <2>1. GrowStep
    BY <1>1, SameLogsGrow DEF SyncStart
  <2>2. t \in SyncCall /\ sync' = [sync EXCEPT ![d] = t]
    BY <1>0, <1>1, <2>t DEF SyncStart, SyncCall
  <2>3. log' = log /\ ParentClosed(log[d]) /\ log[d] \cup {} = log[d]
    BY <1>0, <1>1 DEF SyncStart, LogsClosed
  <2>4. SyncSound(d, t)'
    BY <2>t, <2>3 DEF SyncSound, ParentClosed
  <2> QED
    BY <1>0, <1>1, <2>1, <2>2, <2>4, SyncMoves DEF SyncStart
<1>2. CASE SyncOffer(d)
  <2> DEFINE m == log[s.peer] \ s.have
  <2>t. PICK t : t = [s EXCEPT !.stage = "apply", !.missing = m]
    OBVIOUS
  <2>1. s.stage = "pull" /\ log' = log /\ sync' = [sync EXCEPT ![d] = t]
    BY <1>2, <2>t DEF SyncOffer
  <2>2. s.peer \in Device /\ ParentClosed(s.have) /\ s.have \subseteq log[d]
    BY <1>0, <2>1 DEF SyncSound
  <2>3. ParentClosed(s.have \cup log[s.peer]) /\ s.have \cup log[s.peer] = s.have \cup m
    BY <1>0, <2>2, ClosedUnion DEF LogsClosed
  <2>4. /\ t \in SyncCall /\ t.stage = "apply" /\ t.peer = s.peer
        /\ t.have = s.have /\ t.missing = m
    BY <1>0, <2>2, <2>t DEF SyncCall
  <2>5. GrowStep
    BY <1>2, SameLogsGrow DEF SyncOffer
  <2>6. ParentClosed(s.have \cup m)
    BY <2>3
  <2> HIDE DEF m, s
  <2>7. SyncSound(d, t)'
    BY <2>1, <2>2, <2>4, <2>6 DEF SyncSound, ParentClosed
  <2> QED
    BY <1>0, <1>2, <2>1, <2>4, <2>5, <2>7, SyncMoves DEF SyncOffer
<1>3. CASE SyncApply(d)
  <2>t. PICK t : t = [s EXCEPT !.stage = "push"]
    OBVIOUS
  <2>1. s.stage = "apply" /\ sync' = [sync EXCEPT ![d] = t]
    BY <1>3, <2>t DEF SyncApply
  <2>2. s.missing \in SUBSET Event /\ ParentClosed(log[d] \cup s.missing)
    BY <1>0, <2>1, BatchesClosed DEF SyncCall
  <2>3. GrowStep
    BY <1>3, <2>2, IngestGrows DEF SyncApply
  <2>4. s.missing \subseteq log'[d] /\ log[d] \subseteq log'[d]
    BY <1>3, <2>2, IngestEffect DEF SyncApply, IInv
  <2>5. /\ t \in SyncCall /\ t.stage = "push" /\ t.peer = s.peer
        /\ t.have = s.have /\ t.missing = s.missing
    BY <1>0, <2>t DEF SyncCall
  <2> HIDE DEF s
  <2>6. SyncSound(d, t)'
    BY <1>0, <2>1, <2>4, <2>5 DEF SyncSound, ParentClosed
  <2> QED
    BY <1>0, <1>3, <2>1, <2>3, <2>5, <2>6, SyncMoves DEF SyncApply
<1>4. CASE SyncPush(d)
  <2>t. PICK t : t = [s EXCEPT !.stage = "done"]
    OBVIOUS
  <2>1. s.stage = "push" /\ sync' = [sync EXCEPT ![d] = t] /\ Ingest(s.peer, s.have)
    BY <1>4, <2>t DEF SyncPush
  <2>2. /\ s.peer \in Device /\ s.have \in SUBSET Event
        /\ ParentClosed(log[s.peer] \cup s.have)
    BY <1>0, <2>1, BatchesClosed DEF SyncCall
  <2>3. GrowStep
    BY <2>1, <2>2, IngestGrows
  <2>4. s.have \subseteq log'[s.peer] /\ log[d] \subseteq log'[d]
    BY <2>1, <2>2, IngestEffect DEF IInv
  <2>5. /\ t \in SyncCall /\ t.stage = "done" /\ t.peer = s.peer
        /\ t.have = s.have /\ t.missing = s.missing
    BY <1>0, <2>t DEF SyncCall
  <2> HIDE DEF s
  <2>6. SyncSound(d, t)'
    BY <1>0, <2>1, <2>4, <2>5 DEF SyncSound, ParentClosed
  <2> QED
    BY <1>0, <1>4, <2>1, <2>3, <2>5, <2>6, SyncMoves DEF SyncPush
<1>5. CASE SyncFails(d)
  <2>1. NoSync \in SyncCall /\ SyncSound(d, NoSync)'
    BY DEF NoSync, SyncCall, SyncSound
  <2>2. drops' \in 0..MaxDrops
    BY <1>0, <1>5 DEF SyncFails, Lost
  <2>3. GrowStep
    <3>1. CASE UNCHANGED <<log, parked>>
      BY <3>1, SameLogsGrow
    <3>2. CASE s.stage = "push" /\ Ingest(s.peer, s.have)
      <4>1. s.peer \in Device /\ s.have \in SUBSET Event
        BY <1>0, <3>2, BatchesClosed DEF SyncCall
      <4> QED
        BY <3>2, <4>1, IngestGrows
    <3> QED
      BY <1>5, <3>1, <3>2 DEF SyncFails
  <2> QED
    BY <1>0, <1>5, <2>1, <2>2, <2>3, SyncMoves DEF SyncFails
<1> QED
  BY <1>1, <1>2, <1>3, <1>4, <1>5 DEF SyncStep

\* Every step of a send_message call, requests that are lost included.
LEMMA SendKeeps ==
    ASSUME IInv, NEW d \in Device,
           \/ SendStep(d)
           \/ \E p \in Device : SendMisses(d, p)
           \/ \E e \in Event : SendCommit(d, e)
    PROVE  IInv'
<1> DEFINE s == send[d]
<1>0. /\ log \in [Device -> SUBSET Event] /\ s \in SendCall /\ SendSound(d, s)
      /\ send \in [Device -> SendCall] /\ net \subseteq [to : Device, ev : Event]
      /\ drops \in 0..MaxDrops /\ crashes \in 0..MaxCrashes
      /\ MaxDrops \in Nat /\ LogsClosed /\ PeersOf[d] \subseteq Device
      /\ s.stage # "idle" => s.ev \in Event
  BY PondAssumption DEF IInv, TypeOK, SendCall, SendSound
<1>1. ASSUME NEW e \in Event, SendCommit(d, e)
      PROVE  IInv'
  <2>t. PICK t : t = [stage |-> "fanout", ev |-> e, dag |-> log'[d],
                      left |-> PeersOf[d], peer |-> None, cut |-> {}]
    OBVIOUS
  <2>1. ParentsOf[e] \subseteq log[d] /\ Ingest(d, {e}) /\ {e} \in SUBSET Event
    BY <1>1 DEF SendCommit, TipsOf
  <2>2. ParentClosed(log[d] \cup {e})
    BY <1>0, <2>1, ClosedInsert DEF LogsClosed
  <2>3. GrowStep
    BY <2>1, IngestGrows
  <2>4. e \in log'[d]
    BY <2>1, <2>2, IngestEffect DEF IInv
  <2>5. t \in SendCall /\ send' = [send EXCEPT ![d] = t]
    BY <1>0, <1>1, <2>3, <2>t DEF SendCommit, SendCall, GrowStep
  <2>6. SendSound(d, t)'
    BY <2>3, <2>4, <2>t DEF SendSound, GrowStep, ParentClosed
  <2> QED
    BY <1>0, <1>1, <2>3, <2>5, <2>6, SendMoves DEF SendCommit
<1>2. ASSUME NEW p \in Device, SendDelta(d, p)
      PROVE  IInv'
  <2>1. s.stage = "fanout" /\ p \in s.left /\ Ingest(p, {s.ev}) /\ {s.ev} \in SUBSET Event
    BY <1>0, <1>2 DEF SendDelta
  <2>2. GrowStep
    BY <2>1, IngestGrows
  <2>3. CASE s.ev \notin log[p] /\ ParentsOf[s.ev] \subseteq log[p]
    <3>t. PICK t : t = [s EXCEPT !.left = @ \ {p}]
      OBVIOUS
    <3>1. send' = [send EXCEPT ![d] = t]
      BY <1>2, <2>3, <3>t DEF SendDelta
    <3>2. /\ t \in SendCall /\ t.stage = "fanout" /\ t.ev = s.ev /\ t.dag = s.dag
          /\ t.left = s.left \ {p} /\ t.cut = s.cut
      BY <1>0, <2>1, <3>t DEF SendCall
    <3>3. ParentClosed(log[p] \cup {s.ev})
      BY <1>0, <2>3, ClosedInsert DEF LogsClosed
    <3>4. s.ev \in log'[p]
      BY <2>1, <3>3, IngestEffect DEF IInv
    <3>5. SendSound(d, t)'
      BY <1>0, <2>1, <2>2, <3>2, <3>4 DEF SendSound, GrowStep, ParentClosed
    <3> QED
      BY <1>0, <1>2, <2>2, <3>1, <3>2, <3>5, SendMoves DEF SendDelta
  <2>4. CASE ~(s.ev \notin log[p] /\ ParentsOf[s.ev] \subseteq log[p])
    <3>t. PICK t : t = [s EXCEPT !.stage = "full", !.peer = p]
      OBVIOUS
    <3>1. send' = [send EXCEPT ![d] = t]
      BY <1>2, <2>4, <3>t DEF SendDelta
    <3>2. /\ t \in SendCall /\ t.stage = "full" /\ t.peer = p /\ t.ev = s.ev
          /\ t.dag = s.dag /\ t.left = s.left /\ t.cut = s.cut
      BY <1>0, <3>t DEF SendCall
    <3>3. SendSound(d, t)'
      BY <1>0, <2>1, <2>2, <3>2 DEF SendSound, GrowStep, ParentClosed
    <3> QED
      BY <1>0, <1>2, <2>2, <3>1, <3>2, <3>3, SendMoves DEF SendDelta
  <2> QED
    BY <2>3, <2>4
<1>3. CASE SendFull(d)
  <2> DEFINE counted == [s EXCEPT !.stage = "fanout", !.peer = None,
                                  !.left = @ \ {s.peer}]
  <2>1. s.stage = "full" /\ UNCHANGED <<sync, net, crashes>>
    BY <1>3 DEF SendFull
  <2>2. /\ s.peer \in Device /\ s.dag \in SUBSET Event
        /\ ParentClosed(log[s.peer] \cup s.dag) /\ s.ev \in s.dag
    BY <1>0, <2>1, BatchesClosed DEF SendCall, SendSound
  <2>3. /\ counted \in SendCall /\ counted.stage = "fanout" /\ counted.ev = s.ev
        /\ counted.dag = s.dag /\ counted.left = s.left \ {s.peer}
        /\ counted.cut = s.cut
    BY <1>0 DEF SendCall
  <2>4. ASSUME Ingest(s.peer, s.dag)
        PROVE  GrowStep /\ s.ev \in log'[s.peer]
    BY <2>2, <2>4, IngestGrows, IngestEffect DEF IInv
  <2>5. CASE Ingest(s.peer, s.dag) /\ send' = [send EXCEPT ![d] = counted] /\ UNCHANGED drops
    <3>t. PICK t : t = counted
      OBVIOUS
    <3>1. SendSound(d, t)'
      <4> HIDE DEF counted
      <4> QED
        BY <1>0, <2>1, <2>3, <2>4, <2>5, <3>t DEF SendSound, GrowStep, ParentClosed
    <3> QED
      BY <1>0, <2>1, <2>3, <2>4, <2>5, <3>t, <3>1, SendMoves
  <2>6. CASE /\ Lost
             /\ Ingest(s.peer, s.dag) \/ UNCHANGED <<log, parked>>
             /\ send' = [send EXCEPT ![d] = [counted EXCEPT !.cut = @ \cup {s.peer}]]
    <3>t. PICK t : t = [counted EXCEPT !.cut = @ \cup {s.peer}]
      OBVIOUS
    <3>1. /\ t \in SendCall /\ t.stage = "fanout" /\ t.ev = s.ev /\ t.dag = s.dag
          /\ t.left = s.left \ {s.peer} /\ t.cut = s.cut \cup {s.peer}
      <4> HIDE DEF counted
      <4> QED
        BY <2>2, <2>3, <3>t DEF SendCall
    <3>2. GrowStep
      BY <2>4, <2>6, SameLogsGrow
    <3>3. SendSound(d, t)'
      BY <1>0, <2>1, <3>1, <3>2 DEF SendSound, GrowStep, ParentClosed
    <3>4. drops' \in 0..MaxDrops
      BY <1>0, <2>6 DEF Lost
    <3> QED
      BY <1>0, <2>1, <2>6, <3>t, <3>1, <3>2, <3>3, <3>4, SendMoves
  <2> QED
    BY <1>3, <2>5, <2>6 DEF SendFull
<1>4. ASSUME NEW p \in Device, SendMisses(d, p)
      PROVE  IInv'
  <2>t. PICK t : t = [s EXCEPT !.left = @ \ {p}, !.cut = @ \cup {p}]
    OBVIOUS
  <2>1. s.stage = "fanout" /\ {s.ev} \in SUBSET Event
    BY <1>0, <1>4 DEF SendMisses
  <2>2. GrowStep
    BY <1>4, <2>1, IngestGrows, SameLogsGrow DEF SendMisses
  <2>3. send' = [send EXCEPT ![d] = t]
    BY <1>0, <1>4, <2>t DEF SendMisses
  <2>4. /\ t \in SendCall /\ t.stage = "fanout" /\ t.ev = s.ev /\ t.dag = s.dag
        /\ t.left = s.left \ {p} /\ t.cut = s.cut \cup {p}
    BY <1>0, <2>1, <2>t DEF SendCall
  <2>5. SendSound(d, t)'
    BY <1>0, <2>1, <2>2, <2>4 DEF SendSound, GrowStep, ParentClosed
  <2>6. drops' \in 0..MaxDrops
    <3>1. drops < MaxDrops /\ drops' = drops + 1
      BY <1>4 DEF SendMisses, Lost
    <3>2. drops \in 0..MaxDrops /\ MaxDrops \in Nat
      BY <1>0
    <3> QED
      BY <3>1, <3>2
  <2> QED
    BY <1>0, <1>4, <2>2, <2>3, <2>4, <2>5, <2>6, SendMoves DEF SendMisses
<1>5. CASE SendReturns(d)
  <2>t. PICK t : t = [s EXCEPT !.stage = "done"]
    OBVIOUS
  <2>1. s.stage = "fanout" /\ s.left = {} /\ send' = [send EXCEPT ![d] = t]
    BY <1>5, <2>t DEF SendReturns
  <2>2. /\ t \in SendCall /\ t.stage = "done" /\ t.ev = s.ev /\ t.dag = s.dag
        /\ t.left = s.left /\ t.cut = s.cut
    BY <1>0, <2>t DEF SendCall
  <2>3. GrowStep
    BY <1>5, SameLogsGrow DEF SendReturns
  <2>4. SendSound(d, t)'
    BY <1>0, <2>1, <2>2, <2>3 DEF SendSound, GrowStep, ParentClosed
  <2>5. net' \subseteq [to : Device, ev : Event]
    BY <1>0, <1>5, <2>1 DEF SendReturns
  <2> QED
    BY <1>0, <1>5, <2>1, <2>2, <2>3, <2>4, <2>5, SendMoves DEF SendReturns
<1> QED
  BY <1>1, <1>2, <1>3, <1>4, <1>5 DEF SendStep

LEMMA NextIInv == IInv /\ [Next]_vars => IInv'
<1> SUFFICES ASSUME IInv, [Next]_vars
             PROVE  IInv'
  OBVIOUS
<1>0. /\ net \subseteq [to : Device, ev : Event]
      /\ drops \in 0..MaxDrops /\ crashes \in 0..MaxCrashes
      /\ MaxDrops \in Nat /\ MaxCrashes \in Nat
  BY PondAssumption DEF IInv, TypeOK
<1>1. ASSUME GrowStep, UNCHANGED <<sync, send>>,
             net' \subseteq [to : Device, ev : Event],
             drops' \in 0..MaxDrops, crashes' \in 0..MaxCrashes
      PROVE  IInv'
  <2>1. TypeOK' /\ LogsClosed'
    BY <1>1 DEF IInv, TypeOK, GrowStep, LogsClosed
  <2>2. \A d \in Device : SyncSound(d, sync[d])' /\ SendSound(d, send[d])'
    BY <1>1, SoundStays, PondAssumption DEF IInv, GrowStep
  <2> QED
    BY <2>1, <2>2 DEF IInv
<1>2. ASSUME NEW m \in net, P2PArrives(m)
      PROVE  IInv'
  <2>1. m.to \in Device /\ {m.ev} \in SUBSET Event
    BY <1>0
  <2> QED
    BY <1>0, <1>1, <1>2, <2>1, IngestGrows DEF P2PArrives
<1>3. ASSUME NEW m \in net, P2PLost(m)
      PROVE  IInv'
  <2>1. drops' \in 0..MaxDrops
    BY <1>0, <1>3 DEF P2PLost, Lost
  <2> QED
    BY <1>0, <1>1, <1>3, <2>1, SameLogsGrow DEF P2PLost
<1>4. ASSUME NEW d \in Device, Crash(d)
      PROVE  IInv'
  <2>1. /\ NoSync \in SyncCall /\ SyncSound(d, NoSync)'
        /\ NoSend \in SendCall /\ SendSound(d, NoSend)'
    BY DEF NoSync, NoSend, SyncCall, SendCall, SyncSound, SendSound
  <2>2. /\ sync \in [Device -> SyncCall] /\ send \in [Device -> SendCall]
    BY DEF IInv, TypeOK, SyncCall, SendCall
  <2>3. GrowStep
    BY <1>4 DEF Crash, GrowStep, IInv, TypeOK, LogsClosed, ParentClosed
  <2>4. TypeOK' /\ LogsClosed'
    <3>1. crashes' \in 0..MaxCrashes
      BY <1>0, <1>4 DEF Crash
    <3>2. sync' \in [Device -> SyncCall] /\ send' \in [Device -> SendCall]
      BY <1>4, <2>1, <2>2 DEF Crash
    <3> QED
      BY <1>0, <1>4, <2>3, <3>1, <3>2
         DEF Crash, GrowStep, LogsClosed, TypeOK, SyncCall, SendCall
  <2>5. ASSUME NEW p \in Device
        PROVE  SyncSound(p, sync[p])' /\ SendSound(p, send[p])'
    <3>1. CASE p = d
      BY <1>4, <2>1, <2>2, <3>1 DEF Crash
    <3>2. CASE p # d
      <4>1. sync'[p] = sync[p] /\ send'[p] = send[p]
        BY <1>4, <2>2, <3>2 DEF Crash
      <4> QED
        BY <2>3, <4>1, SoundStays, PondAssumption DEF IInv, GrowStep
    <3> QED
      BY <3>1, <3>2
  <2> QED
    BY <2>4, <2>5 DEF IInv
<1>5. CASE UNCHANGED vars
  BY <1>0, <1>1, <1>5, SameLogsGrow DEF vars
<1> QED
  BY <1>2, <1>3, <1>4, <1>5, SyncKeeps, SendKeeps DEF Next, Fault

LEMMA Invariant == Spec => []IInv
  BY InitIInv, NextIInv, PTL DEF Spec

-----------------------------------------------------------------------------
\* sync_peer, sync_offer, sync_ingest: a call that got both answers has
\* exchanged both histories, whatever ran on both devices between its locked
\* sections.
THEOREM SyncIsMutual == Spec => []SyncExchanges
<1>1. IInv => SyncExchanges
  BY DEF IInv, SyncSound, SyncExchanges
<1> QED
  BY <1>1, Invariant, PTL

\* send_message: every peer that answered has the message in its log when the
\* call returns, whether it took the event alone or needed the whole DAG.
THEOREM FanoutIsComplete == Spec => []FanoutReaches
<1>1. IInv => FanoutReaches
  BY DEF IInv, SendSound, FanoutReaches
<1> QED
  BY <1>1, Invariant, PTL

LEMMA BatchStep ==
    ASSUME IInv, NEW d \in Device, SyncApply(d) \/ SyncPush(d) \/ SendFull(d)
    PROVE  \A p \in Device : parked'[p] \subseteq parked[p]
<1>0. /\ sync[d].missing \in SUBSET Event /\ sync[d].have \in SUBSET Event
      /\ send[d].dag \in SUBSET Event
  BY DEF IInv, TypeOK
<1>1. CASE SyncApply(d)
  BY <1>0, <1>1, BatchesClosed, IngestEffect DEF SyncApply, IInv
<1>2. CASE SyncPush(d)
  BY <1>0, <1>2, BatchesClosed, IngestEffect DEF SyncPush, IInv
<1>3. CASE SendFull(d)
  <2>1. ASSUME Ingest(send[d].peer, send[d].dag)
        PROVE  \A p \in Device : parked'[p] \subseteq parked[p]
    BY <1>0, <1>3, <2>1, BatchesClosed, IngestEffect DEF SendFull, IInv
  <2> QED
    BY <1>3, <2>1 DEF SendFull
<1> QED
  BY <1>1, <1>2, <1>3

\* A pulled or pushed batch is never parked in part, though it was computed
\* from a snapshot that is stale when the batch is applied.
THEOREM BatchesComplete == Spec => BatchesAreComplete
<1>1. IInv => \A d \in Device :
                 SyncApply(d) \/ SyncPush(d) \/ SendFull(d) =>
                     \A p \in Device : parked'[p] \subseteq parked[p]
  BY BatchStep
<1> QED
  BY <1>1, Invariant, PTL DEF BatchesAreComplete
=============================================================================
