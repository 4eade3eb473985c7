------------------------- MODULE RoomRegistryProofs -------------------------
(***************************************************************************)
(* RegistryWithinLog, BanHolds and JoinedWasInvited for any set of devices *)
(* and events.                                                             *)
(***************************************************************************)
EXTENDS RoomRegistry, FiniteSetTheorems, WellFoundedInduction, TLAPS

(***************************************************************************)
(* Sets of events, their ancestors and tips.                               *)
(***************************************************************************)
\* The causal core of a set is a parent-closed part of it.
LEMMA CoreIsClosed ==
    ASSUME NEW S
    PROVE  CausalCore(S) \subseteq S /\ ParentClosed(CausalCore(S))
  BY DEF CausalCore, ParentClosed

\* The causal core holds every parent-closed part.
LEMMA CoreIsLargest ==
    ASSUME NEW S, NEW C, C \subseteq S, ParentClosed(C)
    PROVE  C \subseteq CausalCore(S)
  BY DEF CausalCore

\* Adding an event whose parents are there keeps a set parent-closed.
LEMMA ClosedInsert ==
    ASSUME NEW S, NEW e, ParentClosed(S), ParentsOf[e] \subseteq S
    PROVE  ParentClosed(S \cup {e})
  BY DEF ParentClosed

\* The ancestors of an event: its parents are among them, they are closed
\* under parents, and no closed set with the parents lacks one of them.
LEMMA PastIsLeast ==
    ASSUME NEW e \in Event
    PROVE  /\ Past(e) \subseteq Event /\ ParentsOf[e] \subseteq Past(e)
           /\ ParentClosed(Past(e))
           /\ \A S \in SUBSET Event :
                  ParentsOf[e] \subseteq S /\ ParentClosed(S) => Past(e) \subseteq S
<1>1. ParentsOf[e] \subseteq Event /\ \A f \in Event : ParentsOf[f] \subseteq Event
  BY FieldsAssumption
<1>2. ParentsOf[e] \subseteq Past(e)
  BY <1>1 DEF Past
<1>3. ASSUME NEW a \in Past(e), NEW p \in ParentsOf[a]
      PROVE  p \in Past(e)
  BY <1>1 DEF Past, ParentClosed
<1> QED
  BY <1>2, <1>3 DEF Past, ParentClosed

\* A finite set of events has a member that is the parent of none of them:
\* a smallest part of it that holds the children of all its members is a
\* single event.
LEMMA FiniteHasTip ==
    ASSUME NEW T \in SUBSET Event, IsFiniteSet(T), T # {}
    PROVE  \E m \in T : \A c \in T : m \notin ParentsOf[c]
<1> DEFINE Up(C) == \A f \in C : \A c \in T : f \in ParentsOf[c] => c \in C
           F == {C \in FiniteSubsetsOf(T) : C # {} /\ Up(C)}
<1>1. FiniteSubsetsOf(T) = SUBSET T
  BY FS_FiniteSubsetsOfFinite
<1>2. T \in F /\ F \subseteq FiniteSubsetsOf(T) /\ F # {}
  BY <1>1
<1>3. IsWellFoundedOn(StrictSubsetOrdering(T), FiniteSubsetsOf(T))
  BY FS_StrictSubsetOrderingWellFounded
<1>4. PICK C \in F : \A D \in F : ~(<<D, C>> \in StrictSubsetOrdering(T))
  <2> HIDE DEF F
  <2> QED
    BY <1>2, <1>3, WFMin
<1>5. C \subseteq T /\ C # {} /\ Up(C)
  BY <1>1
<1>6. PICK m \in C : ParentsOf[m] \cap C = {}
  BY <1>5, AcyclicAssumption
<1>7. Up(C \ {m})
  BY <1>5, <1>6
<1>8. C \ {m} \notin F
  <2>1. /\ C \ {m} \in SUBSET T /\ C \in SUBSET T
        /\ C \ {m} \subseteq C /\ C \ {m} # C
    BY <1>5, <1>6
  <2>2. <<C \ {m}, C>> \in StrictSubsetOrdering(T)
    BY <2>1 DEF StrictSubsetOrdering
  <2> QED
    BY <1>4, <2>2
<1>9. C = {m}
  BY <1>1, <1>5, <1>6, <1>7, <1>8
<1> QED
  BY <1>5, <1>6, <1>9

\* In a finite set of events all are tips or ancestors of tips: a closed set
\* with the tips has them all.
LEMMA TipsReachAll ==
    ASSUME NEW D \in SUBSET Event, IsFiniteSet(D),
           NEW S, TipsOf(D) \subseteq S, ParentClosed(S)
    PROVE  D \subseteq S
<1> SUFFICES ASSUME D \ S # {}
             PROVE  FALSE
  OBVIOUS
<1>1. IsFiniteSet(D \ S)
  BY FS_Subset
<1>2. PICK m \in D \ S : \A c \in D \ S : m \notin ParentsOf[c]
  BY <1>1, FiniteHasTip
<1>3. PICK c \in D : m \in ParentsOf[c]
  BY <1>2 DEF TipsOf
<1> QED
  BY <1>2, <1>3 DEF ParentClosed

\* What apply_event may do to the registry's DAG: nothing, or add an event
\* whose parents it has.
LEMMA ApplyDag ==
    ASSUME NEW g \in RoomState, NEW e \in Event
    PROVE  \/ ApplyEvent(g, e).dag = g.dag
           \/ /\ ApplyEvent(g, e).dag = g.dag \cup {e}
              /\ ParentsOf[e] \subseteq g.dag
<1> USE RegistryAssumption DEF RoomState, DagTakes, Insert
<1>1. CASE KindOf[e] = "create"
  BY <1>1 DEF ApplyEvent, ApplyCreate
<1>2. CASE KindOf[e] = "membership"
  BY <1>2 DEF ApplyEvent, ApplyMembership
<1>3. CASE KindOf[e] = "message"
  BY <1>3 DEF ApplyEvent, ApplyMessage
<1> QED
  BY <1>1, <1>2, <1>3

\* apply_event returns a RoomState.
LEMMA ApplyType ==
    ASSUME NEW g \in RoomState, NEW e \in Event
    PROVE  ApplyEvent(g, e) \in RoomState
<1> USE RegistryAssumption DEF RoomState
<1>1. Insert(g, e) \in RoomState
  BY DEF Insert, TipsOf
<1>2. CASE KindOf[e] = "create"
  BY <1>1, <1>2 DEF ApplyEvent, ApplyCreate, MemberState
<1>3. CASE KindOf[e] = "membership"
  <2>1. NewState(ActionOf[e]) \in MemberState
    BY DEF NewState, MemberState
  <2> QED
    BY <1>1, <1>3, <2>1 DEF ApplyEvent, ApplyMembership
<1>4. CASE KindOf[e] = "message"
  BY <1>1, <1>4 DEF ApplyEvent, ApplyMessage
<1> QED
  BY <1>2, <1>3, <1>4

-----------------------------------------------------------------------------
(***************************************************************************)
(* The inductive invariant: besides the property itself, the log is        *)
(* parent-closed (so that it keeps all it has when it ingests) and a load  *)
(* applies events of the log only.                                         *)
(***************************************************************************)
LogsClosed == \A d \in Device : ParentClosed(log[d])

LoadsLog == \A d \in Device : todo[d] \subseteq log[d]

IInv == TypeOK /\ LogsClosed /\ LoadsLog /\ RegistryWithinLog

\* Ingest keeps the log, takes an event whose parents the log has, adds
\* nothing but that event and parked ones, and leaves the other devices alone.
LEMMA IngestEffect ==
    ASSUME IInv, NEW d \in Device, NEW e \in Event, Ingest(d, e)
    PROVE  /\ log' \in [Device -> SUBSET Event]
           /\ parked' \in [Device -> SUBSET Event]
           /\ \A p \in Device : ParentClosed(log'[p]) /\ log[p] \subseteq log'[p]
           /\ \A p \in Device : log'[p] \cup parked'[p] \subseteq log[p] \cup parked[p] \cup {e}
           /\ ParentsOf[e] \subseteq log[d] => e \in log'[d]
<1>1. PICK held : held = log[d] \cup parked[d] \cup {e}
  OBVIOUS
<1>2. PICK next : next = LogWith(d, e)
  OBVIOUS
<1>3. /\ log \in [Device -> SUBSET Event] /\ parked \in [Device -> SUBSET Event]
      /\ held \subseteq Event /\ log[d] \subseteq held
  BY <1>1 DEF IInv, TypeOK
<1>4. /\ log' = [log EXCEPT ![d] = next]
      /\ parked' = [parked EXCEPT ![d] = (parked[d] \cup {e}) \ next]
  BY <1>2 DEF Ingest
<1>5. ParentClosed(log[d])
  BY DEF IInv, LogsClosed
<1>6. CausalCore(held) \subseteq held /\ ParentClosed(CausalCore(held))
  BY CoreIsClosed
<1>7. log[d] \subseteq CausalCore(held)
  BY <1>3, <1>5, CoreIsLargest
<1>8. next = CausalCore(held) \/ next = log[d]
  BY <1>1, <1>2 DEF LogWith
<1>9. next \subseteq held /\ log[d] \subseteq next /\ ParentClosed(next)
  BY <1>3, <1>5, <1>6, <1>7, <1>8
<1>10. ASSUME ParentsOf[e] \subseteq log[d]
       PROVE  e \in next
  <2>1. CASE e \in log[d]
    BY <1>9, <2>1
  <2>2. CASE e \notin log[d]
    <3>1. next = CausalCore(held)
      BY <1>1, <1>2, <1>10, <2>2 DEF LogWith
    <3>2. ParentClosed(log[d] \cup {e}) /\ log[d] \cup {e} \subseteq held
      BY <1>1, <1>5, <1>10, ClosedInsert
    <3>3. log[d] \cup {e} \subseteq CausalCore(held)
      BY <3>2, CoreIsLargest
    <3> QED
      BY <3>1, <3>3
  <2> QED
    BY <2>1, <2>2
<1>11. \A p \in Device : /\ log'[p] = IF p = d THEN next ELSE log[p]
                         /\ parked'[p] = IF p = d THEN (parked[d] \cup {e}) \ next
                                                   ELSE parked[p]
  BY <1>3, <1>4
<1>12. \A p \in Device : ParentClosed(log[p])
  BY DEF IInv, LogsClosed
<1>13. next \in SUBSET Event /\ (parked[d] \cup {e}) \ next \in SUBSET Event
  BY <1>1, <1>3, <1>9
<1>14. log' \in [Device -> SUBSET Event] /\ parked' \in [Device -> SUBSET Event]
  BY <1>3, <1>4, <1>13
<1>15. \A p \in Device : ParentClosed(log'[p]) /\ log[p] \subseteq log'[p]
  BY <1>9, <1>11, <1>12
<1>16. \A p \in Device : log'[p] \cup parked'[p] \subseteq log[p] \cup parked[p] \cup {e}
  BY <1>1, <1>9, <1>11
<1> QED
  BY <1>10, <1>11, <1>14, <1>15, <1>16

\* The part of a DAG that builds on nothing refused, when the DAG takes an
\* event e: the new one is e at most, and then it has e's parents.
LEMMA CoreAfterInsert ==
    ASSUME NEW D \in SUBSET Event, NEW R, NEW e \in Event, ParentClosed(D),
           ParentsOf[e] \subseteq D, NEW L, CausalCore(D \ R) \subseteq L
    PROVE  /\ CausalCore((D \cup {e}) \ R) \subseteq L \cup {e}
           /\ e \in CausalCore((D \cup {e}) \ R) => ParentsOf[e] \subseteq L
           /\ e \in R => CausalCore((D \cup {e}) \ R) \subseteq L
<1>1. PICK C : C = CausalCore((D \cup {e}) \ R)
  OBVIOUS
<1>2. C \subseteq (D \cup {e}) \ R /\ ParentClosed(C)
  BY <1>1, CoreIsClosed
<1>3. ParentClosed(C \cap D) /\ C \cap D \subseteq D \ R
  BY <1>2 DEF ParentClosed
<1>4. C \cap D \subseteq L
  BY <1>3, CoreIsLargest
<1>5. ASSUME e \in C
      PROVE  ParentsOf[e] \subseteq L
  BY <1>2, <1>4, <1>5 DEF ParentClosed
<1> QED
  BY <1>1, <1>2, <1>4, <1>5

\* One registry applies one event that its log has, has just got, or will
\* never get.
LEMMA ApplyKeeps ==
    ASSUME IInv, NEW d \in Device, NEW e \in Event,
           reg' = [reg EXCEPT ![d] = ApplyEvent(@, e)],
           refused' \in [Device -> SUBSET Event],
           \A p \in Device : log[p] \subseteq log'[p],
           \A p \in Device \ {d} : refused'[p] = refused[p],
           \/ refused'[d] = refused[d] /\ (ParentsOf[e] \subseteq log[d] => e \in log'[d])
           \/ refused'[d] = refused[d] \cup {e} /\ e \notin reg[d].dag
    PROVE  reg' \in [Device -> RoomState] /\ RegistryWithinLog'
<1> USE DEF IInv, TypeOK
<1>1. PICK g : g = reg[d]
  OBVIOUS
<1>2. g \in RoomState /\ g.dag \in SUBSET Event
  BY <1>1 DEF RoomState
<1>3. PICK h : h = ApplyEvent(g, e)
  OBVIOUS
<1>4. h \in RoomState
  BY <1>2, <1>3, ApplyType
<1>5. reg' = [reg EXCEPT ![d] = h]
  BY <1>1, <1>3
<1>6. reg' \in [Device -> RoomState] /\ reg'[d] = h
      /\ \A p \in Device \ {d} : reg'[p] = reg[p]
  BY <1>4, <1>5
<1>7. ParentClosed(g.dag) /\ CausalCore(g.dag \ refused[d]) \subseteq log[d]
  BY <1>1 DEF RegistryWithinLog
<1>8. \/ h.dag = g.dag
      \/ h.dag = g.dag \cup {e} /\ ParentsOf[e] \subseteq g.dag
  BY <1>2, <1>3, ApplyDag
<1>9. ParentClosed(h.dag)
  <2>1. ParentsOf[e] \subseteq g.dag => ParentClosed(g.dag \cup {e})
    BY <1>7, ClosedInsert
  <2> QED
    BY <1>7, <1>8, <2>1
<1>10. CausalCore(h.dag \ refused'[d]) \subseteq log'[d]
  <2>1. CASE refused'[d] = refused[d] /\ (ParentsOf[e] \subseteq log[d] => e \in log'[d])
    <3>1. CASE h.dag = g.dag
      BY <1>7, <2>1, <3>1
    <3>2. CASE h.dag = g.dag \cup {e} /\ ParentsOf[e] \subseteq g.dag
      <4>1. PICK D \in SUBSET Event : D = g.dag
        BY <1>2
      <4>2. PICK R, L : R = refused[d] /\ L = log[d]
        OBVIOUS
      <4>3. ParentClosed(D) /\ ParentsOf[e] \subseteq D /\ CausalCore(D \ R) \subseteq L
        BY <1>7, <3>2, <4>1, <4>2
      <4>4. /\ CausalCore((D \cup {e}) \ R) \subseteq L \cup {e}
            /\ e \in CausalCore((D \cup {e}) \ R) => ParentsOf[e] \subseteq L
        BY <4>3, CoreAfterInsert
      <4> QED
        BY <2>1, <3>2, <4>1, <4>2, <4>4
    <3> QED
      BY <1>8, <3>1, <3>2
  <2>2. CASE refused'[d] = refused[d] \cup {e} /\ e \notin reg[d].dag
    <3>1. h.dag \ refused'[d] = g.dag \ refused[d]
      BY <1>1, <1>8, <2>2
    <3> QED
      BY <1>7, <3>1
  <2> QED
    BY <2>1, <2>2
<1>11. \A p \in Device : /\ ParentClosed(reg'[p].dag)
                         /\ CausalCore(reg'[p].dag \ refused'[p]) \subseteq log'[p]
  <2>1. ASSUME NEW p \in Device, p # d
        PROVE  /\ ParentClosed(reg'[p].dag)
               /\ CausalCore(reg'[p].dag \ refused'[p]) \subseteq log'[p]
    <3>1. reg'[p] = reg[p] /\ refused'[p] = refused[p] /\ log[p] \subseteq log'[p]
      BY <1>6, <2>1
    <3>2. /\ ParentClosed(reg[p].dag)
          /\ CausalCore(reg[p].dag \ refused[p]) \subseteq log[p]
      BY DEF RegistryWithinLog
    <3> QED
      BY <3>1, <3>2
  <2> QED
    BY <1>6, <1>9, <1>10, <2>1
<1>12. RegistryWithinLog'
  BY <1>11 DEF RegistryWithinLog, CausalCore, ParentClosed
<1> QED
  BY <1>6, <1>12

\* A registry without a room holds nothing.
LEMMA EmptyIsSound ==
    /\ NoRoom \in RoomState /\ NoRoom.dag = {} /\ ~NoRoom.room
    /\ ParentClosed({}) /\ \A R : CausalCore({} \ R) = {}
<1>1. NoRoom \in RoomState /\ NoRoom.dag = {} /\ ~NoRoom.room
  BY DEF NoRoom, RoomState, MemberState
<1>2. \A R : CausalCore({} \ R) \subseteq {}
  BY CoreIsClosed
<1> QED
  BY <1>1, <1>2 DEF ParentClosed

LEMMA InitIInv == Init => IInv
<1> SUFFICES ASSUME Init
             PROVE  IInv
  OBVIOUS
<1>1. TypeOK
  BY RegistryAssumption, EmptyIsSound DEF Init, TypeOK
<1>2. LogsClosed /\ LoadsLog
  BY DEF Init, LogsClosed, LoadsLog, ParentClosed
<1>3. \A d \in Device : reg[d].dag = {} /\ refused[d] = {} /\ log[d] = {}
  BY EmptyIsSound DEF Init
<1>4. RegistryWithinLog
  BY <1>3, EmptyIsSound DEF RegistryWithinLog
<1> QED
  BY <1>1, <1>2, <1>4 DEF IInv

LEMMA CommitStep ==
    ASSUME IInv, NEW d \in Device, NEW e \in Event, Commit(d, e)
    PROVE  IInv'
<1>1. /\ log' \in [Device -> SUBSET Event]
      /\ parked' \in [Device -> SUBSET Event]
      /\ \A p \in Device : ParentClosed(log'[p]) /\ log[p] \subseteq log'[p]
      /\ ParentsOf[e] \subseteq log[d] => e \in log'[d]
  BY IngestEffect DEF Commit
<1>2. /\ reg' = [reg EXCEPT ![d] = ApplyEvent(@, e)] /\ refused' = refused
      /\ UNCHANGED <<todo, mode, crashes>>
  BY DEF Commit, Sign
<1>3. refused' \in [Device -> SUBSET Event]
  BY <1>2 DEF IInv, TypeOK
<1>4. reg' \in [Device -> RoomState] /\ RegistryWithinLog'
  BY <1>1, <1>2, <1>3, ApplyKeeps
<1>5. TypeOK'
  BY <1>1, <1>2, <1>3, <1>4 DEF IInv, TypeOK
<1>6. LogsClosed' /\ LoadsLog'
  BY <1>1, <1>2 DEF IInv, LogsClosed, LoadsLog, ParentClosed
<1> QED
  BY <1>4, <1>5, <1>6 DEF IInv

\* membership_event gives up: the registry alone has the event.
LEMMA WithholdStep ==
    ASSUME IInv, NEW d \in Device, NEW e \in Event, Withhold(d, e)
    PROVE  IInv'
<1>1. /\ reg' = [reg EXCEPT ![d] = ApplyEvent(@, e)] /\ e \notin reg[d].dag
      /\ refused' = [refused EXCEPT ![d] = @ \cup {e}]
      /\ UNCHANGED <<log, parked, todo, mode, crashes>>
  BY DEF Withhold, Sign
<1>2. refused \in [Device -> SUBSET Event]
  BY DEF IInv, TypeOK
<1>3. /\ refused' \in [Device -> SUBSET Event] /\ refused'[d] = refused[d] \cup {e}
      /\ \A p \in Device \ {d} : refused'[p] = refused[p]
  BY <1>1, <1>2
<1>4. \A p \in Device : log[p] \subseteq log'[p]
  BY <1>1
<1>5. reg' \in [Device -> RoomState] /\ RegistryWithinLog'
  BY <1>1, <1>3, <1>4, ApplyKeeps
<1>6. TypeOK'
  BY <1>1, <1>3, <1>5 DEF IInv, TypeOK
<1>7. LogsClosed' /\ LoadsLog'
  BY <1>1 DEF IInv, LogsClosed, LoadsLog, ParentClosed
<1> QED
  BY <1>5, <1>6, <1>7 DEF IInv

LEMMA RemoteStep ==
    ASSUME IInv, NEW d \in Device, NEW e \in Event, IngestRemote(d, e)
    PROVE  IInv'
<1>1. /\ log' \in [Device -> SUBSET Event]
      /\ parked' \in [Device -> SUBSET Event]
      /\ \A p \in Device : ParentClosed(log'[p]) /\ log[p] \subseteq log'[p]
      /\ ParentsOf[e] \subseteq log[d] => e \in log'[d]
  BY IngestEffect DEF IngestRemote
<1>2. refused' = refused /\ refused' \in [Device -> SUBSET Event]
      /\ UNCHANGED <<todo, mode, crashes>>
  BY DEF IngestRemote, IInv, TypeOK
<1>3. reg' \in [Device -> RoomState] /\ RegistryWithinLog'
  <2>1. CASE KindOf[e] = "message"
    <3>1. reg' = reg
      BY <2>1 DEF IngestRemote, IInv, TypeOK
    <3>2. \A p \in Device : /\ ParentClosed(reg[p].dag)
                            /\ CausalCore(reg[p].dag \ refused[p]) \subseteq log'[p]
      BY <1>1 DEF IInv, RegistryWithinLog
    <3>3. RegistryWithinLog'
      BY <1>2, <3>1, <3>2 DEF RegistryWithinLog, CausalCore, ParentClosed
    <3> QED
      BY <3>1, <3>3 DEF IInv, TypeOK
  <2>2. CASE KindOf[e] # "message"
    <3>1. reg' = [reg EXCEPT ![d] = ApplyEvent(@, e)]
      BY <2>2 DEF IngestRemote
    <3> QED
      BY <1>1, <1>2, <3>1, ApplyKeeps
  <2> QED
    BY <2>1, <2>2
<1>4. TypeOK'
  BY <1>1, <1>2, <1>3 DEF IInv, TypeOK
<1>5. LogsClosed' /\ LoadsLog'
  BY <1>1, <1>2 DEF IInv, LogsClosed, LoadsLog, ParentClosed
<1> QED
  BY <1>3, <1>4, <1>5 DEF IInv

LEMMA RestartStep ==
    ASSUME IInv, NEW d \in Device, Restart(d)
    PROVE  IInv'
<1> USE RegistryAssumption DEF IInv, TypeOK
<1>1. /\ parked' = [parked EXCEPT ![d] = {}] /\ reg' = [reg EXCEPT ![d] = NoRoom]
      /\ todo' = [todo EXCEPT ![d] = log[d]] /\ refused' = [refused EXCEPT ![d] = {}]
      /\ mode' = [mode EXCEPT ![d] = "load"] /\ log' = log
      /\ crashes < MaxCrashes /\ crashes' = crashes + 1
  BY DEF Restart
<1>2. TypeOK'
  BY <1>1, EmptyIsSound
<1>3. LogsClosed' /\ LoadsLog'
  BY <1>1 DEF LogsClosed, LoadsLog, ParentClosed
<1>4. \A p \in Device : /\ ParentClosed(reg'[p].dag)
                        /\ CausalCore(reg'[p].dag \ refused'[p]) \subseteq log'[p]
  <2>1. reg'[d].dag = {} /\ \A p \in Device \ {d} : reg'[p] = reg[p] /\ refused'[p] = refused[p]
    BY <1>1, EmptyIsSound
  <2>2. ParentClosed({}) /\ CausalCore({} \ refused'[d]) \subseteq log'[d]
    BY EmptyIsSound
  <2>3. \A p \in Device : /\ ParentClosed(reg[p].dag)
                          /\ CausalCore(reg[p].dag \ refused[p]) \subseteq log'[p]
    BY <1>1 DEF RegistryWithinLog
  <2> QED
    BY <2>1, <2>2, <2>3
<1>5. RegistryWithinLog'
  BY <1>4 DEF RegistryWithinLog, CausalCore, ParentClosed
<1> QED
  BY <1>2, <1>3, <1>5

LEMMA LoadStep ==
    ASSUME IInv, NEW d \in Device, NEW e \in Event, Load(d, e)
    PROVE  IInv'
<1>1. e \in log[d] /\ log' = log
  BY DEF Load, FirstOf, IInv, LoadsLog
<1>2. /\ reg' = [reg EXCEPT ![d] = ApplyEvent(@, e)]
      /\ todo' = [todo EXCEPT ![d] = @ \ {e}]
      /\ UNCHANGED <<log, parked, mode, refused, crashes>>
  BY DEF Load
<1>3. refused' \in [Device -> SUBSET Event]
  BY <1>2 DEF IInv, TypeOK
<1>4. reg' \in [Device -> RoomState] /\ RegistryWithinLog'
  BY <1>1, <1>2, <1>3, ApplyKeeps
<1>5. TypeOK'
  BY <1>2, <1>4 DEF IInv, TypeOK
<1>6. LogsClosed' /\ LoadsLog'
  BY <1>2 DEF IInv, TypeOK, LogsClosed, LoadsLog, ParentClosed
<1> QED
  BY <1>4, <1>5, <1>6 DEF IInv

LEMMA NextIInv == IInv /\ [Next]_vars => IInv'
<1> SUFFICES ASSUME IInv, [Next]_vars
             PROVE  IInv'
  OBVIOUS
<1>1. ASSUME NEW d \in Device, LoadDone(d)
      PROVE  IInv'
  <2>1. TypeOK'
    BY <1>1 DEF LoadDone, IInv, TypeOK
  <2> QED
    BY <1>1, <2>1 DEF LoadDone, IInv, LogsClosed, LoadsLog, RegistryWithinLog,
                      CausalCore, ParentClosed
<1>2. CASE UNCHANGED vars
  BY <1>2 DEF vars, IInv, TypeOK, LogsClosed, LoadsLog, RegistryWithinLog,
              CausalCore, ParentClosed
<1>3. ASSUME NEW d \in Device, NEW e \in Event, Author(d, e)
      PROVE  Commit(d, e) \/ Withhold(d, e)
  BY <1>3 DEF Author, CreateRoom, SendMessage, MembershipEvent
<1> QED
  BY <1>1, <1>2, <1>3, CommitStep, WithholdStep, RemoteStep, RestartStep, LoadStep DEF Next

\* Every variable keeps its type in every behaviour.
THEOREM TypeCorrect == Spec => []TypeOK
  BY InitIInv, NextIInv, PTL DEF Spec, IInv

\* create_room, send_message, ingest_remote and load_from_data_dir feed the
\* registry and the log by separate calls, and membership_event may leave an
\* event to the registry alone; whatever their order and however often a
\* device restarts, the registry's DAG is parent-closed, and the log has all
\* of it that does not build on such an event.
THEOREM RegistryIsWithinLog == Spec => []RegistryWithinLog
  BY InitIInv, NextIInv, PTL DEF Spec, IInv

-----------------------------------------------------------------------------
(***************************************************************************)
(* JoinedWasInvited.  What a registry says of a member has grounds in its  *)
(* DAG: an invitation, or that the member created the room.  The grounds   *)
(* of an invited or joined member must lie at or below the registry's tips *)
(* (the tips of a refused event are not taken over), for these become the  *)
(* parents of the member's join; and every join that anybody holds has     *)
(* grounds in its past.                                                    *)
(***************************************************************************)
Reach(T) ==
    {a \in Event : \A S \in SUBSET Event :
                      T \subseteq S /\ ParentClosed(S) => a \in S}

Grounds(e, x) == Invites(e, x) \/ (KindOf[e] = "create" /\ AuthorOf[e] = x)

Grounded(g, x) ==
    /\ g.members[x] \in {"invited", "joined"} =>
           \E i \in g.dag \cap Reach(g.tips) : Grounds(i, x)
    /\ g.members[x] = "joined" =>
           \/ \E e \in g.dag : KindOf[e] = "create" /\ AuthorOf[e] = x
           \/ \E j \in g.dag : Joins(j, x)

JoinSound(e) == \A x \in Device : Joins(e, x) => \E i \in Past(e) : Grounds(i, x)

MemberInv ==
    /\ \A d \in Device : IsFiniteSet(reg[d].dag)
    /\ \A d, x \in Device : Grounded(reg[d], x)
    /\ \A d \in Device : \A e \in log[d] \cup parked[d] \cup reg[d].dag : JoinSound(e)

\* Inserting an event recomputes the tips: all of the DAG lies at or below.
LEMMA InsertReaches ==
    ASSUME NEW g \in RoomState, NEW e \in Event, IsFiniteSet(g.dag)
    PROVE  /\ IsFiniteSet(g.dag \cup {e})
           /\ g.dag \cup {e} \subseteq Reach(TipsOf(g.dag \cup {e}))
<1>1. IsFiniteSet(g.dag \cup {e})
  BY FS_AddElement
<1>2. g.dag \cup {e} \in SUBSET Event
  BY DEF RoomState
<1> QED
  BY <1>1, <1>2, TipsReachAll DEF Reach

\* apply_event leaves the registry's DAG finite.
LEMMA ApplyFinite ==
    ASSUME NEW g \in RoomState, NEW e \in Event, IsFiniteSet(g.dag)
    PROVE  IsFiniteSet(ApplyEvent(g, e).dag)
  BY ApplyDag, InsertReaches

\* An inserted event leaves the grounds of the members it does not change.
LEMMA InsertGrounded ==
    ASSUME NEW g \in RoomState, NEW e \in Event, IsFiniteSet(g.dag),
           NEW x \in Device, Grounded(g, x), NEW h,
           h.dag = g.dag \cup {e}, h.tips = TipsOf(g.dag \cup {e}),
           h.members[x] = g.members[x]
    PROVE  Grounded(h, x)
  BY InsertReaches DEF Grounded

\* apply_event: who becomes invited, joined or creator has grounds, and the
\* others keep theirs.
LEMMA ApplyGrounded ==
    ASSUME NEW g \in RoomState, NEW e \in Event, IsFiniteSet(g.dag),
           ParentClosed(g.dag), JoinSound(e), NEW x \in Device, Grounded(g, x)
    PROVE  Grounded(ApplyEvent(g, e), x)
<1> DEFINE h == ApplyEvent(g, e)
<1> SUFFICES Grounded(h, x)
  OBVIOUS
<1> USE RegistryAssumption
<1>0. /\ g.dag \in SUBSET Event /\ g.members \in [Device -> MemberState]
      /\ AuthorOf[e] \in Device /\ TargetOf[e] \in Device
  BY DEF RoomState
<1>1. g.dag \cup {e} \subseteq Reach(TipsOf(g.dag \cup {e}))
  BY InsertReaches
<1>2. /\ Insert(g, e).dag = g.dag \cup {e}
      /\ Insert(g, e).tips = TipsOf(g.dag \cup {e})
      /\ Insert(g, e).members = g.members
      /\ Insert(g, e) \in RoomState
  BY DEF Insert, RoomState, TipsOf
<1>3. CASE KindOf[e] = "create"
  <2>1. CASE h = g \/ h = Insert(g, e)
    BY <1>2, <2>1, InsertGrounded
  <2>2. CASE h = [Insert(g, e) EXCEPT !.room = TRUE, !.members[AuthorOf[e]] = "joined"]
    <3>1. /\ h.dag = g.dag \cup {e} /\ h.tips = TipsOf(g.dag \cup {e})
          /\ AuthorOf[e] # x => h.members[x] = g.members[x]
      BY <1>0, <1>2, <2>2 DEF RoomState
    <3>2. CASE AuthorOf[e] = x
      BY <1>1, <1>3, <3>1, <3>2 DEF Grounded, Grounds
    <3> QED
      BY <3>1, <3>2, InsertGrounded
  <2> QED
    BY <1>3, <2>1, <2>2 DEF ApplyEvent, ApplyCreate
<1>4. CASE KindOf[e] = "membership"
  <2>1. CASE h = g
    BY <2>1
  <2>2. CASE h = [g EXCEPT !.dag = @ \cup {e}]
    <3>1. h.dag = g.dag \cup {e} /\ h.tips = g.tips /\ h.members = g.members
      BY <2>2 DEF RoomState
    <3> HIDE DEF h
    <3> QED
      BY <3>1 DEF Grounded
  <2>3. CASE /\ h = [Insert(g, e) EXCEPT !.members[TargetOf[e]] = NewState(ActionOf[e])]
             /\ ParentsOf[e] \subseteq g.dag
    <3>1. /\ h.dag = g.dag \cup {e} /\ h.tips = TipsOf(g.dag \cup {e})
          /\ TargetOf[e] # x => h.members[x] = g.members[x]
          /\ TargetOf[e] = x => h.members[x] = NewState(ActionOf[e])
      BY <1>0, <1>2, <2>3 DEF RoomState
    <3> HIDE DEF h
    <3>2. CASE TargetOf[e] = x /\ ActionOf[e] = "invite"
      BY <1>1, <1>4, <3>1, <3>2 DEF Grounded, Grounds, Invites, NewState
    <3>3. CASE TargetOf[e] = x /\ ActionOf[e] = "join"
      <4>1. Joins(e, x)
        BY <1>4, <3>3 DEF Joins
      <4>2. PICK i \in Past(e) : Grounds(i, x)
        BY <4>1 DEF JoinSound
      <4>3. i \in g.dag
        BY <1>0, <2>3, PastIsLeast
      <4> QED
        BY <1>1, <3>1, <4>1, <4>2, <4>3 DEF Grounded
    <3>4. CASE TargetOf[e] = x /\ ActionOf[e] \in {"leave", "ban"}
      BY <3>1, <3>4 DEF Grounded, NewState
    <3> QED
      BY <3>1, <3>2, <3>3, <3>4, InsertGrounded
  <2> QED
    BY <1>4, <2>1, <2>2, <2>3 DEF ApplyEvent, ApplyMembership, DagTakes
<1>5. CASE KindOf[e] = "message"
  BY <1>2, <1>5, InsertGrounded DEF ApplyEvent, ApplyMessage
<1> QED
  BY <1>3, <1>4, <1>5

\* A registry that applies a sound event keeps its part of the invariant.
LEMMA ApplyMember ==
    ASSUME IInv, MemberInv, NEW d \in Device, NEW e \in Event, JoinSound(e),
           reg' = [reg EXCEPT ![d] = ApplyEvent(@, e)]
    PROVE  /\ \A p \in Device : IsFiniteSet(reg'[p].dag)
           /\ \A p, x \in Device : Grounded(reg'[p], x)
           /\ \A p \in Device : \A f \in reg'[p].dag : JoinSound(f)
<1>1. /\ reg \in [Device -> RoomState] /\ reg[d] \in RoomState
      /\ ParentClosed(reg[d].dag) /\ IsFiniteSet(reg[d].dag)
      /\ \A x \in Device : Grounded(reg[d], x)
  BY DEF IInv, TypeOK, RegistryWithinLog, MemberInv
<1>2. IsFiniteSet(ApplyEvent(reg[d], e).dag)
  BY <1>1, ApplyFinite
<1>3. \A x \in Device : Grounded(ApplyEvent(reg[d], e), x)
  BY <1>1, ApplyGrounded
<1>4. \A p \in Device : reg'[p] = IF p = d THEN ApplyEvent(reg[d], e) ELSE reg[p]
  BY <1>1
<1>5. \A f \in ApplyEvent(reg[d], e).dag : f \in reg[d].dag \/ f = e
  BY <1>1, ApplyDag
<1>6. \A p \in Device : \A f \in reg[p].dag : JoinSound(f)
  BY DEF MemberInv
<1>7. \A p \in Device : \A f \in reg'[p].dag : JoinSound(f)
  BY <1>4, <1>5, <1>6
<1> QED
  BY <1>2, <1>3, <1>4, <1>7 DEF MemberInv

\* A log that ingests a sound event holds sound events.
LEMMA IngestSound ==
    ASSUME IInv, MemberInv, NEW d \in Device, NEW e \in Event, JoinSound(e),
           Ingest(d, e)
    PROVE  \A p \in Device : \A f \in log'[p] \cup parked'[p] : JoinSound(f)
<1>1. \A p \in Device : log'[p] \cup parked'[p] \subseteq log[p] \cup parked[p] \cup {e}
  BY IngestEffect
<1> QED
  BY <1>1 DEF MemberInv

\* What a device signs is sound: membership_event looks up the actor in the
\* registry whose tips become the parents.
LEMMA AuthorSound ==
    ASSUME IInv, MemberInv, NEW d \in Device, NEW e \in Event, Author(d, e)
    PROVE  JoinSound(e)
<1> SUFFICES ASSUME NEW x \in Device, Joins(e, x)
             PROVE  \E i \in Past(e) : Grounds(i, x)
  BY DEF JoinSound
<1>1. MembershipEvent(d, e)
  BY DEF Author, CreateRoom, SendMessage, Joins
<1>2. d = x /\ reg[d].members[x] \in {"invited", "joined"}
  BY <1>1 DEF MembershipEvent, MayChange, Joins
<1>3. PICK i \in Reach(reg[d].tips) : Grounds(i, x)
  BY <1>2 DEF MemberInv, Grounded
<1>4. Past(e) = Reach(reg[d].tips)
  BY <1>1 DEF MembershipEvent, Past, Reach
<1> QED
  BY <1>3, <1>4

LEMMA InitMember == Init => MemberInv
<1> SUFFICES ASSUME Init
             PROVE  MemberInv
  OBVIOUS
<1>1. IsFiniteSet({})
  BY FS_EmptySet
<1> QED
  BY <1>1 DEF Init, MemberInv, NoRoom, Grounded

LEMMA NextMember == IInv /\ MemberInv /\ [Next]_vars => MemberInv'
<1> SUFFICES ASSUME IInv, MemberInv, [Next]_vars
             PROVE  MemberInv'
  OBVIOUS
<1>1. ASSUME NEW d \in Device, NEW e \in Event, Author(d, e)
      PROVE  MemberInv'
  <2>1. JoinSound(e)
    BY <1>1, AuthorSound
  <2>2. Commit(d, e) \/ Withhold(d, e)
    BY <1>1 DEF Author, CreateRoom, SendMessage, MembershipEvent
  <2>3. reg' = [reg EXCEPT ![d] = ApplyEvent(@, e)]
    BY <2>2 DEF Commit, Withhold, Sign
  <2>4. \A p \in Device : \A f \in log'[p] \cup parked'[p] : JoinSound(f)
    <3>1. CASE Ingest(d, e)
      BY <2>1, <3>1, IngestSound
    <3>2. CASE UNCHANGED <<log, parked>>
      BY <3>2 DEF MemberInv
    <3> QED
      BY <2>2, <3>1, <3>2 DEF Commit, Withhold
  <2> QED
    BY <2>1, <2>3, <2>4, ApplyMember DEF MemberInv
<1>2. ASSUME NEW d \in Device, NEW e \in Event, IngestRemote(d, e)
      PROVE  MemberInv'
  <2>1. JoinSound(e)
    BY <1>2 DEF IngestRemote, Signed, MemberInv
  <2>2. \A p \in Device : \A f \in log'[p] \cup parked'[p] : JoinSound(f)
    BY <1>2, <2>1, IngestSound DEF IngestRemote
  <2>3. CASE KindOf[e] = "message"
    <3>1. reg' = reg
      BY <1>2, <2>3 DEF IngestRemote, IInv, TypeOK
    <3> QED
      BY <2>2, <3>1 DEF MemberInv
  <2>4. CASE KindOf[e] # "message"
    BY <1>2, <2>1, <2>2, <2>4, ApplyMember DEF IngestRemote, MemberInv
  <2> QED
    BY <2>3, <2>4
<1>3. ASSUME NEW d \in Device, NEW e \in Event, Load(d, e)
      PROVE  MemberInv'
  <2>1. JoinSound(e)
    BY <1>3 DEF Load, FirstOf, IInv, LoadsLog, MemberInv
  <2> QED
    BY <1>3, <2>1, ApplyMember DEF Load, MemberInv
<1>4. ASSUME NEW d \in Device, Restart(d)
      PROVE  MemberInv'
  <2>1. IsFiniteSet(NoRoom.dag) /\ \A x \in Device : Grounded(NoRoom, x)
    BY FS_EmptySet DEF NoRoom, Grounded
  <2>2. \A p \in Device : /\ reg'[p] \in {reg[p], NoRoom} /\ log'[p] = log[p]
                          /\ parked'[p] \subseteq parked[p]
    BY <1>4 DEF Restart, IInv, TypeOK
  <2>3. \A p \in Device : IsFiniteSet(reg'[p].dag) /\ \A x \in Device : Grounded(reg'[p], x)
    BY <2>1, <2>2 DEF MemberInv
  <2>4. \A p \in Device : \A e \in log'[p] \cup parked'[p] \cup reg'[p].dag :
            e \in log[p] \cup parked[p] \cup reg[p].dag
    BY <2>2, EmptyIsSound
  <2> QED
    BY <2>3, <2>4 DEF MemberInv
<1>5. CASE UNCHANGED <<log, parked, reg>>
  BY <1>5 DEF MemberInv
<1> QED
  BY <1>1, <1>2, <1>3, <1>4, <1>5 DEF Next, LoadDone, vars

LEMMA GroundsAreInvites == IInv /\ MemberInv => JoinedWasInvited
<1> SUFFICES ASSUME IInv, MemberInv, NEW d \in Device, NEW x \in Device,
                    reg[d].members[x] = "joined", NEW j \in reg[d].dag, Joins(j, x),
                    ~ \E i \in reg[d].dag : Invites(i, x) /\ i \in Past(j)
             PROVE  \E e \in reg[d].dag : KindOf[e] = "create" /\ AuthorOf[e] = x
  BY DEF JoinedWasInvited, MemberInv, Grounded
<1>1. /\ j \in Event /\ reg[d].dag \in SUBSET Event
      /\ ParentClosed(reg[d].dag) /\ ParentsOf[j] \subseteq reg[d].dag
  BY DEF IInv, TypeOK, RoomState, RegistryWithinLog, ParentClosed
<1>2. PICK i \in Past(j) : Grounds(i, x)
  BY <1>1 DEF MemberInv, JoinSound
<1>3. i \in reg[d].dag
  BY <1>1, PastIsLeast
<1> QED
  BY <1>2, <1>3 DEF Grounds

\* membership_event, apply_event and load_from_data_dir: apply_event accepts a
\* join without looking for an invitation, and registries of different devices
\* fold the same events in different orders; still whoever a registry counts
\* as joined created the room or accepted an invitation it knows.
THEOREM MembersWereInvited == Spec => []JoinedWasInvited
  BY InitIInv, NextIInv, InitMember, NextMember, GroundsAreInvites, PTL DEF Spec

-----------------------------------------------------------------------------
(***************************************************************************)
(* BanHolds: apply_event keeps it event by event; the room must be there   *)
(* before anything else is, since a create event sets its author's state   *)
(* without looking.                                                        *)
(***************************************************************************)
BanKept(g) ==
    /\ ~g.room => g.dag = {}
    /\ \A x \in Device :
           (\E b \in g.dag : Bans(b, x)) =>
               g.members[x] = "banned" \/ \E l \in g.dag : Leaves(l, x)

\* apply_event of any event keeps the bans.
LEMMA ApplyBan ==
    ASSUME NEW g \in RoomState, NEW e \in Event, BanKept(g)
    PROVE  BanKept(ApplyEvent(g, e))
<1> USE RegistryAssumption
<1>1. PICK h : h = ApplyEvent(g, e)
  OBVIOUS
<1>2. /\ g.members \in [Device -> MemberState] /\ g.room \in BOOLEAN
      /\ AuthorOf[e] \in Device /\ TargetOf[e] \in Device
  BY DEF RoomState
<1>3. CASE h = g
  BY <1>1, <1>3
<1>4. CASE KindOf[e] # "membership" /\ h # g
  <2>1. h.dag = g.dag \cup {e} /\ h.room
    BY <1>1, <1>2, <1>4 DEF ApplyEvent, ApplyCreate, ApplyMessage, Insert, RoomState
  <2>2. h.members = g.members \/ ~g.room
    BY <1>1, <1>2, <1>4 DEF ApplyEvent, ApplyCreate, ApplyMessage, Insert, RoomState
  <2>3. \A x \in Device : ~Bans(e, x)
    BY <1>4 DEF Bans
  <2> QED
    BY <1>1, <2>1, <2>2, <2>3 DEF BanKept
<1>5. CASE KindOf[e] = "membership" /\ h # g
  <2>1. g.room /\ h.dag = g.dag \cup {e} /\ h.room
    BY <1>1, <1>2, <1>5 DEF ApplyEvent, ApplyMembership, Insert, RoomState
  <2>2. CASE OfBanned(g, e)
    <3>1. h.members = g.members
      BY <1>1, <1>5, <2>2 DEF ApplyEvent, ApplyMembership, RoomState
    <3>2. \A x \in Device : ~Bans(e, x)
      BY <2>2 DEF OfBanned, Bans
    <3> QED
      BY <1>1, <2>1, <3>1, <3>2 DEF BanKept
  <2>3. CASE ~OfBanned(g, e)
    <3>1. h.members = [g.members EXCEPT ![TargetOf[e]] = NewState(ActionOf[e])]
      BY <1>1, <1>2, <1>5, <2>1, <2>3 DEF ApplyEvent, ApplyMembership, Insert, RoomState
    <3>2. ASSUME NEW x \in Device, NEW b \in h.dag, Bans(b, x)
          PROVE  h.members[x] = "banned" \/ \E l \in h.dag : Leaves(l, x)
      <4>1. CASE TargetOf[e] # x
        BY <1>2, <2>1, <3>1, <3>2, <4>1 DEF BanKept, Bans
      <4>2. CASE TargetOf[e] = x /\ ActionOf[e] = "ban"
        BY <1>2, <3>1, <4>2 DEF NewState
      <4>3. CASE TargetOf[e] = x /\ ActionOf[e] = "leave"
        BY <1>5, <2>1, <4>3 DEF Leaves
      <4>4. CASE TargetOf[e] = x /\ ActionOf[e] \in {"invite", "join"}
        <5>1. g.members[x] # "banned" /\ b # e
          BY <2>3, <3>2, <4>4 DEF OfBanned, Bans
        <5> QED
          BY <2>1, <3>2, <5>1 DEF BanKept
      <4> QED
        BY <4>1, <4>2, <4>3, <4>4
    <3> QED
      BY <1>1, <2>1, <3>2 DEF BanKept
  <2> QED
    BY <2>2, <2>3
<1> QED
  BY <1>3, <1>4, <1>5

AllBansKept == \A d \in Device : BanKept(reg[d])

LEMMA NextBan == IInv /\ AllBansKept /\ [Next]_vars => AllBansKept'
<1> SUFFICES ASSUME IInv, AllBansKept, [Next]_vars
             PROVE  AllBansKept'
  OBVIOUS
<1>1. ASSUME NEW d \in Device, NEW e \in Event, reg' = [reg EXCEPT ![d] = ApplyEvent(@, e)]
      PROVE  AllBansKept'
  <2>1. reg \in [Device -> RoomState] /\ reg[d] \in RoomState /\ BanKept(reg[d])
    BY DEF IInv, TypeOK, AllBansKept
  <2>2. BanKept(ApplyEvent(reg[d], e))
    BY <2>1, ApplyBan
  <2>3. \A p \in Device : reg'[p] = IF p = d THEN ApplyEvent(reg[d], e) ELSE reg[p]
    BY <1>1, <2>1
  <2>4. \A p \in Device : BanKept(reg'[p])
    BY <2>2, <2>3 DEF AllBansKept
  <2> QED
    BY <2>4 DEF AllBansKept, BanKept
<1>2. ASSUME reg' = reg
      PROVE  AllBansKept'
  BY <1>2 DEF AllBansKept, BanKept
<1>3. ASSUME NEW d \in Device, NEW e \in Event, Author(d, e)
      PROVE  reg' = [reg EXCEPT ![d] = ApplyEvent(@, e)]
  BY <1>3 DEF Author, CreateRoom, SendMessage, MembershipEvent, Commit, Withhold, Sign
<1>4. ASSUME NEW d \in Device, NEW e \in Event, IngestRemote(d, e)
      PROVE  reg' = [reg EXCEPT ![d] = ApplyEvent(@, e)] \/ reg' = reg
  <2>1. CASE KindOf[e] = "message"
    BY <1>4, <2>1 DEF IngestRemote, IInv, TypeOK
  <2>2. CASE KindOf[e] # "message"
    BY <1>4, <2>2 DEF IngestRemote
  <2> QED
    BY <2>1, <2>2
<1>5. ASSUME NEW d \in Device, Restart(d)
      PROVE  AllBansKept'
  <2>1. BanKept(NoRoom)
    BY EmptyIsSound DEF BanKept
  <2>2. \A p \in Device : reg'[p] \in {reg[p], NoRoom}
    BY <1>5 DEF Restart, IInv, TypeOK
  <2>3. \A p \in Device : BanKept(reg'[p])
    BY <2>1, <2>2 DEF AllBansKept
  <2> QED
    BY <2>3 DEF AllBansKept, BanKept
<1> QED
  BY <1>1, <1>2, <1>3, <1>4, <1>5 DEF Next, Load, LoadDone, vars

\* apply_event, in whatever order ingest_remote and load_from_data_dir call it:
\* whoever is banned by an event of the DAG is banned, or has left.
THEOREM BansHold == Spec => []BanHolds
<1>1. Init => AllBansKept
  BY EmptyIsSound DEF Init, AllBansKept, BanKept
<1>2. AllBansKept => BanHolds
  BY DEF AllBansKept, BanKept, BanHolds
<1> QED
  BY <1>1, <1>2, InitIInv, NextIInv, NextBan, PTL DEF Spec
=============================================================================
