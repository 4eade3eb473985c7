-------------------------- MODULE DeviceNodeProofs --------------------------
(***************************************************************************)
(* Proofs about DeviceNode for every universe of events, every number of   *)
(* store faults and every number of crashes.                               *)
(***************************************************************************)
EXTENDS DeviceNode, FiniteSetTheorems, TLAPS

\* What a queue holds after a push.
LEMMA RangeAppend ==
    ASSUME NEW S, NEW s \in Seq(S), NEW a \in S
    PROVE  Append(s, a) \in Seq(S) /\ Range(Append(s, a)) = Range(s) \cup {a}
<1>1. Append(s, a) \in Seq(S) /\ Len(Append(s, a)) = Len(s) + 1
  OBVIOUS
<1>2. \A i \in 1..Len(s) : Append(s, a)[i] = s[i]
  OBVIOUS
<1>3. Append(s, a)[Len(s) + 1] = a
  OBVIOUS
<1>4. DOMAIN s = 1..Len(s) /\ DOMAIN Append(s, a) = 1..(Len(s) + 1)
  OBVIOUS
<1> QED
  BY <1>1, <1>2, <1>3, <1>4 DEF Range

\* What a queue holds before and after a pop.
LEMMA RangeTail ==
    ASSUME NEW S, NEW s \in Seq(S), s # <<>>
    PROVE  /\ Head(s) \in S
           /\ Tail(s) \in Seq(S)
           /\ Range(s) = {Head(s)} \cup Range(Tail(s))
<1>1. Head(s) = s[1] /\ Head(s) \in S /\ Tail(s) \in Seq(S) /\ Len(Tail(s)) = Len(s) - 1
  OBVIOUS
<1>2. \A i \in 1..(Len(s) - 1) : Tail(s)[i] = s[i + 1]
  OBVIOUS
<1>3. DOMAIN s = 1..Len(s) /\ DOMAIN Tail(s) = 1..(Len(s) - 1) /\ Len(s) \in Nat \ {0}
  OBVIOUS
<1>4. Range(s) \subseteq {Head(s)} \cup Range(Tail(s))
  <2> SUFFICES ASSUME NEW i \in 1..Len(s), i # 1
               PROVE  s[i] \in Range(Tail(s))
    BY <1>1, <1>3 DEF Range
  <2>1. i - 1 \in 1..(Len(s) - 1) /\ Tail(s)[i - 1] = s[i]
    BY <1>2, <1>3
  <2> QED
    BY <1>3, <2>1 DEF Range
<1>5. {Head(s)} \cup Range(Tail(s)) \subseteq Range(s)
  BY <1>1, <1>2, <1>3 DEF Range
<1> QED
  BY <1>1, <1>4, <1>5

LEMMA RangeEmpty == Range(<<>>) = {}
  BY DEF Range
-----------------------------------------------------------------------------
\* Every variable has the type of the Rust field or local it stands for.
THEOREM TypeCorrect == Spec => []TypeOK
<1> USE FieldsAssumption, NodeAssumption
<1>1. Init => TypeOK
  BY DEF Init, TypeOK, EmptyDags, Draining
<1>2. TypeOK /\ [Next]_vars => TypeOK'
  <2> SUFFICES ASSUME TypeOK, [Next]_vars
               PROVE  TypeOK'
    OBVIOUS
  <2> USE DEF TypeOK, Draining, Idle, memory, frame, history, bounds
  <2>1. ASSUME NEW e \in Event, CommitLocal(e)
        PROVE  TypeOK'
    <3>1. CASE IngestAdmit(e, TRUE)
      BY <2>1, <3>1 DEF CommitLocal, IngestAdmit, InsertInMemory
    <3>2. CASE IngestPutFails(e)
      BY <2>1, <3>2 DEF CommitLocal, IngestPutFails, InsertInMemory, StoreRefuses
    <3> QED
      BY <2>1, <3>1, <3>2 DEF CommitLocal
  <2>2. ASSUME NEW e \in Event, CommitRemote(e)
        PROVE  TypeOK'
    <3>1. CASE IngestKnown(e)
      BY <2>2, <3>1 DEF CommitRemote, IngestKnown
    <3>2. CASE IngestPark(e)
      BY <2>2, <3>2 DEF CommitRemote, IngestPark
    <3>3. CASE IngestReject(e)
      BY <2>2, <3>3 DEF CommitRemote, IngestReject
    <3>4. CASE IngestAdmit(e, FALSE)
      BY <2>2, <3>4 DEF CommitRemote, IngestAdmit, InsertInMemory
    <3>5. CASE IngestPutFails(e)
      BY <2>2, <3>5 DEF CommitRemote, IngestPutFails, InsertInMemory, StoreRefuses
    <3> QED
      BY <2>2, <3>1, <3>2, <3>3, <3>4, <3>5 DEF CommitRemote
  <2>3. CASE PopOutbox
    BY <2>3 DEF PopOutbox
  <2>4. CASE Restart
    BY <2>4 DEF Restart
  <2>5. CASE ReplayDone
    BY <2>5 DEF ReplayDone
  <2>6. ASSUME NEW e \in todo, Replay(e)
        PROVE  TypeOK'
    <3>1. CASE IngestKnown(e)
      BY <2>6, <3>1 DEF Replay, IngestKnown
    <3>2. CASE IngestPark(e)
      BY <2>6, <3>2 DEF Replay, IngestPark
    <3>3. CASE IngestAdmit(e, FALSE)
      BY <2>6, <3>3 DEF Replay, IngestAdmit, InsertInMemory
    <3> QED
      BY <2>6, <3>1, <3>2, <3>3 DEF Replay
  <2>7. ASSUME NEW e \in todo, ReplayFails(e)
        PROVE  TypeOK'
    BY <2>7 DEF ReplayFails, ErrorExit, StoreRefuses, Forget, EmptyDags
  <2>8. CASE Crash
    BY <2>8 DEF Crash, Forget, EmptyDags
  <2>9. CASE Drain
    <3>1. CASE DrainSkip
      BY <3>1 DEF DrainSkip
    <3>2. CASE DrainKeep
      BY <3>2, RangeTail DEF DrainKeep
    <3>3. CASE DrainAdmit
      BY <3>3, RangeTail DEF DrainAdmit, InsertInMemory
    <3>4. CASE DrainReject
      BY <3>4, RangeTail DEF DrainReject, DrainError
    <3>5. CASE DrainPutFails
      BY <3>5, RangeTail DEF DrainPutFails, DrainError, InsertInMemory, StoreRefuses
    <3>6. CASE DrainFailsReplay
      BY <3>6 DEF DrainFailsReplay, ErrorExit, StoreRefuses, Forget, EmptyDags
    <3>7. CASE DrainPass
      BY <3>7 DEF DrainPass
    <3> QED
      BY <2>9, <3>1, <3>2, <3>3, <3>4, <3>5, <3>6, <3>7 DEF Drain
  <2>10. CASE UNCHANGED vars
    BY <2>10 DEF vars
  <2> QED
    BY <2>1, <2>2, <2>3, <2>4, <2>5, <2>6, <2>7, <2>8, <2>9, <2>10 DEF Next, ReplayStep
<1> QED
  BY <1>1, <1>2, PTL DEF Spec
-----------------------------------------------------------------------------
(***************************************************************************)
(* The inductive invariant.  LogInv is about what is in memory, FrameInv   *)
(* about the shape of the running call, QueueInv about the events that     *)
(* wait, StoreInv about the rows of the store.                             *)
(***************************************************************************)
DagsAgree == \A r \in Room : dags[r] = {e \in events : RoomOf[e] = r}

SameRoom ==
    \A e \in events \cup durable : \A p \in ParentsOf[e] : RoomOf[p] = RoomOf[e]

LogInv == ParentClosed(events) /\ DagsAgree /\ SameRoom

FrameInv ==
    /\ ctx # "replay" => todo = {}
    /\ ctx = "down" => events = {} /\ inbox = <<>> /\ drain = "off"
    /\ ctx = "replay" => drain # "cut"
    /\ ~Draining => rest = <<>>

\* During a replay every row is accepted, waiting or still to be read.
ReplayCover ==
    ctx = "replay" =>
        events \cup Range(inbox) \cup Range(rest) \cup todo = durable

\* Outside drain_inbox the inbox is blocked; inside, the events this pass put
\* back are blocked unless the pass has made progress since.
QueueInv ==
    /\ drain = "off" => \A e \in Range(inbox) : ~ParentsKnown(e)
    /\ drain = "pass" => \A e \in Range(rest) : ~ParentsKnown(e)

StoreInv ==
    /\ faults = 0 => ParentClosed(durable)
    /\ faults = 0 /\ ctx = "up" => events = durable

AckInv ==
    /\ acked \subseteq durable
    /\ Draining => current \in durable

IInv == /\ TypeOK /\ LogInv /\ FrameInv /\ ReplayCover /\ QueueInv
        /\ StoreInv /\ AckInv /\ OutboxIsOwn
-----------------------------------------------------------------------------
(***************************************************************************)
(* What a step can do to the log and the store.                            *)
(***************************************************************************)
Fits(e) == e \notin events /\ ParentsKnown(e) /\ DagAccepts(e)

StableStep(e) ==
    /\ Fits(e) /\ InsertInMemory(e)
    /\ ctx = "up" \/ (ctx = "replay" /\ e \in durable)
    /\ durable' = durable \cup {e}
    /\ UNCHANGED <<ctx, faults>>

VolatileStep(e) ==
    /\ Fits(e) /\ InsertInMemory(e)
    /\ ctx = "up"
    /\ faults' = faults + 1
    /\ UNCHANGED <<ctx, durable>>

ForgetStep ==
    /\ ctx \in {"replay", "up"} /\ ctx' = "down"
    /\ events' = {} /\ dags' = EmptyDags
    /\ faults' = faults \/ faults' = faults + 1
    /\ UNCHANGED durable

QuietStep ==
    /\ UNCHANGED <<events, dags, durable, faults>>
    /\ \/ UNCHANGED ctx
       \/ ctx = "down" /\ ctx' = "replay"
       \/ ReplayDone

\* Every step adds one fitting event, forgets all of memory, or leaves the
\* log and the store alone.
LEMMA StepEffect ==
    ASSUME TypeOK, FrameInv, ReplayCover, [Next]_vars
    PROVE  \/ \E e \in Event : StableStep(e) \/ VolatileStep(e)
           \/ ForgetStep
           \/ QuietStep
<1> USE DEF memory, frame, history, bounds, Draining, Idle, Fits
<1>1. ASSUME NEW e \in Event, CommitLocal(e) \/ CommitRemote(e)
      PROVE  StableStep(e) \/ VolatileStep(e) \/ QuietStep
  <2> DEFINE admit == /\ Fits(e) /\ InsertInMemory(e)
                      /\ durable' = durable \cup {e}
                      /\ UNCHANGED <<ctx, faults>>
  <2>0. ctx = "up"
    BY <1>1 DEF CommitLocal, CommitRemote
  <2>1. CASE IngestAdmit(e, TRUE) \/ IngestAdmit(e, FALSE)
    <3>1. IngestAdmit(e, TRUE) => admit
      BY DEF IngestAdmit
    <3>2. IngestAdmit(e, FALSE) => admit
      BY DEF IngestAdmit
    <3>3. admit
      BY <2>1, <3>1, <3>2
    <3> QED
      BY <2>0, <3>3 DEF StableStep
  <2>2. CASE IngestPutFails(e)
    BY <1>1, <2>2 DEF CommitLocal, CommitRemote, IngestPutFails, StoreRefuses, VolatileStep
  <2>3. CASE IngestKnown(e) \/ IngestPark(e) \/ IngestReject(e)
    BY <1>1, <2>3 DEF IngestKnown, IngestPark, IngestReject, QuietStep
  <2> QED
    BY <1>1, <2>1, <2>2, <2>3 DEF CommitLocal, CommitRemote
<1>2. ASSUME NEW e \in todo, Replay(e)
      PROVE  StableStep(e) \/ QuietStep
  BY <1>2 DEF Replay, IngestKnown, IngestPark, IngestAdmit, StableStep, QuietStep, ReplayCover
<1>3. ASSUME NEW e \in todo, ReplayFails(e)
      PROVE  ForgetStep
  BY <1>3 DEF ReplayFails, ErrorExit, StoreRefuses, Forget, ForgetStep
<1>4. CASE ReplayDone
  BY <1>4 DEF ReplayDone, QuietStep
<1>5. CASE PopOutbox \/ Restart \/ UNCHANGED vars
  BY <1>5 DEF PopOutbox, Restart, vars, QuietStep
<1>6. CASE Crash
  BY <1>6 DEF Crash, Forget, ForgetStep, TypeOK
<1>7. CASE Drain
  <2> DEFINE h == Head(inbox)
  <2>1. inbox # <<>> => h \in Event
    BY RangeTail DEF TypeOK
  <2>2. Draining => ctx \in {"replay", "up"}
    BY DEF FrameInv, TypeOK
  <2>3. CASE DrainSkip \/ DrainKeep \/ DrainReject \/ DrainPass
    BY <2>3 DEF DrainSkip, DrainKeep, DrainReject, DrainError, DrainPass, QuietStep
  <2>4. CASE DrainAdmit
    <3>1. Head(inbox) \in Range(inbox)
      BY <2>4, RangeTail DEF DrainAdmit, TypeOK
    <3>2. ctx = "up" \/ (ctx = "replay" /\ h \in durable)
      BY <2>2, <2>4, <3>1 DEF DrainAdmit, ReplayCover
    <3>3. /\ Fits(h) /\ InsertInMemory(h)
          /\ durable' = durable \cup {h}
          /\ UNCHANGED <<ctx, faults>>
      BY <2>4 DEF DrainAdmit
    <3>4. StableStep(h)
      BY <3>2, <3>3 DEF StableStep
    <3> QED
      BY <2>1, <2>4, <3>4 DEF DrainAdmit
  <2>5. CASE DrainPutFails
    <3>1. VolatileStep(h)
      BY <2>5 DEF DrainPutFails, DrainError, StoreRefuses, VolatileStep
    <3> QED
      BY <2>1, <2>5, <3>1 DEF DrainPutFails
  <2>6. CASE DrainFailsReplay
    BY <2>6 DEF DrainFailsReplay, ErrorExit, StoreRefuses, Forget, ForgetStep
  <2> QED
    BY <1>7, <2>3, <2>4, <2>5, <2>6 DEF Drain
<1> QED
  BY <1>1, <1>2, <1>3, <1>4, <1>5, <1>6, <1>7 DEF Next, ReplayStep, TypeOK

\* An event that fits keeps the log causally complete and the DAGs in step.
LEMMA LogInvInsert ==
    ASSUME NEW e \in Event, TypeOK, LogInv, Fits(e), InsertInMemory(e),
           durable' \in {durable, durable \cup {e}}
    PROVE  LogInv'
<1> USE FieldsAssumption DEF TypeOK, LogInv, Fits, InsertInMemory
<1>1. ParentClosed(events)'
  BY DEF ParentClosed, ParentsKnown
<1>2. DagsAgree'
  BY DEF DagsAgree
<1>3. \A p \in ParentsOf[e] : RoomOf[p] = RoomOf[e]
  BY DEF DagAccepts, DagsAgree
<1>4. SameRoom'
  BY <1>3 DEF SameRoom
<1> QED
  BY <1>1, <1>2, <1>4

LEMMA LogInvStep ==
    ASSUME TypeOK, LogInv, FrameInv, ReplayCover, [Next]_vars
    PROVE  LogInv'
<1>1. ASSUME NEW e \in Event, StableStep(e) \/ VolatileStep(e)
      PROVE  LogInv'
  BY <1>1, LogInvInsert DEF StableStep, VolatileStep
<1>2. CASE ForgetStep
  BY <1>2, FieldsAssumption DEF ForgetStep, EmptyDags, LogInv, ParentClosed, DagsAgree, SameRoom
<1>3. CASE QuietStep
  BY <1>3 DEF QuietStep, LogInv, ParentClosed, DagsAgree, SameRoom
<1> QED
  BY <1>1, <1>2, <1>3, StepEffect
-----------------------------------------------------------------------------
(***************************************************************************)
(* The queues.                                                             *)
(***************************************************************************)
QueueParts == FrameInv /\ ReplayCover /\ QueueInv

\* A quiet exit of ingest_event keeps the queues in order.
LEMMA QueueIngestQuiet ==
    ASSUME TypeOK, QueueParts, NEW e \in Event,
           IngestKnown(e) \/ IngestPark(e) \/ IngestReject(e),
           \/ ctx = "up" /\ UNCHANGED todo
           \/ ctx = "replay" /\ e \in todo /\ todo' = todo \ {e} /\ ~IngestReject(e),
           ~Draining
    PROVE  QueueParts'
<1> USE DEF QueueParts, TypeOK, FrameInv, ReplayCover, QueueInv, Draining, ParentsKnown,
            memory
<1>1. CASE IngestPark(e)
  <2>1. Range(inbox') = Range(inbox) \cup {e}
    BY <1>1, RangeAppend DEF IngestPark
  <2> QED
    BY <1>1, <2>1 DEF IngestPark
<1>2. CASE IngestKnown(e)
  BY <1>2 DEF IngestKnown
<1>3. CASE IngestReject(e)
  BY <1>3 DEF IngestReject
<1> QED
  BY <1>1, <1>2, <1>3

\* Entering drain_inbox.
LEMMA QueueIngestAdmit ==
    ASSUME TypeOK, QueueParts, NEW e \in Event,
           IngestAdmit(e, TRUE) \/ IngestAdmit(e, FALSE),
           \/ ctx = "up" /\ UNCHANGED todo
           \/ ctx = "replay" /\ e \in todo /\ todo' = todo \ {e},
           ~Draining
    PROVE  QueueParts'
  BY RangeEmpty DEF QueueParts, TypeOK, FrameInv, ReplayCover, QueueInv, Draining,
     IngestAdmit, InsertInMemory

\* The iterations of drain_inbox.
LEMMA QueueDrain ==
    ASSUME TypeOK, QueueParts, Drain
    PROVE  QueueParts'
<1> USE DEF QueueParts, TypeOK, FrameInv, ReplayCover, QueueInv, Draining,
            memory, frame, history, bounds
<1>1. CASE DrainSkip
  <2>1. Range(inbox) = {Head(inbox)} \cup Range(inbox')
    BY <1>1, RangeTail DEF DrainSkip
  <2> QED
    BY <1>1, <2>1 DEF DrainSkip, ParentsKnown
<1>2. CASE DrainKeep
  <2>1. Range(inbox) = {Head(inbox)} \cup Range(inbox') /\ Head(inbox) \in Event
    BY <1>2, RangeTail DEF DrainKeep
  <2>2. Range(rest') = Range(rest) \cup {Head(inbox)}
    BY <1>2, <2>1, RangeAppend DEF DrainKeep
  <2> QED
    BY <1>2, <2>1, <2>2 DEF DrainKeep, ParentsKnown
<1>3. CASE DrainAdmit
  <2>1. Range(inbox) = {Head(inbox)} \cup Range(inbox')
    BY <1>3, RangeTail DEF DrainAdmit
  <2> QED
    BY <1>3, <2>1 DEF DrainAdmit, InsertInMemory
<1>4. CASE DrainReject
  BY <1>4 DEF DrainReject, DrainError
<1>5. CASE DrainPutFails
  BY <1>5 DEF DrainPutFails, DrainError
<1>6. CASE DrainFailsReplay
  BY <1>6, RangeEmpty DEF DrainFailsReplay, Forget
<1>7. CASE DrainPass
  BY <1>7, RangeEmpty DEF DrainPass, ParentsKnown
<1> QED
  BY <1>1, <1>2, <1>3, <1>4, <1>5, <1>6, <1>7 DEF Drain

LEMMA QueueStep ==
    ASSUME TypeOK, QueueParts, [Next]_vars
    PROVE  QueueParts'
<1> USE DEF memory, frame, history, bounds, Idle
<1>1. ASSUME NEW e \in Event, CommitLocal(e) \/ CommitRemote(e)
      PROVE  QueueParts'
  <2>1. CASE IngestPutFails(e)
    BY <1>1, <2>1 DEF CommitLocal, CommitRemote, IngestPutFails, QueueParts, TypeOK,
       FrameInv, ReplayCover, QueueInv, Draining
  <2>2. CASE ~IngestPutFails(e)
    BY <1>1, <2>2, QueueIngestQuiet, QueueIngestAdmit DEF CommitLocal, CommitRemote
  <2> QED
    BY <2>1, <2>2
<1>2. ASSUME NEW e \in todo, Replay(e)
      PROVE  QueueParts'
  <2>1. e \in Event
    BY DEF TypeOK
  <2>2. IngestKnown(e) \/ IngestPark(e) => ~IngestReject(e)
    BY DEF IngestKnown, IngestPark, IngestReject
  <2> QED
    BY <1>2, <2>1, <2>2, QueueIngestQuiet, QueueIngestAdmit DEF Replay
<1>3. ASSUME NEW e \in todo, ReplayFails(e)
      PROVE  QueueParts'
  BY <1>3, RangeEmpty DEF ReplayFails, Forget, QueueParts, FrameInv, ReplayCover, QueueInv,
     Draining
<1>4. CASE Crash
  BY <1>4, RangeEmpty DEF Crash, Forget, QueueParts, FrameInv, ReplayCover, QueueInv, Draining
<1>5. CASE Drain
  BY <1>5, QueueDrain
<1>6. CASE Restart
  BY <1>6, RangeEmpty DEF Restart, QueueParts, FrameInv, ReplayCover, QueueInv, Draining,
     ParentsKnown
<1>7. CASE ReplayDone \/ PopOutbox \/ UNCHANGED vars
  BY <1>7 DEF ReplayDone, PopOutbox, vars, QueueParts, FrameInv, ReplayCover, QueueInv,
     Draining, ParentsKnown
<1> QED
  BY <1>1, <1>2, <1>3, <1>4, <1>5, <1>6, <1>7 DEF Next, ReplayStep
-----------------------------------------------------------------------------
(***************************************************************************)
(* Recovery.                                                               *)
(***************************************************************************)

\* A parent-closed set of accepted and waiting events that is not accepted
\* altogether would contain an event with no unaccepted parent, which cannot
\* be waiting.
LEMMA CoreIsAccepted ==
    ASSUME TypeOK, LogInv, QueueInv, drain = "off"
    PROVE  events = CausalCore(events \cup Range(inbox))
<1> DEFINE held == events \cup Range(inbox)
<1>1. events \subseteq CausalCore(held)
  BY DEF CausalCore, LogInv
<1>2. ASSUME NEW C \in SUBSET held, ParentClosed(C)
      PROVE  C \subseteq events
  <2> SUFFICES ASSUME C \ events # {}
               PROVE  FALSE
    OBVIOUS
  <2>1. C \ events \in SUBSET Event
    BY DEF TypeOK, Range
  <2>2. PICK e \in C \ events : ParentsOf[e] \cap (C \ events) = {}
    BY <2>1, AcyclicAssumption
  <2>3. ParentsOf[e] \subseteq events
    BY <1>2, <2>2 DEF ParentClosed
  <2>4. e \in Range(inbox)
    BY <2>2
  <2> QED
    BY <2>3, <2>4 DEF QueueInv, ParentsKnown
<1> QED
  BY <1>1, <1>2 DEF CausalCore

\* At the end of a replay the accepted and waiting events are the rows.
LEMMA ReplayIsComplete ==
    ASSUME TypeOK, LogInv, FrameInv, ReplayCover, QueueInv
    PROVE  RecoveryComplete
<1> SUFFICES ASSUME ctx = "replay", ~Draining, todo = {}
             PROVE  events = CausalCore(durable)
  BY DEF RecoveryComplete
<1>1. rest = <<>> /\ drain = "off"
  BY DEF FrameInv, Draining, TypeOK
<1>2. durable = events \cup Range(inbox)
  BY <1>1, RangeEmpty DEF ReplayCover
<1> QED
  BY <1>1, <1>2, CoreIsAccepted

LEMMA StoreStep ==
    ASSUME TypeOK, LogInv, FrameInv, ReplayCover, QueueInv, StoreInv, [Next]_vars
    PROVE  StoreInv'
<1> USE NodeAssumption DEF StoreInv, TypeOK
<1>1. ASSUME NEW e \in Event, StableStep(e)
      PROVE  StoreInv'
  <2>1. events \subseteq durable \/ faults # 0
    BY <1>1 DEF StableStep, ReplayCover
  <2>2. ParentClosed(durable)' \/ faults' # 0
    BY <1>1, <2>1 DEF StableStep, Fits, ParentsKnown, ParentClosed
  <2> QED
    BY <1>1, <2>2 DEF StableStep, InsertInMemory
<1>2. ASSUME NEW e \in Event, VolatileStep(e)
      PROVE  StoreInv'
  BY <1>2 DEF VolatileStep
<1>3. CASE ForgetStep
  BY <1>3 DEF ForgetStep, ParentClosed
<1>4. CASE QuietStep
  <2>1. CASE ReplayDone
    BY <1>4, <2>1, ReplayIsComplete DEF QuietStep, ReplayDone, RecoveryComplete,
       CausalCore, ParentClosed
  <2> QED
    BY <1>4, <2>1 DEF QuietStep, ParentClosed
<1> QED
  BY <1>1, <1>2, <1>3, <1>4, StepEffect

LEMMA AckStep ==
    ASSUME TypeOK, FrameInv, AckInv, [Next]_vars
    PROVE  AckInv'
<1> USE DEF AckInv, TypeOK, Draining, Idle, memory, frame, history, bounds
<1>1. ASSUME NEW e \in Event, CommitLocal(e) \/ CommitRemote(e)
      PROVE  AckInv'
  BY <1>1 DEF CommitLocal, CommitRemote, IngestKnown, IngestPark, IngestReject,
     IngestAdmit, IngestPutFails
<1>2. ASSUME NEW e \in todo, Replay(e)
      PROVE  AckInv'
  BY <1>2 DEF Replay, IngestKnown, IngestPark, IngestAdmit
<1>3. ASSUME NEW e \in todo, ReplayFails(e)
      PROVE  AckInv'
  BY <1>3 DEF ReplayFails, Forget
<1>4. CASE Drain
  BY <1>4 DEF Drain, DrainSkip, DrainKeep, DrainAdmit, DrainReject, DrainPutFails, DrainError,
     DrainFailsReplay, Forget, DrainPass
<1>5. CASE ReplayDone \/ PopOutbox \/ Restart \/ UNCHANGED vars
  BY <1>5 DEF ReplayDone, PopOutbox, Restart, vars
<1>6. CASE Crash
  BY <1>6 DEF Crash, Forget
<1> QED
  BY <1>1, <1>2, <1>3, <1>4, <1>5, <1>6 DEF Next, ReplayStep

\* The outbox changes by a push of a fresh own event, a pop or a crash.
LEMMA OutboxStep ==
    ASSUME TypeOK, OutboxIsOwn, [Next]_vars
    PROVE  OutboxIsOwn'
<1> USE DEF TypeOK, memory, frame, history, bounds
<1> DEFINE Kept   == UNCHANGED outbox /\ minted \subseteq minted' /\ durable \subseteq durable'
           Popped == outbox # <<>> /\ outbox' = Tail(outbox) /\ UNCHANGED <<minted, durable>>
           Pushed(e) == /\ e \notin minted /\ outbox' = Append(outbox, e)
                        /\ minted' = minted \cup {e} /\ durable' = durable \cup {e}
<1>1. Kept \/ outbox' = <<>> \/ Popped \/ \E e \in Event : Pushed(e)
  <2>1. ASSUME NEW e \in Event, CommitLocal(e)
        PROVE  Kept \/ Pushed(e)
    BY <2>1 DEF CommitLocal, IngestAdmit, IngestPutFails
  <2>2. ASSUME NEW e \in Event, CommitRemote(e)
        PROVE  Kept
    BY <2>2 DEF CommitRemote, IngestKnown, IngestPark, IngestReject, IngestAdmit, IngestPutFails
  <2>3. ASSUME NEW e \in todo, Replay(e)
        PROVE  Kept
    BY <2>3 DEF Replay, IngestKnown, IngestPark, IngestAdmit
  <2>4. ASSUME NEW e \in todo, ReplayFails(e)
        PROVE  outbox' = <<>>
    BY <2>4 DEF ReplayFails, Forget
  <2>5. CASE Drain
    BY <2>5 DEF Drain, DrainSkip, DrainKeep, DrainAdmit, DrainReject, DrainPutFails, DrainError,
       DrainFailsReplay, Forget, DrainPass
  <2>6. CASE ReplayDone \/ PopOutbox \/ Restart \/ Crash \/ UNCHANGED vars
    BY <2>6 DEF ReplayDone, PopOutbox, Restart, Crash, Forget, vars
  <2> HIDE DEF Kept, Popped, Pushed
  <2> QED
    BY <2>1, <2>2, <2>3, <2>4, <2>5, <2>6 DEF Next, ReplayStep
<1>2. CASE Kept
  BY <1>2 DEF OutboxIsOwn
<1>3. CASE outbox' = <<>>
  BY <1>3, RangeEmpty DEF OutboxIsOwn
<1>4. CASE Popped
  <2>1. Range(outbox) = {Head(outbox)} \cup Range(outbox')
    BY <1>4, RangeTail
  <2>2. Len(outbox') = Len(outbox) - 1 /\ Len(outbox) \in Nat
    BY <1>4
  <2>3. \A i \in 1..Len(outbox') : i + 1 \in 1..Len(outbox) /\ outbox'[i] = outbox[i + 1]
    BY <1>4, <2>2
  <2>4. ASSUME NEW i \in 1..Len(outbox'), NEW j \in 1..Len(outbox'), outbox'[i] = outbox'[j]
        PROVE  i = j
    <3>1. outbox[i + 1] = outbox[j + 1] /\ i + 1 \in 1..Len(outbox) /\ j + 1 \in 1..Len(outbox)
      BY <2>3, <2>4
    <3> QED
      BY <2>2, <3>1 DEF OutboxIsOwn
  <2> QED
    BY <1>4, <2>1, <2>4 DEF OutboxIsOwn
<1>5. ASSUME NEW e \in Event, e \notin minted, outbox' = Append(outbox, e),
             minted' = minted \cup {e}, durable' = durable \cup {e}
      PROVE  OutboxIsOwn'
  <2>1. Range(outbox') = Range(outbox) \cup {e} /\ e \notin Range(outbox)
    BY <1>5, RangeAppend DEF OutboxIsOwn
  <2>2. Len(outbox') = Len(outbox) + 1 /\ Len(outbox) \in Nat /\ outbox'[Len(outbox) + 1] = e
    BY <1>5
  <2>3. \A i \in 1..Len(outbox) : outbox'[i] = outbox[i] /\ outbox[i] # e
    BY <1>5, <2>1 DEF Range
  <2>4. ASSUME NEW i \in 1..Len(outbox'), NEW j \in 1..Len(outbox'), outbox'[i] = outbox'[j]
        PROVE  i = j
    BY <2>2, <2>3, <2>4 DEF OutboxIsOwn
  <2> QED
    BY <1>5, <2>1, <2>4 DEF OutboxIsOwn
<1> QED
  BY <1>1, <1>2, <1>3, <1>4, <1>5
-----------------------------------------------------------------------------
LEMMA InitIInv == Init => IInv
<1> SUFFICES ASSUME Init
             PROVE  IInv
  OBVIOUS
<1> USE FieldsAssumption, NodeAssumption, RangeEmpty DEF Init
<1>1. TypeOK
  BY DEF TypeOK, EmptyDags, Draining
<1>2. LogInv /\ FrameInv /\ ReplayCover /\ QueueInv
  BY DEF LogInv, ParentClosed, DagsAgree, SameRoom, EmptyDags, FrameInv, ReplayCover, QueueInv,
     Draining
<1>3. StoreInv /\ AckInv /\ OutboxIsOwn
  BY DEF StoreInv, ParentClosed, AckInv, Draining, OutboxIsOwn
<1> QED
  BY <1>1, <1>2, <1>3 DEF IInv

LEMMA NextIInv == IInv /\ TypeOK' /\ [Next]_vars => IInv'
<1> SUFFICES ASSUME IInv, TypeOK', [Next]_vars
             PROVE  IInv'
  OBVIOUS
<1>1. LogInv'
  BY LogInvStep DEF IInv
<1>2. FrameInv' /\ ReplayCover' /\ QueueInv'
  BY QueueStep DEF IInv, QueueParts
<1>3. StoreInv' /\ AckInv' /\ OutboxIsOwn'
  BY StoreStep, AckStep, OutboxStep DEF IInv
<1> QED
  BY <1>1, <1>2, <1>3 DEF IInv

\* The inductive invariant holds of every reachable state.
THEOREM Invariance == Spec => []IInv
  BY InitIInv, NextIInv, TypeCorrect, PTL DEF Spec

LEMMA IInvImplies ==
    IInv => /\ CausallyComplete /\ ParkedAreBlocked /\ RecoveryComplete
            /\ AckedAreDurable /\ StoreIsCausal /\ OutboxIsOwn /\ ReplayNeverRejects
<1> SUFFICES ASSUME IInv
             PROVE  /\ CausallyComplete /\ ParkedAreBlocked /\ RecoveryComplete
                    /\ AckedAreDurable /\ StoreIsCausal /\ OutboxIsOwn /\ ReplayNeverRejects
  OBVIOUS
<1> USE FieldsAssumption DEF IInv, TypeOK
<1>1. CausallyComplete
  BY DEF CausallyComplete, LogInv, ParentClosed, DagsAgree, SameRoom
<1>2. ParkedAreBlocked
  BY DEF ParkedAreBlocked, QueueInv
<1>3. RecoveryComplete
  BY ReplayIsComplete
<1>4. AckedAreDurable /\ StoreIsCausal
  BY DEF AckedAreDurable, AckInv, StoreIsCausal, StoreInv
<1>5. ReplayNeverRejects
  BY DEF ReplayNeverRejects, ReplayCover, LogInv, DagsAgree, SameRoom, ParentsKnown, DagAccepts
<1> QED
  BY <1>1, <1>2, <1>3, <1>4, <1>5

\* At every moment, also between two iterations of drain_inbox and during a
\* replay, an accepted event has its parents accepted in the DAG of its room.
THEOREM LogIsCausallyComplete == Spec => []CausallyComplete
  BY Invariance, IInvImplies, PTL

\* When a call returns without error, drain_inbox has reached its fixed point.
THEOREM DrainReachesFixedPoint == Spec => []ParkedAreBlocked
  BY Invariance, IInvImplies, PTL

\* commit_remote and drain_inbox: whatever the order in which events arrived,
\* what the node shows after a call without error is the causal core of what
\* it holds.
THEOREM ArrivalOrderIsIrrelevant == Spec => []ShownIsCore
<1>1. IInv => ShownIsCore
  BY CoreIsAccepted DEF IInv, ShownIsCore
<1> QED
  BY <1>1, Invariance, PTL

\* with_sqlite accepts exactly the rows whose ancestors are all rows, in
\* whatever order list_all returns them.
THEOREM RecoveryIsComplete == Spec => []RecoveryComplete
  BY Invariance, IInvImplies, PTL

\* What commit_local or commit_remote acknowledged is in the store for good.
THEOREM AcknowledgedIsDurable == Spec => []AckedAreDurable
  BY Invariance, IInvImplies, PTL

\* While no write was refused, a crash at any point leaves a parent-closed
\* store.
THEOREM StoreStaysCausal == Spec => []StoreIsCausal
  BY Invariance, IInvImplies, PTL

\* The outbox holds each of this device's stored events at most once.
THEOREM OutboxIsSound == Spec => []OutboxIsOwn
  BY Invariance, IInvImplies, PTL

\* No row of the store can make with_sqlite return a DAG error.
THEOREM ReplayIsAccepted == Spec => []ReplayNeverRejects
  BY Invariance, IInvImplies, PTL

\* While no write was refused, every acknowledged event is served again after
\* any crash and restart.
THEOREM AcknowledgedIsServed == Spec => []AckedAreServed
<1>1. IInv => AckedAreServed
  BY DEF IInv, AckedAreServed, AckInv, StoreInv, Idle
<1> QED
  BY <1>1, Invariance, PTL

\* A parked event stays in memory until it is accepted, the process ends or
\* drain_inbox returns an error.
THEOREM ParkedIsNotLost == Spec => ParkedUntilError
<1>1. IInv /\ [Next]_vars
        => [ctx = "up" /\ ctx' = "up" =>
              \/ Range(inbox) \cup Range(rest)
                     \subseteq Range(inbox') \cup Range(rest') \cup events'
              \/ Draining /\ drain' = "cut"]_vars
  <2> DEFINE Waiting == Range(inbox) \cup Range(rest)
  <2> SUFFICES ASSUME IInv, [Next]_vars, ctx = "up", ctx' = "up",
                      ~(Draining /\ drain' = "cut")
               PROVE  Waiting \subseteq Waiting' \cup events'
    OBVIOUS
  <2> USE DEF memory, frame, history, bounds, IInv, TypeOK
  <2>1. ASSUME NEW e \in Event, CommitLocal(e) \/ CommitRemote(e)
        PROVE  Waiting \subseteq Waiting' \cup events'
    <3>1. CASE IngestPark(e)
      BY <3>1, RangeAppend DEF IngestPark
    <3>2. CASE ~IngestPark(e)
      <4>1. ~Draining /\ rest = <<>>
        BY <2>1 DEF CommitLocal, CommitRemote, Idle, FrameInv
      <4>2. UNCHANGED inbox
        BY <2>1, <3>2 DEF CommitLocal, CommitRemote, IngestKnown, IngestReject, IngestAdmit,
           IngestPutFails
      <4> QED
        BY <4>1, <4>2, RangeEmpty
    <3> QED
      BY <3>1, <3>2
  <2>2. CASE Drain
    <3>1. CASE DrainSkip
      BY <3>1, RangeTail DEF DrainSkip
    <3>2. CASE DrainKeep
      <4>1. Range(inbox) = {Head(inbox)} \cup Range(inbox') /\ Head(inbox) \in Event
        BY <3>2, RangeTail DEF DrainKeep
      <4>2. Range(rest') = Range(rest) \cup {Head(inbox)}
        BY <3>2, <4>1, RangeAppend DEF DrainKeep
      <4> QED
        BY <4>1, <4>2
    <3>3. CASE DrainAdmit
      BY <3>3, RangeTail DEF DrainAdmit, InsertInMemory
    <3>4. ~DrainReject /\ ~DrainPutFails
      BY DEF DrainReject, DrainPutFails, DrainError
    <3>5. CASE DrainPass
      BY <3>5, RangeEmpty DEF DrainPass
    <3>6. CASE DrainFailsReplay
      BY <3>6 DEF DrainFailsReplay
    <3> QED
      BY <2>2, <3>1, <3>2, <3>3, <3>4, <3>5, <3>6 DEF Drain
  <2>3. CASE PopOutbox \/ Restart \/ ReplayStep \/ Crash \/ UNCHANGED vars
    BY <2>3 DEF PopOutbox, Restart, ReplayStep, ReplayDone, Replay, ReplayFails, Crash, Forget,
       vars
  <2> QED
    BY <2>1, <2>2, <2>3 DEF Next
<1> QED
  BY <1>1, Invariance, PTL DEF Spec, ParkedUntilError
-----------------------------------------------------------------------------
(***************************************************************************)
(* DeviceNode implements CausalLog.                                        *)
(***************************************************************************)

\* Drain loop, parking, replay and crashes together implement a log that
\* grows parents first and recovers the causal core of its stable part in
\* one step.
THEOREM Refinement == Spec => ImplementsCausalLog
<1>1. Init => Log!CLInit
  BY DEF Init, Log!CLInit
<1>2. IInv /\ [Next]_vars => [Log!CLNext]_(Log!clVars)
  <2> SUFFICES ASSUME IInv, [Next]_vars
               PROVE  [Log!CLNext]_(Log!clVars)
    OBVIOUS
  <2> USE DEF Log!clVars
  <2>1. TypeOK /\ FrameInv /\ ReplayCover
    BY DEF IInv
  <2>2. ASSUME NEW e \in Event, StableStep(e)
        PROVE  [Log!CLNext]_(Log!clVars)
    <3>1. CASE ctx = "up"
      BY <2>2, <3>1 DEF StableStep, Fits, ParentsKnown, InsertInMemory, Log!CLNext, Log!Record
    <3>2. CASE ctx = "replay"
      BY <2>2, <3>2 DEF StableStep
    <3> QED
      BY <2>2, <3>1, <3>2 DEF StableStep
  <2>3. ASSUME NEW e \in Event, VolatileStep(e)
        PROVE  [Log!CLNext]_(Log!clVars)
    BY <2>3 DEF VolatileStep, Fits, ParentsKnown, InsertInMemory, Log!CLNext, Log!RecordVolatile
  <2>4. CASE ForgetStep
    BY <2>4 DEF ForgetStep, Log!CLNext, Log!Lose
  <2>5. CASE QuietStep
    <3>1. CASE ReplayDone
      <4>1. events = CausalCore(durable)
        BY <3>1, IInvImplies DEF ReplayDone, RecoveryComplete
      <4>2. CausalCore(durable) = Log!CausalCore(durable)
        BY DEF CausalCore, ParentClosed, Log!CausalCore, Log!ParentClosed
      <4> QED
        BY <2>5, <3>1, <4>1, <4>2 DEF QuietStep, ReplayDone, Log!CLNext, Log!Recover
    <3> QED
      BY <2>5, <3>1 DEF QuietStep
  <2> QED
    BY <2>1, <2>2, <2>3, <2>4, <2>5, StepEffect
<1> QED
  BY <1>1, <1>2, Invariance, PTL DEF Spec, ImplementsCausalLog, Log!CLSpec
=============================================================================
