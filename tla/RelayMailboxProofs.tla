------------------------- MODULE RelayMailboxProofs -------------------------
(***************************************************************************)
(* Theorems about RelayMailbox: the relay gives up an envelope only when   *)
(* the recipient holds its event or its store has refused it, and an event *)
(* written for a linked device stays on its way, for every number of       *)
(* devices, pushes, polls and events and for every batch, window and fetch *)
(* size.                                                                   *)
(***************************************************************************)
EXTENDS RelayMailbox, FiniteSetTheorems, SequenceTheorems, TLAPS

\* What a device keeps of the room, and that or what its store has refused.
Kept(r) == stored[r] \cup parked[r]
Held(r) == Kept(r) \cup refused[r]

Poll == [stage : {"idle", "open", "ingest"}, items : SUBSET Envelope,
         hand : Envelope \cup {None}, acks : SUBSET Envelope]

\* The locals c of a poll of r: it has fetched envelopes of r only, and what it
\* will acknowledge is stored, parked or refused.
PollSound(r, c) ==
    /\ \A v \in c.items : v.to = r /\ v.ev \in authored
    /\ c.stage = "ingest" => c.hand \in Envelope /\ c.hand.to = r /\ c.hand.ev \in authored
    /\ \A v \in c.acks : v.to = r /\ v.ev \in Held(r)

\* What a device has in memory only is refused, and nothing that is refused is
\* due; only events that were written come up.
NodeSound(r) ==
    /\ log[r] \subseteq stored[r] \cup refused[r]
    /\ log[r] \cap parked[r] = {}
    /\ Held(r) \subseteq authored \cup Known
    /\ \A d \in due : d[2] = r => d[1] \notin refused[r]

\* Only events that were written are pushed.
Written ==
    /\ ToSet(outbox) \subseteq authored
    /\ \A v \in Sealed \cup box : v.ev \in authored

\* Events are due to linked devices only: a push seals them for all of these.
DueLinked == \A d \in due : d[2] \in linked

RelayInv ==
    /\ TypeOK
    /\ Written
    /\ \A r \in Recipient : NodeSound(r)
    /\ \A r \in Recipient, q \in Poller : PollSound(r, poll[r][q])
    /\ DueLinked
    /\ PushedIsOnTheWay
-----------------------------------------------------------------------------
(***************************************************************************)
(* The outbox.                                                             *)
(***************************************************************************)
LEMMA AppendSet ==
    ASSUME NEW s \in Seq(Event), NEW e \in Event
    PROVE  ToSet(Append(s, e)) = ToSet(s) \cup {e} /\ Append(s, e) \in Seq(Event)
<1>1. PICK t : t = Append(s, e)
  OBVIOUS
<1>2. /\ Len(s) \in Nat /\ DOMAIN s = 1..Len(s) /\ t \in Seq(Event)
      /\ DOMAIN t = 1..(Len(s) + 1) /\ t[Len(s) + 1] = e
      /\ \A i \in 1..Len(s) : t[i] = s[i]
  BY <1>1
<1>3. ToSet(t) \subseteq ToSet(s) \cup {e}
  BY <1>2 DEF ToSet
<1>4. ToSet(s) \cup {e} \subseteq ToSet(t)
  <2>1. Len(s) + 1 \in DOMAIN t /\ \A i \in DOMAIN s : i \in DOMAIN t
    BY <1>2
  <2> QED
    BY <1>2, <2>1 DEF ToSet
<1> QED
  BY <1>1, <1>2, <1>3, <1>4

\* A batch and the rest make up the outbox.
LEMMA SplitSet ==
    ASSUME NEW s \in Seq(Event), NEW n \in 0..Len(s)
    PROVE  /\ ToSet(s) \subseteq ToSet(SubSeq(s, 1, n)) \cup ToSet(SubSeq(s, n + 1, Len(s)))
           /\ ToSet(SubSeq(s, 1, n)) \subseteq Event
           /\ SubSeq(s, n + 1, Len(s)) \in Seq(Event)
           /\ ToSet(SubSeq(s, 1, n)) \cup ToSet(SubSeq(s, n + 1, Len(s))) \subseteq ToSet(s)
<1>1. Len(s) \in Nat /\ n \in Nat /\ n <= Len(s) /\ DOMAIN s = 1..Len(s)
      /\ \A i \in 1..Len(s) : s[i] \in Event
  OBVIOUS
<1>2. PICK a, b : a = SubSeq(s, 1, n) /\ b = SubSeq(s, n + 1, Len(s))
  OBVIOUS
<1>3. a \in Seq(Event) /\ Len(a) = n /\ \A i \in 1..n : a[i] = s[i]
  <2>1. \A i \in 1..n : s[i] \in Event
    BY <1>1
  <2>2. /\ a \in Seq(Event) /\ Len(a) = (IF 1 <= n THEN n - 1 + 1 ELSE 0)
        /\ \A i \in 1..(n - 1 + 1) : a[i] = s[1 + i - 1]
    BY <1>1, <1>2, <2>1, SubSeqProperties
  <2> QED
    BY <1>1, <2>2
<1>4. b \in Seq(Event) /\ Len(b) = Len(s) - n /\ \A i \in 1..(Len(s) - n) : b[i] = s[n + i]
  <2>1. PICK k : k = Len(s)
    OBVIOUS
  <2>2. \A i \in (n + 1)..k : s[i] \in Event
    BY <1>1, <2>1
  <2>3. /\ b \in Seq(Event)
        /\ Len(b) = (IF n + 1 <= k THEN k - (n + 1) + 1 ELSE 0)
        /\ \A i \in 1..(k - (n + 1) + 1) : b[i] = s[(n + 1) + i - 1]
    BY <1>1, <1>2, <2>1, <2>2, SubSeqProperties
  <2>4. k \in Nat /\ n \in Nat /\ n <= k
    BY <1>1, <2>1
  <2>5. k - (n + 1) + 1 = k - n /\ (n + 1 > k => k - n = 0)
    BY <2>4
  <2>6. Len(b) = k - n
    BY <2>3, <2>4, <2>5
  <2>7. ASSUME NEW i \in 1..(k - n)
        PROVE  b[i] = s[n + i]
    <3>1. i \in Int /\ (n + 1) + i - 1 = n + i
      BY <2>4
    <3> QED
      BY <2>3, <2>5, <3>1
  <2> QED
    BY <2>1, <2>3, <2>6, <2>7
<1>5. ASSUME NEW x \in ToSet(s)
      PROVE  x \in ToSet(a) \cup ToSet(b)
  <2>1. PICK i \in 1..Len(s) : x = s[i]
    BY <1>1, <1>5 DEF ToSet
  <2>2. CASE i <= n
    <3>1. i \in DOMAIN a /\ a[i] = x
      BY <1>1, <1>3, <2>1, <2>2
    <3> QED
      BY <3>1 DEF ToSet
  <2>3. CASE i > n
    <3>1. i - n \in 1..(Len(s) - n) /\ n + (i - n) = i
      BY <1>1, <2>3
    <3>2. i - n \in DOMAIN b /\ b[i - n] = x
      BY <1>4, <2>1, <3>1
    <3> QED
      BY <3>2 DEF ToSet
  <2> QED
    BY <1>1, <2>1, <2>2, <2>3
<1>6. ToSet(a) \subseteq Event
  BY <1>3 DEF ToSet
<1>7. ToSet(a) \cup ToSet(b) \subseteq ToSet(s)
  <2>1. DOMAIN a = 1..n /\ DOMAIN b = 1..(Len(s) - n)
    BY <1>3, <1>4
  <2>2. \A i \in 1..n : i \in DOMAIN s
    BY <1>1
  <2>3. \A i \in 1..(Len(s) - n) : n + i \in DOMAIN s
    BY <1>1
  <2>4. \A i \in DOMAIN a : a[i] \in ToSet(s)
    BY <1>3, <2>1, <2>2 DEF ToSet
  <2>5. \A i \in DOMAIN b : b[i] \in ToSet(s)
    BY <1>4, <2>1, <2>3 DEF ToSet
  <2> QED
    BY <2>4, <2>5 DEF ToSet
<1> QED
  BY <1>2, <1>4, <1>5, <1>6, <1>7
-----------------------------------------------------------------------------
(***************************************************************************)
(* What the parts of a step preserve.                                      *)
(***************************************************************************)
HeldGrows ==
    /\ \A r \in Recipient : Held(r) \subseteq Held(r)'
    /\ authored \subseteq authored'

\* What is due and kept stays so.
DueKept ==
    /\ due' \subseteq due
    /\ \A d \in due' : d[1] \in Kept(d[2]) => d[1] \in Kept(d[2])'

\* What one ingest_event of e at r does to the device.
Taken(r, e) ==
    /\ {log, parked, stored, refused}' \subseteq [Recipient -> SUBSET Event]
    /\ \A s \in Recipient \ {r} :
           /\ log'[s] = log[s] /\ parked'[s] = parked[s]
           /\ stored'[s] = stored[s] /\ refused'[s] = refused[s]
    /\ Held(r) \subseteq Held(r)' /\ e \in Held(r)'
    /\ log'[r] \subseteq stored'[r] \cup refused'[r] /\ log'[r] \cap parked'[r] = {}
    /\ Held(r)' \subseteq Held(r) \cup {e}
    /\ due' \subseteq due
    /\ \A x \in Kept(r) : <<x, r>> \in due' => x \in Kept(r)'
    /\ \A x \in refused'[r] : <<x, r>> \in due' => x \in refused[r]

\* The log after ingest_event: only e and parked events are new.
LEMMA LogGrows ==
    ASSUME NEW r, NEW e
    PROVE  /\ LogWith(r, e) \ log[r] \subseteq parked[r] \cup {e}
           /\ e \in log[r] => LogWith(r, e) = log[r]
<1>1. CausalCore(log[r] \cup parked[r] \cup {e}) \subseteq log[r] \cup parked[r] \cup {e}
  BY DEF CausalCore
<1> QED
  BY <1>1 DEF LogWith

\* An ingest_event whose puts succeed.
LEMMA IngestTakes ==
    ASSUME TypeOK, NEW r \in Recipient, NEW e \in Event, NodeSound(r),
           Ingest(r, e)
    PROVE  Taken(r, e)
<1>1. PICK next : next = LogWith(r, e)
  OBVIOUS
<1>2. next \ log[r] \subseteq parked[r] \cup {e} /\ (e \in log[r] => next = log[r])
  BY <1>1, LogGrows
<1>3. /\ log \in [Recipient -> SUBSET Event] /\ parked \in [Recipient -> SUBSET Event]
      /\ stored \in [Recipient -> SUBSET Event] /\ refused \in [Recipient -> SUBSET Event]
  BY DEF TypeOK
<1>5. /\ log' = [log EXCEPT ![r] = next]
      /\ parked' = [parked EXCEPT ![r] = (parked[r] \cup {e}) \ next]
      /\ stored' = [stored EXCEPT ![r] = stored[r] \cup (next \ log[r])]
      /\ refused' = [refused EXCEPT ![r] = refused[r] \ (({e} \cup next) \ log[r])]
      /\ due' = due
  BY <1>1 DEF Ingest
<1>6. /\ log'[r] = next /\ parked'[r] = (parked[r] \cup {e}) \ next
      /\ stored'[r] = stored[r] \cup (next \ log[r])
      /\ refused'[r] = refused[r] \ (({e} \cup next) \ log[r])
  BY <1>3, <1>5
<1>7. \A s \in Recipient \ {r} :
          /\ log'[s] = log[s] /\ parked'[s] = parked[s]
          /\ stored'[s] = stored[s] /\ refused'[s] = refused[s]
  BY <1>3, <1>5
<1>8. next \in SUBSET Event
  BY <1>2, <1>3
<1>9. {log, parked, stored, refused}' \subseteq [Recipient -> SUBSET Event]
  BY <1>3, <1>5, <1>8
<1>10. /\ log[r] \subseteq stored[r] \cup refused[r] /\ log[r] \cap parked[r] = {}
  BY DEF NodeSound
<1>11. /\ Held(r) \subseteq Held(r)' /\ e \in Held(r)'
       /\ Held(r)' \subseteq Held(r) \cup {e}
  BY <1>2, <1>6, <1>10 DEF Held, Kept
<1>12. log'[r] \subseteq stored'[r] \cup refused'[r] /\ log'[r] \cap parked'[r] = {}
  BY <1>2, <1>6, <1>10
<1>13. Kept(r) \subseteq Kept(r)' /\ refused'[r] \subseteq refused[r]
  BY <1>6, <1>10 DEF Kept
<1> QED
  BY <1>5, <1>7, <1>9, <1>11, <1>12, <1>13 DEF Taken

\* An ingest_event that ends with an error of the store.
LEMMA FailureTakes ==
    ASSUME TypeOK, NEW r \in Recipient, NEW e \in Event, NodeSound(r), IngestFails(r, e)
    PROVE  Taken(r, e)
<1> DEFINE Aside(new, last) == {x \in parked[r] \ new :
                                    last # e /\ ~(ParentsOf[x] \subseteq log[r] \cup {e})}
<1>0. \E new \in SUBSET (LogWith(r, e) \ log[r]) : \E last \in new :
          /\ ParentClosed(log[r] \cup new) /\ ParentClosed((log[r] \cup new) \ {last})
          /\ e \in new /\ (last = e => new = {e})
          /\ \E rest \in SUBSET Aside(new, last) :
                 /\ log' = [log EXCEPT ![r] = @ \cup new]
                 /\ parked' = [parked EXCEPT ![r] = @ \ (new \cup rest)]
                 /\ stored' = [stored EXCEPT ![r] = @ \cup (new \ {last})]
                 /\ refused' = [refused EXCEPT ![r] = (@ \ new) \cup {last} \cup rest]
                 /\ due' = due \ (({last} \cup rest) \X {r})
  BY Zenon DEF IngestFails
<1>1. PICK new \in SUBSET (LogWith(r, e) \ log[r]) : \E last \in new :
          /\ e \in new
          /\ \E rest \in SUBSET Aside(new, last) :
                 /\ log' = [log EXCEPT ![r] = @ \cup new]
                 /\ parked' = [parked EXCEPT ![r] = @ \ (new \cup rest)]
                 /\ stored' = [stored EXCEPT ![r] = @ \cup (new \ {last})]
                 /\ refused' = [refused EXCEPT ![r] = (@ \ new) \cup {last} \cup rest]
                 /\ due' = due \ (({last} \cup rest) \X {r})
  <2> HIDE DEF Aside
  <2> QED
    BY <1>0, Zenon
<1>2. PICK last \in new, rest \in SUBSET parked[r] :
          /\ rest \cap new = {} /\ e \in new
          /\ log' = [log EXCEPT ![r] = log[r] \cup new]
          /\ parked' = [parked EXCEPT ![r] = parked[r] \ (new \cup rest)]
          /\ stored' = [stored EXCEPT ![r] = stored[r] \cup (new \ {last})]
          /\ refused' = [refused EXCEPT ![r] = (refused[r] \ new) \cup {last} \cup rest]
          /\ due' = due \ (({last} \cup rest) \X {r})
  BY <1>1
<1>3. /\ log \in [Recipient -> SUBSET Event] /\ parked \in [Recipient -> SUBSET Event]
      /\ stored \in [Recipient -> SUBSET Event] /\ refused \in [Recipient -> SUBSET Event]
  BY DEF TypeOK
<1>4. new \subseteq parked[r] \cup {e} /\ new \cap log[r] = {}
  BY <1>1, LogGrows
<1>5. /\ log'[r] = log[r] \cup new /\ parked'[r] = parked[r] \ (new \cup rest)
      /\ stored'[r] = stored[r] \cup (new \ {last})
      /\ refused'[r] = (refused[r] \ new) \cup {last} \cup rest
  BY <1>2, <1>3
<1>6. \A s \in Recipient \ {r} :
          /\ log'[s] = log[s] /\ parked'[s] = parked[s]
          /\ stored'[s] = stored[s] /\ refused'[s] = refused[s]
  BY <1>2, <1>3
<1>7. new \in SUBSET Event /\ last \in Event /\ rest \in SUBSET Event
  BY <1>2, <1>3, <1>4
<1>8. {log, parked, stored, refused}' \subseteq [Recipient -> SUBSET Event]
  BY <1>2, <1>3, <1>7
<1>9. /\ log[r] \subseteq stored[r] \cup refused[r] /\ log[r] \cap parked[r] = {}
  BY DEF NodeSound
<1>10. /\ Held(r) \subseteq Held(r)' /\ e \in Held(r)'
       /\ Held(r)' \subseteq Held(r) \cup {e}
  BY <1>2, <1>4, <1>5 DEF Held, Kept
<1>11. log'[r] \subseteq stored'[r] \cup refused'[r] /\ log'[r] \cap parked'[r] = {}
  BY <1>4, <1>5, <1>9
<1>12. \A x \in {last} \cup rest : <<x, r>> \notin due'
  BY <1>2
<1>13. ASSUME NEW x \in Kept(r), <<x, r>> \in due'
       PROVE  x \in Kept(r)'
  BY <1>5, <1>12, <1>13 DEF Kept
<1>14. ASSUME NEW x \in refused'[r], <<x, r>> \in due'
       PROVE  x \in refused[r]
  BY <1>5, <1>12, <1>14
<1>15. due' \subseteq due
  BY <1>2
<1> QED
  BY <1>6, <1>8, <1>10, <1>11, <1>13, <1>14, <1>15 DEF Taken

\* What a step that ingests does to the invariant of the devices.
LEMMA TakenSound ==
    ASSUME RelayInv, NEW r \in Recipient, NEW e \in authored, Taken(r, e), authored' = authored
    PROVE  HeldGrows /\ DueKept /\ \A s \in Recipient : NodeSound(s)'
<1>1. due \subseteq Event \X Recipient /\ due' \subseteq due
  BY DEF RelayInv, TypeOK, Taken
<1>2. \A s \in Recipient \ {r} : Held(s)' = Held(s) /\ Kept(s)' = Kept(s)
  BY DEF Taken, Held, Kept
<1>3. HeldGrows
  BY <1>2 DEF HeldGrows, Taken
<1>4. DueKept
  <2>1. SUFFICES ASSUME NEW d \in due', d[1] \in Kept(d[2])
                 PROVE  d[1] \in Kept(d[2])'
    BY <1>1 DEF DueKept
  <2>2. d[2] \in Recipient /\ d = <<d[1], d[2]>>
    BY <1>1
  <2>3. CASE d[2] = r
    BY <2>1, <2>2, <2>3 DEF Taken
  <2>4. CASE d[2] # r
    BY <1>2, <2>1, <2>2, <2>4
  <2> QED
    BY <2>3, <2>4
<1>5. NodeSound(r)'
  <2>1. NodeSound(r)
    BY DEF RelayInv
  <2>2. Held(r)' \subseteq authored' \cup Known
    BY <2>1 DEF Taken, NodeSound
  <2>3. ASSUME NEW d \in due', d[2] = r
        PROVE  d[1] \notin refused'[r]
    <3>1. d = <<d[1], r>> /\ d \in due
      BY <1>1, <2>3
    <3>2. d[1] \notin refused[r]
      BY <2>1, <2>3, <3>1 DEF NodeSound
    <3> QED
      BY <2>3, <3>1, <3>2 DEF Taken
  <2> QED
    BY <2>2, <2>3 DEF NodeSound, Taken
<1>6. ASSUME NEW s \in Recipient \ {r}
      PROVE  NodeSound(s)'
  <2>1. NodeSound(s)
    BY DEF RelayInv
  <2>2. /\ log'[s] = log[s] /\ parked'[s] = parked[s]
        /\ stored'[s] = stored[s] /\ refused'[s] = refused[s]
    BY DEF Taken
  <2> QED
    BY <1>1, <1>2, <2>1, <2>2 DEF NodeSound
<1> QED
  BY <1>3, <1>4, <1>5, <1>6

LEMMA PollMoves ==
    ASSUME RelayInv, HeldGrows, NEW r \in Recipient, NEW q \in Poller, NEW n \in Poll,
           PollSound(r, n)', poll' = [poll EXCEPT ![r][q] = n]
    PROVE  /\ poll' \in [Recipient -> [Poller -> Poll]]
           /\ \A s \in Recipient, p \in Poller : PollSound(s, poll[s][p])'
<1>1. poll \in [Recipient -> [Poller -> Poll]]
  BY DEF RelayInv, TypeOK, Poll
<1>2. \A s \in Recipient, p \in Poller :
          poll'[s][p] = poll[s][p] \/ (s = r /\ poll'[s][p] = n)
  BY <1>1
<1>3. ASSUME NEW s \in Recipient, NEW p \in Poller
      PROVE  PollSound(s, poll[s][p])'
  <2>1. PICK c : c = poll[s][p]
    OBVIOUS
  <2>2. PollSound(s, c)'
    BY <2>1 DEF RelayInv, PollSound, HeldGrows
  <2> QED
    BY <1>2, <2>1, <2>2
<1> QED
  BY <1>1, <1>3

LEMMA PollsStay ==
    ASSUME RelayInv, HeldGrows, poll' = poll
    PROVE  \A s \in Recipient, p \in Poller : PollSound(s, poll[s][p])'
<1>1. ASSUME NEW s \in Recipient, NEW p \in Poller
      PROVE  PollSound(s, poll[s][p])'
  <2>1. PICK c : c = poll[s][p]
    OBVIOUS
  <2>2. PollSound(s, c)'
    BY <2>1 DEF RelayInv, PollSound, HeldGrows
  <2> QED
    BY <2>1, <2>2
<1> QED
  BY <1>1

\* A due event stays on its way if it is in the same place or further along.
LEMMA WayStays ==
    ASSUME RelayInv, DueKept,
           ToSet(outbox) \subseteq ToSet(outbox'),
           Sealed \cup box \subseteq Sealed' \cup box'
    PROVE  PushedIsOnTheWay'
<1>1. SUFFICES ASSUME NEW d \in due'
               PROVE  OnTheWay(d[1], d[2])'
  BY DEF PushedIsOnTheWay
<1>2. OnTheWay(d[1], d[2])
  BY DEF RelayInv, PushedIsOnTheWay, DueKept
<1> QED
  BY <1>1, <1>2 DEF OnTheWay, DueKept, Kept

\* Steps that leave the devices' logs and stores alone.
LEMMA NodesStay ==
    ASSUME RelayInv, UNCHANGED node, due' \subseteq due, authored \subseteq authored'
    PROVE  HeldGrows /\ DueKept /\ \A s \in Recipient : NodeSound(s)'
<1>1. UNCHANGED <<log, parked, stored, refused>>
  BY DEF node
<1>2. \A s : Held(s)' = Held(s) /\ Kept(s)' = Kept(s)
  BY <1>1 DEF Held, Kept
<1>3. ASSUME NEW s \in Recipient
      PROVE  NodeSound(s)'
  <2>1. NodeSound(s)
    BY DEF RelayInv
  <2> QED
    BY <1>1, <1>2, <2>1 DEF NodeSound
<1> QED
  BY <1>2, <1>3 DEF HeldGrows, DueKept
-----------------------------------------------------------------------------
(***************************************************************************)
(* The sender.                                                             *)
(***************************************************************************)

LEMMA AuthorStep ==
    ASSUME RelayInv, NEW e \in Event, Author(e)
    PROVE  RelayInv'
<1>1. TypeOK /\ Written
  BY DEF RelayInv
<1>2. /\ e \notin authored \cup Known
      /\ authored' = authored \cup {e} /\ outbox' = Append(outbox, e)
      /\ due' = due \cup ({e} \X linked)
      /\ UNCHANGED <<linked, sealed, box, puts, device, faults, crashes>>
  BY DEF Author, relay, bounds
<1>3. ToSet(outbox') = ToSet(outbox) \cup {e} /\ outbox' \in Seq(Event)
  BY <1>1, <1>2, AppendSet DEF TypeOK
<1>4. due' \subseteq Event \X Recipient
  BY <1>1, <1>2 DEF TypeOK
<1>5. /\ UNCHANGED <<log, parked, stored, refused, opened, saved, poll>>
      /\ Sealed' = Sealed
  BY <1>2 DEF device, node, Sealed
<1>6. TypeOK'
  BY <1>1, <1>2, <1>3, <1>4, <1>5 DEF TypeOK
<1>7. Written'
  BY <1>1, <1>2, <1>3, <1>5 DEF Written
<1>8. HeldGrows
  BY <1>2, <1>5 DEF HeldGrows, Held, Kept
<1>9. \A s \in Recipient, p \in Poller : PollSound(s, poll[s][p])'
  BY <1>5, <1>8, PollsStay
<1>10. ASSUME NEW r \in Recipient
       PROVE  NodeSound(r)'
  <2>1. NodeSound(r)
    BY DEF RelayInv
  <2>2. Held(r)' = Held(r) /\ refused[r] \subseteq Held(r)
    BY <1>5 DEF Held, Kept
  <2>3. e \notin refused[r]
    BY <1>2, <2>1, <2>2 DEF NodeSound
  <2>4. ASSUME NEW d \in due', d[2] = r
        PROVE  d[1] \notin refused[r]
    <3>1. CASE d \in due
      BY <2>1, <2>4, <3>1 DEF NodeSound
    <3>2. CASE d \in {e} \X linked
      BY <2>3, <3>2
    <3> QED
      BY <1>2, <2>4, <3>1, <3>2
  <2> QED
    BY <1>2, <1>5, <2>1, <2>2, <2>4 DEF NodeSound
<1>11. DueLinked'
  BY <1>2 DEF RelayInv, DueLinked
<1>12. PushedIsOnTheWay'
  <2>1. SUFFICES ASSUME NEW d \in due'
                 PROVE  OnTheWay(d[1], d[2])'
    BY DEF PushedIsOnTheWay
  <2>2. CASE d \in due
    <3>1. OnTheWay(d[1], d[2])
      BY <2>2 DEF RelayInv, PushedIsOnTheWay
    <3> QED
      BY <1>2, <1>3, <1>5, <3>1 DEF OnTheWay
  <2>3. CASE d \in {e} \X linked
    <3>1. d[1] = e
      BY <2>3
    <3> QED
      BY <1>3, <3>1 DEF OnTheWay
  <2> QED
    BY <1>2, <2>1, <2>2, <2>3
<1> QED
  BY <1>6, <1>7, <1>9, <1>10, <1>11, <1>12 DEF RelayInv

\* A step of the sender or of the relay: it leaves the devices alone, and
\* nothing that is due is lost.
LEMMA SenderFrame ==
    ASSUME RelayInv, UNCHANGED device, UNCHANGED authored, due' \subseteq due, TypeOK',
           linked \subseteq linked', ToSet(outbox') \subseteq ToSet(outbox),
           Sealed' \cup box' \subseteq Sealed \cup box
               \cup {v \in Envelope : v.ev \in ToSet(outbox)},
           \A d \in due' : d[1] \in ToSet(outbox) => OnTheWay(d[1], d[2])',
           \A d \in due', v \in Sealed \cup box :
               v.to = d[2] /\ v.ev = d[1] => OnTheWay(d[1], d[2])'
    PROVE  RelayInv'
<1>1. UNCHANGED <<node, poll>>
  BY DEF device
<1>2. HeldGrows /\ DueKept /\ \A s \in Recipient : NodeSound(s)'
  BY <1>1, NodesStay
<1>3. \A s \in Recipient, p \in Poller : PollSound(s, poll[s][p])'
  BY <1>1, <1>2, PollsStay
<1>4. Written'
  BY DEF RelayInv, Written
<1>5. DueLinked'
  BY DEF RelayInv, DueLinked
<1>6. PushedIsOnTheWay'
  <2>1. SUFFICES ASSUME NEW d \in due'
                 PROVE  OnTheWay(d[1], d[2])'
    BY DEF PushedIsOnTheWay
  <2>2. OnTheWay(d[1], d[2])
    BY DEF RelayInv, PushedIsOnTheWay
  <2>3. CASE d[1] \in Kept(d[2])
    BY <1>2, <2>3 DEF OnTheWay, DueKept, Kept
  <2> QED
    BY <2>2, <2>3 DEF OnTheWay, Kept
<1> QED
  BY <1>2, <1>3, <1>4, <1>5, <1>6 DEF RelayInv

\* The envelopes of the pushes when one of them moves on.
LEMMA PushMoves ==
    ASSUME TypeOK, NEW p \in Pusher, NEW S \in SUBSET Envelope,
           sealed' = [sealed EXCEPT ![p] = S]
    PROVE  /\ sealed' \in [Pusher -> SUBSET Envelope]
           /\ S \subseteq Sealed' /\ Sealed' \subseteq Sealed \cup S
           /\ Sealed \subseteq Sealed' \cup sealed[p]
<1>1. sealed \in [Pusher -> SUBSET Envelope]
  BY DEF TypeOK
<1>2. sealed'[p] = S /\ \A q \in Pusher \ {p} : sealed'[q] = sealed[q]
  BY <1>1
<1> QED
  BY <1>1, <1>2 DEF Sealed

\* A batch is sealed for every linked device, so what is due from it has its
\* envelope.
LEMMA TakeStep ==
    ASSUME RelayInv, NEW x \in Pusher, PushTake(x)
    PROVE  RelayInv'
<1>1. TypeOK
  BY DEF RelayInv
<1>2. PICK n : n = IF Len(outbox) < Batch THEN Len(outbox) ELSE Batch
  OBVIOUS
<1>3. PICK taken : taken = ToSet(SubSeq(outbox, 1, n))
  OBVIOUS
<1>4. /\ sealed[x] = {} /\ outbox' = SubSeq(outbox, n + 1, Len(outbox))
      /\ \E how \in [linked \X taken -> Seal] :
             sealed' = [sealed EXCEPT ![x] = SealedAs(how)]
      /\ UNCHANGED <<authored, linked, box, puts, device, due, faults, crashes>>
  BY <1>2, <1>3 DEF PushTake, relay, bounds
<1>5. PICK how \in [linked \X taken -> Seal] : sealed' = [sealed EXCEPT ![x] = SealedAs(how)]
  BY <1>4
<1>6. n \in 0..Len(outbox) /\ outbox \in Seq(Event)
  BY <1>1, <1>2, RelayAssumption DEF TypeOK
<1>7. /\ ToSet(outbox) \subseteq taken \cup ToSet(outbox')
      /\ taken \cup ToSet(outbox') \subseteq ToSet(outbox)
      /\ taken \subseteq Event /\ outbox' \in Seq(Event)
  BY <1>3, <1>4, <1>6, SplitSet
<1>8. PICK S : S = SealedAs(how)
  OBVIOUS
<1>9. S \subseteq {v \in Envelope : v.ev \in ToSet(outbox)}
      /\ \A r \in linked, e \in taken : \E v \in S : v.to = r /\ v.ev = e
  <2>1. linked \subseteq Recipient
    BY <1>1 DEF TypeOK
  <2>2. S = {[to |-> p[1], ev |-> p[2], seal |-> how[p]] : p \in linked \X taken}
    BY <1>5, <1>8 DEF SealedAs
  <2>3. ASSUME NEW p \in linked \X taken
        PROVE  [to |-> p[1], ev |-> p[2], seal |-> how[p]]
                   \in {v \in Envelope : v.ev \in ToSet(outbox)}
    <3>1. p[1] \in Recipient /\ p[2] \in Event /\ how[p] \in Seal /\ p[2] \in ToSet(outbox)
      BY <1>5, <1>7, <2>1
    <3> QED
      BY <3>1 DEF Envelope
  <2>4. ASSUME NEW r \in linked, NEW e \in taken
        PROVE  \E v \in S : v.to = r /\ v.ev = e
    <3>1. PICK p : p = <<r, e>>
      OBVIOUS
    <3>2. p \in linked \X taken /\ p[1] = r /\ p[2] = e
      BY <3>1
    <3>3. PICK v : v = [to |-> p[1], ev |-> p[2], seal |-> how[p]]
      OBVIOUS
    <3>4. v \in S /\ v.to = r /\ v.ev = e
      BY <2>2, <3>2, <3>3
    <3> QED
      BY <3>4
  <2> QED
    BY <2>2, <2>3, <2>4
<1>10. /\ sealed' \in [Pusher -> SUBSET Envelope] /\ S \subseteq Sealed'
       /\ Sealed' \subseteq Sealed \cup S /\ Sealed \subseteq Sealed'
  <2>1. sealed' = [sealed EXCEPT ![x] = S] /\ S \in SUBSET Envelope
    BY <1>5, <1>8, <1>9
  <2> QED
    BY <1>1, <1>4, <2>1, PushMoves
<1>11. TypeOK'
  BY <1>1, <1>4, <1>7, <1>10 DEF TypeOK, device, node
<1>12. ASSUME NEW d \in due', d[1] \in ToSet(outbox)
       PROVE  OnTheWay(d[1], d[2])'
  <2>1. d[2] \in linked
    BY <1>4 DEF RelayInv, DueLinked
  <2>2. CASE d[1] \in taken
    BY <1>9, <1>10, <2>1, <2>2 DEF OnTheWay
  <2>3. CASE d[1] \in ToSet(outbox')
    BY <2>3 DEF OnTheWay
  <2> QED
    BY <1>7, <1>12, <2>2, <2>3
<1>13. \A d \in due', v \in Sealed \cup box :
           v.to = d[2] /\ v.ev = d[1] => OnTheWay(d[1], d[2])'
  BY <1>4, <1>10 DEF OnTheWay
<1> QED
  BY <1>4, <1>7, <1>9, <1>10, <1>11, <1>12, <1>13, SenderFrame

LEMMA PutStep ==
    ASSUME RelayInv, NEW p \in Pusher, PushPut(p)
    PROVE  RelayInv'
<1>1. TypeOK /\ sealed \in [Pusher -> SUBSET Envelope]
  BY DEF RelayInv, TypeOK
<1>2. PICK v \in sealed[p] :
          sealed' = [sealed EXCEPT ![p] = sealed[p] \ {v}] /\ box' = box \cup {v}
  BY DEF PushPut, Oldest
<1>3. /\ puts < RateMax /\ puts' = puts + 1
      /\ UNCHANGED <<authored, outbox, linked, device, due, faults, crashes>>
  BY DEF PushPut, bounds
<1>4. puts' \in 0..RateMax
  BY <1>1, <1>3, RelayAssumption DEF TypeOK
<1>5. PICK S : S = sealed[p] \ {v}
  OBVIOUS
<1>6. S \in SUBSET Envelope /\ sealed' = [sealed EXCEPT ![p] = S] /\ v \in Sealed
      /\ S \subseteq Sealed /\ v \in Envelope
  BY <1>1, <1>2, <1>5 DEF Sealed
<1>7. /\ sealed' \in [Pusher -> SUBSET Envelope] /\ S \subseteq Sealed'
      /\ Sealed' \subseteq Sealed \cup S /\ Sealed \subseteq Sealed' \cup sealed[p]
  BY <1>1, <1>6, PushMoves
<1>8. Sealed \cup box \subseteq Sealed' \cup box' /\ Sealed' \cup box' \subseteq Sealed \cup box
  BY <1>2, <1>5, <1>6, <1>7
<1>9. TypeOK'
  BY <1>1, <1>2, <1>3, <1>4, <1>6, <1>7 DEF TypeOK, device, node
<1>10. /\ \A d \in due' : d[1] \in ToSet(outbox) => OnTheWay(d[1], d[2])'
       /\ \A d \in due', w \in Sealed \cup box :
              w.to = d[2] /\ w.ev = d[1] => OnTheWay(d[1], d[2])'
  BY <1>3, <1>8 DEF OnTheWay
<1> QED
  BY <1>3, <1>8, <1>9, <1>10, SenderFrame

\* A push that is given up, and a restart of the sender: what is lost is no
\* longer due.
LEMMA GivenUpStep ==
    ASSUME RelayInv, NEW p \in Pusher, PushLimited(p) \/ PushFails(p)
    PROVE  RelayInv'
<1>1. TypeOK /\ sealed \in [Pusher -> SUBSET Envelope]
  BY DEF RelayInv, TypeOK
<1>2. /\ sealed' = [sealed EXCEPT ![p] = {}]
      /\ due' = due \ {<<v.ev, v.to>> : v \in sealed[p]}
      /\ UNCHANGED <<authored, outbox, linked, box, puts, device>>
  BY DEF PushLimited, PushFails, PushGivesUp, relay
<1>3. faults' \in 0..MaxFaults /\ crashes' = crashes
  <2>1. faults \in 0..MaxFaults /\ MaxFaults \in Nat
    BY <1>1, RelayAssumption DEF TypeOK
  <2>2. faults' = faults \/ (faults < MaxFaults /\ faults' = faults + 1)
    BY DEF PushLimited, PushFails, Fails, bounds
  <2>3. crashes' = crashes
    BY DEF PushLimited, PushFails, bounds
  <2> QED
    BY <2>1, <2>2, <2>3
<1>4. /\ sealed' \in [Pusher -> SUBSET Envelope]
      /\ Sealed' \subseteq Sealed /\ Sealed \subseteq Sealed' \cup sealed[p]
  <2>1. {} \in SUBSET Envelope
    OBVIOUS
  <2>2. /\ sealed' \in [Pusher -> SUBSET Envelope]
        /\ Sealed' \subseteq Sealed \cup {} /\ Sealed \subseteq Sealed' \cup sealed[p]
    BY <1>1, <1>2, <2>1, PushMoves
  <2> QED
    BY <2>2
<1>5. due' \subseteq due /\ due \subseteq Event \X Recipient
  BY <1>1, <1>2 DEF TypeOK
<1>6. TypeOK'
  BY <1>1, <1>2, <1>3, <1>4, <1>5 DEF TypeOK, device, node
<1>7. \A d \in due' : d[1] \in ToSet(outbox) => OnTheWay(d[1], d[2])'
  BY <1>2 DEF OnTheWay
<1>8. ASSUME NEW d \in due', NEW v \in Sealed \cup box, v.to = d[2], v.ev = d[1]
      PROVE  OnTheWay(d[1], d[2])'
  <2>1. d = <<v.ev, v.to>>
    BY <1>5, <1>8
  <2>2. v \notin sealed[p]
    BY <1>2, <2>1
  <2> QED
    BY <1>2, <1>4, <1>8, <2>2 DEF OnTheWay
<1> QED
  BY <1>2, <1>4, <1>5, <1>6, <1>7, <1>8, SenderFrame

LEMMA SenderCrashStep ==
    ASSUME RelayInv, SenderCrash
    PROVE  RelayInv'
<1>1. TypeOK
  BY DEF RelayInv
<1>2. /\ crashes < MaxCrashes /\ crashes' = crashes + 1
      /\ outbox' = <<>> /\ sealed' = [p \in Pusher |-> {}]
      /\ due' = {d \in due : d[1] \notin ToSet(outbox) /\ \A v \in Sealed : <<v.ev, v.to>> # d}
      /\ UNCHANGED <<authored, linked, box, puts, device, faults>>
  BY DEF SenderCrash, relay
<1>3. crashes' \in 0..MaxCrashes
  BY <1>1, <1>2, RelayAssumption DEF TypeOK
<1>4. /\ due' \subseteq due /\ due \subseteq Event \X Recipient
      /\ outbox' \in Seq(Event) /\ ToSet(outbox') = {}
      /\ sealed' \in [Pusher -> SUBSET Envelope] /\ Sealed' = {}
  BY <1>1, <1>2 DEF TypeOK, ToSet, Sealed
<1>5. TypeOK'
  BY <1>1, <1>2, <1>3, <1>4 DEF TypeOK, device, node
<1>6. \A d \in due' : d[1] \notin ToSet(outbox)
  BY <1>2
<1>7. ASSUME NEW d \in due', NEW v \in Sealed \cup box, v.to = d[2], v.ev = d[1]
      PROVE  OnTheWay(d[1], d[2])'
  <2>1. d = <<v.ev, v.to>>
    BY <1>4, <1>7
  <2>2. v \notin Sealed
    BY <1>2, <2>1
  <2> QED
    BY <1>2, <1>7, <2>2 DEF OnTheWay
<1> QED
  BY <1>2, <1>4, <1>5, <1>6, <1>7, SenderFrame

LEMMA LinkStep ==
    ASSUME RelayInv, WindowEnds \/ \E r \in Recipient : Link(r)
    PROVE  RelayInv'
<1>1. TypeOK
  BY DEF RelayInv
<1>2. /\ UNCHANGED <<authored, outbox, sealed, box, device, due, faults, crashes>>
      /\ puts' = puts \/ puts' = 0
      /\ linked \subseteq linked' /\ linked' \subseteq Recipient
  BY <1>1 DEF WindowEnds, Link, sender, relay, bounds, TypeOK
<1>3. TypeOK'
  BY <1>1, <1>2, RelayAssumption DEF TypeOK, device, node
<1>4. Sealed' = Sealed
  BY <1>2 DEF Sealed
<1>5. /\ \A d \in due' : d[1] \in ToSet(outbox) => OnTheWay(d[1], d[2])'
      /\ \A d \in due', w \in Sealed \cup box :
             w.to = d[2] /\ w.ev = d[1] => OnTheWay(d[1], d[2])'
  BY <1>2, <1>4 DEF OnTheWay
<1> QED
  BY <1>2, <1>3, <1>4, <1>5, SenderFrame
-----------------------------------------------------------------------------
(***************************************************************************)
(* The recipients.                                                         *)
(***************************************************************************)
\* A step of a device, without a loss of an envelope.
LEMMA DeviceFrame ==
    ASSUME RelayInv, TypeOK', UNCHANGED <<sender, box>>, HeldGrows, DueKept,
           \A s \in Recipient : NodeSound(s)',
           \A s \in Recipient, p \in Poller : PollSound(s, poll[s][p])'
    PROVE  RelayInv'
<1>1. UNCHANGED <<authored, outbox, linked, sealed, box>> /\ Sealed' = Sealed
  BY DEF sender, Sealed
<1>2. Written' /\ DueLinked'
  BY <1>1 DEF RelayInv, Written, DueLinked, DueKept
<1>3. PushedIsOnTheWay'
  BY <1>1, WayStays
<1> QED
  BY <1>2, <1>3 DEF RelayInv

LEMMA FetchStep ==
    ASSUME RelayInv, NEW r \in Recipient, NEW q \in Poller, PollFetch(r, q)
    PROVE  RelayInv'
<1>1. TypeOK
  BY DEF RelayInv
<1>2. PICK S \in Fetched(r) :
          poll' = [poll EXCEPT ![r][q] = [stage |-> "open", items |-> S,
                                          hand |-> None, acks |-> {}]]
  BY DEF PollFetch
<1>3. UNCHANGED <<sender, relay, node, opened, saved, due, bounds>>
  BY DEF PollFetch
<1>4. S \subseteq Envelope /\ \A v \in S : v.to = r /\ v.ev \in authored
  BY <1>1 DEF Fetched, TypeOK, RelayInv, Written
<1>5. PICK n : n = [stage |-> "open", items |-> S, hand |-> None, acks |-> {}]
  OBVIOUS
<1>6. n \in Poll /\ PollSound(r, n)'
  BY <1>3, <1>4, <1>5 DEF Poll, PollSound, sender
<1>7. HeldGrows /\ DueKept /\ \A s \in Recipient : NodeSound(s)'
  BY <1>3, NodesStay DEF sender
<1>8. /\ poll' \in [Recipient -> [Poller -> Poll]]
      /\ \A s \in Recipient, p \in Poller : PollSound(s, poll[s][p])'
  BY <1>2, <1>5, <1>6, <1>7, PollMoves
<1>9. TypeOK'
  BY <1>1, <1>3, <1>8 DEF TypeOK, Poll, sender, relay, node, bounds
<1> QED
  BY <1>3, <1>7, <1>8, <1>9, DeviceFrame DEF relay

LEMMA OpenStep ==
    ASSUME RelayInv, NEW r \in Recipient, NEW q \in Poller, PollOpen(r, q) \/ PollSkip(r, q)
    PROVE  RelayInv'
<1>1. TypeOK /\ poll \in [Recipient -> [Poller -> Poll]]
  BY DEF RelayInv, TypeOK, Poll
<1>2. PICK c : c = poll[r][q]
  OBVIOUS
<1>3. c \in Poll /\ PollSound(r, c) /\ c.stage = "open"
  BY <1>1, <1>2 DEF RelayInv, PollOpen, PollSkip
<1>4. UNCHANGED <<sender, relay, node, saved, due, bounds>>
  BY DEF PollOpen, PollSkip
<1>5. HeldGrows /\ DueKept /\ \A s \in Recipient : NodeSound(s)'
  BY <1>4, NodesStay DEF sender
<1>6. CASE PollOpen(r, q)
  <2>1. PICK v \in c.items :
            /\ poll' = [poll EXCEPT ![r][q].stage = "ingest", ![r][q].items = @ \ {v},
                                    ![r][q].hand = v]
            /\ opened' = [opened EXCEPT ![r] = IF v.seal = "olm" THEN @ \cup {v} ELSE @]
    BY <1>2, <1>6 DEF PollOpen, Oldest
  <2>2. PICK n : n = [stage |-> "ingest", items |-> c.items \ {v}, hand |-> v,
                      acks |-> c.acks]
    OBVIOUS
  <2>3. poll' = [poll EXCEPT ![r][q] = n]
    BY <1>1, <1>2, <1>3, <2>1, <2>2 DEF Poll
  <2>4. n \in Poll /\ v \in Envelope
    BY <1>3, <2>1, <2>2 DEF Poll
  <2>5. PollSound(r, n)'
    <3>1. PollSound(r, n)
      BY <1>3, <2>1, <2>2, <2>4 DEF PollSound
    <3> QED
      BY <1>5, <3>1 DEF PollSound, HeldGrows
  <2>6. opened' \in [Recipient -> SUBSET Envelope]
    BY <1>1, <2>1, <2>4 DEF TypeOK
  <2>7. /\ poll' \in [Recipient -> [Poller -> Poll]]
        /\ \A s \in Recipient, p \in Poller : PollSound(s, poll[s][p])'
    BY <1>5, <2>3, <2>4, <2>5, PollMoves
  <2>8. TypeOK'
    BY <1>1, <1>4, <2>6, <2>7 DEF TypeOK, Poll, sender, relay, node, bounds
  <2> QED
    BY <1>4, <1>5, <2>7, <2>8, DeviceFrame DEF relay
<1>7. CASE PollSkip(r, q)
  <2>1. PICK v \in c.items : poll' = [poll EXCEPT ![r][q].items = @ \ {v}]
    BY <1>2, <1>7 DEF PollSkip, Oldest
  <2>2. PICK n : n = [c EXCEPT !.items = @ \ {v}]
    OBVIOUS
  <2>3. poll' = [poll EXCEPT ![r][q] = n] /\ opened' = opened
    BY <1>1, <1>2, <1>7, <2>1, <2>2 DEF PollSkip
  <2>4. n \in Poll
    BY <1>3, <2>2 DEF Poll
  <2>5. PollSound(r, n)'
    <3>1. n.items \subseteq c.items /\ n.acks = c.acks /\ n.stage = "open"
      BY <1>3, <2>2 DEF Poll
    <3> QED
      BY <1>3, <1>5, <3>1 DEF PollSound, HeldGrows
  <2>6. /\ poll' \in [Recipient -> [Poller -> Poll]]
        /\ \A s \in Recipient, p \in Poller : PollSound(s, poll[s][p])'
    BY <1>5, <2>3, <2>4, <2>5, PollMoves
  <2>7. TypeOK'
    BY <1>1, <1>4, <2>3, <2>6 DEF TypeOK, Poll, sender, relay, node, bounds
  <2> QED
    BY <1>4, <1>5, <2>6, <2>7, DeviceFrame DEF relay
<1> QED
  BY <1>6, <1>7

\* An ingest_event, with or without an error.
LEMMA AnyIngest ==
    ASSUME RelayInv, NEW r \in Recipient, NEW e \in authored,
           Ingest(r, e) \/ IngestFails(r, e), authored' = authored
    PROVE  /\ HeldGrows /\ DueKept /\ \A s \in Recipient : NodeSound(s)'
           /\ e \in Held(r)' /\ due' \subseteq Event \X Recipient
           /\ {log, parked, stored, refused}' \subseteq [Recipient -> SUBSET Event]
           /\ faults' \in 0..MaxFaults /\ crashes' \in 0..MaxCrashes
<1>1. TypeOK /\ NodeSound(r) /\ e \in Event
  BY DEF RelayInv, TypeOK
<1>2. Taken(r, e)
  BY <1>1, IngestTakes, FailureTakes
<1>3. HeldGrows /\ DueKept /\ \A s \in Recipient : NodeSound(s)'
  BY <1>2, TakenSound
<1>4. faults' \in 0..MaxFaults /\ crashes' \in 0..MaxCrashes
  <2>1. faults \in 0..MaxFaults /\ MaxFaults \in Nat /\ crashes \in 0..MaxCrashes
    BY <1>1, RelayAssumption DEF TypeOK
  <2>2. faults' = faults \/ (faults < MaxFaults /\ faults' = faults + 1)
    BY DEF Ingest, IngestFails, Fails, bounds
  <2>3. crashes' = crashes
    BY DEF Ingest, IngestFails, bounds
  <2> QED
    BY <2>1, <2>2, <2>3
<1>5. due' \subseteq Event \X Recipient
  BY <1>1, <1>3 DEF DueKept, TypeOK
<1> QED
  BY <1>2, <1>3, <1>4, <1>5 DEF Taken

\* The event is held when its envelope joins those to acknowledge.
LEMMA IngestStep ==
    ASSUME RelayInv, NEW r \in Recipient, NEW q \in Poller, PollIngest(r, q)
    PROVE  RelayInv'
<1>1. TypeOK /\ poll \in [Recipient -> [Poller -> Poll]]
  BY DEF RelayInv, TypeOK, Poll
<1>2. PICK c : c = poll[r][q]
  OBVIOUS
<1>3. c \in Poll /\ PollSound(r, c) /\ c.stage = "ingest"
  BY <1>1, <1>2 DEF RelayInv, PollIngest
<1>4. PICK v : v = c.hand
  OBVIOUS
<1>5. v \in Envelope /\ v.to = r /\ v.ev \in authored
  BY <1>3, <1>4 DEF PollSound
<1>6. /\ Ingest(r, v.ev) \/ IngestFails(r, v.ev)
      /\ poll' = [poll EXCEPT ![r][q].stage = "open", ![r][q].hand = None,
                              ![r][q].acks = @ \cup {v}]
      /\ UNCHANGED <<sender, relay, opened, saved>> /\ authored' = authored
  BY <1>2, <1>4 DEF PollIngest, sender
<1>7. /\ HeldGrows /\ DueKept /\ \A s \in Recipient : NodeSound(s)'
      /\ v.ev \in Held(r)' /\ due' \subseteq Event \X Recipient
      /\ {log, parked, stored, refused}' \subseteq [Recipient -> SUBSET Event]
      /\ faults' \in 0..MaxFaults /\ crashes' \in 0..MaxCrashes
  BY <1>5, <1>6, AnyIngest
<1>8. PICK n : n = [stage |-> "open", items |-> c.items, hand |-> None,
                    acks |-> c.acks \cup {v}]
  OBVIOUS
<1>9. poll' = [poll EXCEPT ![r][q] = n]
  <2>1. PICK a : a = c.acks \cup {v}
    OBVIOUS
  <2>2. poll' = [poll EXCEPT ![r][q].stage = "open", ![r][q].hand = None, ![r][q].acks = a]
    BY <1>1, <1>2, <1>3, <1>6, <2>1 DEF Poll
  <2>3. n = [c EXCEPT !.stage = "open", !.hand = None, !.acks = a]
    <3>1. PICK x : x = [c EXCEPT !.stage = "open", !.hand = None, !.acks = a]
      OBVIOUS
    <3>2. a \subseteq Envelope
      BY <1>3, <1>5, <2>1 DEF Poll
    <3>3. x \in Poll
      BY <1>3, <3>1, <3>2 DEF Poll
    <3>4. x.stage = "open" /\ x.items = c.items /\ x.hand = None /\ x.acks = a
      BY <1>3, <3>1 DEF Poll
    <3>5. x = [stage |-> x.stage, items |-> x.items, hand |-> x.hand, acks |-> x.acks]
      BY <3>3 DEF Poll
    <3> QED
      BY <1>8, <2>1, <3>1, <3>4, <3>5
  <2> QED
    BY <1>1, <1>2, <2>2, <2>3
<1>10. n \in Poll
  BY <1>3, <1>5, <1>8 DEF Poll
<1>11. PollSound(r, n)'
  <2>1. n.stage = "open" /\ n.items = c.items /\ n.acks = c.acks \cup {v}
    BY <1>8
  <2> QED
    BY <1>3, <1>5, <1>7, <2>1 DEF PollSound, HeldGrows
<1>12. /\ poll' \in [Recipient -> [Poller -> Poll]]
       /\ \A s \in Recipient, p \in Poller : PollSound(s, poll[s][p])'
  BY <1>7, <1>9, <1>10, <1>11, PollMoves
<1>13. TypeOK'
  BY <1>1, <1>6, <1>7, <1>12 DEF TypeOK, Poll, sender, relay
<1> QED
  BY <1>6, <1>7, <1>12, <1>13, DeviceFrame DEF relay

\* Only envelopes whose event the recipient holds, or has refused, are deleted.
LEMMA AckStep ==
    ASSUME RelayInv, NEW r \in Recipient, NEW q \in Poller,
           PollAck(r, q) \/ PollAckFails(r, q)
    PROVE  /\ RelayInv'
           /\ \A v \in box \ box' : v.ev \in Held(v.to)
<1>1. TypeOK /\ poll \in [Recipient -> [Poller -> Poll]]
  BY DEF RelayInv, TypeOK, Poll
<1>2. PICK c : c = poll[r][q]
  OBVIOUS
<1>3. PollSound(r, c) /\ NodeSound(r)
  BY <1>2 DEF RelayInv
<1>4. /\ poll' = [poll EXCEPT ![r][q] = NoPoll]
      /\ box' = box \/ box' = box \ c.acks
      /\ UNCHANGED <<sender, puts, node, opened, saved, due, crashes>>
  BY <1>2 DEF PollAck, PollAckFails, relay, bounds
<1>5. HeldGrows /\ DueKept /\ \A s \in Recipient : NodeSound(s)'
  BY <1>4, NodesStay DEF sender
<1>6. NoPoll \in Poll /\ PollSound(r, NoPoll)'
  BY DEF Poll, PollSound, NoPoll
<1>7. /\ poll' \in [Recipient -> [Poller -> Poll]]
      /\ \A s \in Recipient, p \in Poller : PollSound(s, poll[s][p])'
  BY <1>4, <1>5, <1>6, PollMoves
<1>8. faults' \in 0..MaxFaults
  <2>1. faults \in 0..MaxFaults /\ MaxFaults \in Nat
    BY <1>1, RelayAssumption DEF TypeOK
  <2>2. faults' = faults \/ (faults < MaxFaults /\ faults' = faults + 1)
    BY DEF PollAck, PollAckFails, Fails, bounds
  <2> QED
    BY <2>1, <2>2
<1>9. TypeOK'
  BY <1>1, <1>4, <1>7, <1>8 DEF TypeOK, Poll, sender, node
<1>10. \A v \in box \ box' : v.to = r /\ v.ev \in Held(r)
  BY <1>3, <1>4 DEF PollSound
<1>11. PushedIsOnTheWay'
  <2>1. SUFFICES ASSUME NEW d \in due'
                 PROVE  OnTheWay(d[1], d[2])'
    BY DEF PushedIsOnTheWay
  <2>2. d \in due /\ OnTheWay(d[1], d[2])
    BY <1>4, <2>1 DEF RelayInv, PushedIsOnTheWay
  <2>3. CASE d[1] \in ToSet(outbox)
    BY <1>4, <2>3 DEF OnTheWay, sender
  <2>4. CASE \E v \in Sealed : v.to = d[2] /\ v.ev = d[1]
    BY <1>4, <2>4 DEF OnTheWay, sender, Sealed
  <2>5. CASE d[1] \in Kept(d[2])
    BY <1>5, <2>1, <2>5 DEF OnTheWay, DueKept, Kept
  <2>6. CASE \E v \in box : v.to = d[2] /\ v.ev = d[1]
    <3>1. PICK v \in box : v.to = d[2] /\ v.ev = d[1]
      BY <2>6
    <3>2. CASE v \in box'
      BY <3>1, <3>2 DEF OnTheWay
    <3>3. CASE v \notin box'
      <4>1. d[2] = r /\ d[1] \in Held(r)
        BY <1>10, <3>1, <3>3
      <4>2. d[1] \notin refused[r]
        BY <1>3, <2>2, <4>1 DEF NodeSound
      <4> QED
        BY <2>5, <4>1, <4>2 DEF Held
    <3> QED
      BY <3>2, <3>3
  <2> QED
    BY <2>2, <2>3, <2>4, <2>5, <2>6 DEF OnTheWay, Kept
<1>12. DueLinked' /\ Written'
  <2>1. UNCHANGED <<authored, outbox, linked, sealed, due>> /\ Sealed' = Sealed
    BY <1>4 DEF sender, Sealed
  <2> QED
    BY <1>4, <2>1 DEF RelayInv, DueLinked, Written
<1> QED
  BY <1>5, <1>7, <1>9, <1>10, <1>11, <1>12 DEF RelayInv

LEMMA PersistStep ==
    ASSUME RelayInv, NEW r \in Recipient, PersistE2ee(r)
    PROVE  RelayInv'
<1>1. TypeOK
  BY DEF RelayInv
<1>2. UNCHANGED <<due, sender, relay, node, opened, poll, bounds>>
  BY DEF PersistE2ee
<1>3. HeldGrows /\ DueKept /\ \A s \in Recipient : NodeSound(s)'
  BY <1>2, NodesStay DEF sender
<1>4. saved' \in [Recipient -> SUBSET Envelope]
  BY <1>1 DEF PersistE2ee, TypeOK
<1>5. TypeOK'
  BY <1>1, <1>2, <1>4 DEF TypeOK, sender, relay, node, bounds
<1>6. \A s \in Recipient, p \in Poller : PollSound(s, poll[s][p])'
  BY <1>2, <1>3, PollsStay
<1> QED
  BY <1>2, <1>3, <1>5, <1>6, DeviceFrame DEF relay

LEMMA DirectStep ==
    ASSUME RelayInv, NEW r \in Recipient, NEW e \in Event, Direct(r, e)
    PROVE  RelayInv'
<1>1. TypeOK
  BY DEF RelayInv
<1>2. /\ Ingest(r, e) \/ IngestFails(r, e)
      /\ e \in authored /\ authored' = authored
      /\ UNCHANGED <<sender, relay, opened, saved, poll>>
  BY DEF Direct, sender
<1>3. /\ HeldGrows /\ DueKept /\ \A s \in Recipient : NodeSound(s)'
      /\ due' \subseteq Event \X Recipient
      /\ {log, parked, stored, refused}' \subseteq [Recipient -> SUBSET Event]
      /\ faults' \in 0..MaxFaults /\ crashes' \in 0..MaxCrashes
  BY <1>2, AnyIngest DEF Direct
<1>4. TypeOK'
  BY <1>1, <1>2, <1>3 DEF TypeOK, sender, relay
<1>5. \A s \in Recipient, p \in Poller : PollSound(s, poll[s][p])'
  BY <1>2, <1>3, PollsStay
<1> QED
  BY <1>2, <1>3, <1>4, <1>5, DeviceFrame DEF relay

\* A restart forgets what is not stored, with the polls that would have
\* acknowledged it.
LEMMA CrashStep ==
    ASSUME RelayInv, NEW r \in Recipient, RecipientCrash(r)
    PROVE  RelayInv'
<1>1. TypeOK /\ poll \in [Recipient -> [Poller -> Poll]]
  BY DEF RelayInv, TypeOK, Poll
<1>2. PICK core : core = CausalCore(stored[r])
  OBVIOUS
<1>3. core \subseteq stored[r]
  BY <1>2 DEF CausalCore
<1>4. /\ crashes < MaxCrashes /\ crashes' = crashes + 1
      /\ log' = [log EXCEPT ![r] = core] /\ parked' = [parked EXCEPT ![r] = stored[r] \ core]
      /\ opened' = [opened EXCEPT ![r] = saved[r]]
      /\ poll' = [poll EXCEPT ![r] = [q \in Poller |-> NoPoll]]
      /\ due' = due \ ((parked[r] \ stored[r]) \X {r})
      /\ UNCHANGED <<sender, relay, stored, refused, saved, faults>>
  BY <1>2 DEF RecipientCrash
<1>5. /\ log \in [Recipient -> SUBSET Event] /\ parked \in [Recipient -> SUBSET Event]
      /\ stored \in [Recipient -> SUBSET Event] /\ due \subseteq Event \X Recipient
  BY <1>1 DEF TypeOK
<1>6. /\ log'[r] = core /\ parked'[r] = stored[r] \ core
      /\ \A s \in Recipient \ {r} : log'[s] = log[s] /\ parked'[s] = parked[s]
  BY <1>4, <1>5
<1>7. NoPoll \in Poll
  BY DEF Poll, NoPoll
<1>8. poll' \in [Recipient -> [Poller -> Poll]]
      /\ \A s \in Recipient, p \in Poller :
             (s = r /\ poll'[s][p] = NoPoll) \/ (s # r /\ poll'[s][p] = poll[s][p])
  BY <1>1, <1>4, <1>7
<1>9. crashes' \in 0..MaxCrashes
  BY <1>1, <1>4, RelayAssumption DEF TypeOK
<1>10. TypeOK'
  <2>1. /\ opened' \in [Recipient -> SUBSET Envelope] /\ due' \subseteq Event \X Recipient
        /\ log' \in [Recipient -> SUBSET Event] /\ parked' \in [Recipient -> SUBSET Event]
    BY <1>1, <1>3, <1>4, <1>5 DEF TypeOK
  <2> QED
    BY <1>1, <1>4, <1>8, <1>9, <2>1 DEF TypeOK, Poll, sender, relay
<1>11. ASSUME NEW s \in Recipient
       PROVE  NodeSound(s)'
  <2>1. NodeSound(s) /\ authored' = authored /\ due' \subseteq due
    BY <1>4 DEF RelayInv, sender
  <2>2. CASE s = r
    BY <1>3, <1>4, <1>6, <2>1, <2>2 DEF NodeSound, Held, Kept
  <2>3. CASE s # r
    BY <1>4, <1>6, <2>1, <2>3 DEF NodeSound, Held, Kept
  <2> QED
    BY <2>2, <2>3
<1>12. ASSUME NEW s \in Recipient, NEW p \in Poller
       PROVE  PollSound(s, poll[s][p])'
  <2>1. CASE s = r
    <3>1. PollSound(s, NoPoll)'
      BY DEF PollSound, NoPoll
    <3> QED
      BY <1>8, <2>1, <3>1
  <2>2. CASE s # r
    <3>1. PICK c : c = poll[s][p]
      OBVIOUS
    <3>2. Held(s)' = Held(s) /\ authored' = authored
      BY <1>4, <1>6, <2>2 DEF Held, Kept, sender
    <3>3. PollSound(s, c)'
      BY <3>1, <3>2 DEF RelayInv, PollSound
    <3> QED
      BY <1>8, <2>2, <3>1, <3>3
  <2> QED
    BY <2>1, <2>2
<1>13. DueKept
  <2>1. SUFFICES ASSUME NEW d \in due', d[1] \in Kept(d[2])
                 PROVE  d[1] \in Kept(d[2])'
    BY <1>4 DEF DueKept
  <2>2. d[2] \in Recipient /\ d = <<d[1], d[2]>>
    BY <1>4, <1>5, <2>1
  <2>3. CASE d[2] = r
    <3>1. d[1] \in stored[r]
      BY <1>4, <2>1, <2>2, <2>3 DEF Kept
    <3> QED
      BY <1>4, <2>3, <3>1 DEF Kept
  <2>4. CASE d[2] # r
    BY <1>4, <1>6, <2>1, <2>2, <2>4 DEF Kept
  <2> QED
    BY <2>3, <2>4
<1>14. PushedIsOnTheWay' /\ Written' /\ DueLinked'
  <2>1. UNCHANGED <<authored, outbox, linked, sealed, box>> /\ Sealed' = Sealed
    BY <1>4 DEF sender, relay, Sealed
  <2>2. PushedIsOnTheWay'
    BY <1>13, <2>1, WayStays
  <2> QED
    BY <1>13, <2>1, <2>2 DEF RelayInv, Written, DueLinked, DueKept
<1> QED
  BY <1>10, <1>11, <1>12, <1>14 DEF RelayInv

LEMMA RelayInit == Init => RelayInv
<1> SUFFICES ASSUME Init
             PROVE  RelayInv
  OBVIOUS
<1>1. NoPoll \in Poll
  BY DEF Poll, NoPoll
<1>2. TypeOK
  <2>1. {log, parked, stored, refused} \subseteq [Recipient -> SUBSET Event]
    BY RelayAssumption DEF Init
  <2>2. {opened, saved} \subseteq [Recipient -> SUBSET Envelope]
    BY DEF Init
  <2>3. poll \in [Recipient -> [Poller -> Poll]]
    BY <1>1 DEF Init
  <2>4. puts \in 0..RateMax /\ faults \in 0..MaxFaults /\ crashes \in 0..MaxCrashes
    BY RelayAssumption DEF Init
  <2> QED
    BY <2>1, <2>2, <2>3, <2>4, RelayAssumption DEF Init, TypeOK, Poll
<1>3. \A r \in Recipient, q \in Poller : PollSound(r, poll[r][q])
  BY DEF Init, PollSound, NoPoll
<1>4. \A r \in Recipient : NodeSound(r)
  BY DEF Init, NodeSound, Held, Kept
<1>5. Written
  BY DEF Init, Written, ToSet, Sealed
<1> QED
  BY <1>2, <1>3, <1>4, <1>5 DEF RelayInv, DueLinked, PushedIsOnTheWay, Init

LEMMA RelayStep ==
    ASSUME RelayInv, [Next]_vars
    PROVE  /\ RelayInv'
           /\ \A v \in box \ box' : v.ev \in Held(v.to)
<1>1. CASE UNCHANGED vars
  <2>1. UNCHANGED <<sender, relay, device, due, bounds>> /\ UNCHANGED <<node, poll>>
    BY <1>1 DEF vars, device
  <2>2. HeldGrows /\ DueKept /\ \A s \in Recipient : NodeSound(s)'
    BY <2>1, NodesStay DEF sender
  <2>3. \A s \in Recipient, p \in Poller : PollSound(s, poll[s][p])'
    BY <2>1, <2>2, PollsStay
  <2>4. TypeOK'
    BY <2>1 DEF RelayInv, TypeOK, sender, relay, device, node, bounds
  <2> QED
    BY <2>1, <2>2, <2>3, <2>4, DeviceFrame DEF relay
<1>2. ASSUME NEW e \in Event, Author(e)
      PROVE  RelayInv' /\ box \subseteq box'
  BY <1>2, AuthorStep DEF Author, relay
<1>3. ASSUME NEW p \in Pusher, PushTake(p)
      PROVE  RelayInv' /\ box \subseteq box'
  BY <1>3, TakeStep DEF PushTake, relay
<1>4. ASSUME NEW p \in Pusher, PushPut(p)
      PROVE  RelayInv' /\ box \subseteq box'
  <2>1. box \subseteq box'
    BY <1>4 DEF PushPut
  <2> QED
    BY <1>4, <2>1, PutStep
<1>5. ASSUME NEW p \in Pusher, PushLimited(p) \/ PushFails(p)
      PROVE  RelayInv' /\ box \subseteq box'
  BY <1>5, GivenUpStep DEF PushLimited, PushFails, PushGivesUp, relay
<1>13. CASE SenderCrash
  BY <1>13, SenderCrashStep DEF SenderCrash, relay
<1>6. CASE WindowEnds \/ \E r \in Recipient : Link(r)
  BY <1>6, LinkStep DEF WindowEnds, Link, relay
<1>7. ASSUME NEW r \in Recipient, NEW q \in Poller, PollFetch(r, q)
      PROVE  RelayInv' /\ box \subseteq box'
  BY <1>7, FetchStep DEF PollFetch, relay
<1>8. ASSUME NEW r \in Recipient, NEW q \in Poller, PollOpen(r, q) \/ PollSkip(r, q)
      PROVE  RelayInv' /\ box \subseteq box'
  BY <1>8, OpenStep DEF PollOpen, PollSkip, relay
<1>9. ASSUME NEW r \in Recipient, NEW q \in Poller, PollIngest(r, q)
      PROVE  RelayInv' /\ box \subseteq box'
  BY <1>9, IngestStep DEF PollIngest, relay
<1>10. ASSUME NEW r \in Recipient, NEW q \in Poller, PollAck(r, q) \/ PollAckFails(r, q)
       PROVE  /\ RelayInv'
              /\ \A v \in box \ box' : v.ev \in Held(v.to)
  BY <1>10, AckStep
<1>11. ASSUME NEW r \in Recipient, PersistE2ee(r)
       PROVE  RelayInv' /\ box \subseteq box'
  BY <1>11, PersistStep DEF PersistE2ee, relay
<1>14. ASSUME NEW r \in Recipient, NEW e \in Event, Direct(r, e)
       PROVE  RelayInv' /\ box \subseteq box'
  BY <1>14, DirectStep DEF Direct, relay
<1>12. ASSUME NEW r \in Recipient, RecipientCrash(r)
       PROVE  RelayInv' /\ box \subseteq box'
  BY <1>12, CrashStep DEF RecipientCrash, relay
<1> QED
  BY <1>1, <1>2, <1>3, <1>4, <1>5, <1>6, <1>7, <1>8, <1>9, <1>10, <1>11, <1>12, <1>13, <1>14
     DEF Next, Push, PollStep
-----------------------------------------------------------------------------
\* poll_relay_once acknowledges an envelope, and td-relay deletes it, only when
\* the recipient has stored or parked its event or its store has refused a put
\* for it, whatever polls run at once, fail, or are cut short by a restart.
THEOREM DroppedOnlyIfHeld == Spec => DroppedIsHeld
<1>1. RelayInv /\ [Next]_vars =>
          [\A v \in box \ box' : v.ev \in stored[v.to] \cup parked[v.to] \cup refused[v.to]]_vars
  BY RelayStep DEF Held, Kept
<1>2. RelayInv /\ [Next]_vars => RelayInv'
  BY RelayStep
<1> QED
  BY <1>1, <1>2, RelayInit, PTL DEF Spec, DroppedIsHeld

\* push_outbox_to_relay, td-relay and poll_relay_once together: an event
\* written for a linked device is in the outbox, in a running push, on the
\* relay or stored or parked at the device, unless a push ended with an error,
\* the sender restarted before the put, the device restarted while the event
\* was parked, or the device's store refused a put.
THEOREM PushedStaysOnTheWay == Spec => []PushedIsOnTheWay
<1>1. RelayInv /\ [Next]_vars => RelayInv'
  BY RelayStep
<1>2. RelayInv => PushedIsOnTheWay
  BY DEF RelayInv
<1> QED
  BY <1>1, <1>2, RelayInit, PTL DEF Spec
=============================================================================
