------------------------------ MODULE LiveFeed ------------------------------
(***************************************************************************)
(* Live updates of one room (rpc.rs of td-node): the handlers that insert  *)
(* messages and then call RoomNotify, the SSE streams fed by its broadcast *)
(* channel, and the long polls woken by its Notify.                        *)
(*                                                                         *)
(* The node's lock is held for an insert and for a snapshot, but neither   *)
(* between insert and notify nor between snapshot and wait.  Messages are  *)
(* only counted: a snapshot shows all of them.                             *)
(***************************************************************************)
EXTENDS Naturals, Sequences

CONSTANTS
    Writer,       \* handlers that insert messages of the room
    Silent,       \* the writers that do not notify: sync_peer
    Stream,       \* GET /v1/messages/stream
    Waiter,       \* POST /v1/messages/wait
    Capacity,     \* capacity of the broadcast channel
    MaxMessages,  \* bound: messages of the room
    MaxOthers     \* bound: changes of other rooms

ASSUME FeedAssumption ==
    /\ Silent \subseteq Writer
    /\ Capacity \in Nat \ {0}
    /\ MaxMessages \in Nat /\ MaxOthers \in Nat

VARIABLES
    count,    \* messages of the room
    owed,     \* writers between insert and notify
    due,      \* history: the count after the last insert that is notified
    others,   \* changes of other rooms so far
    stream,   \* the state of every stream
    wait      \* the state of every long poll

feedVars == <<count, owed, due, others, stream, wait>>

\* A stream's receiver (rx with its unread values, lag set when the channel
\* dropped some) and last_count, the count its client was last shown.
NoStream == [stage |-> "off", rx |-> <<>>, lag |-> FALSE, last |-> 0]

\* A long poll's since_count, and whether its deadline has passed.
NoWait == [stage |-> "off", since |-> 0, late |-> FALSE]

FeedInit ==
    /\ count = 0 /\ owed = {} /\ due = 0 /\ others = 0
    /\ stream = [s \in Stream |-> NoStream]
    /\ wait = [w \in Waiter |-> NoWait]
-----------------------------------------------------------------------------
(***************************************************************************)
(* Writers.                                                                *)
(***************************************************************************)

\* send_message, sync_ingest, the P2P listener, the relay poll and sync_peer
\* ingest under the lock and release it.
Insert(h) ==
    /\ h \notin owed
    /\ count < MaxMessages /\ count' = count + 1
    /\ owed' = owed \cup ({h} \ Silent)
    /\ due' = IF h \in Silent THEN due ELSE count'
    /\ UNCHANGED <<others, stream, wait>>

\* broadcast::Sender::send: a full receiver loses its oldest value.
Received(r, room) ==
    IF r.stage = "off" THEN r
    ELSE IF Len(r.rx) < Capacity THEN [r EXCEPT !.rx = Append(@, room)]
    ELSE [r EXCEPT !.rx = Append(Tail(@), room), !.lag = TRUE]

\* Notify::notify_waiters: only polls that wait now are woken.
Woken(p) == IF p.stage = "asleep" THEN [p EXCEPT !.stage = "check"] ELSE p

\* RoomNotify::notify.
Publish(room) ==
    /\ stream' = [s \in Stream |-> Received(stream[s], room)]
    /\ wait' = [w \in Waiter |-> Woken(wait[w])]

Notify(h) ==
    /\ h \in owed
    /\ owed' = owed \ {h}
    /\ Publish("this")
    /\ UNCHANGED <<count, due, others>>

\* A message of another room.
NotifyOther ==
    /\ others < MaxOthers /\ others' = others + 1
    /\ Publish("other")
    /\ UNCHANGED <<count, owed, due>>
-----------------------------------------------------------------------------
(***************************************************************************)
(* stream_messages.                                                        *)
(***************************************************************************)

Subscribe(s) ==
    /\ stream[s].stage = "off"
    /\ stream' = [stream EXCEPT ![s].stage = "first"]
    /\ UNCHANGED <<count, owed, due, others, wait>>

\* Mutation of Snapshot: the stream goes on with the count it had.
SnapshotStale(s) ==
    /\ stream[s].stage \in {"first", "changed"}
    /\ stream' = [stream EXCEPT ![s].stage = "recv"]
    /\ UNCHANGED <<count, owed, due, others, wait>>

\* snapshot_messages, and the event with it, if the count has changed.
Snapshot(s) ==
    /\ stream[s].stage \in {"first", "changed"}
    /\ stream' = [stream EXCEPT ![s].stage = "recv", ![s].last = count]
    /\ UNCHANGED <<count, owed, due, others, wait>>

\* rx.recv returns a value; those of other rooms are passed over.
Recv(s) ==
    /\ stream[s].stage = "recv" /\ ~stream[s].lag
    /\ stream[s].rx # <<>>
    /\ stream' = [stream EXCEPT
                     ![s].rx = Tail(@),
                     ![s].stage = IF Head(stream[s].rx) = "this" THEN "changed" ELSE @]
    /\ UNCHANGED <<count, owed, due, others, wait>>

\* Mutation of RecvLagged: lagging behind is passed over.
RecvLaggedIgnored(s) ==
    /\ stream[s].stage = "recv" /\ stream[s].lag
    /\ stream' = [stream EXCEPT ![s].lag = FALSE]
    /\ UNCHANGED <<count, owed, due, others, wait>>

\* rx.recv returns Lagged.
RecvLagged(s) ==
    /\ stream[s].stage = "recv" /\ stream[s].lag
    /\ stream' = [stream EXCEPT ![s].lag = FALSE, ![s].stage = "changed"]
    /\ UNCHANGED <<count, owed, due, others, wait>>

\* The client closes the stream.
Close(s) ==
    /\ stream[s].stage # "off"
    /\ stream' = [stream EXCEPT ![s] = NoStream]
    /\ UNCHANGED <<count, owed, due, others, wait>>
-----------------------------------------------------------------------------
(***************************************************************************)
(* wait_messages.                                                          *)
(***************************************************************************)
WaitStart(w, since) ==
    /\ wait[w].stage = "off"
    /\ wait' = [wait EXCEPT ![w] = [stage |-> "check", since |-> since,
                                    late |-> FALSE]]
    /\ UNCHANGED <<count, owed, due, others, stream>>

\* snapshot_messages shows a change, or the deadline has passed: the poll
\* answers.
WaitAnswer(w) ==
    /\ wait[w].stage = "check"
    /\ count # wait[w].since \/ wait[w].late
    /\ wait' = [wait EXCEPT ![w] = NoWait]
    /\ UNCHANGED <<count, owed, due, others, stream>>

\* Nothing has changed.  The lock is released.
WaitUnchanged(w) ==
    /\ wait[w].stage = "check"
    /\ count = wait[w].since /\ ~wait[w].late
    /\ wait' = [wait EXCEPT ![w].stage = "arm"]
    /\ UNCHANGED <<count, owed, due, others, stream>>

\* notify.tick.notified() and select.
WaitSleep(w) ==
    /\ wait[w].stage = "arm"
    /\ wait' = [wait EXCEPT ![w].stage = "asleep"]
    /\ UNCHANGED <<count, owed, due, others, stream>>

\* Mutation of WaitDeadline: after the sleep the deadline is not looked at.
WaitDeadlineMoves(w) ==
    /\ wait[w].stage = "asleep"
    /\ wait' = [wait EXCEPT ![w].stage = "check"]
    /\ UNCHANGED <<count, owed, due, others, stream>>

\* The deadline passes, at any point of the loop; the sleep up to it ends.
WaitDeadline(w) ==
    /\ wait[w].stage # "off"
    /\ wait' = [wait EXCEPT ![w].stage = IF @ = "asleep" THEN "check" ELSE @,
                            ![w].late = TRUE]
    /\ UNCHANGED <<count, owed, due, others, stream>>

StreamStep(s) == Snapshot(s) \/ Recv(s) \/ RecvLagged(s)

WaitStep(w) == WaitAnswer(w) \/ WaitUnchanged(w) \/ WaitSleep(w)

FeedNext ==
    \/ \E h \in Writer : Insert(h) \/ Notify(h)
    \/ NotifyOther
    \/ \E s \in Stream : Subscribe(s) \/ StreamStep(s) \/ Close(s)
    \/ \E w \in Waiter :
           WaitStep(w) \/ WaitDeadline(w) \/ \E since \in 0..count : WaitStart(w, since)

FeedSpec == FeedInit /\ [][FeedNext]_feedVars

\* Handlers run to their end and the timer of a long poll fires.
FeedFairness ==
    /\ \A h \in Writer : WF_feedVars(Notify(h))
    /\ \A s \in Stream : WF_feedVars(StreamStep(s))
    /\ \A w \in Waiter : WF_feedVars(WaitStep(w)) /\ WF_feedVars(WaitDeadline(w))

FairFeedSpec == FeedSpec /\ FeedFairness
-----------------------------------------------------------------------------
(***************************************************************************)
(* Properties.                                                             *)
(***************************************************************************)

\* Every variable has the type of the state or locals it stands for.
FeedTypeOK ==
    /\ count \in 0..MaxMessages /\ due \in 0..count /\ others \in 0..MaxOthers
    /\ owed \subseteq Writer \ Silent
    /\ \A s \in Stream :
           /\ stream[s].stage \in {"off", "first", "recv", "changed"}
           /\ stream[s].rx \in Seq({"this", "other"}) /\ Len(stream[s].rx) <= Capacity
           /\ stream[s].lag \in BOOLEAN /\ stream[s].last \in 0..count
    /\ wait \in [Waiter -> [stage : {"off", "check", "arm", "asleep"},
                            since : 0..MaxMessages, late : BOOLEAN]]

\* A stream with nothing left to read, and no writer on its way to notify, has
\* shown its client every message up to the last one that was notified: no
\* such message falls between subscription and first snapshot, between two
\* snapshots, or into the gap of a full channel, also when sync_peer, which
\* notifies nobody, adds messages in between.
StreamIsCurrent ==
    \A s \in Stream :
        /\ stream[s].stage = "recv" /\ stream[s].rx = <<>> /\ ~stream[s].lag
        /\ owed = {}
        => stream[s].last >= due

\* A stream that is behind catches up or is closed.
StreamCatchesUp ==
    \A s \in Stream :
        stream[s].stage = "recv" /\ stream[s].last < due
            ~> stream[s].stage = "off" \/ stream[s].last >= due

\* A long poll always answers: when the notification came too early for it,
\* between its snapshot and its wait, its deadline brings it back.
WaitAnswers == \A w \in Waiter : wait[w].stage # "off" ~> wait[w].stage = "off"
=============================================================================
