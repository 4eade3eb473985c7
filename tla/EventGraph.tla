----------------------------- MODULE EventGraph -----------------------------
(***************************************************************************)
(* The universe of signed events that devices exchange, and the pure       *)
(* helpers of td-event and td-node that are computed from a set of events. *)
(*                                                                         *)
(* An event id is the hash of the unsigned event, parents included, so an  *)
(* event fixes its room, its parents and its timestamp once and for all    *)
(* and no event can be its own ancestor.  Signatures are not modelled: an  *)
(* element of Event is an event that verify_event accepts.                 *)
(***************************************************************************)
EXTENDS Naturals, FiniteSets

CONSTANTS
    Event,      \* signed events that verify
    Room,       \* room ids
    RoomOf,     \* the room_id field of an event
    ParentsOf,  \* the parents field of an event
    TsOf        \* the ts_ms field of an event

ASSUME FieldsAssumption ==
    /\ RoomOf \in [Event -> Room]
    /\ ParentsOf \in [Event -> SUBSET Event]
    /\ TsOf \in [Event -> Nat]

\* Hash-linked parents: every non-empty set of events has a member none of
\* whose parents is in the set.
ASSUME AcyclicAssumption ==
    \A S \in SUBSET Event :
        S # {} => \E e \in S : ParentsOf[e] \cap S = {}
-----------------------------------------------------------------------------
\* S holds the parents of all its members.
ParentClosed(S) == \A e \in S : ParentsOf[e] \subseteq S

\* The largest parent-closed part of S: the events of S whose ancestors are
\* all in S.
CausalCore(S) ==
    IF ParentClosed(S) THEN S ELSE UNION {C \in SUBSET S : ParentClosed(C)}

\* RoomDag::tips: the events of a DAG that no event of it has as a parent.
TipsOf(S) == {e \in S : \A c \in S : e \notin ParentsOf[c]}

\* The sort key of list_all, missing_for_peer and list_events: number of
\* parents first, then timestamp.
SortsBefore(e, f) ==
    LET m == Cardinality(ParentsOf[e])
        n == Cardinality(ParentsOf[f])
    IN  m < n \/ (m = n /\ TsOf[e] < TsOf[f])

\* The events that may come first when S is sorted by that key.  Ties are in
\* no particular order: the sort is stable over a hash map or a table scan.
FirstOf(S) == {e \in S : \A f \in S : ~SortsBefore(f, e)}

\* The ancestors of an event: what every parent-closed set that holds its
\* parents holds.
Past(e) ==
    {a \in Event : \A S \in SUBSET Event :
                      ParentsOf[e] \subseteq S /\ ParentClosed(S) => a \in S}
=============================================================================
