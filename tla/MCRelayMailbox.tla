--------------------------- MODULE MCRelayMailbox ---------------------------
(***************************************************************************)
(* A sender with two pushes that writes a chain of two messages, and a     *)
(* recipient with two polls.  Each message has the one before as its       *)
(* parent, so a recipient that misses one parks the next.                  *)
(***************************************************************************)
EXTENDS RelayMailbox

CONSTANTS b, p1, p2, timer, manual, create, m1, m2

One         == {b}
TwoPushes   == {p1, p2}
TwoPolls    == {timer, manual}
Chain2      == {create, m1, m2}
MCRoom      == {"room"}
MCRoomOf    == [e \in Event |-> "room"]
MCParentsOf ==
    [e \in Event |->
        CASE e = create -> {}
          [] e = m1     -> {create}
          [] e = m2     -> {m1}]
MCTsOf      ==
    [e \in Event |->
        CASE e = create -> 1
          [] e = m1     -> 2
          [] e = m2     -> 3]
MCKnown     == {create}
Nobody      == {}
AnySeal     == {"aead", "olm", "foreign"}
=============================================================================
