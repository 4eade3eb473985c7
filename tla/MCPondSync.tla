----------------------------- MODULE MCPondSync -----------------------------
(***************************************************************************)
(* Three devices in a star around the hub b share a room.  a and c each    *)
(* send a first message at the same time, and a merges the two.            *)
(***************************************************************************)
EXTENDS PondSync

CONSTANTS a, b, c, create, left, right, merge

Three       == {a, b, c}
\* Only the outer devices know the hub.
Star        == [d \in Device |-> IF d = b THEN {} ELSE {b}]
Forked      == {create, left, right}
Merged      == Forked \cup {merge}
MCRoom      == {"room"}
MCRoomOf    == [e \in Event |-> "room"]
MCParentsOf ==
    [e \in Event |->
        CASE e = create          -> {}
          [] e \in {left, right} -> {create}
          [] e = merge           -> {left, right}]
MCTsOf      ==
    [e \in Event |->
        CASE e = create -> 1
          [] e = left   -> 2
          [] e = right  -> 3
          [] e = merge  -> 4]
StarAuthor  == [e \in Event |-> IF e = right THEN c ELSE a]
MCKnown     == {create}
=============================================================================
