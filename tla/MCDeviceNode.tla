---------------------------- MODULE MCDeviceNode ----------------------------
(***************************************************************************)
(* Small universes of events for DeviceNode.  Room r1 is a diamond with a  *)
(* tail: create, two concurrent messages, their merge and a reply to the   *)
(* merge.  The reply has one parent and the merge two, so list_all loads   *)
(* the reply first.  x is an event of room r2 that names a parent in r1,   *)
(* which RoomDag::ingest refuses.                                          *)
(***************************************************************************)
EXTENDS DeviceNode

CONSTANTS create, left, right, merge, reply, x, r1, r2

Diamond      == {create, left, right, merge, reply}
DiamondPlus  == Diamond \cup {x}
MCRoom       == {r1, r2}
MCRoomOf     == [e \in Event |-> IF e = x THEN r2 ELSE r1]
MCParentsOf  ==
    [e \in Event |->
        CASE e = create          -> {}
          [] e \in {left, right} -> {create}
          [] e = merge           -> {left, right}
          [] e = reply           -> {merge}
          [] e = x               -> {create}]
MCTsOf       ==
    [e \in Event |->
        CASE e = create -> 1
          [] e = left   -> 2
          [] e = right  -> 2
          [] e = merge  -> 3
          [] e = reply  -> 4
          [] e = x      -> 2]
MCOwn        == {left}
=============================================================================
