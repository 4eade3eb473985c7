--------------------------- MODULE MCRoomRegistry ---------------------------
(***************************************************************************)
(* alice creates a room and invites bob; while bob joins or leaves, she    *)
(* bans him, thinks better of it and invites him again, which her registry *)
(* refuses, says hi and bans carol, with parents by then that her log has  *)
(* not; carol would join without an invite.  In the chat universe alice    *)
(* says hello before she invites bob.  Timestamps are per-device counters  *)
(* that start at 2, as next_ts makes them.                                 *)
(***************************************************************************)
EXTENDS RoomRegistry

CONSTANTS alice, bob, carol,
          create, hello, invite, join, ban, reinvite, hi, shun, leave, walkin

Three       == {alice, bob, carol}
Quarrel     == {create, invite, join, ban, reinvite, hi, shun, leave, walkin}
Chat        == {create, hello, invite, join}
MCRoom      == {"room"}
MCRoomOf    == [e \in Event |-> "room"]
MCParentsOf ==
    [e \in Event |->
        CASE e = create                 -> {}
          [] e \in {hello, walkin}      -> {create}
          [] e = invite                 -> IF hello \in Event THEN {hello} ELSE {create}
          [] e \in {join, ban}          -> {invite}
          [] e = leave                  -> {join}
          [] e \in {reinvite, hi}       -> {ban}
          [] e = shun                   -> {reinvite, hi}]
MCTsOf      ==
    [e \in Event |->
        CASE e \in {create, join, walkin} -> 2
          [] e \in {hello, leave}         -> 3
          [] e = invite                   -> 4
          [] e = ban                      -> 5
          [] e = reinvite                 -> 6
          [] e = hi                       -> 7
          [] e = shun                     -> 8]
MCKindOf    ==
    [e \in Event |->
        CASE e = create         -> "create"
          [] e \in {hello, hi}  -> "message"
          [] OTHER              -> "membership"]
MCAuthorOf  ==
    [e \in Event |->
        CASE e \in {join, leave} -> bob
          [] e = walkin          -> carol
          [] OTHER               -> alice]
MCActionOf  ==
    [e \in Event |->
        CASE e \in {join, walkin} -> "join"
          [] e \in {ban, shun}    -> "ban"
          [] e = leave            -> "leave"
          [] OTHER                -> "invite"]
MCTargetOf  == [e \in Event |-> IF e \in {walkin, shun} THEN carol ELSE bob]
=============================================================================
