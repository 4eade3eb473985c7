--------------------------- MODULE MCSessionMemory --------------------------
(***************************************************************************)
(* What a node keeps in memory for its clients: owner sessions with their  *)
(* claim (PondOwner), and streams and long polls (LiveFeed).  The two have *)
(* no variable in common, so that their interleavings show no more than    *)
(* each of them alone: a behaviour moves one of the two.                   *)
(*                                                                         *)
(* A pond is claimed with a code of the client's choice or one that the    *)
(* node draws.  Two handlers write messages and notify, sync_peer only     *)
(* writes, for one stream and one long poll.                               *)
(***************************************************************************)
EXTENDS PondOwner, LiveFeed

CONSTANTS mine, drawn, send, ingest, sync, tab, poll

MCCode    == {mine, drawn}
MCChosen  == {mine}
MCWriter  == {send, ingest, sync}
SyncPeer  == {sync}
MCStream  == {tab}
MCWaiter  == {poll}

VARIABLE moves   \* the one that moves

MCVars == <<vars, feedVars, moves>>

MCInit == Init /\ FeedInit /\ moves \in {"owner", "feed"}

MCNext ==
    /\ UNCHANGED moves
    /\ \/ moves = "owner" /\ Next /\ UNCHANGED feedVars
       \/ moves = "feed" /\ FeedNext /\ UNCHANGED vars

\* FeedFairness asks for nothing where no stream or poll has started.
MCSpec == MCInit /\ [][MCNext]_MCVars /\ FeedFairness
=============================================================================
