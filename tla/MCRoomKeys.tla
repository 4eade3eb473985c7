----------------------------- MODULE MCRoomKeys -----------------------------
(***************************************************************************)
(* Two devices that write to one room, each with up to two calls at once.  *)
(***************************************************************************)
EXTENDS RoomKeys, TLC

CONSTANTS a, b, h1, h2

Two   == {a, b}
Once  == {h1}
Twice == {h1, h2}

Symmetry == Permutations(Two) \cup Permutations(Twice)
=============================================================================
