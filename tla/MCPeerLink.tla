----------------------------- MODULE MCPeerLink -----------------------------
(***************************************************************************)
(* Two connections; an event whose frame needs two Noise messages, and one *)
(* that is larger than a frame may be.                                     *)
(***************************************************************************)
EXTENDS PeerLink

CONSTANTS long, huge, c1, c2

MCSize == [e \in Event |-> IF e = long THEN 2 ELSE 3]
MCPinLists == {{}, {c1}}
=============================================================================
