----------------------------- MODULE MCRpcGate ------------------------------
(***************************************************************************)
(* Two requests at a time, in three kinds of traffic: requests around the  *)
(* boundaries of windows of two units, applies of two Wi-Fi networks, and  *)
(* passkey ceremonies.                                                     *)
(***************************************************************************)
EXTENDS RpcGate, TLC

MCLoads ==
    {[requests |-> 5, time |-> 3,
      routes |-> {"claim_status", "claim_node", "wifi_status"}],
     [requests |-> 4, time |-> 0, routes |-> {"claim_node", "wifi_apply"}],
     [requests |-> 4, time |-> 0,
      routes |-> {"claim_node", "register_begin", "register_finish",
                  "auth_begin", "auth_finish"}]}

Symmetry == Permutations(Slot) \cup Permutations(Ip) \cup Permutations(Ssid)
=============================================================================
