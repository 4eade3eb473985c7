---------------------------- MODULE MCOtaUpdate ----------------------------
(***************************************************************************)
(* A device with two releases on offer and one whose artifact is too small *)
(* to be a binary: with the default settings, without a rollback slot and  *)
(* restarts, and with artifacts that are only staged.                      *)
(***************************************************************************)
EXTENDS OtaUpdate

CONSTANTS v1, v2, stub

MCRelease  == {v1, v2, stub}
MCTiny     == {stub}
MCSettings == {[auto |-> TRUE,  keep |-> TRUE,  restart |-> TRUE],
               [auto |-> TRUE,  keep |-> FALSE, restart |-> FALSE],
               [auto |-> FALSE, keep |-> TRUE,  restart |-> TRUE]}
=============================================================================
