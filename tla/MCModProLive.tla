---------------------------- MODULE MCModProLive ----------------------------
(***************************************************************************)
(* ModPro with one route, from a port that comes and goes to a chain's     *)
(* input, small enough for liveness.                                       *)
(***************************************************************************)
EXTENDS ModPro

MCOwnPorts == {"receive_in_1"}

MCForeignPorts == {"network_in"}

MCRoutes == {<<"network_in", "receive_in_1">>}
=============================================================================
