------------------------------ MODULE MCModPro ------------------------------
(***************************************************************************)
(* ModPro with the shape of the sample config.yml: one route from a port   *)
(* that comes and goes (the radio's alsa_in client) to a chain's input,    *)
(* and one from the chain's output to a port that does too.                *)
(***************************************************************************)
EXTENDS ModPro

MCOwnPorts == {"receive_in_1", "receive_out_1"}

MCForeignPorts == {"network_in", "playback"}

MCRoutes == {<<"network_in", "receive_in_1">>, <<"receive_out_1", "playback">>}
=============================================================================
