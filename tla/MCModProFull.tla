---------------------------- MODULE MCModProFull ----------------------------
(***************************************************************************)
(* ModPro with the real bound of the event list, 50, and no routes: a      *)
(* receive chain's input port and nobody else's ports.                     *)
(***************************************************************************)
EXTENDS ModPro

MCOwnPorts == {"receive_in_1"}
=============================================================================
