---------------------------- MODULE MCJackClient ----------------------------
(***************************************************************************)
(* Two settings with two values each, two chains, two changes: away, and   *)
(* back or of the other setting.                                           *)
(***************************************************************************)
EXTENDS JackClient

MCValue == {1, 2}
=============================================================================
