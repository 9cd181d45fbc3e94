---------------------------- MODULE MCKeyboardPtt ---------------------------
(***************************************************************************)
(* An alarm of four polls: long enough for an iteration that is late but   *)
(* not too late.                                                           *)
(***************************************************************************)
EXTENDS KeyboardPtt
=============================================================================
