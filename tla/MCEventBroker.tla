---------------------------- MODULE MCEventBroker ---------------------------
(***************************************************************************)
(* EventBroker with the JACK process thread and the JACK notification      *)
(* thread as senders and the main thread as sender and receiver, on a list *)
(* bounded at 2 instead of 50.                                             *)
(***************************************************************************)
EXTENDS EventBroker
=============================================================================
