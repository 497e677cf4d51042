-------------------------- MODULE MCSessionEvents --------------------------
(* Small instances of SessionEvents. *)
EXTENDS SessionEvents
=============================================================================
