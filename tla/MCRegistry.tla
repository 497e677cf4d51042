------------------------------ MODULE MCRegistry ------------------------------
(* Registry with more sessions than ids, so that an id is used again. *)
EXTENDS Registry
=============================================================================
