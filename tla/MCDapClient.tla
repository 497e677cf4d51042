---------------------------- MODULE MCDapClient ----------------------------
(* DapClient with two tasks and channels of one frame. *)
EXTENDS DapClient
=============================================================================
