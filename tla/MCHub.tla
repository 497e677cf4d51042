-------------------------------- MODULE MCHub --------------------------------
(* Hub with small rings, so that the cache is trimmed and a socket can lag. *)
EXTENDS Hub
=============================================================================
