------------------------------- MODULE MCUiView -------------------------------
(* A tab that reconnects once, with small rings: the cache is trimmed and a *)
(* socket can lag.                                                          *)
EXTENDS UiView
MCMixes == {{"timeline"}, {"breakpoints"}}
=============================================================================
