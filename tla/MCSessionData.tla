---------------------------- MODULE MCSessionData ----------------------------
(* Session data with one variable, small buffers and two tool calls. *)
EXTENDS SessionData, TLC
CONSTANTS c1, c2, x, u, v, w, d1, d2
MCMixes == {{"values"}, {"context"}, {"output"}, {"data"}}
Symmetry == Permutations({c1, c2}) \cup Permutations({d1, d2}) \cup Permutations({u, v})
=============================================================================
