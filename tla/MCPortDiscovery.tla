--------------------------- MODULE MCPortDiscovery ---------------------------
(* Port discovery with two servers of any kind, two ports, and two commands  *)
(* that each run `vars` or `bp set` for two files.                           *)
EXTENDS PortDiscovery, TLC
CONSTANTS a, b, r1, r2, p1, p2
Symmetry == Permutations({r1, r2}) \cup Permutations({a, b}) \cup Permutations({p1, p2})
MCScripts ==
  {<<"get_stack_trace", "get_scopes", "get_variables">>, <<"set_breakpoints", "set_breakpoints">>}
=============================================================================
