------------------------- MODULE MCExecutionTools -------------------------
(***************************************************************************)
(* ExecutionTools with a task that drives the debuggee (the MCP loop) and  *)
(* one beside it (a second client of /mcp-proxy, or the web UI).           *)
(***************************************************************************)
EXTENDS ExecutionTools, TLC

CONSTANTS main, other

Identity == [l \in Lines |-> l]

AllTools ==
  [t \in Tasks |-> IF t = main THEN {"step", "continue_execution", "step_until", "step_until_change",
                                     "continue_until"}
                   ELSE {"set_breakpoint", "set_breakpoints", "runToCursor"}]

Symmetry == Permutations(Lines)
=============================================================================
