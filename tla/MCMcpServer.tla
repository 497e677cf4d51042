----------------------------- MODULE MCMcpServer -----------------------------
(* The MCP server with two sessions whose adapters differ in one tool each. *)
EXTENDS McpServer
CONSTANTS s1, s2, goto, restart
MCSessions == {s1, s2}
MCGated == {goto, restart}
MCSupports == [s \in MCSessions |-> IF s = s1 THEN {goto} ELSE {restart}]
=============================================================================
