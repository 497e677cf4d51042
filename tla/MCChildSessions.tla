-------------------------- MODULE MCChildSessions --------------------------
(* Instances of ChildSessions for TLC: a js child and a debugpy child. *)
EXTENDS ChildSessions, TLC

(* set_breakpoints takes the breakpoints of the file away. *)
NoLines == {{}}
=============================================================================
