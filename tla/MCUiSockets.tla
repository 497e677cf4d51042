----------------------------- MODULE MCUiSockets -----------------------------
(* One session name that is used again, or two sessions. *)
EXTENDS UiSockets
CONSTANTS a, b
MCScenarios ==
  {[names |-> {a}, starts |-> 2, crashes |-> 1, ends |-> 1, user |-> {"launch", "select"}],
   [names |-> {a, b}, starts |-> 2, crashes |-> 0, ends |-> 1, user |-> {}],
   [names |-> {a, b}, starts |-> 2, crashes |-> 0, ends |-> 0, user |-> {"launch", "select"}],
   [names |-> {a, b}, starts |-> 2, crashes |-> 1, ends |-> 0, user |-> {}]}
=============================================================================
