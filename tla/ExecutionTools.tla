--------------------------- MODULE ExecutionTools ---------------------------
(***************************************************************************)
(* The tools that set breakpoints and drive the debuggee (mcp/tools.rs,    *)
(* runToCursor and setBreakpoints of server/routes.rs) and what they share *)
(* in the session (dap/session.rs): the breakpoints of one source file,    *)
(* `last_stopped` and `stopped_tx`.                                        *)
(*                                                                         *)
(* Tools run as tasks: the stdio MCP loop serves one at a time, but POST   *)
(* /mcp-proxy and the web sockets serve any number beside it. A tool is    *)
(* the list of what it does between two awaits. Its requests go through    *)
(* DapClient, which is abstracted to what RequestReply promises: requests  *)
(* reach the adapter in the order they were sent, a response reaches its   *)
(* own request, and the task goes on some time after that. Events take the *)
(* other way, the queue in front of the session's dispatcher, so a         *)
(* response may overtake an earlier event and the other way round.         *)
(* Requests that only read, like stackTrace and the first evaluation of    *)
(* step_until_change, are left out.                                        *)
(*                                                                         *)
(* The adapter is external.  A breakpoint is its line: conditions and hit  *)
(* counts are left out, and with them the order of a list.                 *)
(***************************************************************************)
EXTENDS Naturals, Sequences

CONSTANTS
  Tasks,      \* the tasks that run tools
  Tools,      \* which tools each task may run
  Lines,      \* the lines of the file
  Place,      \* where the adapter puts a breakpoint asked for at a line
  Continued,  \* does the adapter announce a resume: {TRUE}, {FALSE} or some do
  Serial,     \* at most one tool that writes breakpoints runs at a time
  MaxTools,   \* bound: how many tools are started, and steps of a tool repeated
  MaxSteps,   \* max_steps of step_until and step_until_change (20 by default)
  None

(* clear_breakpoints is set_breakpoints with no lines, for each file.      *)
BreakpointTools == {"set_breakpoints", "set_breakpoint", "continue_until", "runToCursor",
                    "ui_setBreakpoints"}
DrivingTools == {"step", "continue_execution", "step_until", "step_until_change",
                 "continue_until", "runToCursor"}

ASSUME ToolsAssumption ==
  /\ Tools \in [Tasks -> SUBSET (BreakpointTools \cup DrivingTools)]
  /\ Place \in [Lines -> Lines]
  /\ Continued \subseteq BOOLEAN /\ Continued # {}
  /\ Serial \in BOOLEAN
  /\ MaxTools \in Nat
  /\ MaxSteps \in Nat \ {0}
  /\ None \notin Nat

VARIABLES
  op,          \* the tool each task runs and where it is
  requests,    \* requests on their way to the adapter
  paused,      \* the debuggee is stopped
  stop,        \* how many times it has stopped
  installed,   \* the adapter's breakpoints in the file
  announces,   \* this adapter sends `continued` after a resume
  events,      \* events on their way to the dispatcher
  disp,        \* where the dispatcher is
  lastStopped, \* last_stopped: the stop the session believes to be paused at, or None
  version,     \* the value of stopped_tx
  store,       \* session.breakpoints of the file
  asked,       \* history: the breakpoints the tools' callers have asked for
  started      \* how many tools were started and steps repeated

adapterVars == <<requests, paused, stop, installed, announces>>
sessionVars == <<disp, lastStopped, version>>
vars == <<op, adapterVars, events, sessionVars, store, asked, started>>

-----------------------------------------------------------------------------
(* The tools *)

Install == <<"setBreakpoints", "store">>        \* set_breakpoints_with_conditions

WaitForStop == <<"check", "subscribe", "changed">>

RemoveTemp == <<"reread">> \o Install

SetBreakpoints == Install

SetBreakpoint == <<"read">> \o Install

UiSetBreakpoints == <<"setBreakpoints">>

ContinueExecution == <<"continue">>

(* Mutant: the step waits like wait_for_stop does. *)
StepOverPolling == <<"next">> \o WaitForStop \o <<"report">>

StepOver == <<"subscribe", "next", "changed", "report">>

ContinueUntil == <<"read">> \o Install \o <<"continue">> \o WaitForStop \o RemoveTemp

StepUntil == <<"next">> \o WaitForStop \o <<"evaluate", "loop">>

StepUntilChange == <<"subscribe", "next", "changed", "evaluate", "loop">>

RunToCursor == <<"find">> \o Install \o <<"subscribe", "continue", "changed">> \o RemoveTemp

Script ==
  [set_breakpoints    |-> SetBreakpoints,
   set_breakpoint     |-> SetBreakpoint,
   ui_setBreakpoints  |-> UiSetBreakpoints,
   continue_execution |-> ContinueExecution,
   step               |-> StepOver,
   continue_until     |-> ContinueUntil,
   step_until         |-> StepUntil,
   step_until_change  |-> StepUntilChange,
   runToCursor        |-> RunToCursor,
   none               |-> <<>>]

Commands == {"setBreakpoints", "continue", "next", "evaluate"}
Resuming == {"continue", "next"}

(* arg: the lines the caller names; lines: the list in hand; temp: whether *)
(* it holds a temporary breakpoint; seen: the version a watch receiver has *)
(* seen; left: steps left; waits: a request is out.  The rest is history:  *)
(* own: the tool began, or its last step began, with the session up to     *)
(* date, and nobody else has resumed the debuggee since; from: the stop it *)
(* resumed the debuggee from; at: the stop it reported, or evaluated its   *)
(* expression at, None if there was none.                                  *)
Free == [tool |-> "none", arg |-> {}, pc |-> 1, lines |-> {}, temp |-> FALSE, seen |-> 0,
         left |-> 0, waits |-> FALSE, own |-> FALSE, from |-> 0, at |-> None]

Busy(t)   == op[t].tool # "none"
Ended(t)  == Busy(t) /\ op[t].pc > Len(Script[op[t].tool])
At(t, what) ==
  Busy(t) /\ ~op[t].waits /\ ~Ended(t) /\ Script[op[t].tool][op[t].pc] = what

Writing(t) == op[t].tool \in BreakpointTools

(* The session knows of the stop the debuggee is at. *)
CaughtUp == paused /\ events = <<>> /\ disp # "bump"

Init ==
  /\ op = [t \in Tasks |-> Free]
  /\ requests = <<>>
  /\ paused = FALSE
  /\ stop = 0
  /\ installed = {}
  /\ announces \in Continued
  /\ events = <<>>
  /\ disp = "recv"
  /\ lastStopped = None
  /\ version = 0
  /\ store = {}
  /\ asked = {}
  /\ started = 0

-----------------------------------------------------------------------------
(* What a tool does *)

Arguments(tool) ==
  CASE tool \in {"set_breakpoints", "ui_setBreakpoints"}             -> SUBSET Lines
    [] tool \in {"set_breakpoint", "continue_until", "runToCursor"}  -> {{l} : l \in Lines}
    [] OTHER                                                         -> {{}}

Start(t, tool, arg) ==
  /\ ~Busy(t)
  /\ started < MaxTools
  /\ Serial /\ tool \in BreakpointTools => \A u \in Tasks : ~Writing(u)
  /\ started' = started + 1
  /\ op' = [op EXCEPT ![t] = [Free EXCEPT !.tool = tool, !.arg = arg, !.lines = arg,
                                          !.left = MaxSteps, !.own = CaughtUp]]
  /\ asked' = CASE tool \in {"set_breakpoints", "ui_setBreakpoints"} -> arg
                [] tool = "set_breakpoint"                           -> asked \cup arg
                [] OTHER                                             -> asked
  /\ UNCHANGED <<adapterVars, events, sessionVars, store>>

(* The list of the file is read and the line added to it.  runToCursor     *)
(* sends nothing when the line is in it already.                           *)
Read(t) ==
  /\ At(t, "read") \/ At(t, "find")
  /\ LET has == op[t].arg \subseteq store IN
       op' = [op EXCEPT ![t].lines = store \cup op[t].arg,
                        ![t].temp = ~has,
                        ![t].pc = IF At(t, "find") /\ has THEN @ + 1 + Len(Install) ELSE @ + 1]
  /\ UNCHANGED <<adapterVars, events, sessionVars, store, asked, started>>

(* Mutant: the temporary breakpoint is not taken out of the list. *)
RereadAll(t) ==
  /\ At(t, "reread")
  /\ op' = [op EXCEPT ![t].lines = store,
                      ![t].pc = IF op[t].temp THEN @ + 1 ELSE @ + 1 + Len(Install)]
  /\ UNCHANGED <<adapterVars, events, sessionVars, store, asked, started>>

(* The list is read again and the temporary breakpoint taken out of it. *)
Reread(t) ==
  /\ At(t, "reread")
  /\ op' = [op EXCEPT ![t].lines = store \ op[t].arg,
                      ![t].pc = IF op[t].temp THEN @ + 1 ELSE @ + 1 + Len(Install)]
  /\ UNCHANGED <<adapterVars, events, sessionVars, store, asked, started>>

(* Mutant: a request is sent twice. *)
AskTwice(t) ==
  \E command \in Commands :
    /\ At(t, command)
    /\ LET r == [from |-> t, command |-> command, lines |-> op[t].lines] IN
         requests' = requests \o <<r, r>>
    /\ op' = [op EXCEPT ![t].waits = TRUE]
    /\ UNCHANGED <<paused, stop, installed, announces, events, sessionVars, store, asked, started>>

Ask(t) ==
  \E command \in Commands :
    /\ At(t, command)
    /\ requests' = Append(requests, [from |-> t, command |-> command, lines |-> op[t].lines])
    /\ op' = [op EXCEPT ![t].waits = TRUE]
    /\ UNCHANGED <<paused, stop, installed, announces, events, sessionVars, store, asked, started>>

(* What the adapter confirmed becomes the session's list. *)
Store(t) ==
  /\ At(t, "store")
  /\ store' = op[t].lines
  /\ op' = [op EXCEPT ![t].pc = @ + 1]
  /\ UNCHANGED <<adapterVars, events, sessionVars, asked, started>>

Subscribe(t) ==
  /\ At(t, "subscribe")
  /\ op' = [op EXCEPT ![t].seen = version, ![t].pc = @ + 1]
  /\ UNCHANGED <<adapterVars, events, sessionVars, store, asked, started>>

(* wait_for_stop returns at once when the session is paused already. *)
Check(t) ==
  /\ At(t, "check")
  /\ op' = [op EXCEPT ![t].pc = IF lastStopped # None THEN @ + Len(WaitForStop) ELSE @ + 1]
  /\ UNCHANGED <<adapterVars, events, sessionVars, store, asked, started>>

Changed(t) ==
  /\ At(t, "changed")
  /\ version # op[t].seen
  /\ op' = [op EXCEPT ![t].pc = @ + 1]
  /\ UNCHANGED <<adapterVars, events, sessionVars, store, asked, started>>

(* The tokio timeout around changed(): step_until gives up, the others go  *)
(* on.                                                                     *)
TimesOut(t) ==
  /\ At(t, "changed")
  /\ op' = [op EXCEPT ![t].own = FALSE,
                      ![t].pc = IF op[t].tool = "step_until" THEN Len(StepUntil) + 1 ELSE @ + 1]
  /\ UNCHANGED <<adapterVars, events, sessionVars, store, asked, started>>

(* await_stopped describes the stop it finds in last_stopped. *)
Report(t) ==
  /\ At(t, "report")
  /\ op' = [op EXCEPT ![t].at = lastStopped, ![t].pc = @ + 1]
  /\ UNCHANGED <<adapterVars, events, sessionVars, store, asked, started>>

(* The expression was true, or there are no steps left, or another step is *)
(* taken.  An expression that could not be evaluated is not true.          *)
Loop(t) ==
  /\ At(t, "loop")
  /\ \/ /\ op[t].at # None \/ op[t].left = 1
        /\ op' = [op EXCEPT ![t].pc = @ + 1]
        /\ UNCHANGED started
     \/ /\ op[t].left > 1
        /\ started < MaxTools
        /\ started' = started + 1
        /\ op' = [op EXCEPT ![t].pc = 1, ![t].left = @ - 1, ![t].at = None,
                            ![t].own = CaughtUp]
  /\ UNCHANGED <<adapterVars, events, sessionVars, store, asked>>

Finish(t) ==
  /\ Ended(t)
  /\ op' = [op EXCEPT ![t] = Free]
  /\ UNCHANGED <<adapterVars, events, sessionVars, store, asked, started>>

Run(t) == Read(t) \/ Reread(t) \/ Ask(t) \/ Store(t) \/ Subscribe(t) \/ Check(t) \/ Changed(t)
            \/ Report(t) \/ Loop(t) \/ Finish(t)

-----------------------------------------------------------------------------
(* The adapter and the debuggee *)

Placed(lines) == {Place[l] : l \in lines}

Reply(t) == [op[t] EXCEPT !.waits = FALSE, !.pc = @ + 1]

HandleSetBreakpoints(r) ==
  /\ r.command = "setBreakpoints"
  /\ installed' = Placed(r.lines)
  /\ op' = [op EXCEPT ![r.from] = [Reply(r.from) EXCEPT !.lines = Placed(r.lines)]]
  /\ UNCHANGED <<paused, events>>

(* A resume that finds the debuggee running changes nothing. *)
HandleResume(r) ==
  /\ r.command \in Resuming
  /\ paused' = FALSE
  /\ events' = IF paused /\ announces THEN Append(events, [name |-> "continued", stop |-> stop])
               ELSE events
  /\ op' = [t \in Tasks |-> IF t = r.from THEN [Reply(t) EXCEPT !.from = stop]
                            ELSE [op[t] EXCEPT !.own = FALSE]]
  /\ UNCHANGED installed

(* An expression can only be evaluated in a stopped debuggee. *)
HandleEvaluate(r) ==
  /\ r.command = "evaluate"
  /\ op' = [op EXCEPT ![r.from] = [Reply(r.from) EXCEPT !.at = IF paused THEN stop ELSE None]]
  /\ UNCHANGED <<paused, installed, events>>

Handle ==
  /\ requests # <<>>
  /\ requests' = Tail(requests)
  /\ LET r == Head(requests) IN HandleSetBreakpoints(r) \/ HandleResume(r) \/ HandleEvaluate(r)
  /\ UNCHANGED <<stop, announces, sessionVars, store, asked, started>>

DebuggeeStops ==
  /\ ~paused
  /\ paused' = TRUE
  /\ stop' = stop + 1
  /\ events' = Append(events, [name |-> "stopped", stop |-> stop'])
  /\ UNCHANGED <<op, requests, installed, announces, sessionVars, store, asked, started>>

-----------------------------------------------------------------------------
(* The dispatcher *)

(* A `stopped` event is stored, then announced, then enriched before the   *)
(* next event is received; `continued` clears what was stored.             *)
Receive ==
  /\ disp = "recv"
  /\ events # <<>>
  /\ events' = Tail(events)
  /\ \/ /\ Head(events).name = "stopped"
        /\ lastStopped' = Head(events).stop
        /\ disp' = "bump"
     \/ /\ Head(events).name = "continued"
        /\ lastStopped' = None
        /\ UNCHANGED disp
  /\ UNCHANGED <<op, adapterVars, version, store, asked, started>>

Bump ==
  /\ disp = "bump"
  /\ version' = version + 1
  /\ disp' = "enrich"
  /\ UNCHANGED <<op, adapterVars, events, lastStopped, store, asked, started>>

Enriched ==
  /\ disp = "enrich"
  /\ disp' = "recv"
  /\ UNCHANGED <<op, adapterVars, events, lastStopped, version, store, asked, started>>

-----------------------------------------------------------------------------
Next ==
  \/ \E t \in Tasks :
       \/ \E tool \in Tools[t] : \E arg \in Arguments(tool) : Start(t, tool, arg)
       \/ Run(t)
       \/ TimesOut(t)
  \/ Handle
  \/ DebuggeeStops
  \/ Receive \/ Bump \/ Enriched

Spec == Init /\ [][Next]_vars

-----------------------------------------------------------------------------
(* Properties *)

OpState ==
  [tool : {"none"} \cup BreakpointTools \cup DrivingTools, arg : SUBSET Lines, pc : 1..12,
   lines : SUBSET Lines, temp : BOOLEAN, seen : Nat, left : 0..MaxSteps, waits : BOOLEAN,
   own : BOOLEAN, from : Nat, at : Nat \cup {None}]

(* Types; a task that waits has exactly one request out and one that does  *)
(* not has none; stopped_tx counts the stops the dispatcher has seen.      *)
TypeOK ==
  /\ op \in [Tasks -> OpState]
  /\ \A i \in 1..Len(requests) :
       requests[i] \in [from : Tasks, command : Commands, lines : SUBSET Lines]
  /\ \A t \in Tasks : \A i, j \in 1..Len(requests) :
       requests[i].from = t /\ requests[j].from = t => i = j
  /\ \A t \in Tasks : op[t].waits <=> \E i \in 1..Len(requests) : requests[i].from = t
  /\ paused \in BOOLEAN /\ announces \in BOOLEAN /\ stop \in Nat
  /\ installed \subseteq Lines /\ store \subseteq Lines /\ asked \subseteq Lines
  /\ \A i \in 1..Len(events) : events[i] \in [name : {"stopped", "continued"}, stop : 0..stop]
  /\ disp \in {"recv", "bump", "enrich"}
  /\ lastStopped \in (1..stop) \cup {None}
  /\ version \in 0..stop
  /\ started \in 0..MaxTools

Writers == {t \in Tasks : Writing(t)}

(* session.rs 702-703: set_breakpoints "Set breakpoints on a running       *)
(* session (e.g. from the UI or MCP). Stores verified specs in             *)
(* `self.breakpoints`": when no tool is about to change them, the session  *)
(* lists the breakpoints that are installed in the adapter.                *)
BreakpointsAgree == Writers = {} => store = installed

(* When no tool is about to change them, exactly the breakpoints somebody  *)
(* asked for are installed: continue_until and runToCursor have removed    *)
(* their own and nothing else, also when they timed out (tools.rs 786-798, *)
(* routes.rs 154-166).                                                     *)
TempRemoved == Writers = {} => installed = asked

(* Both: the session's list, the adapter's and what was asked for agree. *)
BreakpointsKept == BreakpointsAgree /\ TempRemoved

Own(t, at) == op[t].own => at # None /\ at > op[t].from

(* What a step reports, and what step_until_change evaluates, is the stop  *)
(* of this very step: if the session was up to date when the step began,   *)
(* nobody else resumes the debuggee and the wait did not time out, it is   *)
(* never the stop before (tools.rs 138-166, 1917-1922, 2013-2030).         *)
OwnStop ==
  \A t \in Tasks :
    /\ op[t].tool = "step" /\ Ended(t) => Own(t, op[t].at)
    /\ op[t].tool = "step_until_change" /\ At(t, "loop") => Own(t, op[t].at)

SubscribeFirst == {"step", "step_until_change", "runToCursor"}

(* tools.rs 2012: "Subscribe BEFORE sending the DAP command to guarantee   *)
(* the event is never missed": while such a tool waits and has not been    *)
(* woken, the debuggee has yet to stop or its stop is still on its way.    *)
NeverMissed ==
  \A t \in Tasks :
    At(t, "changed") /\ op[t].tool \in SubscribeFirst /\ version = op[t].seen =>
      \/ ~paused
      \/ disp = "bump"
      \/ \E i \in 1..Len(events) : events[i].name = "stopped"

(* Both: a step waits for a stop that can still come, and reports no other. *)
StepsToItsStop == OwnStop /\ NeverMissed
=============================================================================
