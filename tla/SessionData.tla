----------------------------- MODULE SessionData -----------------------------
(***************************************************************************)
(* What a session remembers of its program, and the tools that read and    *)
(* write it: timeline, watches, console lines and data breakpoints of      *)
(* dap/session.rs, filled by the event dispatcher and enrich_stopped, and  *)
(* get_debug_context, compare_snapshots, find_first_change, add_watch,     *)
(* remove_watch, wait_for_output, set_variable and the data breakpoint     *)
(* tools of mcp/tools.rs.                                                  *)
(*                                                                         *)
(* A stop is its number, a frame or a watch value is the stop it is of.    *)
(* The variables in scope are a function from names to values.  A request  *)
(* and its response are one step: the adapter answers for the state it is  *)
(* in, and a frame of an earlier stop has no variables any more.  Threads  *)
(* and last_stopped are left out (see SessionEvents and ExecutionTools).   *)
(* The watches and their results are sets: add_watch adds none twice, and  *)
(* nothing looks at their order.                                           *)
(***************************************************************************)
EXTENDS Naturals, Sequences, SequencesExt

CONSTANTS
  Calls,        \* tool calls, each in a task of its own
  Names,        \* variables of the program
  Values,       \* their values
  Watches,      \* watch expressions
  DataIds,      \* data ids of the adapter
  ConsoleCap,   \* lines kept in console_lines (500)
  TimelineCap,  \* entries kept in the timeline (500)
  MaxStops,     \* bound: stops of a program whose variables are looked at
  MaxCallStops, \* bound: stops of a program while tools are called
  MaxLines,     \* bound: lines it prints
  Mixes,        \* bound: the kinds of things that happen together in one behaviour:
                \* "values" (variables change), calls of "context", "output", "data" tools
  None

ASSUME SessionDataAssumption ==
  /\ ConsoleCap \in Nat \ {0} /\ TimelineCap \in Nat \ {0}
  /\ MaxStops \in Nat /\ MaxCallStops \in Nat /\ MaxLines \in Nat
  /\ Mixes \subseteq SUBSET {"values", "context", "output", "data"}
  /\ None \notin Nat \cup Watches \cup DataIds

VARIABLES
  program,     \* paused, at (the last stop), locals, printed; hits: the lines with the pattern
  events,      \* what the adapter sent and the dispatcher has not taken
  dispatcher,  \* the dispatcher and enrich_stopped
  timeline,    \* Session.timeline
  nextId,      \* timeline_counter
  watches,     \* Session.watches
  results,     \* Session.watch_results
  console,     \* Session.console_lines
  dataBps,     \* Session.data_breakpoints
  adapterBps,  \* the data breakpoints the adapter has
  call,        \* each tool call
  seen,        \* history, see below
  mix          \* what happens in this behaviour, fixed

session == <<timeline, nextId, watches, results, console, dataBps>>
vars == <<program, events, dispatcher, session, adapterBps, call, seen, mix>>

Snapshots == UNION {[names -> Values] : names \in SUBSET Names}
NoVars == [x \in {} |-> None]

(* dropped: lines that left the console; failed: the last stop whose       *)
(* enrichment was cut short; raced: a watch was removed while they were    *)
(* being evaluated, or added while it was being removed; clashed: two      *)
(* calls set data breakpoints at once, or the adapter refused them.        *)
NothingSeen == [dropped |-> 0, failed |-> 0, raced |-> FALSE, clashed |-> FALSE]

Idle == [pc |-> "idle", stop |-> 0, frame |-> 0, vars |-> NoVars, list |-> {}, new |-> {}]

(* context: what get_debug_context has put together, as the stops that     *)
(* stack, locals, watch values and timeline entry are of, and the watches  *)
(* going: their result is still to be removed; from: the count that        *)
(* wait_for_output is given; arg, list: the watch or data breakpoints.     *)
(* History: calm, everything was handled when the call began (and, for a   *)
(* context, the program has been paused since); before, dropped: the lines *)
(* printed, and dropped, when the count was taken.                         *)
NoContext == [stack |-> 0, locals |-> 0, values |-> {}, going |-> {}, last |-> 0]
NoCall == [pc |-> "none", arg |-> None, calm |-> FALSE, context |-> NoContext, from |-> 0,
           before |-> 0, dropped |-> 0, line |-> 0, list |-> {}]

Init ==
  /\ program = [paused |-> FALSE, at |-> 0, locals |-> NoVars, printed |-> 0, hits |-> {}]
  /\ events = <<>>
  /\ dispatcher = Idle
  /\ timeline = <<>> /\ nextId = 0
  /\ watches \in {{}} \cup {{w} : w \in Watches}
  /\ results = {}
  /\ console = <<>>
  /\ dataBps = {} /\ adapterBps = {}
  /\ call = [c \in Calls |-> NoCall]
  /\ seen = NothingSeen
  /\ mix \in Mixes

-----------------------------------------------------------------------------
(* The program under its adapter *)

(* Bound: the stops of this behaviour. *)
StopBound == IF mix \subseteq {"values"} THEN MaxStops ELSE MaxCallStops

Stop ==
  /\ ~program.paused /\ program.at < StopBound
  /\ \E locals \in (IF "values" \in mix THEN Snapshots ELSE {NoVars}) :
       program' = [program EXCEPT !.paused = TRUE, !.at = @ + 1, !.locals = locals]
  /\ events' = Append(events, <<"stopped", program.at + 1>>)
  /\ UNCHANGED <<dispatcher, session, adapterBps, call, seen>>

Output ==
  /\ "output" \in mix
  /\ ~program.paused /\ program.printed < MaxLines
  /\ LET n == program.printed + 1
     IN /\ \E hit \in BOOLEAN :
             program' = [program EXCEPT !.printed = n, !.hits = IF hit THEN @ \cup {n} ELSE @]
        /\ events' = Append(events, <<"output", n>>)
  /\ UNCHANGED <<dispatcher, session, adapterBps, call, seen>>

Resumed(calls) ==
  [c \in Calls |-> [calls[c] EXCEPT !.calm = @ /\ calls[c].pc \notin {"context", "collect", "delta"}]]

(* Somebody continues or steps. *)
Resume ==
  /\ program.paused
  /\ program' = [program EXCEPT !.paused = FALSE]
  /\ call' = Resumed(call)
  /\ UNCHANGED <<events, dispatcher, session, adapterBps, seen>>

(* The answer to `stackTrace`: the frame of the stop, none while it runs.  *)
Frame == IF program.paused THEN program.at ELSE 0

(* The answers to `scopes` and `variables`: the stop the variables are of, *)
(* 0 for none.  Without a frame, 1 is asked for, which may be one.         *)
Locals(frame) ==
  IF ~program.paused THEN {0}
  ELSE IF frame = program.at THEN {program.at}
  ELSE IF frame = 0 THEN {0, program.at} ELSE {0}

(* set_variable and set_expression *)
Assign ==
  /\ program.paused
  /\ \E x \in DOMAIN program.locals, v \in Values :
       program' = [program EXCEPT !.locals[x] = v]
  /\ UNCHANGED <<events, dispatcher, session, adapterBps, call, seen>>

-----------------------------------------------------------------------------
(* The dispatcher *)

(* Mutant: a new line takes the place of the last one when there is no room. *)
PushedLast(q, x, cap) == IF Len(q) < cap THEN Append(q, x) ELSE [q EXCEPT ![cap] = x]

Pushed(q, x, cap) == IF Len(q) < cap THEN Append(q, x) ELSE Append(Tail(q), x)

TakeOutput ==
  /\ dispatcher.pc = "idle" /\ events # <<>> /\ Head(events)[1] = "output"
  /\ events' = Tail(events)
  /\ console' = Pushed(console, Head(events)[2], ConsoleCap)
  /\ seen' = [seen EXCEPT !.dropped = IF Len(console) < ConsoleCap THEN @ ELSE @ + 1]
  /\ UNCHANGED <<program, dispatcher, timeline, nextId, watches, results, dataBps, adapterBps, call>>

(* stopped_tx is sent, and enrich_stopped begins. *)
TakeStopped ==
  /\ dispatcher.pc = "idle" /\ events # <<>> /\ Head(events)[1] = "stopped"
  /\ events' = Tail(events)
  /\ dispatcher' = [Idle EXCEPT !.pc = "stack", !.stop = Head(events)[2]]
  /\ UNCHANGED <<program, session, adapterBps, call, seen>>

(* threads, stackTrace, scopes: a failure ends the enrichment. *)
EnrichStack ==
  /\ dispatcher.pc = "stack"
  /\ \/ dispatcher' = [dispatcher EXCEPT !.pc = "locals", !.frame = Frame] /\ UNCHANGED seen
     \/ dispatcher' = Idle /\ seen' = [seen EXCEPT !.failed = dispatcher.stop]
  /\ UNCHANGED <<program, events, session, adapterBps, call>>

EnrichLocals ==
  /\ dispatcher.pc = "locals"
  /\ \/ /\ \E found \in Locals(dispatcher.frame) :
             dispatcher' = [dispatcher EXCEPT !.pc = "push",
                              !.vars = IF found = 0 THEN NoVars ELSE program.locals]
        /\ UNCHANGED seen
     \/ dispatcher' = Idle /\ seen' = [seen EXCEPT !.failed = dispatcher.stop]
  /\ UNCHANGED <<program, events, session, adapterBps, call>>

(* Mutant: a variable that was not there before counts as unchanged. *)
ChangedOnly(old, new) == {x \in DOMAIN new : x \in DOMAIN old /\ old[x] # new[x]}

(* changed_vars: the variables that are new or have another value. *)
Changed(old, new) == {x \in DOMAIN new : x \in DOMAIN old => old[x] # new[x]}

PreviousVars == IF timeline = <<>> THEN NoVars ELSE Last(timeline).vars

(* The timeline entry; stop is history. *)
EnrichPush ==
  /\ dispatcher.pc = "push"
  /\ LET entry == [id |-> nextId, stop |-> dispatcher.stop, vars |-> dispatcher.vars,
                   changed |-> Changed(PreviousVars, dispatcher.vars)]
     IN timeline' = Pushed(timeline, entry, TimelineCap)
  /\ nextId' = nextId + 1
  /\ dispatcher' = [dispatcher EXCEPT !.pc = "watches"]
  /\ UNCHANGED <<program, events, watches, results, console, dataBps, adapterBps, call, seen>>

(* Mutant: watches that have results are not evaluated again. *)
EnrichReadWatchesOnce ==
  /\ dispatcher.pc = "watches"
  /\ dispatcher' = IF watches = {} \/ results # {} THEN Idle
                   ELSE [dispatcher EXCEPT !.pc = "evaluate", !.list = watches]
  /\ UNCHANGED <<program, events, session, adapterBps, call, seen>>

(* Session.watches and watch_results are read, ... *)
EnrichReadWatches ==
  /\ dispatcher.pc = "watches"
  /\ dispatcher' = IF watches = {} THEN Idle
                   ELSE [dispatcher EXCEPT !.pc = "evaluate", !.list = watches]
  /\ UNCHANGED <<program, events, session, adapterBps, call, seen>>

(* ... each expression is evaluated in the frame (0: an error), ... *)
EnrichEvaluate ==
  /\ dispatcher.pc = "evaluate"
  /\ \E w \in dispatcher.list :
       LET result == [expression |-> w, value |-> IF dispatcher.frame = Frame THEN Frame ELSE 0]
       IN dispatcher' = [dispatcher EXCEPT !.list = @ \ {w}, !.new = @ \cup {result}]
  /\ UNCHANGED <<program, events, session, adapterBps, call, seen>>

(* ... and watch_results replaced. *)
EnrichStore ==
  /\ dispatcher.pc = "evaluate" /\ dispatcher.list = {}
  /\ results' = dispatcher.new
  /\ dispatcher' = Idle
  /\ UNCHANGED <<program, events, timeline, nextId, watches, console, dataBps, adapterBps, call, seen>>

Dispatch ==
  \/ TakeOutput \/ TakeStopped \/ EnrichStack \/ EnrichLocals \/ EnrichPush
  \/ EnrichReadWatches \/ EnrichEvaluate \/ EnrichStore

Settled == dispatcher = Idle /\ events = <<>>

-----------------------------------------------------------------------------
(* Watches: add_watch and import_session; remove_watch in two steps *)

(* A call that is over is forgotten. *)
Over(pc) == [NoCall EXCEPT !.pc = pc]
Finish(c, from) == call[c].pc = from /\ call' = [call EXCEPT ![c] = Over("done")]

AddWatch(c) ==
  /\ Finish(c, "none")
  /\ \E w \in Watches :
       /\ watches' = watches \cup {w}
       /\ seen' = [seen EXCEPT !.raced = @ \/ \E o \in Calls : call[o].pc = "unwatch" /\ call[o].arg = w]
  /\ UNCHANGED <<program, events, dispatcher, timeline, nextId, results, console, dataBps, adapterBps>>

RemoveWatch(c) ==
  /\ call[c].pc = "none"
  /\ \E w \in Watches :
       /\ watches' = watches \ {w}
       /\ call' = [call EXCEPT ![c].pc = "unwatch", ![c].arg = w]
  /\ seen' = [seen EXCEPT !.raced = @ \/ dispatcher.pc = "evaluate"]
  /\ UNCHANGED <<program, events, dispatcher, timeline, nextId, results, console, dataBps, adapterBps>>

(* Mutant: the result of a removed watch stays. *)
RemoveResultNot(c) ==
  /\ Finish(c, "unwatch")
  /\ UNCHANGED <<program, events, dispatcher, session, adapterBps, seen>>

RemoveResult(c) ==
  /\ Finish(c, "unwatch")
  /\ results' = {r \in results : r.expression # call[c].arg}
  /\ UNCHANGED <<program, events, dispatcher, timeline, nextId, watches, console, dataBps, adapterBps, seen>>

-----------------------------------------------------------------------------
(* get_debug_context: stackTrace, scopes and variables, the watch results,  *)
(* the end of the timeline.                                                *)

ContextStack(c) ==
  /\ call[c].pc = "none"
  /\ call' = [call EXCEPT ![c].pc = "context", ![c].context.stack = Frame,
                          ![c].calm = Settled /\ program.paused]
  /\ UNCHANGED <<program, events, dispatcher, session, adapterBps, seen>>

ContextLocals(c) ==
  /\ call[c].pc = "context"
  /\ \E stop \in Locals(call[c].context.stack) :
       call' = [call EXCEPT ![c].pc = "collect", ![c].context.locals = stop]
  /\ UNCHANGED <<program, events, dispatcher, session, adapterBps, seen>>

(* All of watch_results; going is history. *)
ContextValues(c) ==
  /\ call[c].pc = "collect"
  /\ call' = [call EXCEPT ![c].pc = "delta", ![c].context.values = results,
       ![c].context.going = {call[o].arg : o \in {o \in Calls : call[o].pc = "unwatch"}}]
  /\ UNCHANGED <<program, events, dispatcher, session, adapterBps, seen>>

ContextDelta(c) ==
  /\ call[c].pc = "delta"
  /\ call' = [call EXCEPT ![c].pc = "context done", ![c].context.last =
       IF timeline = <<>> THEN 0 ELSE Last(timeline).stop]
  /\ UNCHANGED <<program, events, dispatcher, session, adapterBps, seen>>

-----------------------------------------------------------------------------
(* continue_execution, and wait_for_output with the count it returns *)

CountLines(c) ==
  /\ call[c].pc = "none"
  /\ call' = [call EXCEPT ![c].pc = "counted", ![c].from = Len(console), ![c].calm = Settled,
                          ![c].before = program.printed, ![c].dropped = seen.dropped]
  /\ UNCHANGED <<program, events, dispatcher, session, adapterBps, seen>>

Continue(c) ==
  /\ call[c].pc = "counted"
  /\ program' = [program EXCEPT !.paused = FALSE]
  /\ call' = [Resumed(call) EXCEPT ![c].pc = "poll"]
  /\ UNCHANGED <<events, dispatcher, session, adapterBps, seen>>

(* Mutant: the last line of the count is looked at again. *)
MatchesAgain(from) == {i \in from..Len(console) : i > 0 /\ console[i] \in program.hits}

Matches(from) == {i \in (from + 1)..Len(console) : console[i] \in program.hits}

Poll(c) ==
  /\ call[c].pc = "poll"
  /\ LET found == Matches(call[c].from)
     IN IF found = {} THEN call' = [call EXCEPT ![c] = Over("timed out")]
        ELSE call' = [call EXCEPT ![c] = [Over("matched") EXCEPT !.line = console[CHOOSE i \in found : \A j \in found : i <= j]]]
  /\ UNCHANGED <<program, events, dispatcher, session, adapterBps, seen>>

-----------------------------------------------------------------------------
(* set_data_breakpoint (once the adapter has named the data) and           *)
(* clear_data_breakpoints: the list is changed under its lock and sent     *)
(* after the lock is released.                                             *)

Clash(c) == \E o \in Calls \ {c} : call[o].pc = "send"

Store(c, list) ==
  /\ call[c].pc = "none"
  /\ dataBps' = list
  /\ call' = [call EXCEPT ![c].pc = "send", ![c].list = list]
  /\ seen' = [seen EXCEPT !.clashed = @ \/ Clash(c)]
  /\ UNCHANGED <<program, events, dispatcher, timeline, nextId, watches, results, console, adapterBps>>

SetData(c) == \E d \in DataIds : Store(c, dataBps \cup {d})
ClearData(c) == Store(c, {})

(* setDataBreakpoints replaces them all, or fails. *)
SendData(c) ==
  /\ Finish(c, "send")
  /\ \/ adapterBps' = call[c].list /\ UNCHANGED seen
     \/ seen' = [seen EXCEPT !.clashed = TRUE] /\ UNCHANGED adapterBps
  /\ UNCHANGED <<program, events, dispatcher, session>>

Tool(c) ==
  \/ /\ "context" \in mix
     /\ \/ AddWatch(c) \/ RemoveWatch(c) \/ RemoveResult(c)
        \/ ContextStack(c) \/ ContextLocals(c) \/ ContextValues(c) \/ ContextDelta(c)
  \/ "output" \in mix /\ (CountLines(c) \/ Continue(c) \/ Poll(c))
  \/ "data" \in mix /\ (SetData(c) \/ ClearData(c) \/ SendData(c))

Next ==
  /\ Stop \/ Output \/ Resume \/ Assign \/ Dispatch \/ \E c \in Calls : Tool(c)
  /\ UNCHANGED mix

Spec == Init /\ [][Next]_vars

-----------------------------------------------------------------------------
(* The tools that only read the timeline *)

Positions == DOMAIN timeline

(* compare_snapshots *)
Added(a, b) == DOMAIN b \ DOMAIN a
Removed(a, b) == DOMAIN a \ DOMAIN b
Differing(a, b) == {x \in DOMAIN a \cap DOMAIN b : a[x] # b[x]}

(* get_variable_history: the stops the variable was seen at. *)
History(x) == {i \in Positions : x \in DOMAIN timeline[i].vars}

Least(set) == CHOOSE i \in set : \A j \in set : i <= j

(* find_first_change without an expected value: 0 when there is none. *)
FirstChange(x) ==
  IF History(x) = {} THEN 0
  ELSE LET baseline == timeline[Least(History(x))].vars[x]
           later == {i \in History(x) : i > 1 /\ timeline[i].vars[x] # baseline}
       IN IF later = {} THEN 0 ELSE Least(later)

-----------------------------------------------------------------------------
(* Properties *)

TypeOK ==
  /\ program.paused \in BOOLEAN /\ program.at \in 0..StopBound /\ program.locals \in Snapshots
  /\ program.printed \in 0..MaxLines /\ program.hits \subseteq 1..program.printed
  /\ dispatcher.pc \in {"idle", "stack", "locals", "push", "watches", "evaluate"}
  /\ Len(timeline) <= TimelineCap
  /\ \A i \in Positions : timeline[i].id = nextId - (Len(timeline) + 1 - i)
  /\ watches \subseteq Watches
  /\ Len(console) <= ConsoleCap
  /\ \A i \in DOMAIN console : console[i] = seen.dropped + i
  /\ dataBps \subseteq DataIds /\ adapterBps \subseteq DataIds

(* get_debug_context shows one moment: when everything was handled as it   *)
(* began and nobody resumed the program until it was done, the stack, the  *)
(* locals, every value of a watch and the "what changed since the last     *)
(* stop" (tools.rs 686) are of the stop the program is at, although each   *)
(* is fetched or read on its own (tools.rs 582-695).  The exceptions: the  *)
(* enrichment of that stop failed, a removal raced with one, or the watch  *)
(* is being removed.  A context asked for as soon as a step returns is not *)
(* covered: stopped_tx is sent before the timeline entry is there.         *)
ContextCoherent ==
  \A c \in Calls :
    call[c].pc = "context done" /\ call[c].calm =>
      LET context == call[c].context
      IN /\ context.locals = context.stack
         /\ seen.failed < context.stack =>
              /\ context.last = context.stack
              /\ \A r \in context.values :
                   seen.raced \/ r.expression \in context.going \/ r.value = context.stack

(* Between calls, watch_results are of watches there are, unless a removal *)
(* raced with an enrichment that had read the list before (session.rs      *)
(* 1160-1179); and the adapter has the data breakpoints that the session   *)
(* lists, unless two calls changed them at once (tools.rs 345-361: the     *)
(* lock is released before the list is sent) or the adapter refused.       *)
ListsSettle ==
  /\ ~seen.raced /\ (\A c \in Calls : call[c].pc # "unwatch") =>
       \A r \in results : r.expression \in watches
  /\ ~seen.clashed /\ (\A c \in Calls : call[c].pc # "send") => adapterBps = dataBps

(* "Pass from_line=console_line_count from continue_execution to only      *)
(* match output printed after the resume" (mod.rs 746): what is matched    *)
(* was printed after the count, if everything before was handled by then,  *)
(* and no such line that is still there is overlooked, unless a line was   *)
(* dropped from the full buffer since, which moves the others up.          *)
OutputFound ==
  [][\A c \in Calls : call[c].pc = "poll" /\ call'[c].pc # "poll" =>
       /\ call'[c].pc = "matched" /\ call[c].calm => call'[c].line > call[c].before
       /\ call'[c].pc = "timed out" /\ seen.dropped = call[c].dropped =>
            \A i \in DOMAIN console : console[i] \in program.hits => console[i] <= call[c].before]_vars

(* The tools on the timeline agree with each other: what an entry says has *)
(* changed (session.rs 1121-1129) is what compare_snapshots adds or finds  *)
(* different between it and the entry before, as long as that one is       *)
(* there; and find_first_change reports the stop at which the variable's   *)
(* history first leaves its first value, whose predecessor, where the      *)
(* variable was in scope, still had that value ("old", tools.rs 1785-1806). *)
HistoryAgrees ==
  /\ \A i \in Positions : i > 1 =>
       timeline[i].changed = Added(timeline[i - 1].vars, timeline[i].vars)
                             \cup Differing(timeline[i - 1].vars, timeline[i].vars)
  /\ \A x \in Names :
       LET first == FirstChange(x)
           before == {i \in History(x) : i < first}
       IN /\ first = 0 =>
               \A i, j \in History(x) : timeline[i].vars[x] = timeline[j].vars[x]
          /\ first # 0 =>
               /\ before # {}
               /\ \A i, j \in before : timeline[i].vars[x] = timeline[j].vars[x]
               /\ \A i \in before : timeline[first].vars[x] # timeline[i].vars[x]
=============================================================================
