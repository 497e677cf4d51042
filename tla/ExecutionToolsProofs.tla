------------------------ MODULE ExecutionToolsProofs ------------------------
(***************************************************************************)
(* Two invariants, for any number of tasks, tools, lines and steps and an  *)
(* adapter that announces resumes or not.                                  *)
(*                                                                         *)
(* The breakpoints of the session, of the adapter and of the tools'        *)
(* callers agree, if the adapter keeps breakpoints where they are asked    *)
(* for, tools write one after the other and the web UI does not set        *)
(* breakpoints past the session.                                           *)
(*                                                                         *)
(* A step reports its own stop and a tool that subscribed first misses     *)
(* none, with no such conditions.                                          *)
(***************************************************************************)
EXTENDS ExecutionTools, SequenceTheorems, TLAPS

(* The circumstances: what the code does without them is in the README.    *)
OneWriter ==
  /\ Serial
  /\ \A l \in Lines : Place[l] = l
  /\ \A t \in Tasks : "ui_setBreakpoints" \notin Tools[t]

-----------------------------------------------------------------------------
(* The inductive invariant *)

Operation ==
  [tool : {"none"} \cup BreakpointTools \cup DrivingTools, arg : SUBSET Lines, pc : Nat \ {0},
   lines : SUBSET Lines, temp : BOOLEAN, seen : Nat, left : Nat, waits : BOOLEAN,
   own : BOOLEAN, from : Nat, at : Nat \cup {None}]

Request == [from : Tasks, command : Commands, lines : SUBSET Lines]
Event == [name : {"stopped", "continued"}, stop : Nat]

Types ==
  /\ op \in [Tasks -> Operation]
  /\ requests \in Seq(Request) /\ events \in Seq(Event)
  /\ stop \in Nat /\ version \in Nat /\ lastStopped \in Nat \cup {None}
  /\ installed \subseteq Lines /\ store \subseteq Lines /\ asked \subseteq Lines

(* A request is what its task's place in its script asks for. *)
Pending(q) ==
  /\ op[q.from].waits /\ Busy(q.from) /\ ~Ended(q.from)
  /\ Script[op[q.from].tool][op[q.from].pc] = q.command
  /\ q.lines = op[q.from].lines

RequestsOK ==
  /\ \A i \in 1..Len(requests) : Pending(requests[i])
  /\ \A i, j \in 1..Len(requests) : requests[i].from = requests[j].from => i = j

Agreed == store = asked /\ installed = asked

(* The temporary breakpoint is one nobody asked for. *)
Marked(o) == IF o.temp THEN o.arg \cap asked = {} ELSE o.arg \subseteq asked

WithTemp(o) == installed = asked \cup o.arg /\ store = asked \cup o.arg /\ Marked(o)

(* What holds at each place of the tools that write breakpoints. *)
SettingAll(o) ==
  /\ o.pc \in 1..3
  /\ o.pc = 1 => o.lines = asked
  /\ o.pc = 2 => o.lines = asked /\ installed = asked
  /\ o.pc = 3 => Agreed

SettingOne(o) ==
  /\ o.pc \in 1..4
  /\ o.pc = 1 => asked = store \cup o.arg
  /\ o.pc = 2 => o.lines = asked
  /\ o.pc = 3 => o.lines = asked /\ installed = asked
  /\ o.pc = 4 => Agreed

(* The two tools with a temporary breakpoint read the list again at again. *)
Running(o, again) ==
  /\ o.pc \in 1..(again + 3)
  /\ o.pc = 1 => Agreed
  /\ o.pc = 2 => o.lines = asked \cup o.arg /\ Marked(o)
  /\ o.pc = 3 => o.lines = asked \cup o.arg /\ installed = asked \cup o.arg /\ Marked(o)
  /\ o.pc \in 4..again => WithTemp(o)
  /\ o.pc = again + 1 => o.lines = asked
  /\ o.pc = again + 2 => o.lines = asked /\ installed = asked
  /\ o.pc = again + 3 => Agreed

Single(o) == \A a, b \in o.arg : a = b

Kept(o) ==
  /\ o.tool # "ui_setBreakpoints"
  /\ o.tool = "set_breakpoints" => SettingAll(o)
  /\ o.tool = "set_breakpoint" => SettingOne(o)
  /\ o.tool = "continue_until" => Single(o) /\ Running(o, 8)
  /\ o.tool = "runToCursor" => Single(o) /\ Running(o, 7)

WritersOK ==
  /\ \A t, u \in Tasks : Writing(t) /\ Writing(u) => t = u
  /\ \A t \in Tasks : Writing(t) => Kept(op[t])
  /\ (\A t \in Tasks : ~Writing(t)) => Agreed

IInv == Types /\ RequestsOK /\ WritersOK

-----------------------------------------------------------------------------
(* The scripts *)

(* The tools that write breakpoints, place by place. *)
LEMMA WriterScripts ==
  /\ Len(Script["set_breakpoints"]) = 2
  /\ Script["set_breakpoints"][1] = "setBreakpoints" /\ Script["set_breakpoints"][2] = "store"
  /\ Len(Script["set_breakpoint"]) = 3
  /\ Script["set_breakpoint"][1] = "read" /\ Script["set_breakpoint"][2] = "setBreakpoints"
  /\ Script["set_breakpoint"][3] = "store"
  /\ Len(Script["continue_until"]) = 10
  /\ Script["continue_until"][1] = "read" /\ Script["continue_until"][2] = "setBreakpoints"
  /\ Script["continue_until"][3] = "store" /\ Script["continue_until"][4] = "continue"
  /\ Script["continue_until"][5] = "check" /\ Script["continue_until"][6] = "subscribe"
  /\ Script["continue_until"][7] = "changed" /\ Script["continue_until"][8] = "reread"
  /\ Script["continue_until"][9] = "setBreakpoints" /\ Script["continue_until"][10] = "store"
  /\ Len(Script["runToCursor"]) = 9
  /\ Script["runToCursor"][1] = "find" /\ Script["runToCursor"][2] = "setBreakpoints"
  /\ Script["runToCursor"][3] = "store" /\ Script["runToCursor"][4] = "subscribe"
  /\ Script["runToCursor"][5] = "continue" /\ Script["runToCursor"][6] = "changed"
  /\ Script["runToCursor"][7] = "reread" /\ Script["runToCursor"][8] = "setBreakpoints"
  /\ Script["runToCursor"][9] = "store"
<1>1. /\ Script["set_breakpoints"] = SetBreakpoints /\ Script["set_breakpoint"] = SetBreakpoint
      /\ Script["continue_until"] = ContinueUntil /\ Script["runToCursor"] = RunToCursor
  BY DEF Script
<1>2. /\ Len(SetBreakpoints) = 2 /\ SetBreakpoints[1] = "setBreakpoints" /\ SetBreakpoints[2] = "store"
      /\ Len(SetBreakpoint) = 3 /\ SetBreakpoint[1] = "read" /\ SetBreakpoint[2] = "setBreakpoints"
      /\ SetBreakpoint[3] = "store"
  BY DEF SetBreakpoints, SetBreakpoint, Install
<1>3. /\ Len(ContinueUntil) = 10
      /\ ContinueUntil[1] = "read" /\ ContinueUntil[2] = "setBreakpoints"
      /\ ContinueUntil[3] = "store" /\ ContinueUntil[4] = "continue"
      /\ ContinueUntil[5] = "check" /\ ContinueUntil[6] = "subscribe"
      /\ ContinueUntil[7] = "changed" /\ ContinueUntil[8] = "reread"
      /\ ContinueUntil[9] = "setBreakpoints" /\ ContinueUntil[10] = "store"
  BY DEF ContinueUntil, Install, WaitForStop, RemoveTemp
<1>4. /\ Len(RunToCursor) = 9
      /\ RunToCursor[1] = "find" /\ RunToCursor[2] = "setBreakpoints"
      /\ RunToCursor[3] = "store" /\ RunToCursor[4] = "subscribe"
      /\ RunToCursor[5] = "continue" /\ RunToCursor[6] = "changed"
      /\ RunToCursor[7] = "reread" /\ RunToCursor[8] = "setBreakpoints"
      /\ RunToCursor[9] = "store"
  BY DEF RunToCursor, Install, RemoveTemp
<1>. QED
  BY <1>1, <1>2, <1>3, <1>4

Touching == {"read", "find", "reread", "store", "setBreakpoints"}

(* The other tools never touch breakpoints. *)
LEMMA DriverScripts ==
  ASSUME NEW tool \in {"none"} \cup BreakpointTools \cup DrivingTools, tool \notin BreakpointTools,
         NEW i \in 1..Len(Script[tool])
  PROVE  Script[tool][i] \notin Touching
<1>1. tool \in {"none", "step", "continue_execution", "step_until", "step_until_change"}
  BY DEF BreakpointTools, DrivingTools
<1>2. /\ Script["none"] = <<>> /\ Script["step"] = StepOver
      /\ Script["continue_execution"] = ContinueExecution /\ Script["step_until"] = StepUntil
      /\ Script["step_until_change"] = StepUntilChange
  BY DEF Script
<1>3. CASE tool = "none"
  BY <1>2, <1>3
<1>4. CASE tool = "step"
  <2>1. Len(StepOver) = 4 /\ \A j \in 1..4 : StepOver[j] \in {"subscribe", "next", "changed", "report"}
    BY DEF StepOver
  <2>. QED  BY <1>2, <1>4, <2>1 DEF Touching
<1>5. CASE tool = "continue_execution"
  <2>1. Len(ContinueExecution) = 1 /\ ContinueExecution[1] = "continue"
    BY DEF ContinueExecution
  <2>. QED  BY <1>2, <1>5, <2>1 DEF Touching
<1>6. CASE tool = "step_until"
  <2>1. Len(StepUntil) = 6 /\ \A j \in 1..6 : StepUntil[j] \notin Touching
    BY DEF StepUntil, WaitForStop, Touching
  <2>. QED  BY <1>2, <1>6, <2>1
<1>7. CASE tool = "step_until_change"
  <2>1. Len(StepUntilChange) = 5 /\ \A j \in 1..5 : StepUntilChange[j] \notin Touching
    BY DEF StepUntilChange, Touching
  <2>. QED  BY <1>2, <1>7, <2>1
<1>. QED
  BY <1>1, <1>3, <1>4, <1>5, <1>6, <1>7

(* Where a writer is when it is about to do a given thing. *)
LEMMA WriterPlaces ==
  ASSUME Types, WritersOK, NEW t \in Tasks, Writing(t), ~Ended(t)
  PROVE  LET o == op[t]
             what == Script[o.tool][o.pc]
         IN /\ what = "setBreakpoints" =>
                 \/ o.tool = "set_breakpoints" /\ o.pc = 1
                 \/ o.tool = "set_breakpoint" /\ o.pc = 2
                 \/ o.tool = "continue_until" /\ o.pc \in {2, 9}
                 \/ o.tool = "runToCursor" /\ o.pc \in {2, 8}
            /\ what = "store" =>
                 \/ o.tool = "set_breakpoints" /\ o.pc = 2
                 \/ o.tool = "set_breakpoint" /\ o.pc = 3
                 \/ o.tool = "continue_until" /\ o.pc \in {3, 10}
                 \/ o.tool = "runToCursor" /\ o.pc \in {3, 9}
            /\ what = "read" =>
                 o.tool \in {"set_breakpoint", "continue_until"} /\ o.pc = 1
            /\ what = "find" => o.tool = "runToCursor" /\ o.pc = 1
            /\ what = "reread" =>
                 \/ o.tool = "continue_until" /\ o.pc = 8
                 \/ o.tool = "runToCursor" /\ o.pc = 7
            /\ what \notin Touching =>
                 \/ /\ o.tool = "continue_until" /\ o.pc \in 4..7
                    /\ what = "check" => o.pc = 5
                 \/ o.tool = "runToCursor" /\ o.pc \in 4..6 /\ what # "check"
            /\ what \notin {"report", "loop"}
<1>. DEFINE o == op[t]
<1>1. Kept(o) /\ o.tool \in BreakpointTools /\ o \in Operation
  BY DEF WritersOK, Writing, Types
<1>2. o.tool \in {"set_breakpoints", "set_breakpoint", "continue_until", "runToCursor"}
  BY <1>1 DEF Kept, BreakpointTools
<1>3. ~(o.pc > Len(Script[o.tool]))
  BY <1>2 DEF Ended, Busy
<1>4. CASE o.tool = "set_breakpoints"
  <2>1. o.pc \in {1, 2}
    BY <1>1, <1>3, <1>4, WriterScripts DEF Kept, SettingAll
  <2>. QED  BY <1>4, <2>1, WriterScripts DEF Touching
<1>5. CASE o.tool = "set_breakpoint"
  <2>1. o.pc \in {1, 2, 3}
    BY <1>1, <1>3, <1>5, WriterScripts DEF Kept, SettingOne
  <2>. QED  BY <1>5, <2>1, WriterScripts DEF Touching
<1>6. CASE o.tool = "continue_until"
  <2>1. o.pc \in {1, 2, 3, 4, 5, 6, 7, 8, 9, 10}
    BY <1>1, <1>3, <1>6, WriterScripts DEF Kept, Running
  <2>. QED  BY <1>6, <2>1, WriterScripts DEF Touching
<1>7. CASE o.tool = "runToCursor"
  <2>1. o.pc \in {1, 2, 3, 4, 5, 6, 7, 8, 9}
    BY <1>1, <1>3, <1>7, WriterScripts DEF Kept, Running
  <2>. QED  BY <1>7, <2>1, WriterScripts DEF Touching
<1>. QED
  BY <1>2, <1>4, <1>5, <1>6, <1>7

-----------------------------------------------------------------------------
(* Parts of a step *)

Same(a, b) ==
  a.tool = b.tool /\ a.arg = b.arg /\ a.pc = b.pc /\ a.lines = b.lines /\ a.temp = b.temp

(* A step of one task keeps what is known of the writers, if it keeps its  *)
(* own part and touches the breakpoints only as a writer.                  *)
LEMMA WritersStep ==
  ASSUME WritersOK, NEW t \in Tasks, \A u \in Tasks \ {t} : Same(op'[u], op[u]),
         Writing(t)' <=> Writing(t), UNCHANGED asked,
         Writing(t) => Kept(op[t])', ~Writing(t) => UNCHANGED <<store, installed>>
  PROVE  WritersOK'
<1>1. \A u \in Tasks : Writing(u)' <=> Writing(u)
  BY DEF Writing, Same
<1>2. ASSUME NEW u \in Tasks, Writing(u)'  PROVE Kept(op[u])'
  <2>1. CASE u = t
    BY <1>1, <1>2, <2>1
  <2>2. CASE u # t
    <3>1. ~Writing(t) /\ Writing(u)
      BY <1>1, <1>2, <2>2 DEF WritersOK
    <3>2. UNCHANGED <<store, installed, asked>> /\ Same(op'[u], op[u]) /\ Kept(op[u])
      BY <2>2, <3>1 DEF WritersOK
    <3>. QED
      BY <3>2 DEF Same, Kept, SettingAll, SettingOne, Running, WithTemp, Marked, Agreed, Single
  <2>. QED  BY <2>1, <2>2
<1>3. (\A u \in Tasks : ~Writing(u)') => Agreed'
  BY <1>1 DEF WritersOK, Agreed
<1>. QED
  BY <1>1, <1>2, <1>3 DEF WritersOK

(* A request is of a known shape. *)
LEMMA RequestFacts ==
  ASSUME Types, NEW i \in 1..Len(requests)
  PROVE  /\ requests[i] \in Request /\ requests[i].from \in Tasks
         /\ requests[i].lines \subseteq Lines
<1>1. requests[i] \in Request
  BY DEF Types
<1>. QED
  BY <1>1 DEF Request

(* A task that has no request out does not disturb the requests.           *)
LEMMA RequestsStep ==
  ASSUME Types, RequestsOK, NEW t \in Tasks, UNCHANGED requests,
         \A u \in Tasks \ {t} : op'[u] = op[u],
         \A i \in 1..Len(requests) : requests[i].from # t
  PROVE  RequestsOK'
<1>1. ASSUME NEW i \in 1..Len(requests)  PROVE Pending(requests[i])'
  <2>1. requests[i].from \in Tasks \ {t} /\ Pending(requests[i])
    BY RequestFacts DEF RequestsOK
  <2>. QED  BY <2>1 DEF Pending, Busy, Ended
<1>. QED
  BY <1>1 DEF RequestsOK

(* A step of one task that has no request out. *)
LEMMA Local ==
  ASSUME IInv, NEW t \in Tasks, NEW k \in Operation, op' = [op EXCEPT ![t] = k],
         k.tool = op[t].tool, ~op[t].waits,
         UNCHANGED <<requests, installed, asked, events, stop, version, lastStopped>>,
         store' \subseteq Lines, ~Writing(t) => store' = store,
         Writing(t) => Kept(op[t])'
  PROVE  IInv'
<1>1. op'[t] = k /\ \A u \in Tasks \ {t} : op'[u] = op[u]
  BY DEF IInv, Types
<1>2. Types'
  BY DEF IInv, Types
<1>3. RequestsOK'
  <2>1. \A i \in 1..Len(requests) : requests[i].from # t
    BY DEF IInv, RequestsOK, Pending
  <2>. QED  BY <1>1, <2>1, RequestsStep DEF IInv
<1>4. WritersOK'
  <2>1. \A u \in Tasks \ {t} : Same(op'[u], op[u])
    BY <1>1 DEF Same
  <2>2. Writing(t)' <=> Writing(t)
    BY <1>1 DEF Writing
  <2>. QED  BY <1>1, <2>1, <2>2, WritersStep DEF IInv
<1>. QED
  BY <1>2, <1>3, <1>4 DEF IInv

(* What a task that is at some place of its script is, a request out or not. *)
LEMMA PlaceFacts ==
  ASSUME IInv, NEW t \in Tasks, NEW what, Busy(t), ~Ended(t),
         Script[op[t].tool][op[t].pc] = what
  PROVE  /\ op[t] \in Operation
         /\ Writing(t) => Kept(op[t])
         /\ what \in Touching => Writing(t)
<1>1. op[t] \in Operation
  BY DEF IInv, Types
<1>2. Writing(t) => Kept(op[t])
  BY DEF IInv, WritersOK
<1>3. ASSUME ~Writing(t)  PROVE what \notin Touching
  <2>1. op[t].pc \in Nat \ {0} /\ ~(op[t].pc > Len(Script[op[t].tool]))
    BY <1>1 DEF Operation, Ended
  <2>2. op[t].tool \in {"none"} \cup BreakpointTools \cup DrivingTools
        /\ op[t].tool \notin BreakpointTools
    BY <1>1, <1>3 DEF Operation, Writing
  <2>3. op[t].tool \in {"none", "step", "continue_execution", "step_until", "step_until_change"}
    BY <2>2 DEF BreakpointTools, DrivingTools
  <2>4. Len(Script[op[t].tool]) \in Nat
    <3>1. /\ Script["none"] = <<>> /\ Script["step"] = StepOver
          /\ Script["continue_execution"] = ContinueExecution /\ Script["step_until"] = StepUntil
          /\ Script["step_until_change"] = StepUntilChange
      BY DEF Script
    <3>2. Len(StepUntil) = 6
      BY DEF StepUntil, WaitForStop
    <3>3. Len(StepOver) = 4 /\ Len(ContinueExecution) = 1 /\ Len(StepUntilChange) = 5
      BY DEF StepOver, ContinueExecution, StepUntilChange
    <3>. QED  BY <2>3, <3>1, <3>2, <3>3
  <2>5. op[t].pc \in 1..Len(Script[op[t].tool])
    BY <2>1, <2>4
  <2>. QED  BY <1>1, <2>2, <2>5, DriverScripts
<1>. QED
  BY <1>1, <1>2, <1>3

(* And without a request out. *)
LEMMA AtFacts ==
  ASSUME IInv, NEW t \in Tasks, NEW what, At(t, what)
  PROVE  /\ op[t] \in Operation /\ ~op[t].waits /\ Busy(t) /\ ~Ended(t)
         /\ Script[op[t].tool][op[t].pc] = what
         /\ Writing(t) => Kept(op[t])
         /\ what \in Touching => Writing(t)
<1>1. ~op[t].waits /\ Busy(t) /\ ~Ended(t) /\ Script[op[t].tool][op[t].pc] = what
  BY DEF At
<1>. QED
  BY <1>1, PlaceFacts

(* A tool with its temporary breakpoint installed goes on to a place       *)
(* before it reads the list again.                                         *)
LEMMA Waiting ==
  ASSUME IInv, NEW t \in Tasks, Writing(t), Kept(op[t]),
         UNCHANGED <<store, installed, asked>>,
         NEW again \in {7, 8}, op[t].tool = IF again = 8 THEN "continue_until" ELSE "runToCursor",
         op[t].pc \in 4..(again - 1), op'[t].pc \in 4..again,
         op'[t].tool = op[t].tool, op'[t].arg = op[t].arg, op'[t].lines = op[t].lines,
         op'[t].temp = op[t].temp
  PROVE  Kept(op[t])'
<1>1. Single(op[t]) /\ Running(op[t], again)
  BY DEF Kept
<1>2. WithTemp(op[t])
  BY <1>1 DEF Running
<1>3. Single(op[t])' /\ WithTemp(op[t])'
  BY <1>1, <1>2 DEF Single, WithTemp, Marked
<1>4. Running(op[t], again)'
  BY <1>3 DEF Running
<1>. QED
  BY <1>3, <1>4 DEF Kept

(* A tool that does not touch the breakpoints goes on: past the wait when  *)
(* it checks and need not wait, to what comes next otherwise.              *)
LEMMA Onward ==
  ASSUME IInv, NEW t \in Tasks, NEW what, what \notin Touching, Busy(t), ~Ended(t),
         Script[op[t].tool][op[t].pc] = what,
         UNCHANGED <<store, installed, asked>>,
         op'[t].pc = op[t].pc + 1 \/ (what = "check" /\ op'[t].pc = op[t].pc + 3),
         op'[t].tool = op[t].tool, op'[t].arg = op[t].arg, op'[t].lines = op[t].lines,
         op'[t].temp = op[t].temp
  PROVE  Writing(t) => Kept(op[t])'
<1>. SUFFICES ASSUME Writing(t)  PROVE Kept(op[t])'
  OBVIOUS
<1>1. Kept(op[t])
  BY PlaceFacts
<1>2. \/ op[t].tool = "continue_until" /\ op[t].pc \in 4..7 /\ (what = "check" => op[t].pc = 5)
      \/ op[t].tool = "runToCursor" /\ op[t].pc \in 4..6 /\ what # "check"
  BY WriterPlaces DEF IInv
<1>3. CASE op[t].tool = "continue_until" /\ op[t].pc \in 4..7 /\ (what = "check" => op[t].pc = 5)
  <2>1. op'[t].pc \in 4..8
    BY <1>3
  <2>. QED  BY <1>1, <1>3, <2>1, Waiting
<1>4. CASE op[t].tool = "runToCursor" /\ op[t].pc \in 4..6 /\ what # "check"
  <2>1. op'[t].pc \in 4..7
    BY <1>4
  <2>. QED  BY <1>1, <1>4, <2>1, Waiting
<1>. QED
  BY <1>2, <1>3, <1>4

-----------------------------------------------------------------------------
(* The steps of a tool *)

(* Reading the list: of a single line, all or nothing is in it. *)
LEMMA ReadIInv ==
  ASSUME IInv, NEW t \in Tasks, Read(t)
  PROVE  IInv'
<1>. DEFINE o == op[t]
            has == o.arg \subseteq store
            k == [o EXCEPT !.lines = store \cup o.arg, !.temp = ~has,
                           !.pc = IF At(t, "find") /\ has THEN o.pc + 1 + Len(Install) ELSE o.pc + 1]
<1>1. PICK what \in {"read", "find"} : At(t, what)
  BY DEF Read
<1>2. /\ o \in Operation /\ ~o.waits /\ Writing(t) /\ Kept(o) /\ ~Ended(t)
      /\ Script[o.tool][o.pc] = what
  BY <1>1, AtFacts DEF Touching
<1>3. op' = [op EXCEPT ![t] = k]
  BY DEF Read
<1>4. Len(Install) = 2
  BY DEF Install
<1>5. \/ o.tool \in {"set_breakpoint", "continue_until"} /\ o.pc = 1 /\ what = "read"
      \/ o.tool = "runToCursor" /\ o.pc = 1 /\ what = "find"
  <2>1. what = "read" => o.tool \in {"set_breakpoint", "continue_until"} /\ o.pc = 1
    BY <1>2, WriterPlaces DEF IInv
  <2>2. what = "find" => o.tool = "runToCursor" /\ o.pc = 1
    BY <1>2, WriterPlaces DEF IInv
  <2>. QED  BY <2>1, <2>2
<1>6. At(t, "find") <=> what = "find"
  BY <1>1 DEF At
<1>7. o.arg \subseteq Lines /\ store \subseteq Lines
  BY <1>2 DEF Operation, IInv, Types
<1>8. /\ k.tool = o.tool /\ k.arg = o.arg /\ k.lines = store \cup o.arg /\ k.temp = ~has
      /\ k.pc = IF what = "find" /\ has THEN 4 ELSE 2
  BY <1>2, <1>4, <1>5, <1>6 DEF Operation
<1>9. k \in Operation
  <2>1. o.pc + 1 \in Nat \ {0} /\ o.pc + 1 + Len(Install) \in Nat \ {0}
    BY <1>4, <1>5
  <2>. QED  BY <1>2, <1>7, <2>1 DEF Operation
<1>. HIDE DEF k
<1>10. op'[t] = k
  BY <1>3 DEF IInv, Types
<1>11. UNCHANGED <<requests, installed, asked, events, stop, version, lastStopped, store>>
  BY DEF Read, adapterVars, sessionVars
<1>12. ASSUME Single(o)  PROVE has \/ o.arg \cap store = {}
  BY <1>12 DEF Single
<1>13. CASE o.tool = "set_breakpoint"
  <2>1. asked = store \cup o.arg
    BY <1>2, <1>5, <1>13 DEF Kept, SettingOne
  <2>2. SettingOne(op[t])'
    BY <1>5, <1>8, <1>10, <1>11, <1>13, <2>1 DEF SettingOne
  <2>3. Kept(op[t])'
    BY <1>8, <1>10, <1>13, <2>2 DEF Kept
  <2>. QED  BY <1>2, <1>3, <1>7, <1>8, <1>9, <1>11, <2>3, Local
<1>14. ASSUME NEW again \in {7, 8}, o.tool = IF again = 8 THEN "continue_until" ELSE "runToCursor"
       PROVE  IInv'
  <2>1. Single(o) /\ Agreed
    BY <1>2, <1>5, <1>14 DEF Kept, Running
  <2>2. Single(op[t])' /\ (k.temp => k.arg \cap asked = {}) /\ (~k.temp => k.arg \subseteq asked)
    BY <1>8, <1>10, <1>12, <2>1 DEF Single, Agreed
  <2>3. Marked(op[t])'
    BY <1>10, <1>11, <2>2 DEF Marked
  <2>4. CASE k.pc = 2
    <3>1. k.lines = asked \cup k.arg
      BY <1>8, <2>1 DEF Agreed
    <3>2. Running(op[t], again)'
      BY <1>10, <1>11, <2>3, <2>4, <3>1 DEF Running
    <3>3. Kept(op[t])'
      BY <1>8, <1>10, <1>14, <2>2, <3>2 DEF Kept
    <3>. QED  BY <1>2, <1>3, <1>7, <1>8, <1>9, <1>11, <3>3, Local
  <2>5. CASE k.pc = 4
    <3>1. has
      BY <1>8, <2>5
    <3>2. installed = asked \cup k.arg /\ store = asked \cup k.arg
      BY <1>8, <2>1, <3>1 DEF Agreed
    <3>3. Running(op[t], again)'
      BY <1>10, <1>11, <2>3, <2>5, <3>2 DEF Running, WithTemp
    <3>4. Kept(op[t])'
      BY <1>8, <1>10, <1>14, <2>2, <3>3 DEF Kept
    <3>. QED  BY <1>2, <1>3, <1>7, <1>8, <1>9, <1>11, <3>4, Local
  <2>. QED  BY <1>8, <2>4, <2>5
<1>. QED
  BY <1>5, <1>13, <1>14

(* Reading it again: what was asked for is left. *)
LEMMA RereadIInv ==
  ASSUME IInv, NEW t \in Tasks, Reread(t)
  PROVE  IInv'
<1>. DEFINE o == op[t]
            k == [o EXCEPT !.lines = store \ o.arg,
                           !.pc = IF o.temp THEN o.pc + 1 ELSE o.pc + 1 + Len(Install)]
<1>1. /\ o \in Operation /\ ~o.waits /\ Writing(t) /\ Kept(o) /\ ~Ended(t)
      /\ Script[o.tool][o.pc] = "reread"
  BY AtFacts DEF Reread, Touching
<1>2. op' = [op EXCEPT ![t] = k]
  BY DEF Reread
<1>3. Len(Install) = 2
  BY DEF Install
<1>4. PICK again \in {7, 8} :
        o.tool = (IF again = 8 THEN "continue_until" ELSE "runToCursor") /\ o.pc = again
  <2>1. \/ o.tool = "continue_until" /\ o.pc = 8
        \/ o.tool = "runToCursor" /\ o.pc = 7
    BY <1>1, WriterPlaces DEF IInv
  <2>. QED  BY <2>1
<1>5. o.arg \subseteq Lines /\ store \subseteq Lines /\ o.temp \in BOOLEAN
  BY <1>1 DEF Operation, IInv, Types
<1>6. /\ k.tool = o.tool /\ k.arg = o.arg /\ k.lines = store \ o.arg /\ k.temp = o.temp
      /\ k.pc = IF o.temp THEN again + 1 ELSE again + 3
  BY <1>1, <1>3, <1>4 DEF Operation
<1>7. k \in Operation
  <2>1. o.pc + 1 \in Nat \ {0} /\ o.pc + 1 + Len(Install) \in Nat \ {0}
    BY <1>3, <1>4
  <2>. QED  BY <1>1, <1>5, <2>1 DEF Operation
<1>. HIDE DEF k
<1>8. op'[t] = k
  BY <1>2 DEF IInv, Types
<1>9. UNCHANGED <<requests, installed, asked, events, stop, version, lastStopped, store>>
  BY DEF Reread, adapterVars, sessionVars
<1>10. Single(o) /\ WithTemp(o)
  BY <1>1, <1>4 DEF Kept, Running
<1>11. Single(op[t])'
  BY <1>6, <1>8, <1>10 DEF Single
<1>12. Running(op[t], again)'
  <2>1. CASE o.temp
    <3>1. k.lines = asked
      BY <1>6, <1>10, <2>1 DEF WithTemp, Marked
    <3>. QED  BY <1>6, <1>8, <1>9, <2>1, <3>1 DEF Running
  <2>2. CASE ~o.temp
    <3>1. Agreed'
      BY <1>9, <1>10, <2>2 DEF WithTemp, Marked, Agreed
    <3>. QED  BY <1>6, <1>8, <2>2, <3>1 DEF Running
  <2>. QED  BY <2>1, <2>2
<1>13. Kept(op[t])'
  BY <1>4, <1>6, <1>8, <1>11, <1>12 DEF Kept
<1>. QED
  BY <1>1, <1>2, <1>5, <1>6, <1>7, <1>9, <1>13, Local

(* Storing what the adapter confirmed. *)
LEMMA StoreIInv ==
  ASSUME IInv, NEW t \in Tasks, Store(t)
  PROVE  IInv'
<1>. DEFINE o == op[t]
            k == [o EXCEPT !.pc = o.pc + 1]
<1>1. /\ o \in Operation /\ ~o.waits /\ Writing(t) /\ Kept(o) /\ ~Ended(t)
      /\ Script[o.tool][o.pc] = "store"
  BY AtFacts DEF Store, Touching
<1>2. op' = [op EXCEPT ![t] = k] /\ store' = o.lines
  BY DEF Store
<1>3. /\ k.tool = o.tool /\ k.arg = o.arg /\ k.lines = o.lines /\ k.temp = o.temp /\ k.pc = o.pc + 1
      /\ o.pc \in Nat /\ o.lines \subseteq Lines
  BY <1>1 DEF Operation
<1>4. k \in Operation
  <2>1. o.pc + 1 \in Nat \ {0}
    BY <1>3
  <2>. QED  BY <1>1, <2>1 DEF Operation
<1>. HIDE DEF k
<1>5. op'[t] = k
  BY <1>2 DEF IInv, Types
<1>6. UNCHANGED <<requests, installed, asked, events, stop, version, lastStopped>>
  BY DEF Store, adapterVars, sessionVars
<1>7. \/ o.tool = "set_breakpoints" /\ o.pc = 2
      \/ o.tool = "set_breakpoint" /\ o.pc = 3
      \/ o.tool = "continue_until" /\ o.pc \in {3, 10}
      \/ o.tool = "runToCursor" /\ o.pc \in {3, 9}
  BY <1>1, WriterPlaces DEF IInv
<1>8. Kept(op[t])'
  <2>1. CASE o.tool = "set_breakpoints"
    <3>1. o.pc = 2 /\ o.lines = asked /\ installed = asked
      BY <1>1, <1>7, <2>1 DEF Kept, SettingAll
    <3>. QED  BY <1>2, <1>3, <1>5, <1>6, <2>1, <3>1 DEF Kept, SettingAll, Agreed
  <2>2. CASE o.tool = "set_breakpoint"
    <3>1. o.pc = 3 /\ o.lines = asked /\ installed = asked
      BY <1>1, <1>7, <2>2 DEF Kept, SettingOne
    <3>. QED  BY <1>2, <1>3, <1>5, <1>6, <2>2, <3>1 DEF Kept, SettingOne, Agreed
  <2>3. ASSUME NEW again \in {7, 8}, o.tool = IF again = 8 THEN "continue_until" ELSE "runToCursor"
        PROVE  Kept(op[t])'
    <3>1. Single(o) /\ Running(o, again) /\ o.pc \in {3, again + 2}
      BY <1>1, <1>7, <2>3 DEF Kept
    <3>2. Single(op[t])'
      BY <1>3, <1>5, <3>1 DEF Single
    <3>3. CASE o.pc = 3
      <4>1. o.lines = asked \cup o.arg /\ installed = asked \cup o.arg /\ Marked(o)
        BY <3>1, <3>3 DEF Running
      <4>2. WithTemp(op[t])'
        BY <1>2, <1>3, <1>5, <1>6, <4>1 DEF WithTemp, Marked
      <4>3. Running(op[t], again)'
        BY <1>3, <1>5, <3>3, <4>2 DEF Running
      <4>. QED  BY <1>3, <1>5, <2>3, <3>2, <4>3 DEF Kept
    <3>4. CASE o.pc = again + 2
      <4>1. o.lines = asked /\ installed = asked
        BY <3>1, <3>4 DEF Running
      <4>2. Agreed'
        BY <1>2, <1>6, <4>1 DEF Agreed
      <4>3. Running(op[t], again)'
        BY <1>3, <1>5, <3>4, <4>2 DEF Running
      <4>. QED  BY <1>3, <1>5, <2>3, <3>2, <4>3 DEF Kept
    <3>. QED  BY <3>1, <3>3, <3>4
  <2>. QED  BY <1>7, <2>1, <2>2, <2>3
<1>. QED
  BY <1>1, <1>2, <1>3, <1>4, <1>6, <1>8, Local

(* Subscribing, checking, waking up and timing out: the tool goes on. *)
LEMMA WaitIInv ==
  ASSUME IInv, NEW t \in Tasks,
         Subscribe(t) \/ Check(t) \/ Changed(t) \/ TimesOut(t)
  PROVE  IInv'
<1>. DEFINE o == op[t]
<1>0. Len(WaitForStop) = 3 /\ Len(StepUntil) = 6
  BY DEF WaitForStop, StepUntil
<1>1. UNCHANGED <<requests, installed, asked, events, stop, version, lastStopped, store>>
  BY DEF Subscribe, Check, Changed, TimesOut, adapterVars, sessionVars
<1>2. PICK what \in {"subscribe", "check", "changed"} :
        /\ At(t, what)
        /\ Subscribe(t) => what = "subscribe"
        /\ Check(t) => what = "check"
        /\ (Changed(t) \/ TimesOut(t)) => what = "changed"
  <2>1. \A a, b : At(t, a) /\ At(t, b) => a = b
    BY DEF At
  <2>. QED  BY <2>1 DEF Subscribe, Check, Changed, TimesOut
<1>3. /\ o \in Operation /\ ~o.waits /\ Busy(t) /\ ~Ended(t) /\ Script[o.tool][o.pc] = what
      /\ what \notin Touching
  BY <1>2, AtFacts DEF Touching
<1>4. o.pc \in Nat /\ version \in Nat
  BY <1>3 DEF Operation, IInv, Types
<1>5. PICK seen \in Nat, own \in BOOLEAN, pc \in Nat \ {0} :
        /\ op' = [op EXCEPT ![t] = [o EXCEPT !.seen = seen, !.own = own, !.pc = pc]]
        /\ \/ pc = o.pc + 1
           \/ what = "check" /\ pc = o.pc + 3
           \/ o.tool = "step_until" /\ pc = 7
  <2>1. o.pc + 1 \in Nat \ {0} /\ o.pc + 3 \in Nat \ {0} /\ 7 \in Nat \ {0}
    BY <1>4
  <2>2. o.seen \in Nat /\ o.own \in BOOLEAN
    BY <1>3 DEF Operation
  <2>3. op \in [Tasks -> Operation]
    BY DEF IInv, Types
  <2>4. CASE Subscribe(t)
    <3>1. op' = [op EXCEPT ![t] = [o EXCEPT !.seen = version, !.own = o.own, !.pc = o.pc + 1]]
      BY <1>3, <2>3, <2>4 DEF Subscribe, Operation
    <3>. QED  BY <1>4, <2>1, <2>2, <3>1
  <2>5. CASE Check(t)
    <3>1. op' = [op EXCEPT ![t] = [o EXCEPT !.seen = o.seen, !.own = o.own, !.pc =
                                            IF lastStopped # None THEN o.pc + 3 ELSE o.pc + 1]]
      BY <1>0, <1>3, <2>3, <2>5 DEF Check, Operation
    <3>2. what = "check"
      BY <1>2, <2>5
    <3>3. CASE lastStopped # None
      BY <2>1, <2>2, <3>1, <3>2, <3>3
    <3>4. CASE lastStopped = None
      BY <2>1, <2>2, <3>1, <3>2, <3>4
    <3>. QED  BY <3>3, <3>4
  <2>6. CASE Changed(t)
    <3>1. op' = [op EXCEPT ![t] = [o EXCEPT !.seen = o.seen, !.own = o.own, !.pc = o.pc + 1]]
      BY <1>3, <2>3, <2>6 DEF Changed, Operation
    <3>. QED  BY <2>1, <2>2, <3>1
  <2>7. CASE TimesOut(t)
    <3>1. op' = [op EXCEPT ![t].own = FALSE,
                           ![t].pc = IF o.tool = "step_until" THEN 7 ELSE @ + 1]
      BY <1>0, <2>7 DEF TimesOut
    <3>2. CASE o.tool = "step_until"
      <4>1. op' = [op EXCEPT ![t] = [o EXCEPT !.seen = o.seen, !.own = FALSE, !.pc = 7]]
        BY <1>3, <2>3, <3>1, <3>2 DEF Operation
      <4>. QED  BY <2>1, <2>2, <3>2, <4>1
    <3>3. CASE o.tool # "step_until"
      <4>1. op' = [op EXCEPT ![t] = [o EXCEPT !.seen = o.seen, !.own = FALSE, !.pc = o.pc + 1]]
        BY <1>3, <2>3, <3>1, <3>3 DEF Operation
      <4>. QED  BY <2>1, <2>2, <3>3, <4>1
    <3>. QED  BY <3>2, <3>3
  <2>. QED  BY <2>4, <2>5, <2>6, <2>7
<1>. DEFINE k == [o EXCEPT !.seen = seen, !.own = own, !.pc = pc]
<1>6. /\ k \in Operation /\ k.tool = o.tool /\ k.arg = o.arg /\ k.lines = o.lines
      /\ k.temp = o.temp /\ k.pc = pc
  BY <1>3, <1>5 DEF Operation
<1>. HIDE DEF k
<1>7. op'[t] = k
  BY <1>5 DEF IInv, Types, k
<1>8. Writing(t) => Kept(op[t])'
  <2>1. CASE o.tool = "step_until"
    BY <2>1 DEF Writing, BreakpointTools
  <2>2. CASE o.tool # "step_until"
    BY <1>1, <1>3, <1>5, <1>6, <1>7, <2>2, Onward
  <2>. QED  BY <2>1, <2>2
<1>9. store' \subseteq Lines
  BY <1>1 DEF IInv, Types
<1>. QED
  BY <1>1, <1>3, <1>5, <1>6, <1>8, <1>9, Local DEF k

(* Reporting and taking another step: no writer does it. *)
LEMMA LoopIInv ==
  ASSUME IInv, NEW t \in Tasks, Report(t) \/ Loop(t)
  PROVE  IInv'
<1>. DEFINE o == op[t]
<1>1. UNCHANGED <<requests, installed, asked, events, stop, version, lastStopped, store>>
  BY DEF Report, Loop, adapterVars, sessionVars
<1>2. PICK what \in {"report", "loop"} : At(t, what)
  BY DEF Report, Loop
<1>3. /\ o \in Operation /\ ~o.waits /\ Busy(t) /\ ~Ended(t) /\ Script[o.tool][o.pc] = what
  BY <1>2, AtFacts
<1>4. ~Writing(t)
  BY <1>3, WriterPlaces DEF IInv
<1>5. PICK pc \in Nat \ {0}, left \in Nat, at \in Nat \cup {None}, own \in BOOLEAN :
        op' = [op EXCEPT ![t] = [o EXCEPT !.pc = pc, !.left = left, !.at = at, !.own = own]]
  <2>1. o.pc \in Nat /\ o.left \in Nat /\ o.at \in Nat \cup {None} /\ o.own \in BOOLEAN
    BY <1>3 DEF Operation
  <2>2. o.pc + 1 \in Nat \ {0} /\ 1 \in Nat \ {0} /\ lastStopped \in Nat \cup {None}
    BY <2>1 DEF IInv, Types
  <2>3. op \in [Tasks -> Operation]
    BY DEF IInv, Types
  <2>4. CASE Report(t)
    <3>1. op' = [op EXCEPT ![t] = [o EXCEPT !.pc = o.pc + 1, !.left = o.left, !.at = lastStopped,
                                            !.own = o.own]]
      BY <1>3, <2>3, <2>4 DEF Report, Operation
    <3>. QED  BY <2>1, <2>2, <3>1
  <2>5. CASE op' = [op EXCEPT ![t].pc = @ + 1]
    <3>1. op' = [op EXCEPT ![t] = [o EXCEPT !.pc = o.pc + 1, !.left = o.left, !.at = o.at,
                                            !.own = o.own]]
      BY <1>3, <2>3, <2>5 DEF Operation
    <3>. QED  BY <2>1, <2>2, <3>1
  <2>6. CASE o.left > 1 /\ op' = [op EXCEPT ![t].pc = 1, ![t].left = @ - 1, ![t].at = None,
                                            ![t].own = CaughtUp]
    <3>1. op' = [op EXCEPT ![t] = [o EXCEPT !.pc = 1, !.left = o.left - 1, !.at = None,
                                            !.own = CaughtUp]]
      BY <1>3, <2>3, <2>6 DEF Operation
    <3>2. CaughtUp \in BOOLEAN /\ o.left - 1 \in Nat /\ None \in Nat \cup {None}
      BY <2>1, <2>6 DEF CaughtUp
    <3>. QED  BY <2>2, <3>1, <3>2
  <2>. QED  BY <2>4, <2>5, <2>6 DEF Loop
<1>. DEFINE k == [o EXCEPT !.pc = pc, !.left = left, !.at = at, !.own = own]
<1>6. k \in Operation /\ k.tool = o.tool
  BY <1>3, <1>5 DEF Operation
<1>. HIDE DEF k
<1>7. store' \subseteq Lines
  BY <1>1 DEF IInv, Types
<1>. QED
  BY <1>1, <1>3, <1>4, <1>5, <1>6, <1>7, Local DEF k

-----------------------------------------------------------------------------
(* Sending a request *)

(* The task's request joins the others. *)
LEMMA AskedRequests ==
  ASSUME Types, RequestsOK, NEW t \in Tasks, NEW command \in Commands, At(t, command),
         requests' = Append(requests, [from |-> t, command |-> command, lines |-> op[t].lines]),
         op' = [op EXCEPT ![t].waits = TRUE]
  PROVE  /\ op' = [op EXCEPT ![t] = [op[t] EXCEPT !.waits = TRUE]]
         /\ [op[t] EXCEPT !.waits = TRUE] \in Operation
         /\ requests' \in Seq(Request) /\ Len(requests') = Len(requests) + 1
         /\ Len(requests) \in Nat
         /\ \A i \in 1..Len(requests) : requests'[i] = requests[i]
         /\ requests'[Len(requests) + 1].from = t
         /\ RequestsOK'
<1>. DEFINE o == op[t]
            k == [o EXCEPT !.waits = TRUE]
            r == [from |-> t, command |-> command, lines |-> o.lines]
<1>1. ~o.waits /\ Busy(t) /\ ~Ended(t) /\ Script[o.tool][o.pc] = command
  BY DEF At
<1>2. o \in Operation /\ op \in [Tasks -> Operation]
  BY DEF Types
<1>3. op' = [op EXCEPT ![t] = k] /\ k \in Operation /\ k.waits = TRUE /\ Same(k, o)
  BY <1>2 DEF Operation, Same
<1>. HIDE DEF k
<1>4. op'[t] = k /\ \A u \in Tasks \ {t} : op'[u] = op[u]
  BY <1>2, <1>3
<1>5. requests \in Seq(Request)
  BY DEF Types
<1>6. r \in Request /\ r.from = t /\ r.command = command /\ r.lines = o.lines
  BY <1>2 DEF Request, Operation
<1>. HIDE DEF r
<1>7. requests' = Append(requests, r)
  BY DEF r
<1>8. /\ requests' \in Seq(Request) /\ Len(requests') = Len(requests) + 1
      /\ \A i \in 1..Len(requests) : requests'[i] = requests[i]
      /\ requests'[Len(requests) + 1] = r
      /\ Len(requests) \in Nat
  BY <1>5, <1>6, <1>7
<1>9. \A i \in 1..Len(requests) : requests[i].from \in Tasks \ {t} /\ Pending(requests[i])
  BY <1>1, RequestFacts DEF RequestsOK, Pending
<1>10. ASSUME NEW i \in 1..Len(requests')  PROVE Pending(requests[i])'
  <2>1. CASE i \in 1..Len(requests)
    BY <1>4, <1>8, <1>9, <2>1, SMTT(30) DEF Pending, Busy, Ended
  <2>2. CASE i = Len(requests) + 1
    <3>1. requests'[i] = r
      BY <1>8, <2>2
    <3>. QED  BY <1>1, <1>3, <1>4, <1>6, <3>1 DEF Pending, Busy, Ended, Same
  <2>. QED  BY <1>8, <2>1, <2>2
<1>11. ASSUME NEW i \in 1..Len(requests'), NEW j \in 1..Len(requests'),
              requests'[i].from = requests'[j].from
       PROVE  i = j
  <2>1. /\ i \in 1..Len(requests) \/ i = Len(requests) + 1
        /\ j \in 1..Len(requests) \/ j = Len(requests) + 1
    BY <1>8
  <2>2. CASE i \in 1..Len(requests) /\ j \in 1..Len(requests)
    BY <1>8, <1>11, <2>2 DEF RequestsOK
  <2>3. CASE i = Len(requests) + 1 \/ j = Len(requests) + 1
    <3>1. requests'[i].from = t /\ requests'[j].from = t
      BY <1>6, <1>8, <1>11, <2>3
    <3>2. i \notin 1..Len(requests) /\ j \notin 1..Len(requests)
      BY <1>8, <1>9, <3>1
    <3>. QED  BY <2>1, <3>2
  <2>. QED  BY <2>1, <2>2, <2>3
<1>12. RequestsOK'
  BY <1>10, <1>11 DEF RequestsOK
<1>. QED
  BY <1>3, <1>6, <1>8, <1>12 DEF k

LEMMA AskIInv ==
  ASSUME IInv, NEW t \in Tasks, Ask(t)
  PROVE  IInv'
<1>. DEFINE k == [op[t] EXCEPT !.waits = TRUE]
<1>1. PICK command \in Commands :
        /\ At(t, command)
        /\ requests' = Append(requests, [from |-> t, command |-> command, lines |-> op[t].lines])
        /\ op' = [op EXCEPT ![t].waits = TRUE]
        /\ UNCHANGED <<paused, stop, installed, announces, events, sessionVars, store, asked>>
  BY DEF Ask
<1>2. /\ op' = [op EXCEPT ![t] = k] /\ k \in Operation
      /\ requests' \in Seq(Request) /\ RequestsOK'
  BY <1>1, AskedRequests DEF IInv
<1>3. Same(k, op[t]) /\ op \in [Tasks -> Operation]
  BY DEF Same, Operation, IInv, Types
<1>. HIDE DEF k
<1>4. op'[t] = k /\ \A u \in Tasks \ {t} : op'[u] = op[u]
  BY <1>2, <1>3
<1>5. Types'
  BY <1>1, <1>2 DEF IInv, Types, sessionVars
<1>6. WritersOK'
  <2>1. UNCHANGED <<store, installed, asked>>
    BY <1>1
  <2>2. \A u \in Tasks \ {t} : Same(op'[u], op[u])
    BY <1>4 DEF Same
  <2>3. Same(op'[t], op[t])
    BY <1>3, <1>4
  <2>4. Writing(t)' <=> Writing(t)
    BY <2>3 DEF Same, Writing
  <2>5. Writing(t) => Kept(op[t])'
    <3>. SUFFICES ASSUME Writing(t)  PROVE Kept(op[t])'
      OBVIOUS
    <3>1. Kept(op[t])
      BY DEF IInv, WritersOK
    <3>. QED
      BY <2>1, <2>3, <3>1
      DEF Same, Kept, SettingAll, SettingOne, Running, WithTemp, Marked, Agreed, Single
  <2>. QED  BY <2>1, <2>2, <2>4, <2>5, WritersStep DEF IInv
<1>. QED
  BY <1>2, <1>5, <1>6 DEF IInv

-----------------------------------------------------------------------------
(* The adapter *)

(* What the request at the head of the queue is. *)
LEMMA HeadFacts ==
  ASSUME Types, RequestsOK, requests # <<>>
  PROVE  LET r == Head(requests)
         IN /\ r.from \in Tasks /\ r.lines = op[r.from].lines /\ r.lines \subseteq Lines
            /\ Busy(r.from) /\ ~Ended(r.from)
            /\ Script[op[r.from].tool][op[r.from].pc] = r.command
            /\ Tail(requests) \in Seq(Request)
            /\ \A i \in 1..Len(Tail(requests)) :
                 /\ i + 1 \in 1..Len(requests) /\ Tail(requests)[i] = requests[i + 1]
                 /\ Tail(requests)[i].from # r.from
<1>1. requests \in Seq(Request)
  BY DEF Types
<1>2. /\ 1 \in 1..Len(requests) /\ Head(requests) = requests[1]
      /\ Tail(requests) \in Seq(Request)
      /\ \A i \in 1..Len(Tail(requests)) :
           i + 1 \in 1..Len(requests) /\ i + 1 # 1 /\ Tail(requests)[i] = requests[i + 1]
  BY <1>1
<1>3. Pending(requests[1]) /\ requests[1].from \in Tasks /\ requests[1].lines \subseteq Lines
  BY <1>2, RequestFacts DEF RequestsOK
<1>4. \A i \in 1..Len(Tail(requests)) : requests[i + 1].from # requests[1].from
  BY <1>2 DEF RequestsOK
<1>. QED
  BY <1>2, <1>3, <1>4 DEF Pending

(* The others' requests stay as they are. *)
LEMMA HandledRequests ==
  ASSUME Types, RequestsOK, requests # <<>>, requests' = Tail(requests),
         \A u \in Tasks \ {Head(requests).from} :
           Same(op'[u], op[u]) /\ op'[u].waits = op[u].waits
  PROVE  RequestsOK'
<1>1. ASSUME NEW i \in 1..Len(requests')  PROVE Pending(requests[i])'
  <2>1. /\ i + 1 \in 1..Len(requests) /\ requests'[i] = requests[i + 1]
        /\ requests'[i].from # Head(requests).from
    BY HeadFacts
  <2>2. requests'[i].from \in Tasks \ {Head(requests).from} /\ Pending(requests'[i])
    BY <2>1, RequestFacts DEF RequestsOK
  <2>. QED  BY <2>2 DEF Pending, Busy, Ended, Same
<1>2. ASSUME NEW i \in 1..Len(requests'), NEW j \in 1..Len(requests'),
             requests'[i].from = requests'[j].from
      PROVE  i = j
  <2>1. /\ i + 1 \in 1..Len(requests) /\ requests'[i] = requests[i + 1]
        /\ j + 1 \in 1..Len(requests) /\ requests'[j] = requests[j + 1]
    BY HeadFacts
  <2>2. i + 1 = j + 1
    BY <1>2, <2>1 DEF RequestsOK
  <2>. QED  BY <2>2
<1>. QED
  BY <1>1, <1>2 DEF RequestsOK

(* A task whose request has been answered, and what a task gets back. *)
LEMMA ReplyFacts ==
  ASSUME Types, NEW t \in Tasks
  PROVE  /\ Reply(t) \in Operation
         /\ Reply(t).tool = op[t].tool /\ Reply(t).arg = op[t].arg
         /\ Reply(t).lines = op[t].lines /\ Reply(t).temp = op[t].temp
         /\ Reply(t).pc = op[t].pc + 1
<1>1. op[t] \in Operation /\ op[t].pc + 1 \in Nat \ {0}
  BY DEF Types, Operation
<1>. QED
  BY <1>1 DEF Reply, Operation

(* Breakpoints are set as asked for, in their places. *)
LEMMA SetBreakpointsIInv ==
  ASSUME OneWriter, IInv, Handle, HandleSetBreakpoints(Head(requests))
  PROVE  IInv'
<1>0. PICK r, t, o, k : /\ r = Head(requests) /\ t = r.from /\ o = op[t]
                        /\ k = [Reply(t) EXCEPT !.lines = r.lines]
  OBVIOUS
<1>1. requests # <<>> /\ requests' = Tail(requests)
      /\ UNCHANGED <<stop, store, asked, events, version, lastStopped>>
  BY DEF Handle, HandleSetBreakpoints, sessionVars
<1>2. /\ t \in Tasks /\ r.lines = o.lines /\ o.lines \subseteq Lines /\ Busy(t) /\ ~Ended(t)
      /\ Script[o.tool][o.pc] = "setBreakpoints" /\ Tail(requests) \in Seq(Request)
  BY <1>0, <1>1, HeadFacts DEF HandleSetBreakpoints, IInv
<1>3. Placed(r.lines) = r.lines
  BY <1>2 DEF Placed, OneWriter
<1>4. installed' = o.lines /\ op' = [op EXCEPT ![t] = k]
  BY <1>0, <1>2, <1>3 DEF HandleSetBreakpoints
<1>5. /\ k \in Operation /\ k.tool = o.tool /\ k.arg = o.arg /\ k.lines = o.lines
      /\ k.temp = o.temp /\ k.pc = o.pc + 1
  BY <1>0, <1>2, ReplyFacts DEF Operation, IInv
<1>6. op'[t] = k /\ \A u \in Tasks \ {t} : op'[u] = op[u]
  BY <1>2, <1>4 DEF IInv, Types
<1>7. Types'
  BY <1>1, <1>2, <1>4, <1>5 DEF IInv, Types
<1>8. RequestsOK'
  BY <1>0, <1>1, <1>6, HandledRequests DEF Same, IInv
<1>9. Writing(t) /\ Kept(o)
  BY <1>0, <1>2, PlaceFacts DEF Touching
<1>10. \/ o.tool = "set_breakpoints" /\ o.pc = 1
       \/ o.tool = "set_breakpoint" /\ o.pc = 2
       \/ o.tool = "continue_until" /\ o.pc \in {2, 9}
       \/ o.tool = "runToCursor" /\ o.pc \in {2, 8}
  BY <1>0, <1>2, <1>9, WriterPlaces DEF IInv
<1>11. Kept(k)'
  <2>1. CASE o.tool = "set_breakpoints"
    <3>1. o.pc = 1 /\ o.lines = asked
      BY <1>9, <1>10, <2>1 DEF Kept, SettingAll
    <3>. QED  BY <1>1, <1>4, <1>5, <1>6, <2>1, <3>1 DEF Kept, SettingAll
  <2>2. CASE o.tool = "set_breakpoint"
    <3>1. o.pc = 2 /\ o.lines = asked
      BY <1>9, <1>10, <2>2 DEF Kept, SettingOne
    <3>. QED  BY <1>1, <1>4, <1>5, <1>6, <2>2, <3>1 DEF Kept, SettingOne
  <2>3. ASSUME NEW again \in {7, 8}, o.tool = IF again = 8 THEN "continue_until" ELSE "runToCursor"
        PROVE  Kept(k)'
    <3>1. Single(o) /\ Running(o, again) /\ o.pc \in {2, again + 1}
      BY <1>9, <1>10, <2>3 DEF Kept
    <3>2. Single(k)'
      BY <1>5, <1>6, <3>1 DEF Single
    <3>3. CASE o.pc = 2
      <4>1. o.lines = asked \cup o.arg /\ Marked(o)
        BY <3>1, <3>3 DEF Running
      <4>2. Marked(k)'
        BY <1>1, <1>5, <1>6, <4>1 DEF Marked
      <4>3. Running(k, again)'
        BY <1>1, <1>4, <1>5, <1>6, <3>3, <4>1, <4>2 DEF Running
      <4>. QED  BY <1>5, <1>6, <2>3, <3>2, <4>3 DEF Kept
    <3>4. CASE o.pc = again + 1
      <4>1. o.lines = asked
        BY <3>1, <3>4 DEF Running
      <4>2. Running(k, again)'
        BY <1>1, <1>4, <1>5, <1>6, <3>4, <4>1 DEF Running
      <4>. QED  BY <1>5, <1>6, <2>3, <3>2, <4>2 DEF Kept
    <3>. QED  BY <3>1, <3>3, <3>4
  <2>. QED  BY <1>10, <2>1, <2>2, <2>3
<1>12. WritersOK'
  <2>1. Kept(op[t])'
    BY <1>6, <1>11
  <2>2. \A u \in Tasks \ {t} : Same(op'[u], op[u])
    BY <1>6 DEF Same
  <2>3. Writing(t)' <=> Writing(t)
    BY <1>0, <1>5, <1>6 DEF Writing
  <2>. QED  BY <1>1, <1>2, <1>9, <2>1, <2>2, <2>3, WritersStep DEF IInv
<1>. QED
  BY <1>7, <1>8, <1>12 DEF IInv

(* A resume, or an expression evaluated: the tool goes on. *)
LEMMA GoOnIInv ==
  ASSUME IInv, Handle,
         HandleResume(Head(requests)) \/ HandleEvaluate(Head(requests))
  PROVE  IInv'
<1>0. PICK r, t, o : r = Head(requests) /\ t = r.from /\ o = op[t]
  OBVIOUS
<1>1. requests # <<>> /\ requests' = Tail(requests)
      /\ UNCHANGED <<stop, store, installed, asked, version, lastStopped>>
  BY DEF Handle, HandleResume, HandleEvaluate, sessionVars
<1>2. PICK what \in {"continue", "next", "evaluate"} :
        /\ t \in Tasks /\ Busy(t) /\ ~Ended(t) /\ Script[o.tool][o.pc] = what
        /\ Tail(requests) \in Seq(Request)
  BY <1>0, <1>1, HeadFacts DEF HandleResume, HandleEvaluate, Resuming, IInv
<1>3. op \in [Tasks -> Operation] /\ stop \in Nat /\ events \in Seq(Event)
  BY DEF IInv, Types
<1>4. /\ Reply(t) \in Operation /\ Reply(t).tool = o.tool /\ Reply(t).arg = o.arg
      /\ Reply(t).lines = o.lines /\ Reply(t).temp = o.temp /\ Reply(t).pc = o.pc + 1
  BY <1>0, <1>2, ReplyFacts DEF IInv
<1>5. /\ op' \in [Tasks -> Operation]
      /\ op'[t].tool = o.tool /\ op'[t].arg = o.arg /\ op'[t].lines = o.lines
      /\ op'[t].temp = o.temp /\ op'[t].pc = o.pc + 1
      /\ \A u \in Tasks \ {t} : Same(op'[u], op[u]) /\ op'[u].waits = op[u].waits
      /\ events' \in Seq(Event)
  <2>1. CASE HandleResume(r)
    <3>1. op' = [u \in Tasks |-> IF u = t THEN [Reply(u) EXCEPT !.from = stop]
                                 ELSE [op[u] EXCEPT !.own = FALSE]]
      BY <1>0, <2>1 DEF HandleResume
    <3>2. \A u \in Tasks \ {t} : op'[u] = [op[u] EXCEPT !.own = FALSE]
      BY <3>1
    <3>3. op'[t] = [Reply(t) EXCEPT !.from = stop]
      BY <1>2, <3>1
    <3>4. ASSUME NEW u \in Tasks \ {t}
          PROVE  op'[u] \in Operation /\ Same(op'[u], op[u]) /\ op'[u].waits = op[u].waits
      <4>1. op[u] \in Operation /\ op'[u] = [op[u] EXCEPT !.own = FALSE]
        BY <1>3, <3>2
      <4>. QED  BY <4>1 DEF Operation, Same
    <3>5. /\ op'[t] \in Operation
          /\ op'[t].tool = o.tool /\ op'[t].arg = o.arg /\ op'[t].lines = o.lines
          /\ op'[t].temp = o.temp /\ op'[t].pc = o.pc + 1
      BY <1>3, <1>4, <3>3 DEF Operation
    <3>6. op' \in [Tasks -> Operation]
      BY <3>1, <3>4, <3>5
    <3>7. events' \in Seq(Event)
      <4>1. [name |-> "continued", stop |-> stop] \in Event
        BY <1>3 DEF Event
      <4>. QED  BY <1>3, <2>1, <4>1 DEF HandleResume
    <3>. QED  BY <3>4, <3>5, <3>6, <3>7
  <2>2. CASE HandleEvaluate(r)
    <3>1. PICK at \in Nat \cup {None} : op' = [op EXCEPT ![t] = [Reply(t) EXCEPT !.at = at]]
      BY <1>0, <1>3, <2>2 DEF HandleEvaluate
    <3>2. op'[t] = [Reply(t) EXCEPT !.at = at] /\ \A u \in Tasks \ {t} : op'[u] = op[u]
      BY <1>2, <1>3, <3>1
    <3>3. /\ op'[t] \in Operation
          /\ op'[t].tool = o.tool /\ op'[t].arg = o.arg /\ op'[t].lines = o.lines
          /\ op'[t].temp = o.temp /\ op'[t].pc = o.pc + 1
      BY <1>4, <3>2 DEF Operation
    <3>4. op' \in [Tasks -> Operation]
      BY <1>3, <3>1, <3>2, <3>3
    <3>. QED  BY <1>3, <2>2, <3>2, <3>3, <3>4 DEF HandleEvaluate, Same
  <2>. QED  BY <1>0, <2>1, <2>2
<1>6. Types'
  BY <1>1, <1>2, <1>5 DEF IInv, Types
<1>7. RequestsOK'
  BY <1>0, <1>1, <1>5, HandledRequests DEF IInv
<1>8. WritersOK'
  <2>1. Writing(t) => Kept(op[t])'
    BY <1>0, <1>1, <1>2, <1>5, Onward DEF Touching
  <2>2. Writing(t)' <=> Writing(t)
    BY <1>0, <1>5 DEF Writing
  <2>. QED  BY <1>1, <1>2, <1>5, <2>1, <2>2, WritersStep DEF IInv
<1>. QED
  BY <1>6, <1>7, <1>8 DEF IInv

-----------------------------------------------------------------------------
(* Starting and finishing *)

LEMMA StartIInv ==
  ASSUME OneWriter, IInv, NEW t \in Tasks, NEW tool \in Tools[t], NEW arg \in Arguments(tool),
         Start(t, tool, arg)
  PROVE  IInv'
<1>. DEFINE k == [Free EXCEPT !.tool = tool, !.arg = arg, !.lines = arg, !.left = MaxSteps,
                              !.own = CaughtUp]
<1>1. ~Busy(t) /\ op' = [op EXCEPT ![t] = k]
      /\ UNCHANGED <<requests, installed, events, stop, version, lastStopped, store>>
  BY DEF Start, adapterVars, sessionVars
<1>2. tool \in BreakpointTools \cup DrivingTools /\ tool # "ui_setBreakpoints"
  BY ToolsAssumption DEF OneWriter
<1>3. arg \subseteq Lines
  BY <1>2 DEF Arguments, BreakpointTools, DrivingTools
<1>4. k.tool = tool /\ k.arg = arg /\ k.lines = arg /\ k.pc = 1 /\ k.temp = FALSE
  BY DEF Free
<1>5. k \in Operation
  <2>1. CaughtUp \in BOOLEAN /\ MaxSteps \in Nat
    BY ToolsAssumption DEF CaughtUp
  <2>2. Free \in Operation
    BY DEF Free, Operation
  <2>3. Free.pc = 1 /\ tool \in {"none"} \cup BreakpointTools \cup DrivingTools
    BY <1>2 DEF Free
  <2>. QED  BY <1>3, <2>1, <2>2, <2>3 DEF Operation
<1>. HIDE DEF k
<1>6. op'[t] = k /\ \A u \in Tasks \ {t} : op'[u] = op[u]
  BY <1>1 DEF IInv, Types
<1>7. op[t].tool = "none" /\ ~Writing(t)
  BY <1>1 DEF Busy, Writing, BreakpointTools
<1>8. asked' \subseteq Lines
  BY <1>3 DEF Start, IInv, Types
<1>9. Types'
  BY <1>1, <1>5, <1>8 DEF IInv, Types
<1>10. RequestsOK'
  <2>1. \A i \in 1..Len(requests) : requests[i].from # t
    BY <1>1 DEF IInv, RequestsOK, Pending
  <2>. QED  BY <1>1, <1>6, <2>1, RequestsStep DEF IInv
<1>11. CASE tool \notin BreakpointTools
  <2>1. UNCHANGED asked
    BY <1>11 DEF Start, BreakpointTools
  <2>2. ~Writing(t)'
    BY <1>4, <1>6, <1>11 DEF Writing
  <2>3. \A u \in Tasks \ {t} : Same(op'[u], op[u])
    BY <1>6 DEF Same
  <2>4. WritersOK'
    BY <1>1, <1>7, <2>1, <2>2, <2>3, WritersStep DEF IInv
  <2>. QED  BY <1>9, <1>10, <2>4 DEF IInv
<1>12. CASE tool \in BreakpointTools
  <2>1. \A u \in Tasks : ~Writing(u)
    BY <1>12 DEF Start, OneWriter
  <2>2. store = asked /\ installed = asked
    BY <2>1 DEF IInv, WritersOK, Agreed
  <2>3. Kept(op[t])'
    <3>1. CASE tool = "set_breakpoints"
      <4>1. asked' = arg
        BY <3>1 DEF Start
      <4>. QED  BY <1>4, <1>6, <3>1, <4>1 DEF Kept, SettingAll
    <3>2. CASE tool = "set_breakpoint"
      <4>1. asked' = asked \cup arg
        BY <3>2 DEF Start
      <4>. QED  BY <1>1, <1>4, <1>6, <2>2, <3>2, <4>1 DEF Kept, SettingOne
    <3>3. ASSUME NEW again \in {7, 8}, tool = IF again = 8 THEN "continue_until" ELSE "runToCursor"
          PROVE  Kept(op[t])'
      <4>1. asked' = asked
        BY <3>3 DEF Start
      <4>2. Single(op[t])'
        BY <1>4, <1>6, <3>3 DEF Single, Arguments
      <4>3. Agreed'
        BY <1>1, <2>2, <4>1 DEF Agreed
      <4>4. Running(op[t], again)'
        BY <1>4, <1>6, <4>3 DEF Running
      <4>. QED  BY <1>4, <1>6, <3>3, <4>2, <4>4 DEF Kept
    <3>. QED  BY <1>2, <1>12, <3>1, <3>2, <3>3 DEF BreakpointTools
  <2>4. \A u \in Tasks : Writing(u)' <=> u = t
    BY <1>4, <1>6, <1>12, <2>1 DEF Writing
  <2>5. WritersOK'
    BY <2>3, <2>4 DEF WritersOK
  <2>. QED  BY <1>9, <1>10, <2>5 DEF IInv
<1>. QED
  BY <1>11, <1>12

(* A tool that wrote breakpoints leaves them as they were asked for. *)
LEMMA FinishIInv ==
  ASSUME IInv, NEW t \in Tasks, Finish(t)
  PROVE  IInv'
<1>1. Ended(t) /\ op' = [op EXCEPT ![t] = Free]
      /\ UNCHANGED <<requests, installed, events, stop, version, lastStopped, store, asked>>
  BY DEF Finish, adapterVars, sessionVars
<1>2. op'[t] = Free /\ \A u \in Tasks \ {t} : op'[u] = op[u]
  BY <1>1 DEF IInv, Types
<1>3. Free \in Operation /\ Free.tool = "none"
  BY DEF Free, Operation
<1>4. Types'
  BY <1>1, <1>3 DEF IInv, Types
<1>5. RequestsOK'
  <2>1. \A i \in 1..Len(requests) : requests[i].from # t
    BY <1>1 DEF IInv, RequestsOK, Pending
  <2>. QED  BY <1>1, <1>2, <2>1, RequestsStep DEF IInv
<1>6. ~Writing(t)'
  BY <1>2, <1>3 DEF Writing, BreakpointTools
<1>7. CASE ~Writing(t)
  <2>1. \A u \in Tasks \ {t} : Same(op'[u], op[u])
    BY <1>2 DEF Same
  <2>2. WritersOK'
    BY <1>1, <1>6, <1>7, <2>1, WritersStep DEF IInv
  <2>. QED  BY <1>4, <1>5, <2>2 DEF IInv
<1>8. CASE Writing(t)
  <2>. DEFINE o == op[t]
  <2>1. Kept(o) /\ o.tool \in BreakpointTools /\ o.pc > Len(Script[o.tool])
    BY <1>1, <1>8 DEF IInv, WritersOK, Writing, Ended
  <2>2. Agreed
    <3>1. CASE o.tool = "set_breakpoints"
      <4>1. SettingAll(o) /\ o.pc > 2
        BY <2>1, <3>1, WriterScripts DEF Kept
      <4>. QED  BY <4>1 DEF SettingAll
    <3>2. CASE o.tool = "set_breakpoint"
      <4>1. SettingOne(o) /\ o.pc > 3
        BY <2>1, <3>2, WriterScripts DEF Kept
      <4>. QED  BY <4>1 DEF SettingOne
    <3>3. CASE o.tool = "continue_until"
      <4>1. Running(o, 8) /\ o.pc > 10
        BY <2>1, <3>3, WriterScripts DEF Kept
      <4>. QED  BY <4>1 DEF Running
    <3>4. CASE o.tool = "runToCursor"
      <4>1. Running(o, 7) /\ o.pc > 9
        BY <2>1, <3>4, WriterScripts DEF Kept
      <4>. QED  BY <4>1 DEF Running
    <3>. QED  BY <2>1, <3>1, <3>2, <3>3, <3>4 DEF Kept, BreakpointTools
  <2>3. \A u \in Tasks : ~Writing(u)'
    <3>1. \A u \in Tasks \ {t} : ~Writing(u)
      BY <1>8 DEF IInv, WritersOK
    <3>. QED  BY <1>2, <1>6, <3>1 DEF Writing
  <2>4. WritersOK'
    BY <1>1, <2>2, <2>3 DEF WritersOK, Agreed
  <2>. QED  BY <1>4, <1>5, <2>4 DEF IInv
<1>. QED
  BY <1>7, <1>8

-----------------------------------------------------------------------------
(* The invariant *)

LEMMA InitIInv == Init => IInv
<1>. SUFFICES ASSUME Init  PROVE IInv
  OBVIOUS
<1>1. Free \in Operation /\ Free.tool = "none"
  BY DEF Free, Operation
<1>2. Types
  BY <1>1 DEF Init, Types
<1>3. RequestsOK
  BY DEF Init, RequestsOK
<1>4. \A t \in Tasks : ~Writing(t)
  BY <1>1 DEF Init, Writing, BreakpointTools
<1>5. WritersOK
  BY <1>4 DEF Init, WritersOK, Agreed
<1>. QED
  BY <1>2, <1>3, <1>5 DEF IInv

(* The debuggee stops and the dispatcher takes its events. *)
LEMMA EventIInv ==
  ASSUME IInv, DebuggeeStops \/ Receive \/ Bump \/ Enriched
  PROVE  IInv'
<1>1. UNCHANGED <<op, requests, installed, store, asked>>
  BY DEF DebuggeeStops, Receive, Bump, Enriched, adapterVars
<1>2. events \in Seq(Event) /\ stop \in Nat /\ version \in Nat
  BY DEF IInv, Types
<1>3. /\ events' \in Seq(Event) /\ stop' \in Nat /\ version' \in Nat
      /\ lastStopped' \in Nat \cup {None}
  <2>1. CASE DebuggeeStops
    <3>1. [name |-> "stopped", stop |-> stop + 1] \in Event
      BY <1>2 DEF Event
    <3>. QED  BY <1>2, <2>1, <3>1 DEF DebuggeeStops, sessionVars, IInv, Types
  <2>2. CASE Receive
    <3>1. Head(events) \in Event /\ Tail(events) \in Seq(Event)
      BY <1>2, <2>2 DEF Receive
    <3>2. Head(events).stop \in Nat
      BY <3>1 DEF Event
    <3>. QED  BY <1>2, <2>2, <3>1, <3>2 DEF Receive, adapterVars, IInv, Types
  <2>3. CASE Bump \/ Enriched
    BY <1>2, <2>3 DEF Bump, Enriched, adapterVars, IInv, Types
  <2>. QED  BY <2>1, <2>2, <2>3
<1>4. Types'
  BY <1>1, <1>3 DEF IInv, Types
<1>5. RequestsOK'
  BY <1>1 DEF IInv, RequestsOK, Pending, Busy, Ended
<1>6. WritersOK'
  BY <1>1 DEF IInv, WritersOK, Writing, Kept, SettingAll, SettingOne, Running, WithTemp, Marked,
              Agreed, Single
<1>. QED
  BY <1>4, <1>5, <1>6 DEF IInv

LEMMA NextIInv ==
  ASSUME OneWriter
  PROVE  IInv /\ [Next]_vars => IInv'
<1>. SUFFICES ASSUME IInv, [Next]_vars  PROVE IInv'
  OBVIOUS
<1>1. ASSUME NEW t \in Tasks, NEW tool \in Tools[t], NEW arg \in Arguments(tool),
             Start(t, tool, arg)
      PROVE  IInv'
  BY <1>1, StartIInv
<1>2. ASSUME NEW t \in Tasks, Run(t) \/ TimesOut(t)  PROVE IInv'
  <2>1. CASE Read(t)
    BY <2>1, ReadIInv
  <2>2. CASE Reread(t)
    BY <2>2, RereadIInv
  <2>3. CASE Ask(t)
    BY <2>3, AskIInv
  <2>4. CASE Store(t)
    BY <2>4, StoreIInv
  <2>5. CASE Subscribe(t) \/ Check(t) \/ Changed(t) \/ TimesOut(t)
    BY <2>5, WaitIInv
  <2>6. CASE Report(t) \/ Loop(t)
    BY <2>6, LoopIInv
  <2>7. CASE Finish(t)
    BY <2>7, FinishIInv
  <2>. QED  BY <1>2, <2>1, <2>2, <2>3, <2>4, <2>5, <2>6, <2>7 DEF Run
<1>3. CASE Handle
  <2>1. HandleSetBreakpoints(Head(requests)) \/ HandleResume(Head(requests))
        \/ HandleEvaluate(Head(requests))
    BY <1>3 DEF Handle
  <2>. QED  BY <1>3, <2>1, SetBreakpointsIInv, GoOnIInv
<1>4. CASE DebuggeeStops \/ Receive \/ Bump \/ Enriched
  BY <1>4, EventIInv
<1>5. CASE UNCHANGED vars
  <2>1. UNCHANGED <<op, requests, installed, store, asked, events, stop, version, lastStopped>>
    BY <1>5 DEF vars, adapterVars, sessionVars
  <2>2. Types' /\ RequestsOK'
    BY <2>1 DEF IInv, Types, RequestsOK, Pending, Busy, Ended
  <2>3. WritersOK'
    BY <2>1 DEF IInv, WritersOK, Writing, Kept, SettingAll, SettingOne, Running, WithTemp, Marked,
                Agreed, Single
  <2>. QED  BY <2>2, <2>3 DEF IInv
<1>. QED
  BY <1>1, <1>2, <1>3, <1>4, <1>5 DEF Next

(* Whatever tools ran, with however many tasks, lines and steps: when none  *)
(* of them is about to change breakpoints, the session lists those that the *)
(* adapter has installed, and these are the ones the tools' callers asked   *)
(* for, no temporary one left and none of the others removed (session.rs    *)
(* 702-757, tools.rs 770-798, routes.rs 115-172).                           *)
THEOREM BreakpointsSettle ==
  ASSUME OneWriter
  PROVE  Spec => []BreakpointsKept
<1>1. IInv => BreakpointsKept
  BY DEF IInv, WritersOK, Agreed, BreakpointsKept, BreakpointsAgree, TempRemoved, Writers
<1>. QED
  BY <1>1, InitIInv, NextIInv, PTL DEF Spec

-----------------------------------------------------------------------------
(* The stops.  A tool that subscribed first waits for a stop that can      *)
(* still come and reports no other; nothing is assumed of the other tools. *)

(* How many stops the session has stored.                                  *)
Told == version + (IF disp = "bump" THEN 1 ELSE 0)

(* A task that waits has a request out (the converse is in RequestsOK).    *)
WaitsOK ==
  \A t \in Tasks : op[t].waits => \E i \in 1..Len(requests) : requests[i].from = t

Flags == paused \in BOOLEAN /\ announces \in BOOLEAN /\ disp \in {"recv", "bump", "enrich"}

(* The stops that the session has not stored are on their way, in order,   *)
(* and no others.                                                          *)
EventsOK ==
  /\ Told <= stop
  /\ \A i \in 1..Len(events) :
       /\ events[i].stop <= stop
       /\ events[i].name = "stopped" => Told < events[i].stop
  /\ \A n \in (Told + 1)..stop :
       \E i \in 1..Len(events) : events[i] = [name |-> "stopped", stop |-> n]
  /\ \A i, j \in 1..Len(events) :
       events[i].name = "stopped" /\ events[j].name = "stopped" /\ i < j =>
         events[i].stop < events[j].stop

ResumesAt(tool) == IF tool = "runToCursor" THEN 5 ELSE 2

(* A tool that subscribed first has seen no stop after the one that it     *)
(* resumed the debuggee from.                                              *)
Subscribed(o) ==
  o.tool \in SubscribeFirst =>
    /\ o.pc = ResumesAt(o.tool) => o.seen <= version
    /\ o.pc = ResumesAt(o.tool) + 1 => o.seen <= o.from /\ o.from <= stop /\ (paused => o.from < stop)

(* The debuggee was resumed from its n-th stop and by nobody else since.   *)
Alone(n) ==
  /\ stop = IF paused THEN n + 1 ELSE n
  /\ n <= version
  /\ Told > n => lastStopped = n + 1 /\ events = <<>>
  /\ \A i, j \in 1..Len(events) :
       events[i].name = "stopped" /\ i < j => events[j].name = "stopped"

(* A step that began with the session up to date, place by place.          *)
OwnSteps(o) ==
  o.tool \in {"step", "step_until_change"} /\ o.own =>
    /\ o.pc \in {1, 2} => CaughtUp
    /\ o.pc = 2 => o.seen = stop
    /\ o.pc = 3 => o.seen = o.from /\ Alone(o.from)
    /\ o.pc = 4 => Alone(o.from) /\ version = o.from + 1
    /\ o.pc = 5 => o.at # None /\ o.at > o.from

StepsOK == \A t \in Tasks : Subscribed(op[t]) /\ OwnSteps(op[t])

InScript(o) == o.pc <= Len(Script[o.tool]) + 1 /\ o.left <= MaxSteps

Bounded ==
  /\ \A t \in Tasks : InScript(op[t])
  /\ lastStopped \in (1..stop) \cup {None}
  /\ started \in 0..MaxTools

SInv == Types /\ Flags /\ RequestsOK /\ WaitsOK /\ EventsOK /\ StepsOK /\ Bounded

(* The tools that only drive the debuggee, place by place. *)
LEMMA DrivingScripts ==
  /\ Len(Script["none"]) = 0
  /\ Len(Script["ui_setBreakpoints"]) = 1 /\ Script["ui_setBreakpoints"][1] = "setBreakpoints"
  /\ Len(Script["continue_execution"]) = 1 /\ Script["continue_execution"][1] = "continue"
  /\ Len(Script["step"]) = 4
  /\ Script["step"][1] = "subscribe" /\ Script["step"][2] = "next"
  /\ Script["step"][3] = "changed" /\ Script["step"][4] = "report"
  /\ Len(Script["step_until"]) = 6
  /\ Script["step_until"][1] = "next" /\ Script["step_until"][2] = "check"
  /\ Script["step_until"][3] = "subscribe" /\ Script["step_until"][4] = "changed"
  /\ Script["step_until"][5] = "evaluate" /\ Script["step_until"][6] = "loop"
  /\ Len(Script["step_until_change"]) = 5
  /\ Script["step_until_change"][1] = "subscribe" /\ Script["step_until_change"][2] = "next"
  /\ Script["step_until_change"][3] = "changed" /\ Script["step_until_change"][4] = "evaluate"
  /\ Script["step_until_change"][5] = "loop"
<1>1. /\ Script["none"] = <<>> /\ Script["ui_setBreakpoints"] = UiSetBreakpoints
      /\ Script["continue_execution"] = ContinueExecution /\ Script["step"] = StepOver
      /\ Script["step_until"] = StepUntil /\ Script["step_until_change"] = StepUntilChange
  BY DEF Script
<1>2. /\ Len(UiSetBreakpoints) = 1 /\ UiSetBreakpoints[1] = "setBreakpoints"
      /\ Len(ContinueExecution) = 1 /\ ContinueExecution[1] = "continue"
  BY DEF UiSetBreakpoints, ContinueExecution
<1>3. /\ Len(StepOver) = 4 /\ StepOver[1] = "subscribe" /\ StepOver[2] = "next"
      /\ StepOver[3] = "changed" /\ StepOver[4] = "report"
  BY DEF StepOver
<1>4. /\ Len(StepUntil) = 6 /\ StepUntil[1] = "next" /\ StepUntil[2] = "check"
      /\ StepUntil[3] = "subscribe" /\ StepUntil[4] = "changed"
      /\ StepUntil[5] = "evaluate" /\ StepUntil[6] = "loop"
  BY DEF StepUntil, WaitForStop
<1>5. /\ Len(StepUntilChange) = 5
      /\ StepUntilChange[1] = "subscribe" /\ StepUntilChange[2] = "next"
      /\ StepUntilChange[3] = "changed" /\ StepUntilChange[4] = "evaluate"
      /\ StepUntilChange[5] = "loop"
  BY DEF StepUntilChange
<1>. QED
  BY <1>1, <1>2, <1>3, <1>4, <1>5

AllTools == {"none"} \cup BreakpointTools \cup DrivingTools

LEMMA ScriptLengths == \A tool \in AllTools : Len(Script[tool]) \in 0..10
  BY WriterScripts, DrivingScripts DEF AllTools, BreakpointTools, DrivingTools

(* Where in which script a tool does a given thing. *)
Places(tool, i, what) ==
  /\ tool \in SubscribeFirst =>
       /\ what \in {"next", "continue"} <=> i = ResumesAt(tool)
       /\ what = "changed" <=> i = ResumesAt(tool) + 1
       /\ what = "subscribe" <=> i = ResumesAt(tool) - 1
  /\ tool \in {"step", "step_until_change"} =>
       /\ i = 4 => what \in {"report", "evaluate"}
       /\ i = 5 => what = "loop"
       /\ what \notin Touching \cup {"check"}
  /\ what = "report" => tool = "step" /\ i = 4
  /\ what = "loop" => tool \in {"step_until", "step_until_change"}
  /\ what = "find" => tool = "runToCursor" /\ i = 1
  /\ what = "reread" => i + 2 = Len(Script[tool]) /\ (tool = "runToCursor" => i = 7)
  /\ what = "check" => i + 3 <= Len(Script[tool]) /\ tool \notin SubscribeFirst

LEMMA ScriptPlaces ==
  ASSUME NEW tool \in AllTools, NEW i \in 1..Len(Script[tool])
  PROVE  Places(tool, i, Script[tool][i])
<1>0. tool \in {"none", "ui_setBreakpoints", "continue_execution", "step", "step_until",
                "step_until_change", "set_breakpoints", "set_breakpoint", "continue_until",
                "runToCursor"}
  BY DEF AllTools, BreakpointTools, DrivingTools
<1>1. CASE tool \in {"none", "ui_setBreakpoints", "continue_execution"}
  <2>1. CASE tool = "none"
    BY <2>1, DrivingScripts
  <2>2. CASE tool \in {"ui_setBreakpoints", "continue_execution"}
    <3>1. Len(Script[tool]) = 1
      BY <2>2, DrivingScripts
    <3>2. i = 1
      BY <3>1
    <3>. QED  BY <2>2, <3>2, DrivingScripts DEF Places, Touching, SubscribeFirst
  <2>. QED  BY <1>1, <2>1, <2>2
<1>2. CASE tool = "step"
  <2>1. i \in {1, 2, 3, 4}
    BY <1>2, DrivingScripts
  <2>. QED  BY <1>2, <2>1, DrivingScripts DEF Places, Touching, SubscribeFirst, ResumesAt
<1>3. CASE tool = "step_until"
  <2>1. i \in {1, 2, 3, 4, 5, 6}
    BY <1>3, DrivingScripts
  <2>. QED  BY <1>3, <2>1, DrivingScripts DEF Places, Touching, SubscribeFirst, ResumesAt
<1>4. CASE tool = "step_until_change"
  <2>1. i \in {1, 2, 3, 4, 5}
    BY <1>4, DrivingScripts
  <2>. QED  BY <1>4, <2>1, DrivingScripts DEF Places, Touching, SubscribeFirst, ResumesAt
<1>5. CASE tool = "set_breakpoints"
  <2>1. i \in {1, 2}
    BY <1>5, WriterScripts
  <2>. QED  BY <1>5, <2>1, WriterScripts DEF Places, Touching, SubscribeFirst, ResumesAt
<1>6. CASE tool = "set_breakpoint"
  <2>1. i \in {1, 2, 3}
    BY <1>6, WriterScripts
  <2>. QED  BY <1>6, <2>1, WriterScripts DEF Places, Touching, SubscribeFirst, ResumesAt
<1>7. CASE tool = "continue_until"
  <2>1. i \in {1, 2, 3, 4, 5, 6, 7, 8, 9, 10}
    BY <1>7, WriterScripts
  <2>. QED  BY <1>7, <2>1, WriterScripts DEF Places, Touching, SubscribeFirst, ResumesAt
<1>8. CASE tool = "runToCursor"
  <2>1. i \in {1, 2, 3, 4, 5, 6, 7, 8, 9}
    BY <1>8, WriterScripts
  <2>. QED  BY <1>8, <2>1, WriterScripts DEF Places, Touching, SubscribeFirst, ResumesAt
<1>. QED
  BY <1>0, <1>1, <1>2, <1>3, <1>4, <1>5, <1>6, <1>7, <1>8

(* Where a task is that is neither idle nor done. *)
LEMMA TaskFacts ==
  ASSUME SInv, NEW t \in Tasks, NEW what, Busy(t), ~Ended(t), Script[op[t].tool][op[t].pc] = what
  PROVE  /\ op[t] \in Operation /\ Subscribed(op[t]) /\ OwnSteps(op[t]) /\ InScript(op[t])
         /\ op[t].pc \in 1..Len(Script[op[t].tool])
         /\ Len(Script[op[t].tool]) \in 0..10
         /\ Places(op[t].tool, op[t].pc, what)
<1>1. op[t] \in Operation /\ Subscribed(op[t]) /\ OwnSteps(op[t]) /\ InScript(op[t])
  BY DEF SInv, Types, StepsOK, Bounded
<1>2. op[t].tool \in AllTools /\ op[t].pc \in Nat \ {0} /\ ~(op[t].pc > Len(Script[op[t].tool]))
  BY <1>1 DEF Operation, AllTools, Ended
<1>3. Len(Script[op[t].tool]) \in 0..10
  BY <1>2, ScriptLengths
<1>4. op[t].pc \in 1..Len(Script[op[t].tool])
  BY <1>2, <1>3
<1>. QED
  BY <1>1, <1>2, <1>3, <1>4, ScriptPlaces

-----------------------------------------------------------------------------
(* The steps of one task *)

(* A step of a task with no request out, before and after, that leaves the *)
(* debuggee and the dispatcher alone.                                      *)
LEMMA TaskStep ==
  ASSUME SInv, NEW t \in Tasks, NEW k \in Operation, op' = [op EXCEPT ![t] = k],
         ~op[t].waits, ~k.waits, UNCHANGED <<adapterVars, events, sessionVars>>,
         store' \subseteq Lines, asked' \subseteq Lines, started' \in 0..MaxTools,
         InScript(k), Subscribed(k), OwnSteps(k)
  PROVE  SInv'
<1>1. op'[t] = k /\ \A u \in Tasks \ {t} : op'[u] = op[u]
  BY DEF SInv, Types
<1>2. UNCHANGED <<requests, paused, stop, installed, announces, events, disp, lastStopped, version>>
  BY DEF adapterVars, sessionVars
<1>3. Types' /\ Flags' /\ EventsOK'
  BY <1>2 DEF SInv, Types, Flags, EventsOK, Told
<1>4. RequestsOK'
  <2>1. \A i \in 1..Len(requests) : requests[i].from # t
    BY DEF SInv, RequestsOK, Pending
  <2>. QED  BY <1>1, <1>2, <2>1, RequestsStep DEF SInv
<1>5. WaitsOK'
  BY <1>1, <1>2 DEF SInv, WaitsOK
<1>6. StepsOK'
  <2>1. ASSUME NEW u \in Tasks  PROVE Subscribed(op[u])' /\ OwnSteps(op[u])'
    <3>1. Subscribed(op'[u]) /\ OwnSteps(op'[u])
      BY <1>1 DEF SInv, StepsOK
    <3>. QED  BY <1>2, <3>1 DEF Subscribed, OwnSteps, Alone, Told, CaughtUp
  <2>. QED  BY <2>1 DEF StepsOK
<1>7. Bounded'
  BY <1>1, <1>2 DEF SInv, Bounded, InScript
<1>. QED
  BY <1>3, <1>4, <1>5, <1>6, <1>7 DEF SInv

LEMMA StartSInv ==
  ASSUME SInv, NEW t \in Tasks, NEW tool \in Tools[t], NEW arg \in Arguments(tool),
         Start(t, tool, arg)
  PROVE  SInv'
<1>. DEFINE k == [Free EXCEPT !.tool = tool, !.arg = arg, !.lines = arg, !.left = MaxSteps,
                              !.own = CaughtUp]
<1>1. ~Busy(t) /\ op' = [op EXCEPT ![t] = k]
      /\ UNCHANGED <<adapterVars, events, sessionVars, store>>
  BY DEF Start
<1>2. tool \in BreakpointTools \cup DrivingTools
  BY ToolsAssumption
<1>3. arg \subseteq Lines
  BY <1>2 DEF Arguments, BreakpointTools, DrivingTools
<1>4. MaxSteps \in Nat /\ MaxTools \in Nat /\ CaughtUp \in BOOLEAN
  BY ToolsAssumption DEF CaughtUp
<1>5. k \in Operation
  <2>1. Free \in Operation
    BY DEF Free, Operation
  <2>. QED  BY <1>2, <1>3, <1>4, <2>1 DEF Operation
<1>6. /\ k.tool = tool /\ k.pc = 1 /\ k.left = MaxSteps /\ k.own = CaughtUp /\ ~k.waits
  BY DEF Free
<1>. HIDE DEF k
<1>7. ~op[t].waits
  <2>1. \A i \in 1..Len(requests) : requests[i].from # t
    BY <1>1 DEF SInv, RequestsOK, Pending
  <2>. QED  BY <2>1 DEF SInv, WaitsOK
<1>8. InScript(k)
  <2>1. Len(Script[tool]) \in Nat
    BY <1>2, ScriptLengths DEF AllTools
  <2>. QED  BY <1>4, <1>6, <2>1 DEF InScript
<1>9. Subscribed(k) /\ OwnSteps(k)
  BY <1>6 DEF Subscribed, OwnSteps, ResumesAt
<1>10. asked' \subseteq Lines /\ store' \subseteq Lines /\ started' \in 0..MaxTools
  <2>1. asked' \in {asked, arg, asked \cup arg}
    BY DEF Start
  <2>2. started \in Nat /\ started < MaxTools /\ started' = started + 1
    BY <1>4 DEF Start, SInv, Bounded
  <2>. QED  BY <1>1, <1>3, <1>4, <2>1, <2>2 DEF SInv, Types
<1>. QED
  BY <1>1, <1>5, <1>6, <1>7, <1>8, <1>9, <1>10, TaskStep

(* A step at a place of the script. *)
LEMMA PlacedStep ==
  ASSUME SInv, NEW t \in Tasks, NEW what, At(t, what), NEW k \in Operation,
         op' = [op EXCEPT ![t] = k], k.waits = op[t].waits, k.tool = op[t].tool,
         k.pc \in 1..(Len(Script[op[t].tool]) + 1), k.left <= op[t].left,
         UNCHANGED <<adapterVars, events, sessionVars, asked>>,
         store' \subseteq Lines, started' \in 0..MaxTools, Subscribed(k), OwnSteps(k)
  PROVE  SInv'
<1>1. ~op[t].waits /\ Busy(t) /\ ~Ended(t) /\ Script[op[t].tool][op[t].pc] = what
  BY DEF At
<1>2. /\ InScript(op[t]) /\ op[t] \in Operation /\ Len(Script[op[t].tool]) \in 0..10
  BY <1>1, TaskFacts
<1>3. InScript(k)
  BY <1>2, ToolsAssumption DEF InScript, Operation
<1>4. asked' \subseteq Lines
  BY DEF SInv, Types
<1>. QED
  BY <1>1, <1>3, <1>4, TaskStep

(* The list is read, or stored: no place a step or a wait starts from. *)
LEMMA ListSInv ==
  ASSUME SInv, NEW t \in Tasks, Read(t) \/ Reread(t) \/ Store(t)
  PROVE  SInv'
<1>. DEFINE o == op[t]
<1>1. PICK what \in {"read", "find", "reread", "store"} : At(t, what)
  BY DEF Read, Reread, Store
<1>2. ~o.waits /\ Busy(t) /\ ~Ended(t) /\ Script[o.tool][o.pc] = what
  BY <1>1 DEF At
<1>3. /\ o \in Operation /\ Subscribed(o) /\ OwnSteps(o) /\ o.pc \in 1..Len(Script[o.tool])
      /\ Len(Script[o.tool]) \in 0..10 /\ Places(o.tool, o.pc, what)
  BY <1>2, TaskFacts
<1>4. Len(Install) = 2
  BY DEF Install
<1>5. op \in [Tasks -> Operation] /\ store \subseteq Lines
  BY DEF SInv, Types
<1>6. PICK lines \in SUBSET Lines, temp \in BOOLEAN, pc \in Nat \ {0} :
        /\ op' = [op EXCEPT ![t] = [o EXCEPT !.lines = lines, !.temp = temp, !.pc = pc]]
        /\ pc = o.pc + 1 \/ (pc = o.pc + 3 /\ what = "reread")
             \/ (pc = o.pc + 3 /\ what = "find")
  <2>1. o.pc \in Nat /\ o.arg \subseteq Lines /\ o.lines \subseteq Lines /\ o.temp \in BOOLEAN
    BY <1>3 DEF Operation
  <2>2. o.pc + 1 \in Nat \ {0} /\ o.pc + 3 \in Nat \ {0} /\ o.pc + 1 + Len(Install) = o.pc + 3
    BY <1>4, <2>1
  <2>3. CASE Read(t)
    <3>. DEFINE has == o.arg \subseteq store
    <3>0. (has \in BOOLEAN) /\ (store \cup o.arg) \in SUBSET Lines
      BY <1>5, <2>1
    <3>1. op' = [op EXCEPT ![t] = [o EXCEPT !.lines = store \cup o.arg, !.temp = ~has,
                   !.pc = IF At(t, "find") /\ has THEN o.pc + 1 + Len(Install) ELSE o.pc + 1]]
      BY <1>5, <2>3 DEF Read
    <3>2. CASE At(t, "find") /\ has
      <4>1. what = "find"
        BY <1>2, <3>2 DEF At
      <4>2. op' = [op EXCEPT ![t] = [o EXCEPT !.lines = store \cup o.arg, !.temp = ~has, !.pc = o.pc + 3]]
        BY <2>2, <3>1, <3>2
      <4>. QED  BY <2>2, <3>0, <4>1, <4>2
    <3>3. CASE ~(At(t, "find") /\ has)
      <4>1. op' = [op EXCEPT ![t] = [o EXCEPT !.lines = store \cup o.arg, !.temp = ~has, !.pc = o.pc + 1]]
        BY <3>1, <3>3
      <4>. QED  BY <2>2, <3>0, <4>1
    <3>. QED  BY <3>2, <3>3
  <2>4. CASE Reread(t)
    <3>0. (store \ o.arg) \in SUBSET Lines
      BY <1>5
    <3>1. op' = [op EXCEPT ![t] = [o EXCEPT !.lines = store \ o.arg, !.temp = o.temp,
                   !.pc = IF o.temp THEN o.pc + 1 ELSE o.pc + 1 + Len(Install)]]
      BY <1>3, <1>5, <2>4 DEF Reread, Operation
    <3>2. what = "reread"
      BY <1>2, <2>4 DEF Reread, At
    <3>3. CASE o.temp
      <4>1. op' = [op EXCEPT ![t] = [o EXCEPT !.lines = store \ o.arg, !.temp = o.temp, !.pc = o.pc + 1]]
        BY <3>1, <3>3
      <4>. QED  BY <2>1, <2>2, <3>0, <4>1
    <3>4. CASE ~o.temp
      <4>1. op' = [op EXCEPT ![t] = [o EXCEPT !.lines = store \ o.arg, !.temp = o.temp, !.pc = o.pc + 3]]
        BY <2>2, <3>1, <3>4
      <4>. QED  BY <2>1, <2>2, <3>0, <3>2, <4>1
    <3>. QED  BY <3>3, <3>4
  <2>5. CASE Store(t)
    <3>1. op' = [op EXCEPT ![t] = [o EXCEPT !.lines = o.lines, !.temp = o.temp, !.pc = o.pc + 1]]
      BY <1>3, <1>5, <2>5 DEF Store, Operation
    <3>. QED  BY <2>1, <2>2, <3>1
  <2>. QED  BY <2>3, <2>4, <2>5
<1>. DEFINE k == [o EXCEPT !.lines = lines, !.temp = temp, !.pc = pc]
<1>7. /\ k \in Operation /\ k.tool = o.tool /\ k.waits = o.waits /\ k.pc = pc /\ k.left = o.left
  BY <1>3, <1>6 DEF Operation
<1>. HIDE DEF k
<1>8. o.tool \notin {"step", "step_until_change"} /\ o.tool \in AllTools /\ o.left \in Nat
  BY <1>3 DEF Places, Touching, Operation, AllTools
<1>9. pc \in 1..(Len(Script[o.tool]) + 1) /\ (o.tool = "runToCursor" => pc \notin {5, 6})
  <2>1. CASE o.tool # "runToCursor"
    <3>1. what # "find"
      BY <1>3, <2>1 DEF Places
    <3>. QED  BY <1>3, <1>6, <2>1, <3>1 DEF Places
  <2>2. CASE o.tool = "runToCursor"
    <3>1. Len(Script[o.tool]) = 9 /\ o.pc \in {1, 2, 3, 4, 5, 6, 7, 8, 9}
      BY <1>3, <2>2, WriterScripts
    <3>2. o.pc \in {1, 3, 7, 9}
      BY <1>2, <2>2, <3>1, WriterScripts
    <3>. QED  BY <1>3, <1>6, <2>2, <3>1, <3>2 DEF Places
  <2>. QED  BY <2>1, <2>2
<1>10. Subscribed(k) /\ OwnSteps(k)
  BY <1>7, <1>8, <1>9 DEF Subscribed, OwnSteps, ResumesAt, SubscribeFirst
<1>11. /\ UNCHANGED <<adapterVars, events, sessionVars, asked>>
       /\ store' \subseteq Lines /\ started' \in 0..MaxTools
  <2>1. store' \in {store, o.lines} /\ o.lines \subseteq Lines
    BY <1>3 DEF Read, Reread, Store, Operation
  <2>. QED  BY <1>5, <2>1 DEF Read, Reread, Store, SInv, Bounded
<1>12. op' = [op EXCEPT ![t] = k] /\ k.left <= o.left /\ k.pc \in 1..(Len(Script[o.tool]) + 1)
  BY <1>6, <1>7, <1>8, <1>9 DEF k
<1>. QED
  BY <1>1, <1>7, <1>10, <1>11, <1>12, PlacedStep

(* A tool subscribes, looks at last_stopped, is woken, or gives up. *)
LEMMA WaitSInv ==
  ASSUME SInv, NEW t \in Tasks, Subscribe(t) \/ Check(t) \/ Changed(t) \/ TimesOut(t)
  PROVE  SInv'
<1>. DEFINE o == op[t]
<1>0. Len(WaitForStop) = 3 /\ Len(StepUntil) = 6
  BY DEF WaitForStop, StepUntil
<1>1. PICK what \in {"subscribe", "check", "changed"} : At(t, what)
  BY DEF Subscribe, Check, Changed, TimesOut
<1>2. ~o.waits /\ Busy(t) /\ ~Ended(t) /\ Script[o.tool][o.pc] = what
  BY <1>1 DEF At
<1>3. /\ o \in Operation /\ Subscribed(o) /\ OwnSteps(o) /\ o.pc \in 1..Len(Script[o.tool])
      /\ Len(Script[o.tool]) \in 0..10 /\ Places(o.tool, o.pc, what)
  BY <1>2, TaskFacts
<1>4. op \in [Tasks -> Operation] /\ store \subseteq Lines /\ version \in Nat /\ stop \in Nat
      /\ lastStopped \in Nat \cup {None} /\ events \in Seq(Event)
  BY DEF SInv, Types
<1>5. /\ UNCHANGED <<adapterVars, events, sessionVars, asked, store, started>>
      /\ store' \subseteq Lines /\ started' \in 0..MaxTools
  BY <1>4 DEF Subscribe, Check, Changed, TimesOut, SInv, Bounded
<1>6. o.pc \in Nat \ {0} /\ o.seen \in Nat /\ o.from \in Nat /\ o.tool \in AllTools
      /\ o.left \in Nat /\ o.own \in BOOLEAN /\ o.pc + 1 \in Nat \ {0}
      /\ o.pc + 1 \in 1..(Len(Script[o.tool]) + 1) /\ o.left <= o.left
  <2>1. o.pc \in Nat \ {0} /\ o.left \in Nat
    BY <1>3 DEF Operation
  <2>. QED  BY <1>3, <2>1 DEF Operation, AllTools
<1>7. CASE Subscribe(t)
  <2>. DEFINE k == [o EXCEPT !.seen = version, !.pc = o.pc + 1]
  <2>1. op' = [op EXCEPT ![t] = k]
    BY <1>4, <1>7 DEF Subscribe
  <2>2. /\ k \in Operation /\ k.tool = o.tool /\ k.waits = o.waits /\ k.pc = o.pc + 1
        /\ k.left = o.left /\ k.seen = version /\ k.own = o.own
    BY <1>3, <1>4, <1>6 DEF Operation
  <2>. HIDE DEF k
  <2>3. what = "subscribe"
    BY <1>2, <1>7 DEF Subscribe, At
  <2>4. Subscribed(k)
    BY <1>3, <1>4, <1>6, <2>2, <2>3 DEF Subscribed, Places, ResumesAt
  <2>5. OwnSteps(k)
    <3>. SUFFICES ASSUME o.tool \in {"step", "step_until_change"}, o.own  PROVE OwnSteps(k)
      BY <2>2 DEF OwnSteps
    <3>1. o.pc = 1
      BY <1>3, <1>6, <2>3 DEF Places, ResumesAt, SubscribeFirst
    <3>2. CaughtUp
      BY <1>3, <3>1 DEF OwnSteps
    <3>3. version = stop
      BY <1>4, <3>2 DEF CaughtUp, SInv, EventsOK, Told
    <3>. QED  BY <2>2, <3>1, <3>2, <3>3 DEF OwnSteps
  <2>6. k.pc \in 1..(Len(Script[o.tool]) + 1) /\ k.left <= o.left
    BY <1>6, <2>2
  <2>. QED  BY <1>1, <1>5, <2>1, <2>2, <2>4, <2>5, <2>6, PlacedStep
<1>8. CASE Check(t)
  <2>0. what = "check"
    BY <1>2, <1>8 DEF Check, At
  <2>1. PICK pc \in {o.pc + 1, o.pc + 3} : op' = [op EXCEPT ![t] = [o EXCEPT !.pc = pc]]
    <3>1. op' = [op EXCEPT ![t] = [o EXCEPT !.pc = IF lastStopped # None THEN o.pc + 3 ELSE o.pc + 1]]
      BY <1>0, <1>4, <1>6, <1>8 DEF Check
    <3>. QED  BY <3>1
  <2>6. pc \in Nat \ {0}
    BY <1>6, <2>1
  <2>. DEFINE k == [o EXCEPT !.pc = pc]
  <2>2. /\ k \in Operation /\ k.tool = o.tool /\ k.waits = o.waits /\ k.pc = pc /\ k.left = o.left
    BY <1>3, <2>6 DEF Operation
  <2>. HIDE DEF k
  <2>3. o.tool \notin SubscribeFirst /\ o.pc + 3 <= Len(Script[o.tool])
    BY <1>3, <2>0 DEF Places
  <2>4. Subscribed(k) /\ OwnSteps(k)
    BY <2>2, <2>3 DEF Subscribed, OwnSteps, SubscribeFirst
  <2>5. pc \in 1..(Len(Script[o.tool]) + 1)
    BY <1>3, <1>6, <2>1, <2>3
  <2>7. op' = [op EXCEPT ![t] = k] /\ k.left <= o.left /\ k.pc \in 1..(Len(Script[o.tool]) + 1)
    BY <1>6, <2>1, <2>2, <2>5 DEF k
  <2>. QED  BY <1>1, <1>5, <2>2, <2>4, <2>7, PlacedStep
<1>9. CASE Changed(t)
  <2>. DEFINE k == [o EXCEPT !.pc = o.pc + 1]
  <2>1. op' = [op EXCEPT ![t] = k]
    BY <1>4, <1>9 DEF Changed
  <2>2. /\ k \in Operation /\ k.tool = o.tool /\ k.waits = o.waits /\ k.pc = o.pc + 1
        /\ k.left = o.left /\ k.seen = o.seen /\ k.own = o.own /\ k.from = o.from
    BY <1>3, <1>4, <1>6 DEF Operation
  <2>. HIDE DEF k
  <2>3. what = "changed"
    BY <1>2, <1>9 DEF Changed, At
  <2>4. Subscribed(k)
    BY <1>3, <1>6, <2>2, <2>3 DEF Subscribed, Places, ResumesAt
  <2>5. OwnSteps(k)
    <3>. SUFFICES ASSUME o.tool \in {"step", "step_until_change"}, o.own  PROVE OwnSteps(k)
      BY <2>2 DEF OwnSteps
    <3>1. o.pc = 3
      BY <1>3, <1>6, <2>3 DEF Places, ResumesAt, SubscribeFirst
    <3>2. o.seen = o.from /\ Alone(o.from)
      BY <1>3, <3>1 DEF OwnSteps
    <3>3. version # o.seen /\ version <= stop
      BY <1>4, <1>9 DEF Changed, SInv, EventsOK, Told
    <3>4. version = o.from + 1
      BY <1>4, <1>6, <3>2, <3>3 DEF Alone
    <3>. QED  BY <2>2, <3>1, <3>2, <3>4 DEF OwnSteps
  <2>6. k.pc \in 1..(Len(Script[o.tool]) + 1) /\ k.left <= o.left
    BY <1>6, <2>2
  <2>. QED  BY <1>1, <1>5, <2>1, <2>2, <2>4, <2>5, <2>6, PlacedStep
<1>10. CASE TimesOut(t)
  <2>0. what = "changed"
    BY <1>2, <1>10 DEF TimesOut, At
  <2>1. PICK pc \in Nat \ {0} : /\ op' = [op EXCEPT ![t] = [o EXCEPT !.own = FALSE, !.pc = pc]]
                                /\ pc = IF o.tool = "step_until" THEN 7 ELSE o.pc + 1
    <3>1. op' = [op EXCEPT ![t].own = FALSE,
                           ![t].pc = IF o.tool = "step_until" THEN 7 ELSE @ + 1]
      BY <1>0, <1>10 DEF TimesOut
    <3>2. CASE o.tool = "step_until"
      <4>1. op' = [op EXCEPT ![t] = [o EXCEPT !.own = FALSE, !.pc = 7]]
        BY <1>4, <3>1, <3>2
      <4>2. 7 \in Nat \ {0}
        OBVIOUS
      <4>. QED  BY <3>2, <4>1, <4>2
    <3>3. CASE o.tool # "step_until"
      <4>1. op' = [op EXCEPT ![t] = [o EXCEPT !.own = FALSE, !.pc = o.pc + 1]]
        BY <1>4, <3>1, <3>3
      <4>. QED  BY <1>6, <3>3, <4>1
    <3>. QED  BY <3>2, <3>3
  <2>. DEFINE k == [o EXCEPT !.own = FALSE, !.pc = pc]
  <2>2. pc \in 1..(Len(Script[o.tool]) + 1)
    BY <1>3, <1>6, <2>1, DrivingScripts
  <2>3. /\ k \in Operation /\ k.tool = o.tool /\ k.waits = o.waits /\ k.pc = pc /\ k.left = o.left
        /\ k.own = FALSE
    BY <1>3, <2>1 DEF Operation
  <2>. HIDE DEF k
  <2>4. Subscribed(k) /\ OwnSteps(k)
    BY <1>3, <1>6, <2>0, <2>1, <2>3 DEF Subscribed, OwnSteps, SubscribeFirst, Places, ResumesAt
  <2>5. op' = [op EXCEPT ![t] = k] /\ k.left <= o.left /\ k.pc \in 1..(Len(Script[o.tool]) + 1)
    BY <1>6, <2>1, <2>2, <2>3 DEF k
  <2>. QED  BY <1>1, <1>5, <2>3, <2>4, <2>5, PlacedStep
<1>. QED
  BY <1>7, <1>8, <1>9, <1>10

(* A stop is reported, another step is taken, or the task is free again. *)
LEMMA EndSInv ==
  ASSUME SInv, NEW t \in Tasks, Report(t) \/ Loop(t) \/ Finish(t)
  PROVE  SInv'
<1>. DEFINE o == op[t]
<1>1. op \in [Tasks -> Operation] /\ store \subseteq Lines /\ version \in Nat /\ stop \in Nat
      /\ lastStopped \in Nat \cup {None} /\ asked \subseteq Lines
  BY DEF SInv, Types
<1>2. o \in Operation /\ InScript(o) /\ started \in 0..MaxTools
  BY <1>1 DEF SInv, Bounded
<1>3. o.pc \in Nat \ {0} /\ o.from \in Nat /\ o.tool \in AllTools /\ o.left \in Nat
      /\ o.own \in BOOLEAN /\ o.at \in Nat \cup {None}
  BY <1>2 DEF Operation, AllTools
<1>4. CASE Finish(t)
  <2>1. Ended(t) /\ op' = [op EXCEPT ![t] = Free]
        /\ UNCHANGED <<adapterVars, events, sessionVars, store, asked, started>>
    BY <1>4 DEF Finish
  <2>2. ~o.waits
    <3>1. \A i \in 1..Len(requests) : requests[i].from # t
      BY <2>1 DEF SInv, RequestsOK, Pending
    <3>. QED  BY <3>1 DEF SInv, WaitsOK
  <2>3. Free \in Operation /\ ~Free.waits /\ Free.tool = "none" /\ Free.pc = 1 /\ Free.left = 0
    BY DEF Free, Operation
  <2>4. InScript(Free) /\ Subscribed(Free) /\ OwnSteps(Free)
    BY <2>3, DrivingScripts, ToolsAssumption DEF InScript, Subscribed, OwnSteps, SubscribeFirst
  <2>. QED  BY <1>1, <1>2, <2>1, <2>2, <2>3, <2>4, TaskStep
<1>5. ASSUME NEW what \in {"report", "loop"}, At(t, what),
             NEW pc \in {1, o.pc + 1}, NEW left \in Nat, left <= o.left,
             NEW at \in Nat \cup {None}, NEW own \in BOOLEAN,
             op' = [op EXCEPT ![t] = [o EXCEPT !.pc = pc, !.left = left, !.at = at, !.own = own]],
             UNCHANGED <<adapterVars, events, sessionVars, store, asked>>,
             started' \in 0..MaxTools,
             \/ pc = 1 /\ what = "loop" /\ own = CaughtUp
             \/ pc = o.pc + 1 /\ (own => o.own)
                /\ (what = "report" /\ own => at # None /\ at > o.from)
      PROVE  SInv'
  <2>. DEFINE k == [o EXCEPT !.pc = pc, !.left = left, !.at = at, !.own = own]
  <2>1. ~o.waits /\ Busy(t) /\ ~Ended(t) /\ Script[o.tool][o.pc] = what
    BY <1>5 DEF At
  <2>2. /\ o.pc \in 1..Len(Script[o.tool])
        /\ Len(Script[o.tool]) \in 0..10 /\ Places(o.tool, o.pc, what)
    BY <2>1, TaskFacts
  <2>3. /\ k \in Operation /\ k.tool = o.tool /\ k.waits = o.waits /\ k.pc = pc /\ k.left = left
        /\ k.own = own /\ k.at = at /\ k.from = o.from
    <3>1. pc \in Nat \ {0}
      BY <1>3
    <3>. QED  BY <1>2, <1>5, <3>1 DEF Operation
  <2>. HIDE DEF k
  <2>4. Subscribed(k)
    <3>1. o.tool \in SubscribeFirst => o.tool # "runToCursor" /\ pc \notin {2, 3}
      <4>. SUFFICES ASSUME o.tool \in SubscribeFirst  PROVE o.tool # "runToCursor" /\ pc \notin {2, 3}
        OBVIOUS
      <4>1. o.tool # "runToCursor"
        BY <1>5, <2>2 DEF Places
      <4>2. o.pc \notin {1, 2}
        BY <1>5, <2>2, <4>1 DEF Places, ResumesAt
      <4>. QED  BY <1>3, <1>5, <4>1, <4>2
    <3>. QED  BY <2>3, <3>1 DEF Subscribed, ResumesAt
  <2>5. OwnSteps(k)
    <3>. SUFFICES ASSUME o.tool \in {"step", "step_until_change"}, own  PROVE OwnSteps(k)
      BY <2>3 DEF OwnSteps
    <3>1. CASE pc = 1 /\ own = CaughtUp
      BY <2>3, <3>1 DEF OwnSteps
    <3>2. CASE pc = o.pc + 1 /\ (own => o.own) /\ (what = "report" /\ own => at # None /\ at > o.from)
      <4>1. CASE o.tool = "step"
        <5>1. o.pc = 4 /\ what = "report"
          BY <1>5, <2>2, <4>1 DEF Places
        <5>2. k.pc = 5 /\ k.at # None /\ k.at > k.from
          BY <2>3, <3>2, <5>1
        <5>. QED  BY <5>2 DEF OwnSteps
      <4>2. CASE o.tool = "step_until_change"
        <5>1. o.pc \in {1, 2, 3, 4, 5}
          BY <2>2, <4>2, DrivingScripts
        <5>2. o.pc = 5
          BY <1>5, <2>1, <4>2, <5>1, DrivingScripts
        <5>. QED  BY <2>3, <3>2, <5>2 DEF OwnSteps
      <4>. QED  BY <4>1, <4>2
    <3>. QED  BY <1>5, <3>1, <3>2
  <2>6. pc \in 1..(Len(Script[o.tool]) + 1) /\ store' \subseteq Lines
    BY <1>1, <1>3, <1>5, <2>2
  <2>7. op' = [op EXCEPT ![t] = k]
    BY <1>5 DEF k
  <2>. QED  BY <1>5, <2>3, <2>4, <2>5, <2>6, <2>7, PlacedStep
<1>6. CASE Report(t)
  <2>1. op' = [op EXCEPT ![t] = [o EXCEPT !.pc = o.pc + 1, !.left = o.left, !.at = lastStopped,
                                          !.own = o.own]]
    BY <1>1, <1>2, <1>6 DEF Report, Operation
  <2>2. At(t, "report") /\ UNCHANGED <<adapterVars, events, sessionVars, store, asked, started>>
    BY <1>6 DEF Report
  <2>3. o.own => lastStopped # None /\ lastStopped > o.from
    <3>. SUFFICES ASSUME o.own  PROVE lastStopped # None /\ lastStopped > o.from
      OBVIOUS
    <3>1. ~o.waits /\ Busy(t) /\ ~Ended(t) /\ Script[o.tool][o.pc] = "report"
      BY <2>2 DEF At
    <3>2. o.tool = "step" /\ o.pc = 4 /\ OwnSteps(o)
      BY <3>1, TaskFacts DEF Places
    <3>3. Alone(o.from) /\ version = o.from + 1
      BY <3>2 DEF OwnSteps
    <3>4. Told > o.from
      BY <1>3, <3>3 DEF Told
    <3>5. lastStopped = o.from + 1
      BY <3>3, <3>4 DEF Alone
    <3>. QED  BY <1>3, <3>5, ToolsAssumption
  <2>4. o.left <= o.left /\ started' \in 0..MaxTools
    BY <1>2, <1>3, <2>2
  <2>. QED  BY <1>1, <1>3, <1>5, <2>1, <2>2, <2>3, <2>4
<1>7. CASE Loop(t)
  <2>1. At(t, "loop") /\ UNCHANGED <<adapterVars, events, sessionVars, store, asked>>
    BY <1>7 DEF Loop
  <2>2. CASE op' = [op EXCEPT ![t].pc = @ + 1] /\ UNCHANGED started
    <3>1. op' = [op EXCEPT ![t] = [o EXCEPT !.pc = o.pc + 1, !.left = o.left, !.at = o.at,
                                            !.own = o.own]]
      BY <1>1, <1>2, <2>2 DEF Operation
    <3>2. o.left <= o.left /\ started' \in 0..MaxTools
      BY <1>2, <1>3, <2>2
    <3>. QED  BY <1>3, <1>5, <2>1, <3>1, <3>2
  <2>3. CASE /\ o.left > 1 /\ started < MaxTools /\ started' = started + 1
             /\ op' = [op EXCEPT ![t].pc = 1, ![t].left = @ - 1, ![t].at = None,
                                 ![t].own = CaughtUp]
    <3>1. op' = [op EXCEPT ![t] = [o EXCEPT !.pc = 1, !.left = o.left - 1, !.at = None,
                                            !.own = CaughtUp]]
      BY <1>1, <1>2, <2>3 DEF Operation
    <3>2. o.left - 1 \in Nat /\ o.left - 1 <= o.left /\ started' \in 0..MaxTools
      BY <1>2, <1>3, <2>3, ToolsAssumption
    <3>3. CaughtUp \in BOOLEAN /\ None \in Nat \cup {None}
      BY DEF CaughtUp
    <3>. QED  BY <1>5, <2>1, <3>1, <3>2, <3>3
  <2>. QED  BY <1>7, <2>2, <2>3 DEF Loop
<1>. QED
  BY <1>4, <1>6, <1>7

-----------------------------------------------------------------------------
(* Requests *)

(* Nothing but the requests changes, and who waits. *)
LEMMA AskSInv ==
  ASSUME SInv, NEW t \in Tasks, Ask(t)
  PROVE  SInv'
<1>. DEFINE o == op[t]
            k == [o EXCEPT !.waits = TRUE]
<1>1. PICK command \in Commands :
        /\ At(t, command)
        /\ requests' = Append(requests, [from |-> t, command |-> command, lines |-> o.lines])
        /\ op' = [op EXCEPT ![t].waits = TRUE]
        /\ UNCHANGED <<paused, stop, installed, announces, events, sessionVars, store, asked, started>>
  BY DEF Ask
<1>2. /\ op' = [op EXCEPT ![t] = k] /\ k \in Operation
      /\ requests' \in Seq(Request) /\ Len(requests') = Len(requests) + 1 /\ Len(requests) \in Nat
      /\ \A i \in 1..Len(requests) : requests'[i] = requests[i]
      /\ requests'[Len(requests) + 1].from = t
      /\ RequestsOK'
  BY <1>1, AskedRequests DEF SInv
<1>3. op \in [Tasks -> Operation] /\ o \in Operation
  BY DEF SInv, Types
<1>4. op'[t] = k /\ \A u \in Tasks \ {t} : op'[u] = op[u]
  BY <1>2, <1>3
<1>5. /\ k.tool = o.tool /\ k.pc = o.pc /\ k.own = o.own /\ k.seen = o.seen /\ k.from = o.from
      /\ k.at = o.at /\ k.left = o.left
  BY <1>3 DEF Operation
<1>. HIDE DEF k
<1>6. UNCHANGED <<paused, stop, announces, events, disp, lastStopped, version, store, asked,
                  installed, started>>
  BY <1>1 DEF sessionVars
<1>7. Types' /\ Flags' /\ EventsOK'
  BY <1>2, <1>6 DEF SInv, Types, Flags, EventsOK, Told
<1>8. WaitsOK'
  <2>1. ASSUME NEW u \in Tasks, op'[u].waits
        PROVE  \E i \in 1..Len(requests') : requests'[i].from = u
    <3>1. CASE u = t
      <4>1. Len(requests) + 1 \in 1..Len(requests')
        BY <1>2
      <4>. QED  BY <1>2, <3>1, <4>1
    <3>2. CASE u # t
      <4>1. PICK i \in 1..Len(requests) : requests[i].from = u
        BY <1>4, <2>1, <3>2 DEF SInv, WaitsOK
      <4>2. i \in 1..Len(requests') /\ requests'[i].from = u
        BY <1>2, <4>1
      <4>. QED  BY <4>2
    <3>. QED  BY <3>1, <3>2
  <2>. QED  BY <2>1 DEF WaitsOK
<1>9. StepsOK'
  <2>1. ASSUME NEW u \in Tasks  PROVE Subscribed(op[u])' /\ OwnSteps(op[u])'
    <3>1. Subscribed(op[u]) /\ OwnSteps(op[u])
      BY DEF SInv, StepsOK
    <3>2. CASE u = t
      BY <1>4, <1>5, <1>6, <3>1, <3>2 DEF Subscribed, OwnSteps, Alone, Told, CaughtUp
    <3>3. CASE u # t
      BY <1>4, <1>6, <3>1, <3>3 DEF Subscribed, OwnSteps, Alone, Told, CaughtUp
    <3>. QED  BY <3>2, <3>3
  <2>. QED  BY <2>1 DEF StepsOK
<1>10. Bounded'
  BY <1>4, <1>5, <1>6 DEF SInv, Bounded, InScript
<1>. QED
  BY <1>2, <1>7, <1>8, <1>9, <1>10 DEF SInv

(* What an answered request leaves behind, whatever it asked for. *)
LEMMA HandledSInv ==
  ASSUME SInv, Handle, NEW k \in Operation, NEW t \in Tasks, t = Head(requests).from,
         op' \in [Tasks -> Operation], op'[t] = k,
         k.tool = op[t].tool, k.pc = op[t].pc + 1, k.left = op[t].left, ~k.waits,
         \A u \in Tasks \ {t} : /\ Same(op'[u], op[u]) /\ op'[u].waits = op[u].waits
                                /\ op'[u].left = op[u].left
                                /\ Subscribed(op[u])' /\ OwnSteps(op[u])',
         Subscribed(k)', OwnSteps(k)', installed' \subseteq Lines, paused' \in BOOLEAN,
         events' \in Seq(Event), EventsOK'
  PROVE  SInv'
<1>1. requests # <<>> /\ requests' = Tail(requests)
      /\ UNCHANGED <<stop, announces, disp, lastStopped, version, store, asked, started>>
  BY DEF Handle, sessionVars
<1>2. /\ Busy(t) /\ ~Ended(t) /\ Script[op[t].tool][op[t].pc] = Head(requests).command
      /\ requests' \in Seq(Request)
  BY <1>1, HeadFacts DEF SInv
<1>3. Types' /\ Flags'
  BY <1>1, <1>2 DEF SInv, Types, Flags
<1>4. RequestsOK'
  BY <1>1, HandledRequests DEF SInv
<1>5. WaitsOK'
  <2>1. ASSUME NEW u \in Tasks, op'[u].waits
        PROVE  \E i \in 1..Len(requests') : requests'[i].from = u
    <3>1. u # t /\ op[u].waits
      BY <2>1
    <3>2. PICK i \in 1..Len(requests) : requests[i].from = u
      BY <3>1 DEF SInv, WaitsOK
    <3>3. requests \in Seq(Request) /\ Head(requests) = requests[1]
      BY <1>1 DEF SInv, Types
    <3>4. i # 1
      BY <3>1, <3>2, <3>3
    <3>5. i - 1 \in 1..Len(requests') /\ requests'[i - 1] = requests[i]
      BY <1>1, <3>2, <3>3, <3>4
    <3>. QED  BY <3>2, <3>5
  <2>. QED  BY <2>1 DEF WaitsOK
<1>6. StepsOK'
  BY DEF StepsOK
<1>7. Bounded'
  <2>1. InScript(op[t])'
    <3>1. /\ op[t].pc \in 1..Len(Script[op[t].tool]) /\ Len(Script[op[t].tool]) \in 0..10
          /\ InScript(op[t])
      BY <1>2, TaskFacts
    <3>. QED  BY <3>1 DEF InScript
  <2>2. \A u \in Tasks \ {t} : InScript(op[u])'
    BY DEF SInv, Bounded, InScript, Same
  <2>. QED  BY <1>1, <2>1, <2>2 DEF SInv, Bounded
<1>. QED
  BY <1>3, <1>4, <1>5, <1>6, <1>7 DEF SInv

(* The request of the head is its task's, and its reply moves it on. *)
LEMMA ReplyStep ==
  ASSUME SInv, Handle, NEW t \in Tasks, t = Head(requests).from
  PROVE  /\ op[t] \in Operation /\ Subscribed(op[t]) /\ OwnSteps(op[t])
         /\ op[t].pc \in Nat \ {0} /\ op[t].from \in Nat /\ op[t].seen \in Nat
         /\ Places(op[t].tool, op[t].pc, Head(requests).command)
         /\ Reply(t) \in Operation /\ ~Reply(t).waits
         /\ Reply(t).tool = op[t].tool /\ Reply(t).pc = op[t].pc + 1
         /\ Reply(t).left = op[t].left /\ Reply(t).own = op[t].own
         /\ Reply(t).seen = op[t].seen /\ Reply(t).from = op[t].from
<1>1. requests # <<>>
  BY DEF Handle
<1>2. Busy(t) /\ ~Ended(t) /\ Script[op[t].tool][op[t].pc] = Head(requests).command
  BY <1>1, HeadFacts DEF SInv
<1>3. op[t] \in Operation /\ op[t].pc + 1 \in Nat \ {0}
  BY DEF SInv, Types, Operation
<1>4. Reply(t) \in Operation /\ ~Reply(t).waits
      /\ Reply(t).tool = op[t].tool /\ Reply(t).pc = op[t].pc + 1
      /\ Reply(t).left = op[t].left /\ Reply(t).own = op[t].own
      /\ Reply(t).seen = op[t].seen /\ Reply(t).from = op[t].from
  BY <1>3 DEF Reply, Operation
<1>5. op[t].pc \in Nat \ {0} /\ op[t].from \in Nat /\ op[t].seen \in Nat
  BY <1>3 DEF Operation
<1>. QED
  BY <1>2, <1>3, <1>4, <1>5, TaskFacts

(* Breakpoints set, or an expression evaluated: the others go on as before. *)
LEMMA AnswerSInv ==
  ASSUME SInv, Handle,
         HandleSetBreakpoints(Head(requests)) \/ HandleEvaluate(Head(requests))
  PROVE  SInv'
<1>0. PICK r, t : r = Head(requests) /\ t = r.from
  OBVIOUS
<1>1. requests # <<>>
      /\ UNCHANGED <<stop, announces, disp, lastStopped, version, paused, events>>
  BY DEF Handle, HandleSetBreakpoints, HandleEvaluate, sessionVars
<1>2. t \in Tasks /\ r.lines \subseteq Lines
  BY <1>0, <1>1, HeadFacts DEF SInv
<1>3. /\ op[t] \in Operation /\ Subscribed(op[t]) /\ OwnSteps(op[t])
      /\ op[t].pc \in Nat \ {0} /\ op[t].from \in Nat /\ op[t].seen \in Nat
      /\ Places(op[t].tool, op[t].pc, r.command)
      /\ Reply(t) \in Operation /\ ~Reply(t).waits
      /\ Reply(t).tool = op[t].tool /\ Reply(t).pc = op[t].pc + 1
      /\ Reply(t).left = op[t].left /\ Reply(t).own = op[t].own
      /\ Reply(t).seen = op[t].seen /\ Reply(t).from = op[t].from
  BY <1>0, <1>2, ReplyStep
<1>4. /\ op \in [Tasks -> Operation] /\ stop \in Nat /\ version \in Nat /\ installed \subseteq Lines
      /\ events \in Seq(Event) /\ EventsOK /\ paused \in BOOLEAN
  BY DEF SInv, Types, Flags
<1>5. Placed(r.lines) \subseteq Lines
  BY <1>2, ToolsAssumption DEF Placed
<1>6. PICK k \in Operation : /\ op' = [op EXCEPT ![t] = k]
                             /\ k.tool = op[t].tool /\ k.pc = op[t].pc + 1 /\ k.left = op[t].left
                             /\ ~k.waits /\ (k.own => op[t].own) /\ k.seen = op[t].seen
                             /\ k.from = op[t].from
                             /\ r.command = "evaluate" => k.at = IF paused THEN stop ELSE None
  <2>1. CASE HandleSetBreakpoints(r)
    <3>. DEFINE k == [Reply(t) EXCEPT !.lines = Placed(r.lines)]
    <3>1. op' = [op EXCEPT ![t] = k] /\ r.command = "setBreakpoints"
      BY <1>0, <2>1 DEF HandleSetBreakpoints
    <3>2. k \in Operation /\ k.tool = Reply(t).tool /\ k.pc = Reply(t).pc /\ k.left = Reply(t).left
          /\ k.waits = Reply(t).waits /\ k.own = Reply(t).own /\ k.seen = Reply(t).seen
          /\ k.from = Reply(t).from
      BY <1>3, <1>5 DEF Operation
    <3>. HIDE DEF k
    <3>. QED  BY <1>3, <3>1, <3>2
  <2>2. CASE HandleEvaluate(r)
    <3>. DEFINE at == IF paused THEN stop ELSE None
                k == [Reply(t) EXCEPT !.at = at]
    <3>1. op' = [op EXCEPT ![t] = k]
      BY <1>0, <2>2 DEF HandleEvaluate
    <3>2. at \in Nat \cup {None}
      BY <1>4
    <3>. HIDE DEF at
    <3>3. k \in Operation /\ k.tool = Reply(t).tool /\ k.pc = Reply(t).pc /\ k.left = Reply(t).left
          /\ k.waits = Reply(t).waits /\ k.own = Reply(t).own /\ k.seen = Reply(t).seen
          /\ k.from = Reply(t).from /\ k.at = at
      BY <1>3, <3>2 DEF Operation
    <3>. HIDE DEF k
    <3>. QED  BY <1>3, <3>1, <3>3 DEF at
  <2>. QED  BY <1>0, <2>1, <2>2
<1>7. op' \in [Tasks -> Operation] /\ op'[t] = k /\ \A u \in Tasks \ {t} : op'[u] = op[u]
  BY <1>2, <1>4, <1>6
<1>8. ASSUME NEW u \in Tasks \ {t}
      PROVE  /\ Same(op'[u], op[u]) /\ op'[u].waits = op[u].waits /\ op'[u].left = op[u].left
             /\ Subscribed(op[u])' /\ OwnSteps(op[u])'
  <2>1. Subscribed(op[u]) /\ OwnSteps(op[u]) /\ op'[u] = op[u]
    BY <1>7 DEF SInv, StepsOK
  <2>. QED  BY <1>1, <2>1 DEF Same, Subscribed, OwnSteps, Alone, Told, CaughtUp
<1>9. r.command \in {"setBreakpoints", "evaluate"}
  BY <1>0 DEF HandleSetBreakpoints, HandleEvaluate
<1>10. Subscribed(k)'
  <2>. SUFFICES ASSUME op[t].tool \in SubscribeFirst
                PROVE  op[t].pc + 1 \notin {ResumesAt(op[t].tool), ResumesAt(op[t].tool) + 1}
    BY <1>6 DEF Subscribed
  <2>1. op[t].pc # ResumesAt(op[t].tool) /\ op[t].pc # ResumesAt(op[t].tool) - 1
    BY <1>3, <1>9 DEF Places
  <2>. QED  BY <1>3, <2>1 DEF ResumesAt
<1>11. OwnSteps(k)'
  <2>. SUFFICES ASSUME op[t].tool \in {"step", "step_until_change"}, op[t].own  PROVE OwnSteps(k)'
    BY <1>6 DEF OwnSteps
  <2>1. r.command = "evaluate" /\ op[t].pc \notin {1, 2, 3}
    BY <1>3, <1>9 DEF Places, Touching, ResumesAt, SubscribeFirst
  <2>2. CASE op[t].pc = 4
    <3>1. Alone(op[t].from) /\ version = op[t].from + 1
      BY <1>3, <2>2 DEF OwnSteps
    <3>2. version <= stop
      BY <1>4 DEF EventsOK, Told
    <3>3. paused /\ stop = op[t].from + 1
      BY <1>3, <1>4, <3>1, <3>2 DEF Alone
    <3>4. k.at = op[t].from + 1 /\ k.at # None /\ k.at > k.from
      BY <1>3, <1>4, <1>6, <2>1, <3>3, ToolsAssumption
    <3>. QED  BY <1>6, <2>2, <3>4 DEF OwnSteps
  <2>3. CASE op[t].pc # 4
    BY <1>3, <1>6, <2>1, <2>3 DEF OwnSteps
  <2>. QED  BY <2>2, <2>3
<1>12. installed' \subseteq Lines
  BY <1>0, <1>4, <1>5 DEF HandleSetBreakpoints, HandleEvaluate
<1>13. EventsOK'
  BY <1>1, <1>4 DEF EventsOK, Told
<1>. QED
  BY <1>0, <1>1, <1>2, <1>4, <1>6, <1>7, <1>8, <1>10, <1>11, <1>12, <1>13, HandledSInv

(* A resume: the task that asked for it has it to itself if the session    *)
(* was up to date, and the others have been disturbed.                     *)
LEMMA ResumeSInv ==
  ASSUME SInv, Handle, HandleResume(Head(requests))
  PROVE  SInv'
<1>0. PICK r, t : r = Head(requests) /\ t = r.from
  OBVIOUS
<1>1. requests # <<>> /\ UNCHANGED <<stop, announces, disp, lastStopped, version, installed>>
      /\ paused' = FALSE
  BY DEF Handle, HandleResume, sessionVars
<1>2. t \in Tasks
  BY <1>0, <1>1, HeadFacts DEF SInv
<1>3. /\ op[t] \in Operation /\ Subscribed(op[t]) /\ OwnSteps(op[t])
      /\ op[t].pc \in Nat \ {0} /\ op[t].from \in Nat /\ op[t].seen \in Nat
      /\ Places(op[t].tool, op[t].pc, r.command)
      /\ Reply(t) \in Operation /\ ~Reply(t).waits
      /\ Reply(t).tool = op[t].tool /\ Reply(t).pc = op[t].pc + 1
      /\ Reply(t).left = op[t].left /\ Reply(t).own = op[t].own
      /\ Reply(t).seen = op[t].seen /\ Reply(t).from = op[t].from
  BY <1>0, <1>2, ReplyStep
<1>4. /\ op \in [Tasks -> Operation] /\ stop \in Nat /\ version \in Nat /\ installed \subseteq Lines
      /\ events \in Seq(Event) /\ EventsOK /\ paused \in BOOLEAN
  BY DEF SInv, Types, Flags
<1>5. r.command \in {"next", "continue"}
  BY <1>0 DEF HandleResume, Resuming
<1>. DEFINE c == [name |-> "continued", stop |-> stop]
<1>6. events' \in {events, Append(events, c)}
  BY <1>0 DEF HandleResume
<1>7. c \in Event /\ c.name = "continued" /\ c.stop = stop
  BY <1>4 DEF Event
<1>. HIDE DEF c
<1>8. events' \in Seq(Event) /\ EventsOK'
  <2>1. CASE events' = events
    BY <1>1, <1>4, <2>1 DEF EventsOK, Told
  <2>2. CASE events' = Append(events, c)
    <3>1. /\ events' \in Seq(Event) /\ Len(events) \in Nat /\ Len(events') = Len(events) + 1
          /\ \A i \in 1..Len(events) : events'[i] = events[i]
          /\ events'[Len(events) + 1] = c
      BY <1>4, <1>7, <2>2
    <3>2. \A i \in 1..Len(events') : i \in 1..Len(events) \/ events'[i] = c
      BY <3>1
    <3>3. \A i \in 1..Len(events) : i \in 1..Len(events')
      BY <3>1
    <3>4. Told' = Told /\ stop' = stop
      BY <1>1 DEF Told
    <3>5. /\ Told <= stop
          /\ \A i \in 1..Len(events') :
               events'[i].stop <= stop /\ (events'[i].name = "stopped" => Told < events'[i].stop)
      BY <1>4, <1>7, <3>1, <3>2 DEF EventsOK
    <3>6. \A n \in (Told + 1)..stop :
            \E i \in 1..Len(events') : events'[i] = [name |-> "stopped", stop |-> n]
      BY <1>4, <3>1, <3>3 DEF EventsOK
    <3>7. \A i, j \in 1..Len(events') :
            events'[i].name = "stopped" /\ events'[j].name = "stopped" /\ i < j =>
              events'[i].stop < events'[j].stop
      BY <1>4, <1>7, <3>1, <3>2 DEF EventsOK
    <3>. QED  BY <3>1, <3>4, <3>5, <3>6, <3>7 DEF EventsOK
  <2>. QED  BY <1>6, <2>1, <2>2
<1>9. PICK k : k = [Reply(t) EXCEPT !.from = stop]
  OBVIOUS
<1>10. /\ k \in Operation /\ k.tool = op[t].tool /\ k.pc = op[t].pc + 1 /\ k.left = op[t].left
       /\ ~k.waits /\ (k.own => op[t].own) /\ k.seen = op[t].seen /\ k.from = stop
  <2>1. /\ k \in Operation /\ k.tool = Reply(t).tool /\ k.pc = Reply(t).pc
        /\ k.left = Reply(t).left /\ k.waits = Reply(t).waits /\ k.own = Reply(t).own
        /\ k.seen = Reply(t).seen /\ k.from = stop
    BY <1>3, <1>4, <1>9 DEF Operation
  <2>. QED  BY <1>3, <2>1
<1>11. op' = [u \in Tasks |-> IF u = t THEN k ELSE [op[u] EXCEPT !.own = FALSE]] /\ op'[t] = k
  BY <1>0, <1>2, <1>9 DEF HandleResume
<1>12. ASSUME NEW u \in Tasks \ {t}
       PROVE  /\ op'[u] \in Operation
              /\ Same(op'[u], op[u]) /\ op'[u].waits = op[u].waits /\ op'[u].left = op[u].left
              /\ Subscribed(op[u])' /\ OwnSteps(op[u])'
  <2>1. op'[u] = [op[u] EXCEPT !.own = FALSE] /\ op[u] \in Operation
    BY <1>4, <1>11
  <2>2. /\ op'[u] \in Operation
        /\ Same(op'[u], op[u]) /\ op'[u].waits = op[u].waits /\ op'[u].left = op[u].left
        /\ op'[u].own = FALSE /\ op'[u].seen = op[u].seen /\ op'[u].from = op[u].from
    BY <2>1 DEF Operation, Same
  <2>3. Subscribed(op[u])
    BY DEF SInv, StepsOK
  <2>4. Subscribed(op[u])'
    BY <1>1, <2>2, <2>3 DEF Subscribed, Same
  <2>. QED  BY <2>2, <2>4 DEF OwnSteps
<1>13. op' \in [Tasks -> Operation]
  BY <1>10, <1>11, <1>12
<1>14. Subscribed(k)'
  <2>. SUFFICES ASSUME op[t].tool \in SubscribeFirst  PROVE Subscribed(k)'
    BY <1>10 DEF Subscribed
  <2>1. op[t].pc = ResumesAt(op[t].tool)
    BY <1>3, <1>5 DEF Places
  <2>2. op[t].seen <= version /\ version <= stop
    BY <1>3, <1>4, <2>1 DEF Subscribed, EventsOK, Told
  <2>3. op[t].seen <= stop
    BY <1>3, <1>4, <2>2
  <2>. QED  BY <1>1, <1>3, <1>4, <1>10, <2>1, <2>3 DEF Subscribed, ResumesAt
<1>15. OwnSteps(k)'
  <2>. SUFFICES ASSUME op[t].tool \in {"step", "step_until_change"}, op[t].own  PROVE OwnSteps(k)'
    BY <1>10 DEF OwnSteps
  <2>1. op[t].pc = 2
    BY <1>3, <1>5 DEF Places, SubscribeFirst, ResumesAt
  <2>2. CaughtUp /\ op[t].seen = stop
    BY <1>3, <2>1 DEF OwnSteps
  <2>3. version = stop /\ Told = stop
    BY <1>4, <2>2 DEF CaughtUp, EventsOK, Told
  <2>4. Alone(stop)'
    <3>1. Told' = stop /\ version' = stop /\ stop' = stop /\ paused' = FALSE
      BY <1>1, <2>3 DEF Told
    <3>2. \A i, j \in 1..Len(events') : ~(i < j)
      <4>1. events = <<>>
        BY <2>2 DEF CaughtUp
      <4>. QED  BY <1>6, <4>1
    <3>. QED  BY <1>4, <3>1, <3>2 DEF Alone
  <2>. QED  BY <1>1, <1>10, <2>1, <2>2, <2>4 DEF OwnSteps
<1>16. installed' \subseteq Lines /\ paused' \in BOOLEAN
  BY <1>1, <1>4
<1>. QED
  <2>1. \A u \in Tasks \ {t} :
          /\ Same(op'[u], op[u]) /\ op'[u].waits = op[u].waits /\ op'[u].left = op[u].left
          /\ Subscribed(op[u])' /\ OwnSteps(op[u])'
    BY <1>12
  <2>2. k \in Operation /\ k.tool = op[t].tool /\ k.pc = op[t].pc + 1 /\ k.left = op[t].left /\ ~k.waits
    BY <1>10
  <2>. QED
    BY <1>0, <1>2, <1>8, <1>11, <1>13, <1>14, <1>15, <1>16, <2>1, <2>2, HandledSInv

-----------------------------------------------------------------------------
(* Stops and events *)

(* The debuggee stops for the first time since it was resumed.             *)
LEMMA StopSInv ==
  ASSUME SInv, DebuggeeStops
  PROVE  SInv'
<1>1. /\ ~paused /\ paused' = TRUE /\ stop' = stop + 1
      /\ UNCHANGED <<op, requests, installed, announces, disp, lastStopped, version, store, asked,
                     started>>
  BY DEF DebuggeeStops, sessionVars
<1>2. /\ op \in [Tasks -> Operation] /\ stop \in Nat /\ version \in Nat /\ events \in Seq(Event)
      /\ EventsOK /\ Told \in Nat
  BY DEF SInv, Types, Told
<1>. DEFINE e == [name |-> "stopped", stop |-> stop + 1]
<1>3. e \in Event /\ e.name = "stopped" /\ e.stop = stop + 1
  BY <1>2 DEF Event
<1>4. events' = Append(events, e)
  BY DEF DebuggeeStops
<1>5. e = [name |-> "stopped", stop |-> stop + 1]
  OBVIOUS
<1>. HIDE DEF e
<1>6. /\ events' \in Seq(Event) /\ Len(events) \in Nat /\ Len(events') = Len(events) + 1
      /\ \A i \in 1..Len(events) : events'[i] = events[i] /\ i \in 1..Len(events')
      /\ Len(events') \in 1..Len(events') /\ events'[Len(events')] = e
      /\ \A i \in 1..Len(events') : i \in 1..Len(events) \/ i = Len(events')
  BY <1>2, <1>3, <1>4
<1>7. Told' = Told
  BY <1>1 DEF Told
<1>8. \A i \in 1..Len(events) : events[i] \in Event /\ events[i].stop \in Nat /\ events[i].stop <= stop
  <2>1. \A i \in 1..Len(events) : events[i] \in Event
    BY <1>2
  <2>. QED  BY <1>2, <2>1 DEF EventsOK, Event
<1>9. EventsOK'
  <2>1. Told <= stop + 1
    BY <1>2 DEF EventsOK
  <2>2. \A i \in 1..Len(events') :
          events'[i].stop <= stop + 1 /\ (events'[i].name = "stopped" => Told < events'[i].stop)
    BY <1>2, <1>3, <1>6, <1>8 DEF EventsOK
  <2>3. ASSUME NEW n \in (Told + 1)..(stop + 1)
        PROVE  \E i \in 1..Len(events') : events'[i] = [name |-> "stopped", stop |-> n]
    <3>1. CASE n = stop + 1
      BY <1>5, <1>6, <3>1
    <3>2. CASE n # stop + 1
      <4>1. n \in (Told + 1)..stop
        BY <1>2, <3>2
      <4>. QED  BY <1>2, <1>6, <4>1 DEF EventsOK
    <3>. QED  BY <3>1, <3>2
  <2>4. ASSUME NEW i \in 1..Len(events'), NEW j \in 1..Len(events'), i < j,
               events'[i].name = "stopped", events'[j].name = "stopped"
        PROVE  events'[i].stop < events'[j].stop
    <3>1. i \in 1..Len(events)
      BY <1>6, <2>4
    <3>2. CASE j \in 1..Len(events)
      BY <1>2, <1>6, <2>4, <3>1, <3>2 DEF EventsOK
    <3>3. CASE j = Len(events')
      BY <1>2, <1>3, <1>6, <1>8, <3>1, <3>3
    <3>. QED  BY <1>6, <3>2, <3>3
  <2>. QED  BY <1>1, <1>7, <2>1, <2>2, <2>3, <2>4 DEF EventsOK
<1>10. Types' /\ Flags'
  BY <1>1, <1>2, <1>6 DEF SInv, Types, Flags
<1>11. RequestsOK' /\ WaitsOK'
  BY <1>1 DEF SInv, RequestsOK, WaitsOK, Pending, Busy, Ended
<1>12. ASSUME NEW t \in Tasks  PROVE Subscribed(op[t])' /\ OwnSteps(op[t])'
  <2>1. Subscribed(op[t]) /\ OwnSteps(op[t]) /\ op[t].from \in Nat
    BY <1>2 DEF SInv, StepsOK, Operation
  <2>2. Subscribed(op[t])'
    BY <1>1, <1>2, <2>1 DEF Subscribed
  <2>3. ASSUME Alone(op[t].from)  PROVE Alone(op[t].from)'
    <3>1. stop = op[t].from /\ stop' = op[t].from + 1
      BY <1>1, <2>3 DEF Alone
    <3>2. ~(Told > op[t].from)
      BY <1>2, <3>1 DEF EventsOK
    <3>3. \A i, j \in 1..Len(events') :
            events'[i].name = "stopped" /\ i < j => events'[j].name = "stopped"
      BY <1>3, <1>6, <2>3 DEF Alone
    <3>. QED  BY <1>1, <1>7, <2>3, <3>1, <3>2, <3>3 DEF Alone
  <2>4. ~CaughtUp
    BY <1>1 DEF CaughtUp
  <2>5. OwnSteps(op[t])'
    BY <1>1, <2>1, <2>3, <2>4 DEF OwnSteps
  <2>. QED  BY <2>2, <2>5
<1>13. Bounded'
  <2>1. lastStopped \in 1..(stop + 1) \cup {None}
    BY <1>2 DEF SInv, Bounded
  <2>. QED  BY <1>1, <2>1 DEF SInv, Bounded, InScript
<1>. QED
  BY <1>9, <1>10, <1>11, <1>12, <1>13 DEF SInv, StepsOK

(* What the head of the queue tells of the rest. *)
LEMMA ReceiveFacts ==
  ASSUME SInv, Receive
  PROVE  /\ Head(events) \in Event /\ Head(events) = events[1] /\ 1 \in 1..Len(events)
         /\ events' = Tail(events) /\ events' \in Seq(Event) /\ Len(events') \in Nat
         /\ \A i \in 1..Len(events') : i + 1 \in 1..Len(events) /\ events'[i] = events[i + 1]
         /\ \A i \in 1..Len(events) : i # 1 => i - 1 \in 1..Len(events') /\ events'[i - 1] = events[i]
<1>1. events \in Seq(Event) /\ events # <<>> /\ events' = Tail(events)
  BY DEF SInv, Types, Receive
<1>2. Len(events) \in Nat /\ Len(events) # 0 /\ Head(events) = events[1]
  BY <1>1
<1>3. events' \in Seq(Event) /\ Len(events') = Len(events) - 1
      /\ \A i \in 1..Len(events') : events'[i] = events[i + 1]
  BY <1>1, <1>2
<1>4. 1 \in 1..Len(events) /\ Head(events) \in Event
  BY <1>1, <1>2
<1>5. \A i \in 1..Len(events) : i # 1 => i - 1 \in 1..Len(events') /\ (i - 1) + 1 = i
  BY <1>2, <1>3
<1>. QED
  BY <1>1, <1>2, <1>3, <1>4, <1>5

(* A stop is stored: the next one. *)
LEMMA ReceiveSInv ==
  ASSUME SInv, Receive
  PROVE  SInv'
<1>1. /\ disp = "recv"
      /\ UNCHANGED <<op, requests, paused, stop, installed, announces, version, store, asked, started>>
      /\ events # <<>>
  BY DEF Receive, adapterVars
<1>2. /\ op \in [Tasks -> Operation] /\ stop \in Nat /\ version \in Nat /\ EventsOK
      /\ Told = version
  BY <1>1 DEF SInv, Types, Told
<1>3. /\ Head(events) \in Event /\ Head(events) = events[1] /\ 1 \in 1..Len(events)
      /\ events' = Tail(events) /\ events' \in Seq(Event) /\ Len(events') \in Nat
      /\ \A i \in 1..Len(events') : i + 1 \in 1..Len(events) /\ events'[i] = events[i + 1]
      /\ \A i \in 1..Len(events) : i # 1 => i - 1 \in 1..Len(events') /\ events'[i - 1] = events[i]
  BY ReceiveFacts
<1>. DEFINE h == events[1]
<1>4. h.stop \in Nat /\ h.stop <= stop
  BY <1>2, <1>3 DEF EventsOK, Event
<1>5. \/ h.name = "stopped" /\ lastStopped' = h.stop /\ disp' = "bump" /\ Told' = version + 1
      \/ h.name = "continued" /\ lastStopped' = None /\ disp' = "recv" /\ Told' = version
  <2>1. \/ h.name = "stopped" /\ lastStopped' = h.stop /\ disp' = "bump"
        \/ h.name = "continued" /\ lastStopped' = None /\ disp' = "recv"
    BY <1>1, <1>3 DEF Receive
  <2>. QED  BY <1>1, <1>2, <2>1 DEF Told
<1>6. h.name = "stopped" => h.stop = version + 1
  <2>. SUFFICES ASSUME h.name = "stopped"  PROVE h.stop = version + 1
    OBVIOUS
  <2>1. version < h.stop
    BY <1>2, <1>3 DEF EventsOK
  <2>2. version + 1 \in (version + 1)..stop
    BY <1>2, <1>4, <2>1
  <2>3. PICK i \in 1..Len(events) : events[i] = [name |-> "stopped", stop |-> version + 1]
    BY <1>2, <2>2 DEF EventsOK
  <2>4. CASE i = 1
    BY <2>3, <2>4
  <2>5. CASE i # 1
    <3>1. 1 < i
      BY <2>5
    <3>2. h.stop < version + 1
      BY <1>2, <1>3, <2>3, <3>1 DEF EventsOK
    <3>. QED  BY <1>2, <1>4, <2>1, <3>2
  <2>. QED  BY <2>4, <2>5
<1>7. Told' \in Nat /\ Told' <= stop
  BY <1>2, <1>4, <1>5, <1>6 DEF EventsOK
<1>8. EventsOK'
  <2>0. PICK told \in Nat : told = Told'
    BY <1>7
  <2>1. ASSUME NEW i \in 1..Len(events')
        PROVE  events'[i].stop <= stop /\ (events'[i].name = "stopped" => Told' < events'[i].stop)
    <3>1. /\ i + 1 \in 1..Len(events) /\ events'[i] = events[i + 1] /\ events[i + 1] \in Event
          /\ 1 < i + 1
      BY <1>3, <2>1 DEF SInv, Types
    <3>2. events[i + 1].stop \in Nat
      BY <3>1 DEF Event
    <3>3. events[i + 1].stop <= stop /\ (events[i + 1].name = "stopped" => version < events[i + 1].stop)
      BY <1>2, <3>1 DEF EventsOK
    <3>4. h.name = "stopped" /\ events[i + 1].name = "stopped" => h.stop < events[i + 1].stop
      BY <1>2, <1>3, <3>1 DEF EventsOK
    <3>. QED  BY <1>2, <1>5, <1>6, <3>1, <3>2, <3>3, <3>4
  <2>2. ASSUME NEW n \in (told + 1)..stop
        PROVE  \E i \in 1..Len(events') : events'[i] = [name |-> "stopped", stop |-> n]
    <3>1. n \in (version + 1)..stop /\ (h.name = "stopped" => n # version + 1)
      <4>1. n \in Int /\ told + 1 <= n /\ n <= stop
        BY <1>2
      <4>2. CASE h.name = "stopped" /\ told = version + 1
        BY <1>2, <4>1, <4>2
      <4>3. CASE h.name = "continued" /\ told = version
        BY <1>2, <4>1, <4>3
      <4>. QED  BY <1>5, <2>0, <4>2, <4>3
    <3>2. PICK i \in 1..Len(events) : events[i] = [name |-> "stopped", stop |-> n]
      BY <1>2, <3>1 DEF EventsOK
    <3>3. i # 1
      BY <1>6, <3>1, <3>2
    <3>4. i - 1 \in 1..Len(events') /\ events'[i - 1] = events[i]
      BY <1>3, <3>3
    <3>. QED  BY <3>2, <3>4
  <2>3. ASSUME NEW i \in 1..Len(events'), NEW j \in 1..Len(events'), i < j,
               events'[i].name = "stopped", events'[j].name = "stopped"
        PROVE  events'[i].stop < events'[j].stop
    <3>1. /\ i + 1 \in 1..Len(events) /\ events'[i] = events[i + 1]
          /\ j + 1 \in 1..Len(events) /\ events'[j] = events[j + 1] /\ i + 1 < j + 1
      BY <1>3, <2>3
    <3>. QED  BY <1>2, <2>3, <3>1 DEF EventsOK
  <2>. QED  BY <1>1, <1>7, <2>0, <2>1, <2>2, <2>3 DEF EventsOK
<1>9. lastStopped' \in (1..stop) \cup {None}
  BY <1>2, <1>4, <1>5, <1>6
<1>10. Types' /\ Flags'
  BY <1>1, <1>3, <1>5, <1>9 DEF SInv, Types, Flags
<1>11. RequestsOK' /\ WaitsOK'
  BY <1>1 DEF SInv, RequestsOK, WaitsOK, Pending, Busy, Ended
<1>12. ASSUME NEW t \in Tasks  PROVE Subscribed(op[t])' /\ OwnSteps(op[t])'
  <2>1. Subscribed(op[t]) /\ OwnSteps(op[t]) /\ op[t].from \in Nat
    BY <1>2 DEF SInv, StepsOK, Operation
  <2>2. Subscribed(op[t])'
    BY <1>1, <2>1 DEF Subscribed
  <2>3. ASSUME Alone(op[t].from)  PROVE Alone(op[t].from)'
    <3>. DEFINE n == op[t].from
    <3>1. ~(version > n) /\ n <= version /\ version = n
      BY <1>1, <1>2, <2>1, <2>3 DEF Alone
    <3>2. Told' > n => lastStopped' = n + 1 /\ events' = <<>>
      <4>. SUFFICES ASSUME Told' > n  PROVE lastStopped' = n + 1 /\ events' = <<>>
        OBVIOUS
      <4>1. h.name = "stopped" /\ lastStopped' = n + 1
        BY <1>5, <1>6, <2>1, <3>1
      <4>2. Len(events') = 0
        <5>. SUFFICES ASSUME Len(events') # 0  PROVE FALSE
          OBVIOUS
        <5>0. Len(events') \in Nat
          BY <1>3
        <5>1. 1 \in 1..Len(events')
          BY <5>0
        <5>2. 2 \in 1..Len(events) /\ events'[1] = events[2]
          BY <1>3, <5>1
        <5>3. events[2].name = "stopped"
          BY <1>3, <2>3, <4>1, <5>2 DEF Alone
        <5>4. h.stop < events[2].stop /\ events[2].stop <= stop
          BY <1>2, <1>3, <4>1, <5>2, <5>3 DEF EventsOK
        <5>5. events[2].stop \in Nat
          <6>1. events[2] \in Event
            BY <5>2 DEF SInv, Types
          <6>. QED  BY <6>1 DEF Event
        <5>6. stop <= n + 1
          BY <1>2, <2>1, <2>3 DEF Alone
        <5>. QED  BY <1>2, <1>6, <2>1, <3>1, <4>1, <5>4, <5>5, <5>6
      <4>3. events' = <<>>
        BY <1>3, <4>2
      <4>. QED  BY <4>1, <4>3
    <3>3. ASSUME NEW i \in 1..Len(events'), NEW j \in 1..Len(events'),
                 events'[i].name = "stopped", i < j
          PROVE  events'[j].name = "stopped"
      <4>1. /\ i + 1 \in 1..Len(events) /\ events'[i] = events[i + 1]
            /\ j + 1 \in 1..Len(events) /\ events'[j] = events[j + 1] /\ i + 1 < j + 1
        BY <1>3, <3>3
      <4>. QED  BY <2>3, <3>3, <4>1 DEF Alone
    <3>. QED  BY <1>1, <2>3, <3>2, <3>3 DEF Alone
  <2>4. ~CaughtUp
    BY <1>1 DEF CaughtUp
  <2>5. OwnSteps(op[t])'
    BY <1>1, <2>1, <2>3, <2>4 DEF OwnSteps
  <2>. QED  BY <2>2, <2>5
<1>13. Bounded'
  BY <1>1, <1>9 DEF SInv, Bounded, InScript
<1>. QED
  BY <1>8, <1>10, <1>11, <1>12, <1>13 DEF SInv, StepsOK

(* A stop that is stored is announced, then enriched. *)
LEMMA BumpSInv ==
  ASSUME SInv, Bump \/ Enriched
  PROVE  SInv'
<1>1. UNCHANGED <<op, requests, paused, stop, installed, announces, events, lastStopped, store, asked,
                  started>>
  BY DEF Bump, Enriched, adapterVars
<1>2. op \in [Tasks -> Operation] /\ stop \in Nat /\ version \in Nat
  BY DEF SInv, Types
<1>3. \/ disp = "bump" /\ version' = version + 1 /\ disp' = "enrich"
      \/ disp = "enrich" /\ version' = version /\ disp' = "recv"
  BY DEF Bump, Enriched
<1>4. version' \in Nat /\ version <= version' /\ Told' = Told
  BY <1>2, <1>3 DEF Told
<1>5. Types' /\ Flags'
  BY <1>1, <1>3, <1>4 DEF SInv, Types, Flags
<1>6. EventsOK'
  BY <1>1, <1>4 DEF SInv, EventsOK
<1>7. RequestsOK' /\ WaitsOK'
  BY <1>1 DEF SInv, RequestsOK, WaitsOK, Pending, Busy, Ended
<1>8. ASSUME NEW t \in Tasks  PROVE Subscribed(op[t])' /\ OwnSteps(op[t])'
  <2>1. Subscribed(op[t]) /\ OwnSteps(op[t]) /\ op[t].from \in Nat /\ op[t].seen \in Nat
    BY <1>2 DEF SInv, StepsOK, Operation
  <2>2. Subscribed(op[t])'
    BY <1>1, <1>2, <1>4, <2>1 DEF Subscribed
  <2>3. ASSUME Alone(op[t].from)  PROVE Alone(op[t].from)'
    BY <1>1, <1>2, <1>4, <2>1, <2>3 DEF Alone
  <2>4. CaughtUp => CaughtUp'
    BY <1>1, <1>3 DEF CaughtUp
  <2>5. ASSUME Alone(op[t].from), version = op[t].from + 1  PROVE version' = op[t].from + 1
    <3>1. stop <= op[t].from + 1 /\ version' <= stop
      BY <1>2, <1>3, <2>1, <2>5 DEF Alone, SInv, EventsOK, Told
    <3>. QED  BY <1>2, <1>3, <2>1, <2>5, <3>1
  <2>6. OwnSteps(op[t])'
    BY <1>1, <2>1, <2>3, <2>4, <2>5 DEF OwnSteps
  <2>. QED  BY <2>2, <2>6
<1>9. Bounded'
  BY <1>1 DEF SInv, Bounded, InScript
<1>. QED
  BY <1>5, <1>6, <1>7, <1>8, <1>9 DEF SInv, StepsOK

-----------------------------------------------------------------------------
LEMMA InitSInv == Init => SInv
<1>. SUFFICES ASSUME Init  PROVE SInv
  OBVIOUS
<1>1. /\ Free \in Operation /\ Free.tool = "none" /\ Free.pc = 1 /\ Free.left = 0 /\ Free.waits = FALSE
  BY DEF Free, Operation
<1>2. \A t \in Tasks : op[t] = Free
  BY DEF Init
<1>3. Types
  BY <1>1 DEF Init, Types
<1>4. Flags /\ RequestsOK /\ WaitsOK /\ EventsOK
  <2>1. Flags /\ RequestsOK /\ WaitsOK
    <3>1. announces \in BOOLEAN /\ Len(requests) = 0
      BY ToolsAssumption DEF Init
    <3>2. Flags
      BY <3>1 DEF Init, Flags
    <3>3. RequestsOK
      BY <3>1 DEF RequestsOK
    <3>4. WaitsOK
      BY <1>1, <1>2 DEF WaitsOK
    <3>. QED  BY <3>2, <3>3, <3>4
  <2>2. Told = 0 /\ stop = 0 /\ Len(events) = 0 /\ (Told + 1)..stop = {} /\ 1..Len(events) = {}
    BY DEF Init, Told
  <2>. QED  BY <2>1, <2>2 DEF EventsOK
<1>5. StepsOK
  BY <1>1, <1>2 DEF StepsOK, Subscribed, OwnSteps, SubscribeFirst
<1>6. Bounded
  BY <1>1, <1>2, DrivingScripts, ToolsAssumption DEF Init, Bounded, InScript
<1>. QED
  BY <1>3, <1>4, <1>5, <1>6 DEF SInv

LEMMA NextSInv == SInv /\ [Next]_vars => SInv'
<1>. SUFFICES ASSUME SInv, [Next]_vars  PROVE SInv'
  OBVIOUS
<1>1. ASSUME NEW t \in Tasks, NEW tool \in Tools[t], NEW arg \in Arguments(tool),
             Start(t, tool, arg)
      PROVE  SInv'
  BY <1>1, StartSInv
<1>2. ASSUME NEW t \in Tasks, Run(t) \/ TimesOut(t)  PROVE SInv'
  <2>1. CASE Read(t) \/ Reread(t) \/ Store(t)
    BY <2>1, ListSInv
  <2>2. CASE Ask(t)
    BY <2>2, AskSInv
  <2>3. CASE Subscribe(t) \/ Check(t) \/ Changed(t) \/ TimesOut(t)
    BY <2>3, WaitSInv
  <2>4. CASE Report(t) \/ Loop(t) \/ Finish(t)
    BY <2>4, EndSInv
  <2>. QED  BY <1>2, <2>1, <2>2, <2>3, <2>4 DEF Run
<1>3. CASE Handle
  <2>1. HandleSetBreakpoints(Head(requests)) \/ HandleResume(Head(requests))
        \/ HandleEvaluate(Head(requests))
    BY <1>3 DEF Handle
  <2>. QED  BY <1>3, <2>1, AnswerSInv, ResumeSInv
<1>4. CASE DebuggeeStops
  BY <1>4, StopSInv
<1>5. CASE Receive
  BY <1>5, ReceiveSInv
<1>6. CASE Bump \/ Enriched
  BY <1>6, BumpSInv
<1>7. CASE UNCHANGED vars
  <2>1. UNCHANGED <<op, requests, installed, store, asked, events, stop, version, lastStopped, paused,
                    announces, disp, started>>
    BY <1>7 DEF vars, adapterVars, sessionVars
  <2>2. Types' /\ Flags' /\ RequestsOK' /\ WaitsOK' /\ EventsOK'
    BY <2>1 DEF SInv, Types, Flags, RequestsOK, WaitsOK, EventsOK, Told, Pending, Busy, Ended
  <2>3. StepsOK' /\ Bounded'
    BY <2>1 DEF SInv, StepsOK, Bounded, InScript, Subscribed, OwnSteps, Alone, Told, CaughtUp
  <2>. QED  BY <2>2, <2>3 DEF SInv
<1>. QED
  BY <1>1, <1>2, <1>3, <1>4, <1>5, <1>6, <1>7 DEF Next

(* Whatever tools run beside it: a step reports the stop it made, and a    *)
(* tool that subscribed before it resumed the debuggee has missed no stop  *)
(* while it waits (tools.rs 138-166, 1917-1922, 2013-2030, routes.rs       *)
(* 127-153).                                                               *)
THEOREM StepsReportTheirStop == Spec => []StepsToItsStop
<1>1. ASSUME SInv, NEW t \in Tasks
      PROVE  /\ op[t].tool = "step" /\ Ended(t) => Own(t, op[t].at)
             /\ op[t].tool = "step_until_change" /\ At(t, "loop") => Own(t, op[t].at)
  <2>1. op[t] \in Operation /\ OwnSteps(op[t]) /\ InScript(op[t])
    BY <1>1 DEF SInv, Types, StepsOK, Bounded
  <2>2. ASSUME op[t].tool = "step", Ended(t)  PROVE op[t].pc = 5
    <3>1. op[t].pc > 4 /\ op[t].pc <= 5 /\ op[t].pc \in Nat
      BY <2>1, <2>2, DrivingScripts DEF Ended, InScript, Operation
    <3>. QED  BY <3>1
  <2>3. ASSUME op[t].tool = "step_until_change", At(t, "loop")  PROVE op[t].pc = 5
    <3>1. Busy(t) /\ ~Ended(t) /\ Script[op[t].tool][op[t].pc] = "loop"
      BY <2>3 DEF At
    <3>2. op[t].pc \in 1..5
      BY <1>1, <2>3, <3>1, TaskFacts, DrivingScripts
    <3>3. op[t].pc \in {1, 2, 3, 4, 5}
      BY <3>2
    <3>. QED  BY <2>3, <3>1, <3>3, DrivingScripts
  <2>. QED  BY <2>1, <2>2, <2>3 DEF OwnSteps, Own
<1>2. ASSUME SInv, NEW t \in Tasks, At(t, "changed"), op[t].tool \in SubscribeFirst,
             version = op[t].seen, paused, disp # "bump"
      PROVE  \E i \in 1..Len(events) : events[i].name = "stopped"
  <2>1. Busy(t) /\ ~Ended(t) /\ Script[op[t].tool][op[t].pc] = "changed"
    BY <1>2 DEF At
  <2>2. op[t].pc = ResumesAt(op[t].tool) + 1 /\ Subscribed(op[t]) /\ op[t] \in Operation
    BY <1>2, <2>1, TaskFacts DEF Places
  <2>3. op[t].seen <= op[t].from /\ op[t].from < stop /\ op[t].from \in Nat
    BY <1>2, <2>2 DEF Subscribed, Operation
  <2>4. Told = version /\ version \in Nat /\ stop \in Nat
    BY <1>2 DEF Told, SInv, Types
  <2>5. stop \in (Told + 1)..stop
    BY <1>2, <2>3, <2>4
  <2>6. PICK i \in 1..Len(events) : events[i] = [name |-> "stopped", stop |-> stop]
    BY <1>2, <2>5 DEF SInv, EventsOK
  <2>. QED  BY <2>6
<1>3. SInv => StepsToItsStop
  BY <1>1, <1>2 DEF StepsToItsStop, OwnStop, NeverMissed
<1>. QED
  BY <1>3, InitSInv, NextSInv, PTL DEF Spec

(* The types, and more: a task waits exactly while it has one request out, *)
(* and stopped_tx has not counted a stop that did not happen.              *)
THEOREM ToolTypes == Spec => []TypeOK
<1>1. SInv => TypeOK
  <2>. SUFFICES ASSUME SInv  PROVE TypeOK
    OBVIOUS
  <2>1. op \in [Tasks -> OpState]
    <3>1. ASSUME NEW t \in Tasks  PROVE op[t] \in OpState
      <4>1. op[t] \in Operation /\ InScript(op[t])
        BY DEF SInv, Types, Bounded
      <4>2. op[t].tool \in AllTools /\ op[t].pc \in Nat \ {0} /\ op[t].left \in Nat
        BY <4>1 DEF Operation, AllTools
      <4>3. Len(Script[op[t].tool]) \in 0..10
        BY <4>2, ScriptLengths
      <4>4. op[t].pc <= Len(Script[op[t].tool]) + 1 /\ op[t].left <= MaxSteps
        BY <4>1 DEF InScript
      <4>5. op[t].pc \in 1..12 /\ op[t].left \in 0..MaxSteps
        <5>1. MaxSteps \in Nat
          BY ToolsAssumption
        <5>2. op[t].pc \in 1..12
          <6>1. PICK n \in 0..10 : n = Len(Script[op[t].tool])
            BY <4>3
          <6>2. op[t].pc \in Nat /\ 1 <= op[t].pc /\ op[t].pc <= n + 1
            BY <4>2, <4>4, <6>1
          <6>. QED  BY <6>2
        <5>3. op[t].left \in 0..MaxSteps
          BY <4>2, <4>4, <5>1
        <5>. QED  BY <5>2, <5>3
      <4>. QED  BY <4>1, <4>5 DEF Operation, OpState
    <3>. QED  BY <3>1 DEF SInv, Types
  <2>2. \A i \in 1..Len(requests) :
          requests[i] \in [from : Tasks, command : Commands, lines : SUBSET Lines]
    BY RequestFacts DEF SInv, Request
  <2>3. \A t \in Tasks : \A i, j \in 1..Len(requests) :
          requests[i].from = t /\ requests[j].from = t => i = j
    BY DEF SInv, RequestsOK
  <2>4. \A t \in Tasks : op[t].waits <=> \E i \in 1..Len(requests) : requests[i].from = t
    BY DEF SInv, RequestsOK, WaitsOK, Pending
  <2>5. \A i \in 1..Len(events) : events[i] \in [name : {"stopped", "continued"}, stop : 0..stop]
    <3>1. ASSUME NEW i \in 1..Len(events)
          PROVE  events[i] \in [name : {"stopped", "continued"}, stop : 0..stop]
      <4>1. events[i] \in Event /\ events[i].stop <= stop /\ stop \in Nat
        BY DEF SInv, Types, EventsOK
      <4>2. events[i].stop \in 0..stop
        BY <4>1 DEF Event
      <4>. QED  BY <4>1, <4>2 DEF Event
    <3>. QED  BY <3>1
  <2>6. version \in 0..stop
    BY DEF SInv, Types, EventsOK, Told
  <2>. QED  BY <2>1, <2>2, <2>3, <2>4, <2>5, <2>6 DEF SInv, Types, Flags, Bounded, TypeOK
<1>. QED
  BY <1>1, InitSInv, NextSInv, PTL DEF Spec
=============================================================================
