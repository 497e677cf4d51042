------------------------------ MODULE McpServer ------------------------------
(***************************************************************************)
(* The MCP server on standard input and output (serve and handle_request   *)
(* of mcp/mod.rs), as `launch --mcp` and `attach --mcp` run it beside their *)
(* own sessions ("local") and as `debugium mcp` runs it in front of another *)
(* server ("proxy").                                                       *)
(*                                                                         *)
(* One loop reads a line, handles it to the end and puts the response in a *)
(* bounded outbox; a writer task moves the outbox to standard output.  A   *)
(* line the host sends is its kind, and what is written about it names the *)
(* line's position.  The tools themselves are reduced to what they do to   *)
(* the set of sessions, which HTTP clients and the clean-up tasks change as *)
(* well.  elicit_form and elicit_url, which nothing calls, are left out:   *)
(* `pending` stays empty, so a response from the host is dropped.          *)
(***************************************************************************)
EXTENDS Naturals, Sequences

CONSTANTS
  Sessions,       \* session ids
  Default,        \* the id used when a call names none
  Gated,          \* the tools of CAPABILITY_GATED_TOOLS
  Supports,       \* which of them the adapter of a session supports
  OutboxCap,      \* capacity of the outbox (64)
  MaxLines,       \* bound: lines the host sends
  MaxBackground   \* bound: session changes the host did not ask for

ASSUME McpAssumption ==
  /\ Default \in Sessions
  /\ Supports \in [Sessions -> SUBSET Gated]
  /\ OutboxCap \in Nat \ {0}
  /\ MaxLines \in Nat /\ MaxBackground \in Nat

VARIABLES
  mode,        \* "local" or "proxy" (proxy_port is set)
  lines,       \* what the host wrote to standard input
  closed,      \* the host closed it
  taken,       \* how many lines are dealt with
  pc,          \* the loop: "read", "handle", "notify", "send", "drain", "failed", "exited"
  response,    \* the message the loop is about to send
  outbox,      \* the channel to the writer
  writer,      \* "running", "broken" (standard output failed), "done", "aborted"
  out,         \* what was written to standard output
  registered,  \* the sessions in the registry of the server that has them
  ready,       \* those whose capabilities are known
  background,  \* how many background changes there were
  quiet        \* history: none since the last tools/list was computed

inputs == <<mode, lines, closed>>
output == <<outbox, writer, out>>
sessionsVars == <<registered, ready, background, quiet>>
vars == <<inputs, taken, pc, response, output, sessionsVars>>

(* plain: initialize, ping, the other tools and unknown methods; dropped:   *)
(* blank lines and responses, which answer nothing the server asked.       *)
Requests == {"plain", "list", "launch", "stop"}
Kinds == Requests \cup {"garbage", "notification", "dropped", "not_utf8"}

(* What a line is owed: garbage gets an error response with id null. *)
Answered == Requests \cup {"garbage"}

(* tools: the gated tools a tools/list response shows. *)
Message(what, re, tools) == [what |-> what, re |-> re, tools |-> tools]
Answer == Message("answer", taken + 1, {})

Init ==
  /\ mode \in {"local", "proxy"}
  /\ lines = <<>> /\ closed = FALSE
  /\ taken = 0
  /\ pc = "read"
  /\ response = Message("none", 0, {})
  /\ outbox = <<>> /\ writer = "running" /\ out = <<>>
  /\ registered \in {{}, {Default}}
  /\ ready = {}
  /\ background = 0 /\ quiet = TRUE

-----------------------------------------------------------------------------
(* The host, and whoever else launches and ends sessions *)

HostWrites(kind) ==
  /\ ~closed /\ Len(lines) < MaxLines
  /\ lines' = Append(lines, kind)
  /\ UNCHANGED <<mode, closed, taken, pc, response, output, sessionsVars>>

HostCloses ==
  /\ ~closed
  /\ closed' = TRUE
  /\ UNCHANGED <<mode, lines, taken, pc, response, output, sessionsVars>>

Background ==
  /\ background < MaxBackground
  /\ background' = background + 1
  /\ quiet' = FALSE
  /\ \/ \E s \in Sessions : registered' = registered \cup {s} /\ ready' = ready \ {s}
     \/ \E s \in registered : ready' = ready \cup {s} /\ UNCHANGED registered
     \/ \E s \in registered : registered' = registered \ {s} /\ ready' = ready \ {s}
  /\ UNCHANGED <<inputs, taken, pc, response, output>>

-----------------------------------------------------------------------------
(* The loop *)

Line == lines[taken + 1]

(* The next line is parsed; one with "method" goes to handle_request. *)
Read ==
  /\ pc = "read"
  /\ taken < Len(lines)
  /\ CASE Line = "dropped" ->
            taken' = taken + 1 /\ UNCHANGED <<pc, response>>
       [] Line = "garbage" ->
            pc' = "send" /\ response' = Answer /\ UNCHANGED taken
       [] Line = "not_utf8" ->
            pc' = "failed" /\ UNCHANGED <<taken, response>>
       [] OTHER ->
            pc' = "handle" /\ UNCHANGED <<taken, response>>
  /\ UNCHANGED <<inputs, output, sessionsVars>>

Respond(message) == pc' = "send" /\ response' = message

(* tool_list: no capabilities at all are taken for "no session".           *)
ToolList(s) == IF s \in ready THEN Supports[s] ELSE Gated

(* The capabilities tools/list may go by: of the first session, in the     *)
(* order of a HashMap; behind a proxy of the default session, if any.      *)
Listable ==
  LET candidates == IF mode = "local" THEN registered ELSE registered \cap {Default}
  IN IF candidates = {} THEN {Gated} ELSE {ToolList(s) : s \in candidates}

(* Through a proxy that fails, there are none. *)
HandleList ==
  /\ Line = "list"
  /\ \E tools \in Listable \cup (IF mode = "proxy" THEN {Gated} ELSE {}) :
       Respond(Message("answer", taken + 1, tools))
  /\ quiet' = TRUE
  /\ UNCHANGED <<registered, ready, background>>

(* A successful call of these is announced, except behind a proxy. *)
Announce == IF mode = "local" THEN pc' = "notify" /\ UNCHANGED response ELSE Respond(Answer)

(* launch_session (and attach_session): it succeeds, it fails before the   *)
(* session is inserted, or it fails later and leaves it registered.        *)
HandleLaunch ==
  /\ Line = "launch"
  /\ \/ /\ \E s \in Sessions : registered' = registered \cup {s} /\ ready' = ready \cup {s}
        /\ Announce
        /\ UNCHANGED <<background, quiet>>
     \/ /\ \E s \in Sessions : registered' = registered \cup {s} /\ ready' \in {ready \ {s}, ready \cup {s}}
        /\ quiet' = FALSE
        /\ Respond(Answer)
        /\ UNCHANGED background
     \/ Respond(Answer) /\ UNCHANGED sessionsVars

(* Mutant: as HandleStop, without the announcement. *)
HandleStopSilently ==
  /\ Line = "stop"
  /\ \/ \E s \in registered : registered' = registered \ {s} /\ ready' = ready \ {s}
     \/ UNCHANGED <<registered, ready>>
  /\ Respond(Answer)
  /\ UNCHANGED <<background, quiet>>

HandleStop ==
  /\ Line = "stop"
  /\ \/ /\ \E s \in registered : registered' = registered \ {s} /\ ready' = ready \ {s}
        /\ Announce
     \/ Respond(Answer) /\ UNCHANGED <<registered, ready>>
  /\ UNCHANGED <<background, quiet>>

HandlePlain ==
  /\ Line = "plain"
  /\ Respond(Answer)
  /\ UNCHANGED sessionsVars

HandleNotification ==
  /\ Line = "notification"
  /\ pc' = "read" /\ taken' = taken + 1
  /\ UNCHANGED <<response, sessionsVars>>

(* handle_request, to its end: a tool runs while nothing else is read.     *)
Handle ==
  /\ pc = "handle"
  /\ \/ HandleNotification
     \/ HandleList /\ UNCHANGED taken
     \/ HandleLaunch /\ UNCHANGED taken
     \/ HandleStop /\ UNCHANGED taken
     \/ HandlePlain /\ UNCHANGED taken
  /\ UNCHANGED <<inputs, output>>

(* Mutant: the channel is unbounded. *)
PutUnbounded(message) ==
  IF writer = "running" THEN outbox' = Append(outbox, message) ELSE UNCHANGED outbox

(* outbox.send waits for room, and fails when the writer is gone. *)
Put(message) ==
  IF writer = "running"
  THEN Len(outbox) < OutboxCap /\ outbox' = Append(outbox, message)
  ELSE UNCHANGED outbox

Notify ==
  /\ pc = "notify"
  /\ Put(Message("changed", taken + 1, {}))
  /\ Respond(Answer)
  /\ UNCHANGED <<inputs, taken, writer, out, sessionsVars>>

Send ==
  /\ pc = "send"
  /\ Put(response)
  /\ pc' = "read" /\ taken' = taken + 1
  /\ UNCHANGED <<inputs, response, writer, out, sessionsVars>>

(* End of input: the senders are dropped. *)
Eof ==
  /\ pc = "read"
  /\ closed /\ taken = Len(lines)
  /\ pc' = "drain"
  /\ UNCHANGED <<inputs, taken, response, output, sessionsVars>>

(* Mutant: the writer task is not awaited. *)
ExitAtOnce ==
  /\ pc = "drain"
  /\ pc' = "exited"
  /\ writer' = "aborted"
  /\ UNCHANGED <<inputs, taken, response, outbox, out, sessionsVars>>

(* serve returns, and with it the process. *)
Exit ==
  /\ pc = "drain"
  /\ writer # "running"
  /\ pc' = "exited"
  /\ UNCHANGED <<inputs, taken, response, output, sessionsVars>>

(* A read error returns early: the runtime is dropped, the writer with it. *)
Abort ==
  /\ pc = "failed"
  /\ pc' = "exited"
  /\ writer' = IF writer = "running" THEN "aborted" ELSE writer
  /\ UNCHANGED <<inputs, taken, response, outbox, out, sessionsVars>>

-----------------------------------------------------------------------------
(* The writer *)

Write ==
  /\ writer = "running" /\ outbox # <<>>
  /\ out' = Append(out, Head(outbox)) /\ outbox' = Tail(outbox)
  /\ UNCHANGED <<inputs, taken, pc, response, writer, sessionsVars>>

Break ==
  /\ writer = "running" /\ outbox # <<>>
  /\ writer' = "broken" /\ outbox' = <<>>
  /\ UNCHANGED <<inputs, taken, pc, response, out, sessionsVars>>

(* Mutant: the loop still holds a sender when it waits for the writer. *)
FinishAfterFailure ==
  /\ writer = "running" /\ outbox = <<>> /\ pc = "failed"
  /\ writer' = "done"
  /\ UNCHANGED <<inputs, taken, pc, response, outbox, out, sessionsVars>>

(* recv returns None: the channel is empty and nobody can send any more. *)
Finish ==
  /\ writer = "running" /\ outbox = <<>> /\ pc \in {"drain", "failed"}
  /\ writer' = "done"
  /\ UNCHANGED <<inputs, taken, pc, response, outbox, out, sessionsVars>>

Loop == Read \/ Handle \/ Notify \/ Send \/ Eof \/ Exit \/ Abort
Writer == Write \/ Break \/ Finish
Host == HostCloses \/ \E kind \in Kinds : HostWrites(kind)

Next == Host \/ Background \/ Loop \/ Writer

Spec == Init /\ [][Next]_vars

(* The two tasks run, every tool comes to an end, and the host reads.      *)
Fairness == WF_vars(Loop) /\ WF_vars(Writer)

FairSpec == Spec /\ Fairness

-----------------------------------------------------------------------------
(* Properties *)

Messages == [what : {"none", "answer", "changed"}, re : 0..MaxLines, tools : SUBSET Gated]

TypeOK ==
  /\ mode \in {"local", "proxy"}
  /\ lines \in Seq(Kinds) /\ Len(lines) <= MaxLines
  /\ closed \in BOOLEAN
  /\ taken \in 0..Len(lines)
  /\ pc \in {"read", "handle", "notify", "send", "drain", "failed", "exited"}
  /\ response \in Messages
  /\ outbox \in Seq(Messages) /\ Len(outbox) <= OutboxCap
  /\ writer \in {"running", "broken", "done", "aborted"}
  /\ out \in Seq(Messages)
  /\ registered \subseteq Sessions /\ ready \subseteq registered
  /\ background \in 0..MaxBackground
  /\ quiet \in BOOLEAN

Due(n) == {i \in 1..n : lines[i] \in Answered}

AnswersIn(messages)  == {k \in 1..Len(messages) : messages[k].what = "answer"}
AnsweredBy(messages) == {messages[k].re : k \in AnswersIn(messages)}

InOrder(messages) ==
  \A j, k \in AnswersIn(messages) : j < k => messages[j].re < messages[k].re

(* A list_changed is followed by the answer of the call it is about. *)
Announced(messages) ==
  \A k \in 1..Len(messages) : messages[k].what = "changed" =>
    k = Len(messages) \/ (k + 1 \in AnswersIn(messages) /\ messages[k + 1].re = messages[k].re)

(* Every request has exactly one response, responses come in the order of  *)
(* the requests and a notification has none (mod.rs 1134-1142): answers    *)
(* are in order, none is undue and, while the writer works, none is        *)
(* missing; what is written has no gaps.  A list_changed comes directly    *)
(* before the response of the call it is about (mod.rs 1237-1243).  On the *)
(* way out of the loop the queue is written first (mod.rs 1145-1148),      *)
(* unless standard output broke or the loop was left by a read error.      *)
Answers ==
  /\ LET stream == out \o outbox IN
       /\ InOrder(stream) /\ Announced(stream)
       /\ AnsweredBy(stream) \subseteq Due(taken)
       /\ writer \in {"running", "done"} => Due(taken) \subseteq AnsweredBy(stream)
  /\ \A i \in AnsweredBy(out) : Due(i) \subseteq AnsweredBy(out)
  /\ pc = "exited" /\ writer \notin {"broken", "aborted"} => AnsweredBy(out) = Due(taken)
  /\ pc = "exited" /\ writer = "aborted" => taken < Len(lines) /\ Line = "not_utf8"

ListedBy(messages) == {k \in AnswersIn(messages) : lines[messages[k].re] = "list"}

(* "Session-changing tools alter the available tool set" (mod.rs 1237): a  *)
(* host that saw nothing but its responses since it last listed the tools  *)
(* still has a list that a session accounts for, and a host for which that *)
(* is no longer so has been told.  Only without a proxy, and only as long  *)
(* as the change is the host's own successful call: a launch that fails    *)
(* after it registered its session, a session that ends or one launched    *)
(* over HTTP is not announced.                                             *)
ListFresh ==
  mode = "local" /\ quiet /\ pc = "read" /\ outbox = <<>> /\ writer = "running" =>
    \A last \in ListedBy(out) : (\A k \in ListedBy(out) : k <= last) =>
      out[last].tools \in Listable \/ \E k \in last..Len(out) : out[k].what = "changed"

(* Every request is answered in the end, or standard output or input has   *)
(* failed; and a server whose host closes its input exits.                 *)
Served ==
  /\ \A i \in 1..MaxLines :
       Len(lines) >= i /\ lines[i] \in Answered ~>
         \/ i \in AnsweredBy(out)
         \/ writer \in {"broken", "aborted"} \/ pc = "exited"
  /\ closed ~> pc = "exited"
=============================================================================
