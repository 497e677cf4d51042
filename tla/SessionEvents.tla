--------------------------- MODULE SessionEvents ---------------------------
(***************************************************************************)
(* A session's event dispatcher (dap/session.rs) on top of its DapClient.  *)
(*                                                                         *)
(* One task receives what the read loop queued, in order.  It answers      *)
(* reverse requests, broadcasts every other event to the hub, keeps the    *)
(* session's idea of whether the debuggee is paused, and after a `stopped` *)
(* event walks a chain of requests to the adapter, awaiting each response, *)
(* before it receives the next event.  It is thus both the only consumer   *)
(* of the event channel and a caller of the client whose read loop fills   *)
(* that channel.                                                           *)
(***************************************************************************)
EXTENDS DapClient

CONSTANTS
  Dispatcher,  \* the caller that is the event dispatcher
  Scopes,      \* how many scopes of the top frame have variables
  Watches      \* how many watch expressions are registered

ASSUME SessionAssumption ==
  /\ Dispatcher \in Callers
  /\ Scopes \in Nat
  /\ Watches \in Nat

VARIABLES
  sent,        \* history: what the adapter has emitted, in order
  disp,        \* where the dispatcher is
  handled,     \* history: how many messages the dispatcher is done receiving
  log,         \* what the hub was given to broadcast
  ready,       \* the `initialized` oneshot has fired
  acked,       \* reverse requests acknowledged
  lastStopped, \* last_stopped: which stop the session is paused at, or None
  stops,       \* stopped_tx: how many `stopped` events were seen
  timeline,    \* the stops recorded in the timeline
  terminated   \* terminated_tx

sessionVars == <<sent, disp, handled, log, ready, acked, lastStopped, stops, timeline, terminated>>
svars == <<vars, sessionVars>>

(* What a dispatcher does between two receives. *)
Doing(pc, e, step) == [pc |-> pc, event |-> e, step |-> step]
Receiving == Doing("recv", None, 0)

(* The enrichment of a stop: requests, and what is published between them. *)
Times(n, x) == [i \in 1..n |-> x]

Chain == <<"threads", "stackTrace", "scopes">> \o Times(Scopes, "variables") \o <<"timeline">>
           \o Times(Watches, "evaluate") \o (IF Watches = 0 THEN <<>> ELSE <<"watches_updated">>)
           \o <<"sourceLoaded">>

(* What is published on the way bears no name of an adapter's event. *)
ASSUME NamesAssumption == \A i \in 1..Len(Chain) : Chain[i] \notin Events

Requests == {"threads", "stackTrace", "scopes", "variables", "evaluate"}
Fatal    == {"threads", "stackTrace", "scopes"}      \* enrich_stopped returns when they fail
Echoed   == Requests \ {"evaluate"}                  \* their responses are broadcast

SessionInit ==
  /\ Init
  /\ sent = <<>>
  /\ disp = Receiving
  /\ handled = 0
  /\ log = <<>>
  /\ ready = FALSE
  /\ acked = 0
  /\ lastStopped = None
  /\ stops = 0
  /\ timeline = <<>>
  /\ terminated = FALSE

-----------------------------------------------------------------------------
(* The dispatcher *)

(* recv().await.  `initialized` only fires the oneshot, the first time;    *)
(* it is not broadcast.                                                    *)
Receive ==
  /\ disp.pc = "recv"
  /\ TakeEvent
  /\ LET e == Head(events) IN
       /\ handled' = handled + 1
       /\ ready' = (ready \/ e = "initialized")
       /\ disp' = CASE e = "initialized" -> Receiving
                    [] e = Reverse       -> Doing("ack", e, 0)
                    [] OTHER             -> Doing("broadcast", e, 0)
  /\ UNCHANGED <<sent, log, acked, lastStopped, stops, timeline, terminated>>

(* Mutant: the acknowledgement is a task of its own. *)
BeginAckDetached ==
  /\ disp.pc = "ack"
  /\ BeginRaw(Dispatcher)
  /\ disp' = Receiving
  /\ UNCHANGED <<sent, handled, log, ready, acked, lastStopped, stops, timeline, terminated>>

(* A reverse request is acknowledged with send_raw, whose outcome is       *)
(* ignored.                                                                *)
BeginAck ==
  /\ disp.pc = "ack"
  /\ BeginRaw(Dispatcher)
  /\ UNCHANGED sessionVars

(* Mutant: a failing acknowledgement is waited for. *)
EndAckSent ==
  /\ disp.pc = "ack"
  /\ Send(Dispatcher)
  /\ acked' = acked + 1
  /\ disp' = Receiving
  /\ UNCHANGED <<sent, handled, log, ready, lastStopped, stops, timeline, terminated>>

EndAck ==
  /\ disp.pc = "ack"
  /\ \/ Send(Dispatcher) /\ acked' = acked + 1
     \/ SendFails(Dispatcher) /\ UNCHANGED acked
  /\ disp' = Receiving
  /\ UNCHANGED <<sent, handled, log, ready, lastStopped, stops, timeline, terminated>>

(* Every other event goes to the hub before it has any effect here. *)
Broadcast ==
  /\ disp.pc = "broadcast"
  /\ log' = Append(log, disp.event)
  /\ disp' = [disp EXCEPT !.pc = "apply"]
  /\ UNCHANGED <<vars, sent, handled, ready, acked, lastStopped, stops, timeline, terminated>>

(* Mutant: `continued` is ignored. *)
ApplyIgnoringContinued ==
  /\ disp.pc = "apply"
  /\ terminated' = (terminated \/ disp.event \in {"terminated", "exited"})
  /\ stops' = IF disp.event = "stopped" THEN stops + 1 ELSE stops
  /\ lastStopped' = IF disp.event = "stopped" THEN stops' ELSE lastStopped
  /\ disp' = IF disp.event = "stopped" THEN [disp EXCEPT !.pc = "enrich", !.step = 1]
             ELSE Receiving
  /\ UNCHANGED <<vars, sent, handled, log, ready, acked, timeline>>

Apply ==
  /\ disp.pc = "apply"
  /\ terminated' = (terminated \/ disp.event \in {"terminated", "exited"})
  /\ stops' = IF disp.event = "stopped" THEN stops + 1 ELSE stops
  /\ lastStopped' = CASE disp.event = "stopped"   -> stops'
                      [] disp.event = "continued" -> None
                      [] OTHER                    -> lastStopped
  /\ disp' = IF disp.event = "stopped" THEN [disp EXCEPT !.pc = "enrich", !.step = 1]
             ELSE Receiving
  /\ UNCHANGED <<vars, sent, handled, log, ready, acked, timeline>>

(* enrich_stopped, one link of the chain at a time. *)
Link == Chain[disp.step]

AfterLink == IF disp.step = Len(Chain) THEN Receiving ELSE [disp EXCEPT !.step = @ + 1]

(* Mutant: the chain sends its requests without registering them. *)
AskUnregistered ==
  /\ disp.pc = "enrich"
  /\ Link \in Requests
  /\ \/ BeginUnregistered(Dispatcher, "request")
     \/ Register(Dispatcher)
     \/ caller[Dispatcher].kind = "request" /\ Send(Dispatcher)
  /\ UNCHANGED sessionVars

Ask ==
  /\ disp.pc = "enrich"
  /\ Link \in Requests
  /\ \/ Begin(Dispatcher, "request")
     \/ Register(Dispatcher)
     \/ caller[Dispatcher].kind = "request" /\ Send(Dispatcher)
  /\ UNCHANGED sessionVars

Answered ==
  /\ disp.pc = "enrich"
  /\ Complete(Dispatcher)
  /\ log' = IF Link \in Echoed THEN Append(log, Link) ELSE log
  /\ disp' = AfterLink
  /\ UNCHANGED <<sent, handled, ready, acked, lastStopped, stops, timeline, terminated>>

AskFails ==
  /\ disp.pc = "enrich"
  /\ SendFails(Dispatcher)
  /\ disp' = IF Link \in Fatal THEN Receiving ELSE AfterLink
  /\ UNCHANGED <<sent, handled, log, ready, acked, lastStopped, stops, timeline, terminated>>

Publish ==
  /\ disp.pc = "enrich"
  /\ Link \notin Requests
  /\ timeline' = IF Link = "timeline" THEN Append(timeline, stops) ELSE timeline
  /\ log' = Append(log, Link)
  /\ disp' = AfterLink
  /\ UNCHANGED <<vars, sent, handled, ready, acked, lastStopped, stops, terminated>>

Dispatch == Receive \/ BeginAck \/ EndAck \/ Broadcast \/ Apply \/ Ask \/ Answered \/ AskFails
              \/ Publish

-----------------------------------------------------------------------------
Emit(e) ==
  /\ AdapterEmit(e)
  /\ sent' = Append(sent, e)
  /\ UNCHANGED <<disp, handled, log, ready, acked, lastStopped, stops, timeline, terminated>>

(* The other tasks, the two loops and the adapter's other steps. *)
Elsewhere ==
  /\ \/ \E c \in Callers \ {Dispatcher} : TaskStep(c)
     \/ ReadStep
     \/ WriteStep
     \/ \E s \in inbox : AdapterAnswer(s)
     \/ AdapterExit
  /\ UNCHANGED sessionVars

SessionNext == Dispatch \/ (\E e \in Events \cup {Reverse} : Emit(e)) \/ Elsewhere

SessionSpec == SessionInit /\ [][SessionNext]_svars

(* Every task that can run runs, and the adapter answers. *)
SessionFairness ==
  /\ \A c \in Callers \ {Dispatcher} :
       /\ WF_svars(Register(c) /\ UNCHANGED sessionVars)
       /\ SF_svars(Send(c) /\ UNCHANGED sessionVars)
       /\ WF_svars((SendFails(c) \/ Complete(c)) /\ UNCHANGED sessionVars)
  /\ WF_svars(WriteStep /\ UNCHANGED sessionVars)
  /\ WF_svars(ReadStep /\ UNCHANGED sessionVars)
  /\ \A s \in 1..MaxSeq : WF_svars(AdapterAnswer(s) /\ UNCHANGED sessionVars)
  /\ SF_svars(Dispatch)

FairSessionSpec == SessionSpec /\ SessionFairness

-----------------------------------------------------------------------------
(* Properties *)

(* The elements of q that are in S, in their order.  (SelectSeq, but with a *)
(* set in place of a test, which can be reasoned about.)                   *)
Only(q, S) ==
  LET f[n \in 0..Len(q)] ==
        IF n = 0 THEN <<>> ELSE IF q[n] \in S THEN Append(f[n - 1], q[n]) ELSE f[n - 1]
  IN  f[Len(q)]

Sent           == Events \cup {Reverse}
NamesOf(q)     == [i \in 1..Len(q) |-> q[i].event]
OnTheWire      == NamesOf(Only(wire, {Event(e) : e \in Sent}))
InHand         == IF disp.pc = "broadcast" THEN <<disp.event>> ELSE <<>>
ForTheHub(q)   == Only(q, Events \ {"initialized"})

(* Types, and the dispatcher only uses the client where it should. *)
SessionTypeOK ==
  /\ TypeOK
  /\ sent \in Seq(Sent) /\ Len(sent) = emitted
  /\ disp \in [pc : {"recv", "ack", "broadcast", "apply", "enrich"},
               event : Sent \cup {None}, step : 0..Len(Chain)]
  /\ handled \in 0..Len(sent)
  /\ log \in Seq(Events \cup {Chain[i] : i \in 1..Len(Chain)})
  /\ ready \in BOOLEAN /\ terminated \in BOOLEAN
  /\ acked \in Nat /\ stops \in Nat /\ lastStopped \in Nat \cup {None}
  /\ timeline \in Seq(Nat)
  /\ disp.pc \notin {"ack", "enrich"} => caller[Dispatcher] = Idle

(* No event is lost, duplicated or overtaken on its way from the adapter   *)
(* to the hub: what was broadcast, what the dispatcher holds and what is   *)
(* still queued is what the adapter sent (client.rs 212-241, session.rs    *)
(* 282-341).  `initialized` and reverse requests stop at the dispatcher.   *)
EveryEventOnce ==
  Only(log, Events) \o InHand \o ForTheHub(events \o OnTheWire) = ForTheHub(sent)

(* When everything sent has been handled, the session knows what an        *)
(* observer of the adapter knows: whether the debuggee is paused, at the   *)
(* latest of its stops; whether it is configured; whether it is over.      *)
Settled == handled = Len(sent) /\ disp = Receiving

(* An observer who saw q takes the debuggee to be paused. *)
Paused(q) == \E i \in 1..Len(q) : q[i] = "stopped" /\ \A j \in i..Len(q) : q[j] # "continued"

SettledView ==
  Settled =>
    /\ lastStopped = IF Paused(sent) THEN Len(Only(sent, {"stopped"})) ELSE None
    /\ ready <=> \E i \in 1..Len(sent) : sent[i] = "initialized"
    /\ terminated <=> \E i \in 1..Len(sent) : sent[i] \in {"terminated", "exited"}

(* "one entry per `stopped` event" (session.rs 126): unless the adapter's  *)
(* input has gone, each stop that was handled left its entry, in order.    *)
TimelinePerStop ==
  Settled /\ writer = "running" => timeline = [i \in 1..stops |-> i]

(* Together: what an event tells is told once, in order, and ends up in    *)
(* the session's view and timeline.                                        *)
EventsTold == EveryEventOnce /\ SettledView /\ TimelinePerStop

(* The read loop waits for room in the event channel, which only the       *)
(* dispatcher makes, and the dispatcher waits for a response that only the *)
(* read loop can bring.                                                    *)
Stalled ==
  /\ wire # <<>> /\ Head(wire).type = "event" /\ Len(events) = EventCap
  /\ disp.pc = "enrich" /\ caller[Dispatcher].pc = "waiting" /\ reply[Dispatcher] = None

(* The response the dispatcher waits for is nowhere on its way: the adapter *)
(* exited or sent it garbled, and nobody tells the dispatcher.             *)
Orphaned ==
  /\ caller[Dispatcher].pc = "waiting" /\ reply[Dispatcher] = None
  /\ LET s == caller[Dispatcher].seq IN
       /\ s \notin inbox
       /\ \A i \in 1..Len(outbound) : outbound[i].seq # s
       /\ \A i \in 1..Len(wire) : wire[i].type = "response" => wire[i].request_seq # s

(* Those are the only two ways in which an event that was sent is never    *)
(* handled; otherwise every event is, whatever the other tasks do.  (The   *)
(* last disjunct is the model's bound on sequence numbers.)                *)
HandledOrStuck ==
  \A n \in 1..MaxEmit :
    Len(sent) >= n ~> handled >= n \/ Stalled \/ Orphaned \/ seq > MaxSeq

(* hub.rs 10-11: "Every WebSocket client subscribed to a session receives  *)
(* every raw JSON frame that the DAP adapter sends."  At the least, every  *)
(* event the adapter sends must reach the dispatcher.                      *)
EveryEventHandled ==
  \A n \in 1..MaxEmit : Len(sent) >= n ~> handled >= n

(* The dispatcher is one of the client's callers: what holds of DapClient  *)
(* holds here.                                                             *)
ClientSpec == Spec
=============================================================================
