----------------------------- MODULE DapClient -----------------------------
(***************************************************************************)
(* The asynchronous DAP client of debugium-server (dap/client.rs).         *)
(*                                                                         *)
(* Any number of tasks (MCP tools, HTTP handlers, the event dispatcher)    *)
(* share one client.  A request takes a sequence number, registers the     *)
(* sending half of a oneshot under it in `pending`, queues its frame on a  *)
(* bounded channel and awaits the oneshot.  Two background tasks own the   *)
(* two directions of the adapter's stream: the write loop drains the       *)
(* channel, the read loop completes oneshots and forwards everything else  *)
(* to a second bounded channel, on which it blocks when that is full.      *)
(*                                                                         *)
(* The adapter is external: it answers the requests it has read in any     *)
(* order, or never, it sends events and reverse requests when it likes,    *)
(* and, with the corresponding fault, it sends an undecodable frame in     *)
(* place of an answer or exits.                                            *)
(***************************************************************************)
EXTENDS Naturals, Sequences, FiniteSets

CONSTANTS
  Callers,     \* the tasks that use the client
  Events,      \* the names of the events the adapter may send
  OutCap,      \* capacity of the outgoing frame channel (256 in the code)
  EventCap,    \* capacity of the event channel (256 in the code)
  MaxSeq,      \* bound: the last sequence number handed out
  MaxEmit,     \* bound: how many events and reverse requests the adapter sends
  Faults,      \* which of "garble", "exit" the adapter may commit
  None         \* no reply yet / a oneshot whose receiver is gone

Reverse == "reverse_request_ack"

ASSUME ClientAssumption ==
  /\ OutCap \in Nat \ {0}
  /\ EventCap \in Nat \ {0}
  /\ MaxSeq \in Nat
  /\ MaxEmit \in Nat
  /\ Faults \subseteq {"garble", "exit"}
  /\ None \notin Callers
  /\ None \notin Nat
  /\ Reverse \notin Events

VARIABLES
  seq,       \* AtomicU32: the next sequence number
  caller,    \* where each task is inside request, notify or send_raw
  reply,     \* the value waiting in each task's oneshot
  pending,   \* PendingMap: sequence number -> sending half of a oneshot
  outbound,  \* mpsc of encoded frames, drained by the write loop
  writer,    \* "running", or "broken" once the write loop has left its loop
  inbox,     \* requests the adapter has read and not answered
  answered,  \* requests the adapter has answered with a decodable response
  wire,      \* the adapter's output stream, not yet read
  reader,    \* "running", or "ended" once the read loop has left its loop
  events,    \* mpsc of events, drained by the session's dispatcher
  adapter,   \* "up" or "exited"
  emitted    \* how many unsolicited messages the adapter has sent

taskVars    == <<seq, caller, reply, pending>>
adapterVars == <<inbox, answered, wire, adapter, emitted>>
vars == <<seq, caller, reply, pending, outbound, writer, inbox, answered, wire,
          reader, events, adapter, emitted>>

-----------------------------------------------------------------------------
(* Data *)

Frame == [kind : {"request", "notify", "raw"}, seq : Nat]

Response(s) == [type |-> "response", request_seq |-> s]
Event(e)    == [type |-> "event", event |-> e]
Garbage     == [type |-> "garbage"]

Message ==
  [type : {"response"}, request_seq : Nat]
    \cup [type : {"event"}, event : Events \cup {Reverse}]
    \cup [type : {"garbage"}]

Idle == [pc |-> "idle", kind |-> "request", seq |-> 0]

CallerState ==
  [pc : {"idle", "allocated", "sending", "waiting"},
   kind : {"request", "notify", "raw"}, seq : Nat]

(* c is between the first and the last line of request(). *)
InRequest(c) == caller[c].pc # "idle" /\ caller[c].kind = "request"

(* The oneshot sender registered under s, replacing an older one (HashMap::insert). *)
Insert(map, s, c) == {p \in map : p.seq # s} \cup {[seq |-> s, to |-> c]}

(* Mutant: the entry of a request that is given up keeps its receiver. *)
DropNothing(map, c) == map

(* The receiving half of c's oneshots is dropped; the sending half stays where it is. *)
DropReceiver(map, c) ==
  {p \in map : p.to # c} \cup {[seq |-> p.seq, to |-> None] : p \in {q \in map : q.to = c}}

Init ==
  /\ seq = 1
  /\ caller = [c \in Callers |-> Idle]
  /\ reply = [c \in Callers |-> None]
  /\ pending = {}
  /\ outbound = <<>>
  /\ writer = "running"
  /\ inbox = {}
  /\ answered = {}
  /\ wire = <<>>
  /\ reader = "running"
  /\ events = <<>>
  /\ adapter = "up"
  /\ emitted = 0

-----------------------------------------------------------------------------
(* The tasks: request, notify, send_raw *)

(* Mutant: request goes on to the channel without registering. *)
BeginUnregistered(c, kind) ==
  /\ caller[c].pc = "idle"
  /\ seq <= MaxSeq
  /\ seq' = seq + 1
  /\ caller' = [caller EXCEPT ![c] = [pc |-> "sending", kind |-> kind, seq |-> seq]]
  /\ UNCHANGED <<reply, pending, outbound, writer, reader, events, adapterVars>>

(* request and notify take the next sequence number before anything else.  *)
(* request then has to await the lock of `pending`; notify goes on to the  *)
(* channel.                                                                *)
Begin(c, kind) ==
  /\ caller[c].pc = "idle"
  /\ seq <= MaxSeq
  /\ seq' = seq + 1
  /\ caller' = [caller EXCEPT ![c] =
       [pc |-> IF kind = "request" THEN "allocated" ELSE "sending",
        kind |-> kind, seq |-> seq]]
  /\ UNCHANGED <<reply, pending, outbound, writer, reader, events, adapterVars>>

(* send_raw queues a frame that carries no number of the client's own.     *)
BeginRaw(c) ==
  /\ caller[c].pc = "idle"
  /\ caller' = [caller EXCEPT ![c] = [pc |-> "sending", kind |-> "raw", seq |-> 0]]
  /\ UNCHANGED <<seq, reply, pending, outbound, writer, reader, events, adapterVars>>

(* request inserts its oneshot under the lock. *)
Register(c) ==
  /\ caller[c].pc = "allocated"
  /\ pending' = Insert(pending, caller[c].seq, c)
  /\ caller' = [caller EXCEPT ![c].pc = "sending"]
  /\ UNCHANGED <<seq, reply, outbound, writer, reader, events, adapterVars>>

(* Mutant: the channel takes one frame more. *)
SendOneMore(c) ==
  /\ caller[c].pc = "sending"
  /\ writer = "running"
  /\ Len(outbound) <= OutCap
  /\ outbound' = Append(outbound, [kind |-> caller[c].kind, seq |-> caller[c].seq])
  /\ caller' = [caller EXCEPT ![c] =
                  IF @.kind = "request" THEN [@ EXCEPT !.pc = "waiting"] ELSE Idle]
  /\ UNCHANGED <<seq, reply, pending, writer, reader, events, adapterVars>>

(* The frame is queued when the channel has room; the task waits until it has. *)
Send(c) ==
  /\ caller[c].pc = "sending"
  /\ writer = "running"
  /\ Len(outbound) < OutCap
  /\ outbound' = Append(outbound, [kind |-> caller[c].kind, seq |-> caller[c].seq])
  /\ caller' = [caller EXCEPT ![c] =
                  IF @.kind = "request" THEN [@ EXCEPT !.pc = "waiting"] ELSE Idle]
  /\ UNCHANGED <<seq, reply, pending, writer, reader, events, adapterVars>>

(* Leaving the operation drops the receiving half of the oneshot and       *)
(* whatever is in it.  The entry in `pending` is nobody's to remove.       *)
Leave(c) ==
  /\ caller' = [caller EXCEPT ![c] = Idle]
  /\ reply' = [reply EXCEPT ![c] = None]
  /\ pending' = DropReceiver(pending, c)
  /\ UNCHANGED <<seq, outbound, writer, reader, events, adapterVars>>

(* The write loop is gone: `send failed`. *)
SendFails(c) ==
  /\ caller[c].pc = "sending"
  /\ writer = "broken"
  /\ Leave(c)

(* request returns the response. *)
Complete(c) ==
  /\ caller[c].pc = "waiting"
  /\ reply[c] # None
  /\ Leave(c)

(* The future is dropped at an await: a tokio timeout around it, an HTTP   *)
(* handler whose client has gone.                                          *)
Cancel(c) ==
  /\ caller[c].pc # "idle"
  /\ Leave(c)

-----------------------------------------------------------------------------
(* The write loop *)

WriteFrame ==
  /\ writer = "running"
  /\ outbound # <<>>
  /\ adapter = "up"
  /\ inbox' = IF Head(outbound).kind = "raw" THEN inbox
              ELSE inbox \cup {Head(outbound).seq}
  /\ outbound' = Tail(outbound)
  /\ UNCHANGED <<taskVars, writer, answered, wire, reader, events, adapter, emitted>>

(* A write to a dead adapter fails, which ends the loop and closes the     *)
(* channel with what was queued in it, or (TCP) is still accepted.         *)
WriteDead ==
  /\ writer = "running"
  /\ outbound # <<>>
  /\ adapter = "exited"
  /\ \/ writer' = "broken" /\ outbound' = <<>>
     \/ outbound' = Tail(outbound) /\ UNCHANGED writer
  /\ UNCHANGED <<taskVars, reader, events, adapterVars>>

-----------------------------------------------------------------------------
(* The read loop *)

(* Mutant: the oneshot is looked up and not removed. *)
ReadResponseKeeping ==
  /\ reader = "running"
  /\ wire # <<>>
  /\ Head(wire).type = "response"
  /\ LET s == Head(wire).request_seq IN
       reply' = [c \in Callers |->
                   IF [seq |-> s, to |-> c] \in pending THEN s ELSE reply[c]]
  /\ wire' = Tail(wire)
  /\ UNCHANGED <<seq, caller, pending, outbound, writer, inbox, answered, reader, events,
                 adapter, emitted>>

(* Mutant: a response completes the oldest request. *)
ReadResponseOldest ==
  /\ reader = "running"
  /\ wire # <<>>
  /\ Head(wire).type = "response"
  /\ LET oldest == {p \in pending : \A q \in pending : p.seq <= q.seq}
     IN  /\ pending' = pending \ oldest
         /\ reply' = [c \in Callers |->
                        IF \E p \in oldest : p.to = c THEN Head(wire).request_seq ELSE reply[c]]
  /\ wire' = Tail(wire)
  /\ UNCHANGED <<seq, caller, outbound, writer, inbox, answered, reader, events, adapter,
                 emitted>>

(* A response completes the oneshot registered under its request_seq, if   *)
(* there is one; the entry goes whether or not anybody still listens.      *)
ReadResponse ==
  /\ reader = "running"
  /\ wire # <<>>
  /\ Head(wire).type = "response"
  /\ LET s == Head(wire).request_seq
         hit == {p \in pending : p.seq = s}
     IN  /\ pending' = pending \ hit
         /\ reply' = [c \in Callers |->
                        IF \E p \in hit : p.to = c THEN s ELSE reply[c]]
  /\ wire' = Tail(wire)
  /\ UNCHANGED <<seq, caller, outbound, writer, inbox, answered, reader, events, adapter,
                 emitted>>

(* Events and reverse requests are handed to the dispatcher; the loop      *)
(* reads nothing more until the channel takes them.                        *)
ReadEvent ==
  /\ reader = "running"
  /\ wire # <<>>
  /\ Head(wire).type = "event"
  /\ Len(events) < EventCap
  /\ events' = Append(events, Head(wire).event)
  /\ wire' = Tail(wire)
  /\ UNCHANGED <<taskVars, outbound, writer, inbox, answered, reader, adapter, emitted>>

(* A frame with a bad header, a non-UTF-8 body or invalid JSON is skipped. *)
ReadGarbage ==
  /\ reader = "running"
  /\ wire # <<>>
  /\ Head(wire).type = "garbage"
  /\ wire' = Tail(wire)
  /\ UNCHANGED <<taskVars, outbound, writer, inbox, answered, reader, events, adapter,
                 emitted>>

(* End of file or a read error ends the loop and touches nothing else.     *)
ReadEof ==
  /\ reader = "running"
  /\ wire = <<>>
  /\ adapter = "exited"
  /\ reader' = "ended"
  /\ UNCHANGED <<taskVars, outbound, writer, events, adapterVars>>

-----------------------------------------------------------------------------
(* The adapter, and the receiver of the event channel *)

AdapterAnswer(s) ==
  /\ adapter = "up"
  /\ s \in inbox
  /\ inbox' = inbox \ {s}
  /\ \/ wire' = Append(wire, Response(s)) /\ answered' = answered \cup {s}
     \/ "garble" \in Faults /\ wire' = Append(wire, Garbage) /\ UNCHANGED answered
  /\ UNCHANGED <<taskVars, outbound, writer, reader, events, adapter, emitted>>

AdapterEmit(e) ==
  /\ adapter = "up"
  /\ emitted < MaxEmit
  /\ emitted' = emitted + 1
  /\ wire' = Append(wire, Event(e))
  /\ UNCHANGED <<taskVars, outbound, writer, inbox, answered, reader, events, adapter>>

AdapterExit ==
  /\ adapter = "up"
  /\ "exit" \in Faults
  /\ adapter' = "exited"
  /\ inbox' = {}
  /\ UNCHANGED <<taskVars, outbound, writer, answered, wire, reader, events, emitted>>

TakeEvent ==
  /\ events # <<>>
  /\ events' = Tail(events)
  /\ UNCHANGED <<taskVars, outbound, writer, reader, adapterVars>>

-----------------------------------------------------------------------------
TaskStep(c) ==
  \/ \E kind \in {"request", "notify"} : Begin(c, kind)
  \/ BeginRaw(c)
  \/ Register(c)
  \/ Send(c)
  \/ SendFails(c)
  \/ Complete(c)
  \/ Cancel(c)

ReadStep == ReadResponse \/ ReadEvent \/ ReadGarbage \/ ReadEof

WriteStep == WriteFrame \/ WriteDead

AdapterStep ==
  \/ \E s \in inbox : AdapterAnswer(s)
  \/ \E e \in Events \cup {Reverse} : AdapterEmit(e)
  \/ AdapterExit

Next == (\E c \in Callers : TaskStep(c)) \/ WriteStep \/ ReadStep \/ AdapterStep \/ TakeEvent

Spec == Init /\ [][Next]_vars

(* Every tokio task that can run is polled again; a live adapter answers   *)
(* what it has read.  Nobody has to start a request, send an event, cancel *)
(* a future or exit.                                                       *)
Fairness ==
  /\ \A c \in Callers :
       WF_vars(Register(c)) /\ SF_vars(Send(c)) /\ WF_vars(SendFails(c)) /\ WF_vars(Complete(c))
  /\ WF_vars(WriteStep)
  /\ WF_vars(ReadStep)
  /\ \A s \in 1..MaxSeq : WF_vars(AdapterAnswer(s))
  /\ WF_vars(TakeEvent)

FairSpec == Spec /\ Fairness

-----------------------------------------------------------------------------
(* Properties *)

(* Every variable keeps the type its Rust declaration gives it, and the    *)
(* two channels never hold more than their capacity.                       *)
TypeOK ==
  /\ seq \in 1..(MaxSeq + 1)
  /\ caller \in [Callers -> CallerState]
  /\ reply \in [Callers -> Nat \cup {None}]
  /\ pending \subseteq [seq : Nat, to : Callers \cup {None}]
  /\ outbound \in Seq(Frame) /\ Len(outbound) <= OutCap
  /\ writer \in {"running", "broken"}
  /\ inbox \subseteq Nat /\ answered \subseteq Nat
  /\ wire \in Seq(Message)
  /\ reader \in {"running", "ended"}
  /\ events \in Seq(Events \cup {Reverse}) /\ Len(events) <= EventCap
  /\ adapter \in {"up", "exited"}
  /\ emitted \in 0..MaxEmit

(* A task is only ever woken with the response to the request it is        *)
(* waiting on, also when it has cancelled earlier requests whose responses *)
(* are still under way (client.rs 68-86 with 206-211).                     *)
Correlation ==
  \A c \in Callers : reply[c] # None => caller[c].pc = "waiting" /\ reply[c] = caller[c].seq

(* A task that awaits its oneshot can still be woken: its sending half is  *)
(* registered, or the response is already in it.  (Whether a response ever *)
(* comes is another question.)                                             *)
NoLostOneshot ==
  \A c \in Callers :
    caller[c].pc = "waiting" =>
      \/ [seq |-> caller[c].seq, to |-> c] \in pending
      \/ reply[c] = caller[c].seq

(* No two operations in progress carry the same sequence number, and none  *)
(* carries one that is registered for another task: a shared number would  *)
(* let one task's response overwrite or complete another's oneshot.        *)
DistinctSeqs ==
  /\ \A c, d \in Callers :
       /\ c # d
       /\ caller[c].pc # "idle" /\ caller[d].pc # "idle"
       /\ caller[c].kind # "raw" /\ caller[d].kind # "raw"
       => caller[c].seq # caller[d].seq
  /\ \A p, q \in pending : p.seq = q.seq => p = q

(* Why the three above hold: a number is at one place only, on its way     *)
(* from the task that took it through the channel and the adapter to the   *)
(* answer in the stream and the oneshot, and only a request that is still  *)
(* open has its oneshot registered.  This is the inductive invariant of    *)
(* SessionEventsProofs.                                                        *)
Numbered(c) == caller[c].pc # "idle" /\ caller[c].kind # "raw"
Unsent(c)   == Numbered(c) /\ caller[c].pc # "waiting"
Queued(i)   == i \in 1..Len(outbound) /\ outbound[i].kind # "raw"
Answer(i)   == i \in 1..Len(wire) /\ wire[i].type = "response"

KindsOK ==
  \A c \in Callers : caller[c].pc \in {"allocated", "waiting"} => caller[c].kind = "request"

IssuedBelowSeq ==
  /\ \A c \in Callers : Numbered(c) => caller[c].seq < seq
  /\ \A i \in 1..Len(outbound) : Queued(i) => outbound[i].seq < seq
  /\ \A s \in inbox \cup answered : s < seq
  /\ \A p \in pending : p.seq < seq

UnsentFresh ==
  \A c \in Callers : Unsent(c) =>
    /\ \A i \in 1..Len(outbound) : Queued(i) => outbound[i].seq # caller[c].seq
    /\ caller[c].seq \notin inbox \cup answered

QueuedOnce ==
  /\ \A i, j \in 1..Len(outbound) :
       Queued(i) /\ Queued(j) /\ outbound[i].seq = outbound[j].seq => i = j
  /\ \A i \in 1..Len(outbound) : Queued(i) => outbound[i].seq \notin inbox \cup answered
  /\ inbox \cap answered = {}

AnsweredOnce ==
  /\ \A i \in 1..Len(wire) : Answer(i) => wire[i].request_seq \in answered
  /\ \A i, j \in 1..Len(wire) :
       Answer(i) /\ Answer(j) /\ wire[i].request_seq = wire[j].request_seq => i = j

RegisteredOpen ==
  \A p \in pending : \A c \in Callers :
    /\ p.to = c => InRequest(c) /\ p.seq = caller[c].seq
    /\ Numbered(c) /\ p.seq = caller[c].seq => p.to = c /\ caller[c].pc # "allocated"

SendingRegistered ==
  \A c \in Callers : InRequest(c) /\ caller[c].pc = "sending" =>
    [seq |-> caller[c].seq, to |-> c] \in pending

HeldOnce ==
  \A c \in Callers : reply[c] # None =>
    /\ reply[c] \in answered
    /\ \A p \in pending : p.seq # reply[c]
    /\ \A i \in 1..Len(wire) : Answer(i) => wire[i].request_seq # reply[c]

IInv ==
  /\ TypeOK /\ KindsOK /\ IssuedBelowSeq /\ UnsentFresh /\ QueuedOnce /\ AnsweredOnce
  /\ RegisteredOpen /\ SendingRegistered /\ HeldOnce
  /\ Correlation /\ NoLostOneshot /\ DistinctSeqs

(* The adapter has read c's request and sent something undecodable for it. *)
Garbled(c) ==
  /\ caller[c].seq \notin inbox \cup answered
  /\ \A i \in 1..Len(outbound) : Queued(i) => outbound[i].seq # caller[c].seq

(* A request that reached the channel of an adapter that stays alive is    *)
(* over some time, unless its response cannot be decoded: no interleaving  *)
(* of other requests, cancellations, events and reverse requests starves   *)
(* it, as long as the dispatcher keeps taking events.                      *)
RequestEnds ==
  \A c \in Callers :
    caller[c].pc = "waiting" ~> caller[c].pc # "waiting" \/ adapter = "exited" \/ Garbled(c)

(* The client is a request/reply service: whatever the interleaving and    *)
(* the faults, every request it returns from was answered by the adapter   *)
(* under the number this very request was given, and at most once.         *)
Service == INSTANCE RequestReply WITH
  phase  <- [c \in Callers |-> IF InRequest(c) THEN "open" ELSE "idle"],
  ticket <- [c \in Callers |-> IF InRequest(c) THEN caller[c].seq ELSE 0],
  result <- reply,
  next   <- seq

ImplementsRequestReply == Service!Spec
=============================================================================
