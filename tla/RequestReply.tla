---------------------------- MODULE RequestReply ----------------------------
(***************************************************************************)
(* What DapClient::request promises, without channels, frames or loops:    *)
(* each request holds a fresh ticket while it is open; the peer answers a  *)
(* ticket at most once; a request may return only after its own ticket was *)
(* answered, and may be given up at any time.                              *)
(***************************************************************************)
EXTENDS Naturals

CONSTANTS
  Callers,
  None      \* no result yet

VARIABLES
  phase,    \* "idle" or "open", for each caller
  ticket,   \* the ticket of its open request, 0 when idle
  result,   \* the ticket whose answer it holds, or None
  next,     \* the next ticket
  answered  \* the tickets the peer has answered

vars == <<phase, ticket, result, next, answered>>

Init ==
  /\ phase = [c \in Callers |-> "idle"]
  /\ ticket = [c \in Callers |-> 0]
  /\ result = [c \in Callers |-> None]
  /\ next = 1
  /\ answered = {}

Open(c) ==
  /\ phase[c] = "idle"
  /\ phase' = [phase EXCEPT ![c] = "open"]
  /\ ticket' = [ticket EXCEPT ![c] = next]
  /\ next' = next + 1
  /\ UNCHANGED <<result, answered>>

(* A notification takes a ticket and waits for nothing. *)
Notify ==
  /\ next' = next + 1
  /\ UNCHANGED <<phase, ticket, result, answered>>

Answer(t) ==
  /\ t < next
  /\ t \notin answered
  /\ answered' = answered \cup {t}
  /\ UNCHANGED <<phase, ticket, result, next>>

Deliver(c) ==
  /\ phase[c] = "open"
  /\ result[c] = None
  /\ ticket[c] \in answered
  /\ result' = [result EXCEPT ![c] = ticket[c]]
  /\ UNCHANGED <<phase, ticket, next, answered>>

(* The request is over: it returns its result, it fails or it is dropped. *)
Close(c) ==
  /\ phase[c] = "open"
  /\ phase' = [phase EXCEPT ![c] = "idle"]
  /\ ticket' = [ticket EXCEPT ![c] = 0]
  /\ result' = [result EXCEPT ![c] = None]
  /\ UNCHANGED <<next, answered>>

Next ==
  \/ \E c \in Callers : Open(c) \/ Deliver(c) \/ Close(c)
  \/ Notify
  \/ \E t \in 0..(next - 1) : Answer(t)

Spec == Init /\ [][Next]_vars
=============================================================================
