------------------------ MODULE SessionEventsProofs ------------------------
(***************************************************************************)
(* Two parts, for any set of tasks, any channel capacities, any faults and *)
(* any number of events, scopes and watches.                               *)
(*                                                                         *)
(* First the client: DapClient keeps its types, correlates responses with  *)
(* requests and implements RequestReply.  The dispatcher of SessionEvents  *)
(* is a well-behaved caller of it, so all of this holds with a dispatcher  *)
(* that both consumes events and makes requests.                           *)
(*                                                                         *)
(* Then the dispatcher: its types, and that every event the adapter sends  *)
(* is told once, in order, and has its effect.  The invariant is SInv: the *)
(* adapter's history is what was received followed by what is on its way,  *)
(* and the session's state is what an observer of the part that has been   *)
(* applied would think.                                                    *)
(***************************************************************************)
EXTENDS SessionEvents, SequenceTheorems, WellFoundedInduction, TLAPS

(* The steps of Next, one by one: what every proof below splits on. *)
LEMMA StepCases ==
  ASSUME [Next]_vars,
         NEW P,
         \A c \in Callers, kind \in {"request", "notify"} : Begin(c, kind) => P,
         \A c \in Callers : BeginRaw(c) => P,
         \A c \in Callers : Register(c) => P,
         \A c \in Callers : Send(c) => P,
         \A c \in Callers : Leave(c) /\ caller[c].pc # "idle" => P,
         WriteFrame => P, WriteDead => P,
         ReadResponse => P, ReadEvent => P, ReadGarbage => P, ReadEof => P,
         \A s \in inbox : AdapterAnswer(s) => P,
         \A e \in Events \cup {Reverse} : AdapterEmit(e) => P,
         AdapterExit => P, TakeEvent => P,
         UNCHANGED vars => P
  PROVE  P
BY DEF Next, TaskStep, WriteStep, ReadStep, AdapterStep, SendFails, Complete, Cancel

(* Types: TypeOK is inductive by itself. *)
LEMMA TypeInit == Init => TypeOK
BY ClientAssumption DEF Init, TypeOK, CallerState, Idle

LEMMA TypeStep ==
  ASSUME TypeOK, [Next]_vars
  PROVE  TypeOK'
<1>. USE ClientAssumption DEF TypeOK, taskVars, adapterVars
<1>1. ASSUME NEW c \in Callers, NEW kind \in {"request", "notify"}, Begin(c, kind)
      PROVE  TypeOK'
  BY <1>1 DEF Begin, CallerState
<1>2. ASSUME NEW c \in Callers, BeginRaw(c)
      PROVE  TypeOK'
  BY <1>2 DEF BeginRaw, CallerState
<1>3. ASSUME NEW c \in Callers, Register(c)
      PROVE  TypeOK'
  <2>1. [seq |-> caller[c].seq, to |-> c] \in [seq : Nat, to : Callers \cup {None}]
    BY DEF CallerState
  <2>2. pending' \subseteq [seq : Nat, to : Callers \cup {None}]
    BY <1>3, <2>1, Zenon DEF Register, Insert
  <2>3. caller' \in [Callers -> CallerState]
    BY <1>3, ZenonT(60) DEF Register, CallerState
  <2>. QED  BY <1>3, <2>2, <2>3 DEF Register
<1>4. ASSUME NEW c \in Callers, Send(c)
      PROVE  TypeOK'
  <2>1. [kind |-> caller[c].kind, seq |-> caller[c].seq] \in Frame
    BY DEF CallerState, Frame
  <2>2. outbound' \in Seq(Frame) /\ Len(outbound') <= OutCap
    BY <1>4, <2>1 DEF Send
  <2>3. caller' \in [Callers -> CallerState]
    BY <1>4, SMTT(30) DEF Send, CallerState, Idle
  <2>. QED  BY <1>4, <2>2, <2>3 DEF Send
<1>5. ASSUME NEW c \in Callers, Leave(c)
      PROVE  TypeOK'
  <2>1. caller' \in [Callers -> CallerState]
    BY <1>5 DEF Leave, CallerState, Idle
  <2>2. pending' \subseteq [seq : Nat, to : Callers \cup {None}]
    BY <1>5 DEF Leave, DropReceiver
  <2>. QED  BY <1>5, <2>1, <2>2 DEF Leave
<1>6. ASSUME WriteFrame PROVE TypeOK'
  <2>1. Head(outbound) \in Frame /\ Tail(outbound) \in Seq(Frame)
        /\ Len(Tail(outbound)) <= OutCap
    BY <1>6 DEF WriteFrame
  <2>. QED  BY <1>6, <2>1 DEF WriteFrame, Frame
<1>7. ASSUME WriteDead PROVE TypeOK'
  <2>1. Tail(outbound) \in Seq(Frame) /\ Len(Tail(outbound)) <= OutCap
    BY <1>7 DEF WriteDead
  <2>2. outbound' \in Seq(Frame) /\ Len(outbound') <= OutCap
    <3>1. outbound' = <<>> \/ outbound' = Tail(outbound)
      BY <1>7 DEF WriteDead
    <3>2. <<>> \in Seq(Frame) /\ Len(<<>>) <= OutCap
      OBVIOUS
    <3>. QED  BY <2>1, <3>1, <3>2, Zenon
  <2>3. writer' \in {"running", "broken"}
    BY <1>7 DEF WriteDead
  <2>. QED  BY <1>7, <2>2, <2>3 DEF WriteDead
<1>8. ASSUME ReadResponse PROVE TypeOK'
  <2>1. Head(wire) \in Message /\ Tail(wire) \in Seq(Message)
    BY <1>8 DEF ReadResponse
  <2>2. Head(wire).request_seq \in Nat
    BY <1>8, <2>1 DEF ReadResponse, Message
  <2>. QED  BY <1>8, <2>1, <2>2 DEF ReadResponse
<1>9. ASSUME ReadEvent PROVE TypeOK'
  <2>1. Head(wire) \in Message /\ Tail(wire) \in Seq(Message)
    BY <1>9 DEF ReadEvent
  <2>2. Head(wire).event \in Events \cup {Reverse}
    BY <1>9, <2>1 DEF ReadEvent, Message
  <2>. QED  BY <1>9, <2>1, <2>2 DEF ReadEvent
<1>10. ASSUME ReadGarbage PROVE TypeOK'
  BY <1>10 DEF ReadGarbage
<1>11. ASSUME ReadEof PROVE TypeOK'
  BY <1>11 DEF ReadEof
<1>12. ASSUME NEW s \in inbox, AdapterAnswer(s) PROVE TypeOK'
  <2>1. Response(s) \in Message /\ Garbage \in Message
    BY DEF Response, Garbage, Message
  <2>2. wire' \in Seq(Message)
    <3>1. wire' = Append(wire, Response(s)) \/ wire' = Append(wire, Garbage)
      BY <1>12 DEF AdapterAnswer
    <3>2. \A m \in Message : Append(wire, m) \in Seq(Message)
      OBVIOUS
    <3>. QED  BY <2>1, <3>1, <3>2, Zenon
  <2>3. inbox' \subseteq Nat /\ answered' \subseteq Nat
    BY <1>12 DEF AdapterAnswer
  <2>. QED  BY <1>12, <2>2, <2>3 DEF AdapterAnswer
<1>13. ASSUME NEW e \in Events \cup {Reverse}, AdapterEmit(e) PROVE TypeOK'
  <2>1. Event(e) \in Message
    BY DEF Event, Message
  <2>. QED  BY <1>13, <2>1 DEF AdapterEmit
<1>14. ASSUME AdapterExit PROVE TypeOK'
  BY <1>14 DEF AdapterExit
<1>15. ASSUME TakeEvent PROVE TypeOK'
  <2>1. Tail(events) \in Seq(Events \cup {Reverse}) /\ Len(Tail(events)) <= EventCap
    BY <1>15 DEF TakeEvent
  <2>. QED  BY <1>15, <2>1 DEF TakeEvent
<1>16. ASSUME UNCHANGED vars PROVE TypeOK'
  BY <1>16 DEF vars
<1>. HIDE DEF TypeOK
<1>. QED
  BY <1>1, <1>2, <1>3, <1>4, <1>5, <1>6, <1>7, <1>8, <1>9, <1>10, <1>11, <1>12, <1>13,
     <1>14, <1>15, <1>16, StepCases

(* No interleaving takes a variable out of its type or a channel over its  *)
(* capacity.                                                               *)
THEOREM TypeCorrect == Spec => []TypeOK
BY TypeInit, TypeStep, PTL DEF Spec

(* What Append and Tail do to the elements of a sequence. *)
LEMMA AppendAt ==
  ASSUME NEW S, NEW q \in Seq(S), NEW x \in S
  PROVE  /\ Append(q, x) \in Seq(S)
         /\ \A i \in 1..Len(Append(q, x)) :
              \/ i \in 1..Len(q) /\ Append(q, x)[i] = q[i]
              \/ i = Len(q) + 1 /\ Append(q, x)[i] = x
OBVIOUS

LEMMA TailAt ==
  ASSUME NEW S, NEW q \in Seq(S), q # <<>>
  PROVE  /\ Tail(q) \in Seq(S)
         /\ 1 \in 1..Len(q) /\ Head(q) = q[1] /\ Head(q) \in S
         /\ \A i \in 1..Len(Tail(q)) : i + 1 \in 1..Len(q) /\ Tail(q)[i] = q[i + 1]
                                       /\ i + 1 # 1
OBVIOUS

LEMMA Elements ==
  ASSUME TypeOK
  PROVE  /\ \A i \in 1..Len(outbound) : outbound[i] \in Frame /\ outbound[i].seq \in Nat
         /\ \A i \in 1..Len(wire) : wire[i] \in Message
         /\ \A i \in 1..Len(wire) : Answer(i) => wire[i].request_seq \in Nat
<1>1. outbound \in Seq(Frame) /\ wire \in Seq(Message)
  BY DEF TypeOK
<1>2. \A i \in 1..Len(outbound) : outbound[i] \in Frame
  BY <1>1, ElementOfSeq
<1>3. \A i \in 1..Len(wire) : wire[i] \in Message
  BY <1>1, ElementOfSeq
<1>4. \A f \in Frame : f.seq \in Nat
  BY DEF Frame
<1>5. \A m \in Message : m.type = "response" => m.request_seq \in Nat
  BY DEF Message
<1>. QED  BY <1>2, <1>3, <1>4, <1>5 DEF Answer

LEMMA InvInit == Init => IInv
BY ClientAssumption, TypeInit DEF Init, IInv, KindsOK, IssuedBelowSeq, UnsentFresh,
   QueuedOnce, AnsweredOnce, RegisteredOpen, SendingRegistered, HeldOnce,
   Correlation, NoLostOneshot, DistinctSeqs, Idle, Numbered, Unsent, Queued, Answer, InRequest

(* What each part of the invariant speaks about: a step that leaves those
   variables alone keeps it. *)
LEMMA Undisturbed ==
  /\ KindsOK /\ UNCHANGED <<caller>> => KindsOK'
  /\ IssuedBelowSeq /\ UNCHANGED <<answered, caller, inbox, outbound, pending, seq>>
       => IssuedBelowSeq'
  /\ UnsentFresh /\ UNCHANGED <<answered, caller, inbox, outbound>> => UnsentFresh'
  /\ QueuedOnce /\ UNCHANGED <<answered, inbox, outbound>> => QueuedOnce'
  /\ AnsweredOnce /\ UNCHANGED <<answered, wire>> => AnsweredOnce'
  /\ RegisteredOpen /\ UNCHANGED <<caller, pending>> => RegisteredOpen'
  /\ SendingRegistered /\ UNCHANGED <<caller, pending>> => SendingRegistered'
  /\ HeldOnce /\ UNCHANGED <<answered, pending, reply, wire>> => HeldOnce'
  /\ Correlation /\ UNCHANGED <<caller, reply>> => Correlation'
  /\ NoLostOneshot /\ UNCHANGED <<caller, pending, reply>> => NoLostOneshot'
  /\ DistinctSeqs /\ UNCHANGED <<caller, pending>> => DistinctSeqs'
BY DEF KindsOK, IssuedBelowSeq, UnsentFresh, QueuedOnce, AnsweredOnce, RegisteredOpen,
   SendingRegistered, HeldOnce, Correlation, NoLostOneshot, DistinctSeqs, Numbered, Unsent, Queued, Answer,
   InRequest

LEMMA InvStep ==
  ASSUME IInv, [Next]_vars
  PROVE  IInv'
<1>. TypeOK /\ TypeOK'
  BY TypeStep DEF IInv

<1>. USE ClientAssumption DEF IInv, TypeOK, CallerState, Frame, taskVars, adapterVars, Idle,
         Numbered, Unsent, Queued, Answer, InRequest
<1>1. ASSUME NEW c \in Callers, NEW kind \in {"request", "notify"}, Begin(c, kind)
      PROVE  IInv'
  <2>1. KindsOK'
    BY <1>1 DEF Begin, KindsOK
  <2>2. IssuedBelowSeq'
    <3>1. \A d \in Callers : Numbered(d)' => caller'[d].seq < seq'
      BY <1>1 DEF Begin, IssuedBelowSeq
    <3>2. \A i \in 1..Len(outbound) : Queued(i) => outbound[i].seq < seq'
      BY <1>1, Elements, SMTT(30) DEF Begin, IssuedBelowSeq
    <3>3. \A s \in inbox \cup answered : s < seq'
      BY <1>1 DEF Begin, IssuedBelowSeq
    <3>4. \A p \in pending : p.seq < seq'
      BY <1>1 DEF Begin, IssuedBelowSeq
    <3>. QED  BY <1>1, <3>1, <3>2, <3>3, <3>4 DEF Begin, IssuedBelowSeq
  <2>3. UnsentFresh'
    BY <1>1 DEF Begin, UnsentFresh, IssuedBelowSeq, KindsOK, DistinctSeqs
  <2>6. RegisteredOpen'
    BY <1>1 DEF Begin, RegisteredOpen, IssuedBelowSeq, KindsOK, DistinctSeqs
  <2>7. SendingRegistered'
    BY <1>1 DEF Begin, SendingRegistered, RegisteredOpen
  <2>9. Correlation'
    BY <1>1 DEF Begin, Correlation, KindsOK, RegisteredOpen, SendingRegistered
  <2>10. NoLostOneshot'
    BY <1>1 DEF Begin, NoLostOneshot, SendingRegistered, RegisteredOpen, KindsOK
  <2>11. DistinctSeqs'
    BY <1>1 DEF Begin, DistinctSeqs, IssuedBelowSeq, RegisteredOpen
  <2>12. QueuedOnce' /\ AnsweredOnce' /\ HeldOnce'
    BY <1>1, Undisturbed DEF Begin
  <2>. QED  BY <2>1, <2>2, <2>3, <2>6, <2>7, <2>9, <2>10, <2>11, <2>12
<1>2. ASSUME NEW c \in Callers, BeginRaw(c) PROVE IInv'
  <2>1. KindsOK'
    BY <1>2 DEF BeginRaw, KindsOK
  <2>2. IssuedBelowSeq'
    BY <1>2 DEF BeginRaw, IssuedBelowSeq
  <2>3. UnsentFresh'
    BY <1>2 DEF BeginRaw, UnsentFresh, IssuedBelowSeq, KindsOK, DistinctSeqs
  <2>6. RegisteredOpen'
    BY <1>2 DEF BeginRaw, RegisteredOpen, IssuedBelowSeq, KindsOK, DistinctSeqs
  <2>7. SendingRegistered'
    BY <1>2 DEF BeginRaw, SendingRegistered, RegisteredOpen
  <2>9. Correlation'
    BY <1>2 DEF BeginRaw, Correlation, KindsOK, RegisteredOpen, SendingRegistered
  <2>10. NoLostOneshot'
    BY <1>2 DEF BeginRaw, NoLostOneshot, SendingRegistered, RegisteredOpen, KindsOK
  <2>11. DistinctSeqs'
    BY <1>2 DEF BeginRaw, DistinctSeqs, IssuedBelowSeq, RegisteredOpen
  <2>12. QueuedOnce' /\ AnsweredOnce' /\ HeldOnce'
    BY <1>2, Undisturbed DEF BeginRaw
  <2>. QED  BY <2>1, <2>2, <2>3, <2>6, <2>7, <2>9, <2>10, <2>11, <2>12
<1>3. ASSUME NEW c \in Callers, Register(c) PROVE IInv'
  <2>a. /\ [seq |-> caller[c].seq, to |-> c] \in pending'
        /\ \A p \in pending' : p \in pending \/ (p.seq = caller[c].seq /\ p.to = c)
        /\ \A p \in pending : p.seq # caller[c].seq => p \in pending'
    BY <1>3 DEF Register, Insert
  <2>b. /\ caller[c].pc = "allocated" /\ caller[c].kind = "request"
        /\ caller' = [caller EXCEPT ![c].pc = "sending"]
        /\ UNCHANGED <<seq, reply, outbound, inbox, answered, wire>>
    BY <1>3 DEF Register, KindsOK
  <2>1. KindsOK'
    BY <1>3 DEF Register, Insert, KindsOK
  <2>2. IssuedBelowSeq'
    <3>1. \A i \in 1..Len(outbound') : Queued(i)' => outbound'[i].seq < seq
      BY <2>b DEF IssuedBelowSeq
    <3>. QED  BY <2>a, <2>b, <3>1 DEF IssuedBelowSeq
  <2>3. UnsentFresh'
    BY <1>3 DEF Register, Insert, UnsentFresh, IssuedBelowSeq, KindsOK, DistinctSeqs
  <2>6. RegisteredOpen'
    BY <1>3 DEF Register, Insert, RegisteredOpen, IssuedBelowSeq, KindsOK, DistinctSeqs
  <2>7. SendingRegistered'
    <3>. SUFFICES ASSUME NEW d \in Callers, InRequest(d)', caller'[d].pc = "sending"
                  PROVE  [seq |-> caller'[d].seq, to |-> d] \in pending'
      BY DEF SendingRegistered
    <3>1. CASE d = c
      BY <2>a, <2>b, <3>1
    <3>2. CASE d # c
      BY <2>a, <2>b, <3>2, ZenonT(60) DEF SendingRegistered, DistinctSeqs
    <3>. QED  BY <3>1, <3>2
  <2>8. HeldOnce'
    <3>1. caller[c].seq \notin answered
      BY <2>b DEF UnsentFresh
    <3>. SUFFICES ASSUME NEW d \in Callers, reply[d] # None
                  PROVE  \A p \in pending' : p.seq # reply[d]
      BY <2>b DEF HeldOnce
    <3>. QED  BY <2>a, <3>1 DEF HeldOnce
  <2>9. Correlation'
    BY <1>3 DEF Register, Insert, Correlation, KindsOK, RegisteredOpen, SendingRegistered
  <2>10. NoLostOneshot'
    <3>. SUFFICES ASSUME NEW d \in Callers, caller'[d].pc = "waiting"
                  PROVE  \/ [seq |-> caller'[d].seq, to |-> d] \in pending'
                         \/ reply'[d] = caller'[d].seq
      BY DEF NoLostOneshot
    <3>1. d # c /\ caller'[d] = caller[d]
      BY <2>b
    <3>2. caller[d].seq # caller[c].seq
      BY <2>b, <3>1 DEF DistinctSeqs, KindsOK
    <3>. QED  BY <2>a, <2>b, <3>1, <3>2 DEF NoLostOneshot
  <2>11. DistinctSeqs'
    BY <1>3, SMTT(30)
       DEF Register, Insert, DistinctSeqs, IssuedBelowSeq, RegisteredOpen
  <2>12. QueuedOnce' /\ AnsweredOnce'
    BY <1>3, Undisturbed DEF Register
  <2>. QED  BY <2>1, <2>2, <2>3, <2>6, <2>7, <2>8, <2>9, <2>10, <2>11, <2>12
<1>4. ASSUME NEW c \in Callers, Send(c) PROVE IInv'
  <2>a. [kind |-> caller[c].kind, seq |-> caller[c].seq] \in Frame
    BY DEF CallerState, Frame
  <2>b. \A i \in 1..Len(outbound') :
          \/ /\ i \in 1..Len(outbound)
             /\ Queued(i)' <=> Queued(i)
             /\ outbound'[i].seq = outbound[i].seq
          \/ /\ i = Len(outbound) + 1
             /\ Queued(i)' <=> caller[c].kind # "raw"
             /\ outbound'[i].seq = caller[c].seq
    <3>1. \A i \in 1..Len(outbound') :
            \/ i \in 1..Len(outbound) /\ outbound'[i] = outbound[i]
            \/ i = Len(outbound) + 1 /\ outbound'[i] = [kind |-> caller[c].kind, seq |-> caller[c].seq]
      BY <1>4, <2>a, AppendAt DEF Send
    <3>. SUFFICES ASSUME NEW i \in 1..Len(outbound')
                  PROVE  \/ /\ i \in 1..Len(outbound)
                            /\ Queued(i)' <=> Queued(i)
                            /\ outbound'[i].seq = outbound[i].seq
                         \/ /\ i = Len(outbound) + 1
                            /\ Queued(i)' <=> caller[c].kind # "raw"
                            /\ outbound'[i].seq = caller[c].seq
      OBVIOUS
    <3>2. CASE i \in 1..Len(outbound) /\ outbound'[i] = outbound[i]
      BY <3>2
    <3>3. CASE i = Len(outbound) + 1
               /\ outbound'[i] = [kind |-> caller[c].kind, seq |-> caller[c].seq]
      BY <3>3
    <3>. QED  BY <3>1, <3>2, <3>3
  <2>1. KindsOK'
    BY <1>4, AppendAt DEF Send, KindsOK
  <2>2. IssuedBelowSeq'
    BY <1>4, AppendAt, SMTT(30) DEF Send, IssuedBelowSeq
  <2>3. UnsentFresh'
    BY <1>4, AppendAt DEF Send, UnsentFresh, IssuedBelowSeq, KindsOK, DistinctSeqs
  <2>4. QueuedOnce'
    <3>1. UNCHANGED <<inbox, answered>> /\ caller[c].pc = "sending"
      BY <1>4 DEF Send
    <3>2. caller[c].kind # "raw" =>
            /\ caller[c].seq \notin inbox \cup answered
            /\ \A i \in 1..Len(outbound) : Queued(i) => outbound[i].seq # caller[c].seq
      BY <3>1 DEF UnsentFresh
    <3>3. ASSUME NEW i \in 1..Len(outbound'), Queued(i)'
          PROVE  outbound'[i].seq \notin inbox \cup answered
      BY <2>b, <3>2, <3>3 DEF QueuedOnce
    <3>4. ASSUME NEW i \in 1..Len(outbound'), NEW j \in 1..Len(outbound'),
                 Queued(i)', Queued(j)', outbound'[i].seq = outbound'[j].seq
          PROVE  i = j
      <4>1. CASE /\ i \in 1..Len(outbound) /\ Queued(i) /\ outbound'[i].seq = outbound[i].seq
                 /\ j \in 1..Len(outbound) /\ Queued(j) /\ outbound'[j].seq = outbound[j].seq
        BY <3>4, <4>1 DEF QueuedOnce
      <4>2. CASE /\ i \in 1..Len(outbound) /\ Queued(i) /\ outbound'[i].seq = outbound[i].seq
                 /\ caller[c].kind # "raw" /\ outbound'[j].seq = caller[c].seq
        BY <3>2, <3>4, <4>2
      <4>3. CASE /\ j \in 1..Len(outbound) /\ Queued(j) /\ outbound'[j].seq = outbound[j].seq
                 /\ caller[c].kind # "raw" /\ outbound'[i].seq = caller[c].seq
        BY <3>2, <3>4, <4>3
      <4>. HIDE DEF Queued
      <4>. QED  BY <2>b, <3>4, <4>1, <4>2, <4>3
    <3>. QED  BY <3>1, <3>3, <3>4 DEF QueuedOnce
  <2>6. RegisteredOpen'
    BY <1>4, AppendAt DEF Send, RegisteredOpen, IssuedBelowSeq, KindsOK, DistinctSeqs
  <2>7. SendingRegistered'
    BY <1>4, AppendAt DEF Send, SendingRegistered, RegisteredOpen
  <2>9. Correlation'
    BY <1>4, AppendAt DEF Send, Correlation, KindsOK, RegisteredOpen, SendingRegistered
  <2>10. NoLostOneshot'
    BY <1>4, AppendAt DEF Send, NoLostOneshot, SendingRegistered, RegisteredOpen, KindsOK
  <2>11. DistinctSeqs'
    BY <1>4, AppendAt DEF Send, DistinctSeqs, IssuedBelowSeq, RegisteredOpen
  <2>12. AnsweredOnce' /\ HeldOnce'
    BY <1>4, Undisturbed DEF Send
  <2>. QED  BY <2>1, <2>2, <2>3, <2>4, <2>6, <2>7, <2>9, <2>10, <2>11, <2>12
<1>5. ASSUME NEW c \in Callers, Leave(c), caller[c].pc # "idle" PROVE IInv'
  <2>a. /\ \A p \in pending' : \E q \in pending : /\ p.seq = q.seq
                                               /\ p.to = IF q.to = c THEN None ELSE q.to
        /\ \A q \in pending : q.to # c => q \in pending'
    BY <1>5 DEF Leave, DropReceiver
  <2>b. /\ caller' = [caller EXCEPT ![c] = Idle]
        /\ UNCHANGED <<seq, outbound, inbox, answered, wire>>
    BY <1>5 DEF Leave
  <2>1. KindsOK'
    BY <1>5 DEF Leave, DropReceiver, KindsOK
  <2>2. IssuedBelowSeq'
    <3>1. \A d \in Callers : Numbered(d)' => Numbered(d) /\ caller'[d] = caller[d]
      BY <2>b
    <3>2. \A p \in pending' : p.seq < seq
      BY <2>a DEF IssuedBelowSeq
    <3>. QED  BY <2>b, <3>1, <3>2 DEF IssuedBelowSeq
  <2>3. UnsentFresh'
    BY <1>5 DEF Leave, DropReceiver, UnsentFresh, IssuedBelowSeq, KindsOK, DistinctSeqs
  <2>6. RegisteredOpen'
    BY <1>5 DEF Leave, DropReceiver, RegisteredOpen, IssuedBelowSeq, KindsOK, DistinctSeqs
  <2>7. SendingRegistered'
    BY <1>5 DEF Leave, DropReceiver, SendingRegistered, RegisteredOpen
  <2>8. HeldOnce'
    BY <1>5 DEF Leave, DropReceiver, HeldOnce, AnsweredOnce, Correlation, RegisteredOpen,
       QueuedOnce
  <2>9. Correlation'
    BY <1>5 DEF Leave, DropReceiver, Correlation, KindsOK, RegisteredOpen, SendingRegistered
  <2>10. NoLostOneshot'
    BY <1>5 DEF Leave, DropReceiver, NoLostOneshot, SendingRegistered, RegisteredOpen,
       KindsOK
  <2>11. DistinctSeqs'
    <3>1. ASSUME NEW p \in pending', NEW q \in pending', p.seq = q.seq
          PROVE  p = q
      <4>1. PICK p0 \in pending : p = IF p0.to = c THEN [seq |-> p0.seq, to |-> None] ELSE p0
        BY <1>5 DEF Leave, DropReceiver
      <4>2. PICK q0 \in pending : q = IF q0.to = c THEN [seq |-> q0.seq, to |-> None] ELSE q0
        BY <1>5 DEF Leave, DropReceiver
      <4>3. p0 = q0
        BY <3>1, <4>1, <4>2 DEF DistinctSeqs
      <4>. QED  BY <4>1, <4>2, <4>3
    <3>2. \A d \in Callers : caller'[d] = caller[d] \/ caller'[d].pc = "idle"
      BY <2>b
    <3>3. ASSUME NEW d \in Callers, NEW e \in Callers, d # e,
                 caller'[d].pc # "idle", caller'[e].pc # "idle",
                 caller'[d].kind # "raw", caller'[e].kind # "raw"
          PROVE  caller'[d].seq # caller'[e].seq
      BY <3>2, <3>3, SMTT(30) DEF DistinctSeqs
    <3>. QED  BY <3>1, <3>3 DEF DistinctSeqs
  <2>12. QueuedOnce' /\ AnsweredOnce'
    BY <1>5, Undisturbed DEF Leave
  <2>. QED  BY <2>1, <2>2, <2>3, <2>6, <2>7, <2>8, <2>9, <2>10, <2>11, <2>12
<1>6. ASSUME WriteFrame PROVE IInv'
  <2>a. /\ outbound' = Tail(outbound) /\ outbound # <<>>
        /\ inbox' = inbox \/ (Queued(1) /\ inbox' = inbox \cup {outbound[1].seq})
        /\ UNCHANGED <<seq, caller, reply, pending, answered, wire>>
    BY <1>6, TailAt DEF WriteFrame
  <2>b. 1 \in 1..Len(outbound) /\ \A i \in 1..Len(outbound') : /\ i + 1 \in 1..Len(outbound)
                                  /\ outbound'[i] = outbound[i + 1] /\ i + 1 # 1
    BY <2>a, TailAt
  <2>2. IssuedBelowSeq'
    BY <1>6, TailAt DEF WriteFrame, IssuedBelowSeq
  <2>3. UnsentFresh'
    <3>1. ASSUME NEW d \in Callers, Unsent(d)
          PROVE  caller[d].seq \notin inbox' \cup answered
      <4>1. caller[d].seq \notin inbox \cup answered
        BY <3>1 DEF UnsentFresh
      <4>2. Queued(1) => outbound[1].seq # caller[d].seq
        BY <3>1 DEF UnsentFresh
      <4>. QED  BY <2>a, <4>1, <4>2
    <3>2. ASSUME NEW d \in Callers, Unsent(d), NEW i \in 1..Len(outbound'), Queued(i)'
          PROVE  outbound'[i].seq # caller[d].seq
      <4>1. Queued(i + 1) /\ outbound'[i] = outbound[i + 1] /\ i + 1 \in 1..Len(outbound)
        BY <2>b, <3>2
      <4>. QED  BY <3>2, <4>1 DEF UnsentFresh
    <3>. QED  BY <2>a, <3>1, <3>2 DEF UnsentFresh
  <2>4. QueuedOnce'
    BY <1>6, TailAt, SMTT(30) DEF WriteFrame, QueuedOnce, UnsentFresh
  <2>12. KindsOK' /\ AnsweredOnce' /\ RegisteredOpen' /\ SendingRegistered'
         /\ HeldOnce' /\ Correlation' /\ NoLostOneshot' /\ DistinctSeqs'
    BY <1>6, Undisturbed DEF WriteFrame
  <2>. QED  BY <2>2, <2>3, <2>4, <2>12
<1>7. ASSUME WriteDead PROVE IInv'
  <2>a. /\ outbound' = <<>> \/ (outbound' = Tail(outbound) /\ outbound # <<>>)
        /\ UNCHANGED <<seq, caller, reply, pending, inbox, answered, wire>>
    BY <1>7 DEF WriteDead
  <2>b. \A i \in 1..Len(outbound') : /\ i + 1 \in 1..Len(outbound)
                                  /\ outbound'[i] = outbound[i + 1]
    <3>1. CASE outbound' = <<>>
      BY <3>1
    <3>2. CASE outbound' = Tail(outbound) /\ outbound # <<>>
      BY <3>2, TailAt
    <3>. QED  BY <2>a, <3>1, <3>2
  <2>2. IssuedBelowSeq'
    <3>1. \A i \in 1..Len(outbound') : Queued(i)' => outbound'[i].seq < seq
      <4>1. \A i \in 1..Len(outbound') : Queued(i)' =>
              Queued(i + 1) /\ outbound'[i] = outbound[i + 1] /\ i + 1 \in 1..Len(outbound)
        BY <2>b
      <4>. QED  BY <4>1 DEF IssuedBelowSeq
    <3>. QED  BY <2>a, <3>1 DEF IssuedBelowSeq
  <2>3. UnsentFresh'
    <3>1. ASSUME NEW d \in Callers, Unsent(d), NEW i \in 1..Len(outbound'), Queued(i)'
          PROVE  outbound'[i].seq # caller[d].seq
      <4>1. Queued(i + 1) /\ outbound'[i] = outbound[i + 1] /\ i + 1 \in 1..Len(outbound)
        BY <2>b, <3>1
      <4>. QED  BY <3>1, <4>1 DEF UnsentFresh
    <3>. QED  BY <2>a, <3>1 DEF UnsentFresh
  <2>4. QueuedOnce'
    <3>1. \A i \in 1..Len(outbound') : Queued(i)' =>
            Queued(i + 1) /\ outbound'[i] = outbound[i + 1] /\ i + 1 \in 1..Len(outbound)
      BY <2>b
    <3>2. ASSUME NEW i \in 1..Len(outbound'), NEW j \in 1..Len(outbound'),
                 Queued(i)', Queued(j)', outbound'[i].seq = outbound'[j].seq
          PROVE  i = j
      <4>1. /\ i + 1 \in 1..Len(outbound) /\ j + 1 \in 1..Len(outbound)
            /\ Queued(i + 1) /\ Queued(j + 1) /\ outbound[i + 1].seq = outbound[j + 1].seq
        BY <3>1, <3>2
      <4>2. i + 1 = j + 1
        BY <4>1 DEF QueuedOnce
      <4>. QED  BY <4>2
    <3>3. \A i \in 1..Len(outbound') : Queued(i)' => outbound'[i].seq \notin inbox \cup answered
      BY <3>1 DEF QueuedOnce
    <3>. QED  BY <2>a, <3>2, <3>3 DEF QueuedOnce
  <2>12. KindsOK' /\ AnsweredOnce' /\ RegisteredOpen' /\ SendingRegistered'
         /\ HeldOnce' /\ Correlation' /\ NoLostOneshot' /\ DistinctSeqs'
    BY <1>7, Undisturbed DEF WriteDead
  <2>. QED  BY <2>2, <2>3, <2>4, <2>12
<1>8. ASSUME ReadResponse PROVE IInv'
  <2>a. PICK s \in Nat : /\ Answer(1) /\ s = wire[1].request_seq
                         /\ pending' = pending \ {p \in pending : p.seq = s}
                         /\ reply' = [c \in Callers |->
                              IF \E p \in pending : p.seq = s /\ p.to = c THEN s ELSE reply[c]]
    <3>1. Head(wire) \in Message /\ Head(wire) = wire[1] /\ 1 \in 1..Len(wire)
      BY <1>8, TailAt DEF ReadResponse
    <3>2. wire[1].request_seq \in Nat /\ Answer(1)
      BY <1>8, <3>1 DEF ReadResponse, Message
    <3>3. /\ pending' = pending \ {p \in pending : p.seq = wire[1].request_seq}
          /\ reply' = [c \in Callers |->
               IF \E p \in pending : p.seq = wire[1].request_seq /\ p.to = c
               THEN wire[1].request_seq ELSE reply[c]]
      BY <1>8, <3>1 DEF ReadResponse
    <3>. QED  BY <3>2, <3>3
  <2>b. /\ \A i \in 1..Len(wire') : i + 1 \in 1..Len(wire) /\ wire'[i] = wire[i + 1] /\ i + 1 # 1
        /\ UNCHANGED <<seq, caller, outbound, inbox, answered>>
    BY <1>8, TailAt DEF ReadResponse
  <2>c. \A i \in 1..Len(wire') : Answer(i)' =>
          /\ i + 1 \in 1..Len(wire) /\ Answer(i + 1) /\ i + 1 # 1
          /\ wire'[i].request_seq = wire[i + 1].request_seq
    BY <2>b
  <2>2. IssuedBelowSeq'
    BY <1>8, TailAt DEF ReadResponse, IssuedBelowSeq
  <2>5. AnsweredOnce'
    <3>1. \A i \in 1..Len(wire') : Answer(i)' => wire'[i].request_seq \in answered
      BY <2>c DEF AnsweredOnce
    <3>2. ASSUME NEW i \in 1..Len(wire'), NEW j \in 1..Len(wire'),
                 Answer(i)', Answer(j)', wire'[i].request_seq = wire'[j].request_seq
          PROVE  i = j
      <4>1. /\ i + 1 \in 1..Len(wire) /\ Answer(i + 1) /\ j + 1 \in 1..Len(wire) /\ Answer(j + 1)
            /\ wire[i + 1].request_seq = wire[j + 1].request_seq
        BY <2>c, <3>2
      <4>2. i + 1 = j + 1
        BY <4>1 DEF AnsweredOnce
      <4>. QED  BY <4>2
    <3>. QED  BY <2>b, <3>1, <3>2 DEF AnsweredOnce
  <2>6. RegisteredOpen'
    BY <1>8, TailAt DEF ReadResponse, RegisteredOpen, IssuedBelowSeq, KindsOK, DistinctSeqs
  <2>7. SendingRegistered'
    <3>1. s \in answered
      BY <2>a DEF AnsweredOnce
    <3>. SUFFICES ASSUME NEW c \in Callers, InRequest(c), caller[c].pc = "sending"
                  PROVE  [seq |-> caller[c].seq, to |-> c] \in pending'
      BY <2>b DEF SendingRegistered
    <3>2. caller[c].seq # s
      BY <3>1 DEF UnsentFresh
    <3>. QED  BY <2>a, <3>2 DEF SendingRegistered
  <2>8. HeldOnce'
    <3>0. s \in answered
      BY <2>a DEF AnsweredOnce
    <3>. SUFFICES ASSUME NEW c \in Callers, reply'[c] # None
                  PROVE  /\ reply'[c] \in answered
                         /\ \A p \in pending' : p.seq # reply'[c]
                         /\ \A i \in 1..Len(wire') : Answer(i)' => wire'[i].request_seq # reply'[c]
      BY <2>b DEF HeldOnce
    <3>1. CASE reply'[c] = s
      <4>1. \A p \in pending' : p.seq # s
        BY <2>a
      <4>2. \A i \in 1..Len(wire') : Answer(i)' => wire'[i].request_seq # s
        <5>. SUFFICES ASSUME NEW i \in 1..Len(wire'), Answer(i)', wire'[i].request_seq = s
                      PROVE  FALSE
          OBVIOUS
        <5>1. i + 1 \in 1..Len(wire) /\ Answer(i + 1) /\ wire[i + 1].request_seq = s
          BY <2>c
        <5>2. 1 \in 1..Len(wire) /\ Answer(1) /\ wire[1].request_seq = s
          BY <2>a
        <5>3. i + 1 = 1
          BY <5>1, <5>2 DEF AnsweredOnce
        <5>. QED  BY <5>3
      <4>. QED  BY <3>0, <3>1, <4>1, <4>2
    <3>2. CASE reply'[c] = reply[c]
      <4>1. /\ reply[c] \in answered
            /\ \A p \in pending : p.seq # reply[c]
            /\ \A i \in 1..Len(wire) : Answer(i) => wire[i].request_seq # reply[c]
        BY <3>2 DEF HeldOnce
      <4>2. \A p \in pending' : p.seq # reply[c]
        BY <2>a, <4>1
      <4>3. \A i \in 1..Len(wire') : Answer(i)' => wire'[i].request_seq # reply[c]
        <5>. HIDE DEF IInv, TypeOK, Answer
        <5>. QED  BY <2>c, <4>1
      <4>. QED  BY <3>2, <4>1, <4>2, <4>3
    <3>. QED  BY <2>a, <3>1, <3>2
  <2>9. Correlation'
    <3>. SUFFICES ASSUME NEW c \in Callers, reply'[c] # None
                  PROVE  caller[c].pc = "waiting" /\ reply'[c] = caller[c].seq
      BY <2>b DEF Correlation
    <3>1. CASE \E p \in pending : p.seq = s /\ p.to = c
      <4>1. InRequest(c) /\ s = caller[c].seq
        BY <3>1 DEF RegisteredOpen
      <4>2. s \in answered
        BY <2>a DEF AnsweredOnce
      <4>3. caller[c].pc = "waiting"
        BY <4>1, <4>2 DEF UnsentFresh
      <4>. QED  BY <2>a, <3>1, <4>1, <4>3
    <3>2. CASE ~ \E p \in pending : p.seq = s /\ p.to = c
      BY <2>a, <3>2 DEF Correlation
    <3>. QED  BY <3>1, <3>2
  <2>10. NoLostOneshot'
    BY <1>8, TailAt DEF ReadResponse, NoLostOneshot, SendingRegistered, RegisteredOpen,
       KindsOK
  <2>11. DistinctSeqs'
    BY <1>8, TailAt DEF ReadResponse, DistinctSeqs, IssuedBelowSeq, RegisteredOpen
  <2>12. KindsOK' /\ UnsentFresh' /\ QueuedOnce'
    BY <1>8, Undisturbed DEF ReadResponse
  <2>. QED  BY <2>2, <2>5, <2>6, <2>7, <2>8, <2>9, <2>10, <2>11, <2>12
<1>9. ASSUME ReadEvent PROVE IInv'
  <2>5. AnsweredOnce'
    BY <1>9, TailAt DEF ReadEvent, AnsweredOnce, QueuedOnce
  <2>8. HeldOnce'
    BY <1>9, TailAt DEF ReadEvent, HeldOnce, AnsweredOnce, Correlation, RegisteredOpen,
       QueuedOnce
  <2>12. KindsOK' /\ IssuedBelowSeq' /\ UnsentFresh' /\ QueuedOnce'
         /\ RegisteredOpen' /\ SendingRegistered' /\ Correlation'
         /\ NoLostOneshot' /\ DistinctSeqs'
    BY <1>9, Undisturbed DEF ReadEvent
  <2>. QED  BY <2>5, <2>8, <2>12
<1>10. ASSUME ReadGarbage PROVE IInv'
  <2>5. AnsweredOnce'
    BY <1>10, TailAt DEF ReadGarbage, AnsweredOnce, QueuedOnce
  <2>8. HeldOnce'
    BY <1>10, TailAt DEF ReadGarbage, HeldOnce, AnsweredOnce, Correlation,
       RegisteredOpen, QueuedOnce
  <2>12. KindsOK' /\ IssuedBelowSeq' /\ UnsentFresh' /\ QueuedOnce'
         /\ RegisteredOpen' /\ SendingRegistered' /\ Correlation'
         /\ NoLostOneshot' /\ DistinctSeqs'
    BY <1>10, Undisturbed DEF ReadGarbage
  <2>. QED  BY <2>5, <2>8, <2>12
<1>11. ASSUME ReadEof PROVE IInv'
  BY <1>11, TypeStep, Undisturbed DEF ReadEof
<1>12. ASSUME NEW s \in inbox, AdapterAnswer(s) PROVE IInv'
  <2>a. /\ \/ wire' = Append(wire, Response(s)) /\ answered' = answered \cup {s}
           \/ wire' = Append(wire, Garbage) /\ answered' = answered
        /\ inbox' = inbox \ {s}
        /\ UNCHANGED <<seq, caller, reply, pending, outbound>>
    BY <1>12 DEF AdapterAnswer
  <2>b. Response(s) \in Message /\ Garbage \in Message
    BY DEF Response, Garbage, Message
  <2>c. \A i \in 1..Len(wire') : Answer(i)' =>
          \/ i \in 1..Len(wire) /\ wire'[i] = wire[i] /\ Answer(i)
          \/ i = Len(wire) + 1 /\ wire'[i].request_seq = s /\ s \in answered'
    <3>1. CASE wire' = Append(wire, Response(s)) /\ answered' = answered \cup {s}
      BY <2>b, <3>1, AppendAt DEF Response
    <3>2. CASE wire' = Append(wire, Garbage) /\ answered' = answered
      BY <2>b, <3>2, AppendAt DEF Garbage
    <3>. QED  BY <2>a, <3>1, <3>2
  <2>d. s \notin answered /\ answered \subseteq answered' /\ answered' \subseteq answered \cup {s}
    BY <2>a DEF QueuedOnce
  <2>2. IssuedBelowSeq'
    BY <1>12, AppendAt DEF AdapterAnswer, Response, Garbage, IssuedBelowSeq
  <2>3. UnsentFresh'
    <3>1. inbox' \cup answered' \subseteq inbox \cup answered
      BY <2>a
    <3>. QED  BY <2>a, <3>1 DEF UnsentFresh
  <2>4. QueuedOnce'
    <3>1. inbox' \cup answered' \subseteq inbox \cup answered /\ inbox' \cap answered' = {}
      BY <2>a DEF QueuedOnce
    <3>. QED  BY <2>a, <3>1, SMTT(30) DEF QueuedOnce
  <2>5. AnsweredOnce'
    <3>1. ASSUME NEW i \in 1..Len(wire'), Answer(i)'
          PROVE  wire'[i].request_seq \in answered'
      BY <2>c, <2>d, <3>1 DEF AnsweredOnce
    <3>2. ASSUME NEW i \in 1..Len(wire'), NEW j \in 1..Len(wire'),
                 Answer(i)', Answer(j)', wire'[i].request_seq = wire'[j].request_seq
          PROVE  i = j
      <4>1. CASE /\ i \in 1..Len(wire) /\ wire'[i] = wire[i] /\ Answer(i)
                 /\ j \in 1..Len(wire) /\ wire'[j] = wire[j] /\ Answer(j)
        BY <3>2, <4>1 DEF AnsweredOnce
      <4>2. CASE /\ i \in 1..Len(wire) /\ wire'[i] = wire[i] /\ Answer(i)
                 /\ wire'[j].request_seq = s
        BY <2>d, <3>2, <4>2 DEF AnsweredOnce
      <4>3. CASE /\ j \in 1..Len(wire) /\ wire'[j] = wire[j] /\ Answer(j)
                 /\ wire'[i].request_seq = s
        BY <2>d, <3>2, <4>3 DEF AnsweredOnce
      <4>. QED  BY <2>c, <3>2, <4>1, <4>2, <4>3
    <3>. QED  BY <3>1, <3>2 DEF AnsweredOnce
  <2>8. HeldOnce'
    <3>. SUFFICES ASSUME NEW c \in Callers, reply[c] # None
                  PROVE  /\ reply[c] \in answered'
                         /\ \A p \in pending : p.seq # reply[c]
                         /\ \A i \in 1..Len(wire') : Answer(i)' => wire'[i].request_seq # reply[c]
      BY <2>a DEF HeldOnce
    <3>1. reply[c] \in answered /\ reply[c] # s
      BY <2>d DEF HeldOnce
    <3>. QED  BY <2>c, <2>d, <3>1 DEF HeldOnce
  <2>12. KindsOK' /\ RegisteredOpen' /\ SendingRegistered' /\ Correlation'
         /\ NoLostOneshot' /\ DistinctSeqs'
    BY <1>12, Undisturbed DEF AdapterAnswer
  <2>. QED  BY <2>2, <2>3, <2>4, <2>5, <2>8, <2>12
<1>13. ASSUME NEW e \in Events \cup {Reverse}, AdapterEmit(e) PROVE IInv'
  <2>5. AnsweredOnce'
    BY <1>13, AppendAt DEF AdapterEmit, Event, AnsweredOnce, QueuedOnce
  <2>8. HeldOnce'
    BY <1>13, AppendAt DEF AdapterEmit, Event, HeldOnce, AnsweredOnce, Correlation,
       RegisteredOpen, QueuedOnce
  <2>12. KindsOK' /\ IssuedBelowSeq' /\ UnsentFresh' /\ QueuedOnce'
         /\ RegisteredOpen' /\ SendingRegistered' /\ Correlation'
         /\ NoLostOneshot' /\ DistinctSeqs'
    BY <1>13, Undisturbed DEF AdapterEmit
  <2>. QED  BY <2>5, <2>8, <2>12
<1>14. ASSUME AdapterExit PROVE IInv'
  <2>2. IssuedBelowSeq'
    BY <1>14 DEF AdapterExit, IssuedBelowSeq
  <2>3. UnsentFresh'
    BY <1>14 DEF AdapterExit, UnsentFresh, IssuedBelowSeq, KindsOK, DistinctSeqs
  <2>4. QueuedOnce'
    BY <1>14 DEF AdapterExit, QueuedOnce, UnsentFresh
  <2>12. KindsOK' /\ AnsweredOnce' /\ RegisteredOpen' /\ SendingRegistered'
         /\ HeldOnce' /\ Correlation' /\ NoLostOneshot' /\ DistinctSeqs'
    BY <1>14, Undisturbed DEF AdapterExit
  <2>. QED  BY <2>2, <2>3, <2>4, <2>12
<1>15. ASSUME TakeEvent PROVE IInv'
  BY <1>15, TypeStep, Undisturbed DEF TakeEvent
<1>16. ASSUME UNCHANGED vars PROVE IInv'
  BY <1>16, TypeStep, Undisturbed DEF vars
<1>. HIDE DEF IInv
<1>. QED
  BY <1>1, <1>2, <1>3, <1>4, <1>5, <1>6, <1>7, <1>8, <1>9, <1>10, <1>11, <1>12, <1>13,
     <1>14, <1>15, <1>16, StepCases, ZenonT(60)

(* The inductive invariant holds in every reachable state. *)
THEOREM Invariance == Spec => []IInv
BY InvInit, InvStep, PTL DEF Spec

(* A task is only woken with the response to the request it waits on.      *)
THEOREM CorrelationCorrect == Spec => []Correlation
<1>1. IInv => Correlation
  BY DEF IInv
<1>. QED  BY <1>1, Invariance, PTL

(* A task that waits can still be woken: its oneshot is never dropped.     *)
THEOREM NoLostOneshotCorrect == Spec => []NoLostOneshot
<1>1. IInv => NoLostOneshot
  BY DEF IInv
<1>. QED  BY <1>1, Invariance, PTL

(* No two operations in progress share a sequence number.                  *)
THEOREM DistinctSeqsCorrect == Spec => []DistinctSeqs
<1>1. IInv => DistinctSeqs
  BY DEF IInv
<1>. QED  BY <1>1, Invariance, PTL

(* Every step of the client is a step of the request/reply service, or     *)
(* changes nothing the service shows.                                      *)
LEMMA RefineInit == Init => Service!Init
BY DEF Init, Service!Init, InRequest, Idle

LEMMA RefineStep ==
  ASSUME IInv, [Next]_vars
  PROVE  [Service!Next]_(Service!vars)
<1>. USE DEF Service!vars
<1>t. /\ caller \in [Callers -> CallerState] /\ reply \in [Callers -> Nat \cup {None}]
      /\ seq \in Nat /\ inbox \subseteq Nat
  BY ClientAssumption DEF IInv, TypeOK
<1>0. ASSUME UNCHANGED <<caller, reply, seq, answered>>
      PROVE  [Service!Next]_(Service!vars)
  BY <1>0 DEF InRequest
<1>1. ASSUME NEW c \in Callers, NEW kind \in {"request", "notify"}, Begin(c, kind)
      PROVE  [Service!Next]_(Service!vars)
  <2>1. CASE kind = "request"
    <3>1. Service!Open(c)
      BY <1>1, <1>t, <2>1 DEF Begin, adapterVars, Service!Open, InRequest, CallerState
    <3>. QED  BY <3>1 DEF Service!Next
  <2>2. CASE kind = "notify"
    <3>1. Service!Notify
      BY <1>1, <1>t, <2>2 DEF Begin, adapterVars, Service!Notify, InRequest, CallerState
    <3>. QED  BY <3>1 DEF Service!Next
  <2>. QED  BY <2>1, <2>2
<1>2. ASSUME NEW c \in Callers, BeginRaw(c)
      PROVE  [Service!Next]_(Service!vars)
  BY <1>2, <1>t DEF BeginRaw, adapterVars, InRequest, CallerState
<1>3. ASSUME NEW c \in Callers, Register(c)
      PROVE  [Service!Next]_(Service!vars)
  BY <1>3, <1>t DEF Register, adapterVars, InRequest, CallerState
<1>4. ASSUME NEW c \in Callers, Send(c)
      PROVE  [Service!Next]_(Service!vars)
  BY <1>4, <1>t DEF Send, adapterVars, InRequest, CallerState, Idle
<1>5. ASSUME NEW c \in Callers, Leave(c), caller[c].pc # "idle"
      PROVE  [Service!Next]_(Service!vars)
  <2>1. CASE InRequest(c)
    <3>1. Service!Close(c)
      BY <1>5, <1>t, <2>1 DEF Leave, adapterVars, Service!Close, InRequest, CallerState, Idle
    <3>. QED  BY <3>1 DEF Service!Next
  <2>2. CASE ~ InRequest(c)
    <3>1. reply[c] = None
      BY <1>5, <2>2 DEF IInv, KindsOK, Correlation, InRequest
    <3>. QED
      BY <1>5, <1>t, <2>2, <3>1 DEF Leave, adapterVars, InRequest, CallerState, Idle
  <2>. QED  BY <2>1, <2>2
<1>8. ASSUME ReadResponse
      PROVE  [Service!Next]_(Service!vars)
  <2>. DEFINE s == Head(wire).request_seq
  <2>1. /\ UNCHANGED <<seq, caller, answered>>
        /\ reply' = [c \in Callers |->
             IF \E p \in pending : p.seq = s /\ p.to = c THEN s ELSE reply[c]]
    BY <1>8 DEF ReadResponse
  <2>2. s \in answered
    <3>1. wire \in Seq(Message) /\ wire # <<>>
      BY <1>8 DEF ReadResponse, IInv, TypeOK
    <3>2. Head(wire) = wire[1] /\ 1 \in 1..Len(wire)
      BY <3>1, TailAt
    <3>. QED  BY <1>8, <3>2 DEF ReadResponse, IInv, AnsweredOnce, Answer
  <2>. HIDE DEF s
  <2>3. CASE \E p \in pending : p.seq = s /\ p.to \in Callers
    <3>1. PICK p \in pending : p.seq = s /\ p.to \in Callers
      BY <2>3
    <3>2. \A q \in pending : q.seq = s => q = p
      BY <3>1 DEF IInv, DistinctSeqs
    <3>3. reply' = [reply EXCEPT ![p.to] = s]
      BY <1>t, <2>1, <3>1, <3>2
    <3>4. InRequest(p.to) /\ caller[p.to].seq = s
      BY <3>1 DEF IInv, RegisteredOpen
    <3>5. reply[p.to] = None
      BY <3>1, <3>4 DEF IInv, HeldOnce, Correlation
    <3>6. Service!Deliver(p.to)
      BY <1>t, <2>1, <2>2, <3>1, <3>3, <3>4, <3>5 DEF Service!Deliver, InRequest
    <3>. QED  BY <3>1, <3>6 DEF Service!Next
  <2>4. CASE ~ \E p \in pending : p.seq = s /\ p.to \in Callers
    <3>1. reply' = reply
      BY <1>t, <2>1, <2>4
    <3>. QED  BY <1>0, <2>1, <3>1
  <2>. QED  BY <2>3, <2>4
<1>12. ASSUME NEW s \in inbox, AdapterAnswer(s)
       PROVE  [Service!Next]_(Service!vars)
  <2>1. UNCHANGED <<caller, reply, seq>>
    BY <1>12 DEF AdapterAnswer, taskVars
  <2>2. CASE answered' = answered \cup {s}
    <3>1. s < seq /\ s \notin answered
      BY DEF IInv, IssuedBelowSeq, QueuedOnce
    <3>2. s \in 0..(seq - 1)
      BY <1>t, <3>1
    <3>3. Service!Answer(s)
      BY <2>1, <2>2, <3>1 DEF Service!Answer, InRequest
    <3>. QED  BY <3>2, <3>3 DEF Service!Next
  <2>3. CASE answered' = answered
    BY <1>0, <2>1, <2>3
  <2>. QED  BY <1>12, <2>2, <2>3 DEF AdapterAnswer
<1>13. ASSUME \/ WriteFrame \/ WriteDead \/ ReadEvent \/ ReadGarbage \/ ReadEof
              \/ \E e \in Events \cup {Reverse} : AdapterEmit(e)
              \/ AdapterExit \/ TakeEvent \/ UNCHANGED vars
       PROVE  [Service!Next]_(Service!vars)
  BY <1>0, <1>13 DEF WriteFrame, WriteDead, ReadEvent, ReadGarbage, ReadEof, AdapterEmit,
     AdapterExit, TakeEvent, vars, taskVars, adapterVars
<1>. QED
  BY <1>1, <1>2, <1>3, <1>4, <1>5, <1>8, <1>12, <1>13, StepCases

(* Whatever the interleaving and the faults, the client implements the     *)
(* request/reply service of RequestReply.                                  *)
THEOREM Refinement == Spec => ImplementsRequestReply
<1>1. Spec => Service!Init /\ [][Service!Next]_(Service!vars)
  BY RefineInit, RefineStep, Invariance, PTL DEF Spec
<1>. QED  BY <1>1 DEF ImplementsRequestReply, Service!Spec

-----------------------------------------------------------------------------
(* The session's dispatcher *)

(* The dispatcher's steps leave the client alone or are steps of it. *)
LEMMA DispatchIsClient == ASSUME Dispatch PROVE [Next]_vars
<1>. USE SessionAssumption DEF Next, TaskStep
<1>1. CASE Receive   BY <1>1 DEF Receive
<1>2. CASE BeginAck  BY <1>2 DEF BeginAck
<1>3. CASE EndAck    BY <1>3 DEF EndAck
<1>4. CASE Broadcast BY <1>4 DEF Broadcast
<1>5. CASE Apply     BY <1>5 DEF Apply
<1>6. CASE Ask       BY <1>6 DEF Ask
<1>7. CASE Answered  BY <1>7 DEF Answered
<1>8. CASE AskFails  BY <1>8 DEF AskFails
<1>9. CASE Publish   BY <1>9 DEF Publish
<1>. QED
  BY <1>1, <1>2, <1>3, <1>4, <1>5, <1>6, <1>7, <1>8, <1>9 DEF Dispatch

LEMMA StepIsClient == ASSUME [SessionNext]_svars PROVE [Next]_vars
<1>1. CASE Dispatch
  BY <1>1, DispatchIsClient
<1>2. ASSUME NEW e \in Events \cup {Reverse}, Emit(e)
      PROVE  Next
  BY <1>2 DEF Emit, Next, AdapterStep
<1>3. CASE Elsewhere
  BY <1>3 DEF Elsewhere, Next, AdapterStep
<1>4. CASE UNCHANGED svars
  BY <1>4 DEF svars
<1>. QED
  BY <1>1, <1>2, <1>3, <1>4 DEF SessionNext

(* The dispatcher, the other tasks, the loops and the adapter together     *)
(* implement the client's specification: acknowledging, enriching and      *)
(* failing half way (session.rs 282-420, 1032-1200), the dispatcher never  *)
(* leaves the client's protocol.                                           *)
THEOREM SessionIsClient == SessionSpec => ClientSpec
<1>1. SessionInit => Init
  BY DEF SessionInit
<1>. QED
  BY <1>1, StepIsClient, PTL DEF SessionSpec, ClientSpec, Spec

(* So the dispatcher, too, is only woken with the responses to its own     *)
(* requests, while other tasks and events come between.                    *)
THEOREM SessionCorrelation == SessionSpec => []Correlation
BY SessionIsClient, CorrelationCorrect, PTL DEF ClientSpec

-----------------------------------------------------------------------------
(* Only *)

(* Numbers have a least one. *)
LEMMA Least ==
  ASSUME NEW T, T \subseteq Nat, T # {}
  PROVE  \E x \in T : \A y \in T : x <= y
<1>. DEFINE R == OpToRel(<, Nat)
<1>1. IsWellFoundedOn(R, Nat)
  BY NatLessThanWellFounded
<1>2. \A x, y \in Nat : <<y, x>> \in R <=> y < x
  BY DEF OpToRel
<1>. HIDE DEF R
<1>3. PICK x \in T : \A y \in T : ~(<<y, x>> \in R)
  BY <1>1, WFMin
<1>4. ASSUME NEW y \in T  PROVE x <= y
  <2>1. x \in Nat /\ y \in Nat /\ ~(<<y, x>> \in R)
    BY <1>3
  <2>. QED  BY <2>1, <1>2
<1>. QED
  BY <1>4

(* f collects what the first n elements of q have of S. *)
Collects(f, q, n, S) ==
  f = [m \in 0..n |-> IF m = 0 THEN <<>>
                      ELSE IF q[m] \in S THEN Append(f[m - 1], q[m]) ELSE f[m - 1]]

LEMMA CollectsStep ==
  ASSUME NEW f, NEW q, NEW n \in Nat, NEW S, Collects(f, q, n, S)
  PROVE  /\ f[0] = <<>>
         /\ \A m \in 1..n : m - 1 \in 0..n /\ f[m] = IF q[m] \in S THEN Append(f[m - 1], q[m]) ELSE f[m - 1]
<1>1. \A m \in 0..n : f[m] = IF m = 0 THEN <<>>
                             ELSE IF q[m] \in S THEN Append(f[m - 1], q[m]) ELSE f[m - 1]
  BY Zenon DEF Collects
<1>2. 0 \in 0..n /\ \A m \in 1..n : m \in 0..n /\ m # 0 /\ m - 1 \in 0..n
  OBVIOUS
<1>. QED  BY <1>1, <1>2, Zenon

LEMMA CollectsBefore ==
  ASSUME NEW f, NEW q, NEW n \in Nat, n # 0, NEW S, Collects(f, q, n - 1, S)
  PROVE  /\ f[0] = <<>>
         /\ \A m \in 1..(n - 1) : f[m] = IF q[m] \in S THEN Append(f[m - 1], q[m]) ELSE f[m - 1]
<1>1. \A m \in 0..(n - 1) : f[m] = IF m = 0 THEN <<>>
                                   ELSE IF q[m] \in S THEN Append(f[m - 1], q[m]) ELSE f[m - 1]
  BY Zenon DEF Collects
<1>2. 0 \in 0..(n - 1) /\ \A m \in 1..(n - 1) : m \in 0..(n - 1) /\ m # 0
  OBVIOUS
<1>. QED  BY <1>1, <1>2, Zenon

(* There is such a function. *)
LEMMA CollectsExists ==
  ASSUME NEW q, NEW N \in Nat, NEW S
  PROVE  \E f : Collects(f, q, N, S)
<1>. DEFINE Bad == {n \in Nat : ~ \E f : Collects(f, q, n, S)}
<1>1. CASE Bad = {}
  BY <1>1
<1>2. CASE Bad # {}
  <2>1. PICK n \in Bad : \A m \in Bad : n <= m
    BY <1>2, Least
  <2>2. n # 0
    <3>. DEFINE f == [m \in 0..0 |-> <<>>]
    <3>1. f = [m \in 0..0 |-> IF m = 0 THEN <<>>
                      ELSE IF q[m] \in S THEN Append(f[m - 1], q[m]) ELSE f[m - 1]]
      OBVIOUS
    <3>2. Collects(f, q, 0, S)
      BY <3>1 DEF Collects
    <3>. HIDE DEF f
    <3>. QED  BY <3>2, <2>1
  <2>3. n - 1 \in Nat /\ n - 1 \notin Bad /\ n \in Nat
    BY <2>1, <2>2
  <2>4. PICK g : Collects(g, q, n - 1, S)
    BY <2>3
  <2>. DEFINE h == [m \in 0..n |-> IF m < n THEN g[m]
                                   ELSE IF q[n] \in S THEN Append(g[n - 1], q[n]) ELSE g[n - 1]]
  <2>. DEFINE k == [m \in 0..n |-> IF m = 0 THEN <<>>
                                   ELSE IF q[m] \in S THEN Append(h[m - 1], q[m]) ELSE h[m - 1]]
  <2>5. /\ g[0] = <<>>
        /\ \A m \in 1..(n - 1) : g[m] = IF q[m] \in S THEN Append(g[m - 1], q[m]) ELSE g[m - 1]
    <3>. HIDE DEF Bad, h, k
    <3>. QED  BY <2>2, <2>3, <2>4, CollectsBefore
  <2>6. \A m \in 0..n : h[m] = k[m]
    <3>1. ASSUME NEW m \in 0..n, m # 0  PROVE h[m - 1] = g[m - 1]
      BY <3>1, <2>3
    <3>2. \A m \in 0..n : m # 0 => k[m] = IF q[m] \in S THEN Append(h[m - 1], q[m]) ELSE h[m - 1]
      OBVIOUS
    <3>3. \A m \in 0..n : m # 0 => h[m] = IF q[m] \in S THEN Append(g[m - 1], q[m]) ELSE g[m - 1]
      <4>. SUFFICES ASSUME NEW m \in 0..n, m # 0
                    PROVE  h[m] = IF q[m] \in S THEN Append(g[m - 1], q[m]) ELSE g[m - 1]
        OBVIOUS
      <4>1. CASE m = n
        BY <4>1, <2>3
      <4>2. CASE m # n
        <5>1. m \in 1..(n - 1) /\ m < n
          BY <4>2, <2>3
        <5>. QED  BY <5>1, <2>5
      <4>. QED  BY <4>1, <4>2
    <3>4. h[0] = k[0]
      BY <2>3, <2>2, <2>5
    <3>. HIDE DEF h, k
    <3>. QED  BY <3>1, <3>2, <3>3, <3>4
  <2>7. h = k
    BY <2>6
  <2>8. Collects(h, q, n, S)
    BY <2>7 DEF Collects
  <2>. HIDE DEF h
  <2>. QED  BY <2>8, <2>1
<1>. QED
  BY <1>1, <1>2

(* Two such functions agree as far as their sequences do. *)
LEMMA CollectsAgree ==
  ASSUME NEW q, NEW r, NEW n \in Nat, NEW N \in Nat, n <= N, NEW S, NEW f, NEW g,
         Collects(f, q, n, S), Collects(g, r, N, S), \A i \in 1..n : q[i] = r[i]
  PROVE  f[n] = g[n]
<1>. DEFINE Bad == {i \in 0..n : f[i] # g[i]}
<1>1. ASSUME NEW i \in Bad, \A m \in Bad : i <= m  PROVE FALSE
  <2>1. i # 0
    <3>1. f[0] = <<>>
      BY CollectsStep
    <3>2. g[0] = <<>>
      BY CollectsStep
    <3>. QED  BY <3>1, <3>2
  <2>2. i \in 1..n /\ i \in 1..N /\ i - 1 \in 0..n /\ i - 1 < i
    BY <2>1
  <2>3. i - 1 \notin Bad
    BY <1>1, <2>2
  <2>4. f[i - 1] = g[i - 1] /\ q[i] = r[i]
    BY <2>2, <2>3
  <2>5. f[i] = g[i]
    BY <2>2, <2>4, CollectsStep
  <2>. QED  BY <2>5
<1>2. Bad \subseteq Nat
  OBVIOUS
<1>3. Bad = {}
  BY <1>1, <1>2, Least
<1>. QED
  BY <1>3

(* What is collected is a sequence of elements of both. *)
LEMMA CollectsType ==
  ASSUME NEW T, NEW q \in Seq(T), NEW n \in Nat, n <= Len(q), NEW S, NEW f, Collects(f, q, n, S)
  PROVE  f[n] \in Seq(T \cap S)
<1>. DEFINE Bad == {i \in 0..n : f[i] \notin Seq(T \cap S)}
<1>1. ASSUME NEW i \in Bad, \A m \in Bad : i <= m  PROVE FALSE
  <2>1. i # 0
    <3>1. f[0] = <<>>
      BY CollectsStep
    <3>. QED  BY <3>1, EmptySeq
  <2>2. i \in 1..n /\ i - 1 \in 0..n /\ i - 1 < i /\ i \in 1..Len(q)
    BY <2>1
  <2>3. i - 1 \notin Bad
    BY <1>1, <2>2
  <2>4. f[i - 1] \in Seq(T \cap S) /\ q[i] \in T
    BY <2>2, <2>3
  <2>5. f[i] = IF q[i] \in S THEN Append(f[i - 1], q[i]) ELSE f[i - 1]
    BY <2>2, CollectsStep
  <2>6. f[i] \in Seq(T \cap S)
    BY <2>4, <2>5
  <2>. QED  BY <2>6
<1>2. Bad \subseteq Nat
  OBVIOUS
<1>3. Bad = {}
  BY <1>1, <1>2, Least
<1>. QED
  BY <1>3

LEMMA OnlyCollects ==
  ASSUME NEW T, NEW q \in Seq(T), NEW S
  PROVE  \E f : Collects(f, q, Len(q), S) /\ Only(q, S) = f[Len(q)]
<1>. DEFINE f == CHOOSE f : Collects(f, q, Len(q), S)
<1>1. Len(q) \in Nat
  OBVIOUS
<1>2. Collects(f, q, Len(q), S)
  BY <1>1, CollectsExists
<1>3. Only(q, S) = f[Len(q)]
  BY DEF Only, Collects
<1>. HIDE DEF f
<1>. QED  BY <1>2, <1>3

(* What Only does to a sequence that is built from its beginning. *)
LEMMA OnlyEmpty == ASSUME NEW S  PROVE Only(<<>>, S) = <<>>
<1>1. <<>> \in Seq({}) /\ Len(<<>>) = 0
  OBVIOUS
<1>2. PICK f : Collects(f, <<>>, 0, S) /\ Only(<<>>, S) = f[0]
  BY <1>1, OnlyCollects
<1>. QED  BY <1>2, CollectsStep

LEMMA OnlyType ==
  ASSUME NEW T, NEW q \in Seq(T), NEW S
  PROVE  Only(q, S) \in Seq(T \cap S)
<1>1. PICK f : Collects(f, q, Len(q), S) /\ Only(q, S) = f[Len(q)]
  BY OnlyCollects
<1>. QED  BY <1>1, CollectsType

LEMMA OnlyAppend ==
  ASSUME NEW T, NEW q \in Seq(T), NEW x \in T, NEW S
  PROVE  Only(Append(q, x), S) = IF x \in S THEN Append(Only(q, S), x) ELSE Only(q, S)
<1>. DEFINE r == Append(q, x)
<1>1. r \in Seq(T) /\ Len(r) = Len(q) + 1 /\ Len(q) \in Nat /\ r[Len(q) + 1] = x
      /\ \A i \in 1..Len(q) : q[i] = r[i]
  OBVIOUS
<1>. HIDE DEF r
<1>2. PICK f : Collects(f, q, Len(q), S) /\ Only(q, S) = f[Len(q)]
  BY OnlyCollects
<1>3. PICK g : Collects(g, r, Len(q) + 1, S) /\ Only(r, S) = g[Len(q) + 1]
  BY <1>1, OnlyCollects
<1>4. f[Len(q)] = g[Len(q)]
  BY <1>1, <1>2, <1>3, CollectsAgree
<1>5. Len(q) + 1 \in 1..(Len(q) + 1) /\ (Len(q) + 1) - 1 = Len(q) /\ Len(q) + 1 \in Nat
  BY <1>1
<1>6. g[Len(q) + 1] = IF r[Len(q) + 1] \in S THEN Append(g[Len(q)], r[Len(q) + 1]) ELSE g[Len(q)]
  BY <1>3, <1>5, CollectsStep
<1>. QED  BY <1>1, <1>2, <1>3, <1>4, <1>6 DEF r

(* A sequence that is not empty has a last element. *)
LEMMA LastAppended ==
  ASSUME NEW T, NEW s \in Seq(T), s # <<>>
  PROVE  \E t \in Seq(T), x \in T : s = Append(t, x) /\ Len(t) = Len(s) - 1
<1>1. PICK n \in Nat : n = Len(s) /\ n # 0
  BY EmptySeq
<1>. DEFINE t == SubSeq(s, 1, n - 1)
            x == s[n]
<1>2. n \in 1..n /\ n - 1 \in Nat /\ \A i \in 1..(n - 1) : i \in 1..n
  BY <1>1
<1>3. x \in T /\ \A i \in 1..(n - 1) : s[i] \in T
  BY <1>1, <1>2, ElementOfSeq
<1>4. t \in Seq(T) /\ Len(t) = n - 1 /\ \A i \in 1..(n - 1) : t[i] = s[i]
  BY <1>2, <1>3, SubSeqProperties
<1>. HIDE DEF t, x
<1>5. /\ Append(t, x) \in Seq(T) /\ Len(Append(t, x)) = n
      /\ \A i \in 1..(n - 1) : Append(t, x)[i] = t[i]
      /\ Append(t, x)[n] = x
  BY <1>2, <1>3, <1>4
<1>6. \A i \in 1..n : s[i] = Append(t, x)[i]
  BY <1>1, <1>2, <1>4, <1>5 DEF x
<1>7. s = Append(t, x)
  BY <1>1, <1>5, <1>6, SeqEqual
<1>. QED  BY <1>3, <1>4, <1>7

(* Concatenation, by its properties only. *)
Cat(q, r) == q \o r

LEMMA CatProperties ==
  ASSUME NEW T, NEW q \in Seq(T)
  PROVE  /\ Cat(q, <<>>) = q /\ Cat(<<>>, q) = q
         /\ \A r \in Seq(T) : Cat(q, r) \in Seq(T)
         /\ \A r \in Seq(T), x \in T : Append(Cat(q, r), x) = Cat(q, Append(r, x))
<1>1. Cat(q, <<>>) = q /\ Cat(<<>>, q) = q
  BY ConcatEmptySeq DEF Cat
<1>2. \A r \in Seq(T) : Cat(q, r) \in Seq(T)
  BY ConcatProperties DEF Cat
<1>3. \A r \in Seq(T), x \in T : Append(Cat(q, r), x) = Cat(q, Append(r, x))
  BY DEF Cat
<1>. QED  BY <1>1, <1>2, <1>3

LEMMA OnlyCatStep ==
  ASSUME NEW T, NEW q \in Seq(T), NEW t \in Seq(T), NEW x \in T, NEW S,
         Only(Cat(q, t), S) = Cat(Only(q, S), Only(t, S))
  PROVE  Only(Cat(q, Append(t, x)), S) = Cat(Only(q, S), Only(Append(t, x), S))
<1>1. PICK r \in Seq(T) : r = Cat(q, t) /\ Append(r, x) = Cat(q, Append(t, x))
  <2>1. Cat(q, t) \in Seq(T) /\ Append(Cat(q, t), x) = Cat(q, Append(t, x))
    BY CatProperties
  <2>. QED  BY <2>1, Zenon
<1>2. Only(Append(r, x), S) = IF x \in S THEN Append(Only(r, S), x) ELSE Only(r, S)
  BY OnlyAppend
<1>3. Only(Append(t, x), S) = IF x \in S THEN Append(Only(t, S), x) ELSE Only(t, S)
  BY OnlyAppend
<1>4. ASSUME x \in S
      PROVE  Append(Cat(Only(q, S), Only(t, S)), x) = Cat(Only(q, S), Append(Only(t, S), x))
  <2>1. PICK U : U = T \cap S
    OBVIOUS
  <2>2. Only(q, S) \in Seq(U) /\ Only(t, S) \in Seq(U)
    BY <2>1, OnlyType
  <2>3. x \in U
    BY <1>4, <2>1
  <2>. QED  BY <2>2, <2>3, CatProperties
<1>5. Only(Append(r, x), S) = Cat(Only(q, S), Only(Append(t, x), S))
  BY <1>1, <1>2, <1>3, <1>4
<1>. QED  BY <1>1, <1>5, Zenon

(* Concatenations are filtered piece by piece. *)
LEMMA OnlyCat ==
  ASSUME NEW T, NEW q \in Seq(T), NEW r \in Seq(T), NEW S
  PROVE  Only(Cat(q, r), S) = Cat(Only(q, S), Only(r, S))
<1>. DEFINE Holds(n) == \A s \in Seq(T) : Len(s) = n => Only(Cat(q, s), S) = Cat(Only(q, S), Only(s, S))
<1>. DEFINE Bad == {n \in Nat : ~Holds(n)}
<1>1. ASSUME NEW n \in Bad, \A m \in Bad : n <= m  PROVE FALSE
  <2>1. PICK s \in Seq(T) : Len(s) = n /\ Only(Cat(q, s), S) # Cat(Only(q, S), Only(s, S))
    BY <1>1
  <2>2. s # <<>>
    <3>1. CASE s = <<>>
      <4>1. Cat(q, <<>>) = q /\ Cat(Only(q, S), <<>>) = Only(q, S)
        <5>1. PICK U : U = T \cap S
          OBVIOUS
        <5>2. Only(q, S) \in Seq(U)
          BY <5>1, OnlyType
        <5>. HIDE DEF Bad
        <5>3. Cat(q, <<>>) = q
          BY CatProperties
        <5>4. Cat(Only(q, S), <<>>) = Only(q, S)
          BY <5>2, CatProperties
        <5>. QED  BY <5>3, <5>4
      <4>. QED  BY <2>1, <3>1, <4>1, OnlyEmpty
    <3>. QED  BY <3>1
  <2>3. PICK t \in Seq(T), x \in T : s = Append(t, x) /\ Len(t) = n - 1
    <3>1. \E t \in Seq(T), x \in T : s = Append(t, x) /\ Len(t) = Len(s) - 1
      BY <2>2, LastAppended
    <3>. QED  BY <2>1, <3>1, Zenon
  <2>4. n \in Nat /\ n - 1 \in Nat /\ n - 1 < n
    BY <2>3
  <2>5. Holds(n - 1)
    BY <1>1, <2>4
  <2>6. Only(Cat(q, t), S) = Cat(Only(q, S), Only(t, S))
    BY <2>3, <2>5
  <2>. HIDE DEF Holds, Bad
  <2>7. Only(Cat(q, Append(t, x)), S) = Cat(Only(q, S), Only(Append(t, x), S))
    BY <2>6, OnlyCatStep
  <2>. QED  BY <2>1, <2>3, <2>7
<1>2. Bad \subseteq Nat
  OBVIOUS
<1>3. Bad = {}
  BY <1>1, <1>2, Least
<1>4. Len(r) \in Nat
  OBVIOUS
<1>5. Holds(Len(r))
  BY <1>3, <1>4
<1>. QED  BY <1>5

(* What Only does to a sequence that loses its head. *)
LEMMA OnlyHead ==
  ASSUME NEW T, NEW q \in Seq(T), q # <<>>, NEW S
  PROVE  Only(q, S) = IF Head(q) \in S THEN Cat(<<Head(q)>>, Only(Tail(q), S)) ELSE Only(Tail(q), S)
<1>1. PICK x \in T, t \in Seq(T) : x = Head(q) /\ t = Tail(q) /\ q = Cat(<<x>>, t)
  <2>1. Head(q) \in T /\ Tail(q) \in Seq(T) /\ q = Cat(<<Head(q)>>, Tail(q))
    BY DEF Cat
  <2>. QED  BY <2>1, Zenon
<1>2. PICK e \in Seq(T), o \in Seq(T) : e = <<>> /\ o = <<x>> /\ o = Append(e, x)
  <2>1. <<>> \in Seq(T) /\ <<x>> \in Seq(T) /\ <<x>> = Append(<<>>, x)
    OBVIOUS
  <2>. QED  BY <2>1, Zenon
<1>3. Only(o, S) = IF x \in S THEN o ELSE e
  <2>1. Only(e, S) = e
    BY <1>2, OnlyEmpty
  <2>2. Only(Append(e, x), S) = IF x \in S THEN Append(Only(e, S), x) ELSE Only(e, S)
    BY OnlyAppend
  <2>. QED  BY <1>2, <2>1, <2>2, Zenon
<1>4. Only(Cat(o, t), S) = Cat(Only(o, S), Only(t, S))
  BY OnlyCat
<1>5. Cat(e, Only(t, S)) = Only(t, S)
  <2>1. PICK U : U = T \cap S
    OBVIOUS
  <2>2. Only(t, S) \in Seq(U)
    BY <2>1, OnlyType
  <2>3. Cat(<<>>, Only(t, S)) = Only(t, S)
    BY <2>2, CatProperties
  <2>. QED  BY <1>2, <2>3, Zenon
<1>. QED  BY <1>1, <1>2, <1>3, <1>4, <1>5, Zenon

-----------------------------------------------------------------------------
(* Sequences, again *)

LEMMA CatAt ==
  ASSUME NEW T, NEW q \in Seq(T), NEW r \in Seq(T), NEW n \in Nat, NEW m \in Nat,
         n = Len(q), m = Len(r)
  PROVE  /\ Cat(q, r) \in Seq(T) /\ Len(Cat(q, r)) = n + m
         /\ \A i \in 1..(n + m) : /\ i <= n => Cat(q, r)[i] = q[i] /\ i \in 1..n
                                  /\ i > n => Cat(q, r)[i] = r[i - n] /\ i - n \in 1..m
<1>1. q \o r \in Seq(T) /\ Len(q \o r) = n + m
  OBVIOUS
<1>2. ASSUME NEW i \in 1..(n + m), i <= n  PROVE (q \o r)[i] = q[i] /\ i \in 1..n
  BY <1>2
<1>3. ASSUME NEW i \in 1..(n + m), i > n  PROVE (q \o r)[i] = r[i - n] /\ i - n \in 1..m
  BY <1>3
<1>. QED  BY <1>1, <1>2, <1>3 DEF Cat

LEMMA CatShift ==
  ASSUME NEW T, NEW q \in Seq(T), NEW r \in Seq(T), NEW x \in T
  PROVE  /\ Cat(q, Cat(<<x>>, r)) = Cat(Append(q, x), r)
         /\ <<x>> \in Seq(T)
BY DEF Cat

LEMMA CatAssociative ==
  ASSUME NEW T, NEW q \in Seq(T), NEW r \in Seq(T), NEW s \in Seq(T)
  PROVE  Cat(Cat(q, r), s) = Cat(q, Cat(r, s))
BY ConcatAssociative DEF Cat

LEMMA CatLen ==
  ASSUME NEW T, NEW q \in Seq(T), NEW r \in Seq(T)
  PROVE  /\ Len(Cat(q, r)) = Len(q) + Len(r)
         /\ Len(q) \in Nat /\ Len(r) \in Nat
         /\ Len(r) = 0 => r = <<>>
BY ConcatProperties, EmptySeq DEF Cat

-----------------------------------------------------------------------------
(* The chain of enrichments *)

Published == {"threads", "stackTrace", "scopes", "variables", "timeline", "evaluate",
              "watches_updated", "sourceLoaded"}

LEMMA TimesProperties ==
  ASSUME NEW n \in Nat, NEW S, NEW x \in S
  PROVE  Times(n, x) \in Seq(S) /\ Len(Times(n, x)) = n /\ \A i \in 1..n : Times(n, x)[i] = x
<1>1. Times(n, x) \in [1..n -> S]
  BY DEF Times
<1>2. Times(n, x) \in Seq(S)
  BY <1>1, SeqDef, Zenon
<1>3. DOMAIN Times(n, x) = 1..n
  BY DEF Times
<1>. QED  BY <1>2, <1>3, LenProperties DEF Times

(* q has one link of the timeline, its k-th; k is 0 if it has none. *)
TimelineAt(q, k) ==
  /\ q \in Seq(Published) /\ k \in 0..Len(q)
  /\ \A i \in 1..Len(q) : q[i] = "timeline" <=> i = k

LEMMA ChainGrows ==
  ASSUME NEW q, NEW r, NEW k, NEW l, TimelineAt(q, k), TimelineAt(r, l), k = 0 \/ l = 0
  PROVE  /\ l = 0 => TimelineAt(Cat(q, r), k)
         /\ l # 0 => TimelineAt(Cat(q, r), Len(q) + l)
         /\ Len(Cat(q, r)) = Len(q) + Len(r)
         /\ Len(q) \in Nat /\ Len(r) \in Nat
<1>1. q \in Seq(Published) /\ r \in Seq(Published)
  BY DEF TimelineAt
<1>2. PICK n \in Nat, m \in Nat : n = Len(q) /\ m = Len(r)
  BY <1>1, LenProperties, Zenon
<1>3. /\ Cat(q, r) \in Seq(Published) /\ Len(Cat(q, r)) = n + m
      /\ \A i \in 1..(n + m) : /\ i <= n => Cat(q, r)[i] = q[i] /\ i \in 1..n
                               /\ i > n => Cat(q, r)[i] = r[i - n] /\ i - n \in 1..m
  BY <1>1, <1>2, CatAt
<1>4. k \in 0..n /\ l \in 0..m
  BY <1>2 DEF TimelineAt
<1>5. /\ \A i \in 1..n : q[i] = "timeline" <=> i = k
      /\ \A i \in 1..m : r[i] = "timeline" <=> i = l
  BY <1>2 DEF TimelineAt
<1>6. ASSUME l = 0, NEW i \in 1..(n + m)  PROVE Cat(q, r)[i] = "timeline" <=> i = k
  <2>1. CASE i <= n
    BY <1>3, <1>5, <2>1
  <2>2. CASE i > n
    BY <1>3, <1>4, <1>5, <1>6, <2>2
  <2>. QED  BY <2>1, <2>2
<1>7. ASSUME l # 0, NEW i \in 1..(n + m)  PROVE Cat(q, r)[i] = "timeline" <=> i = n + l
  <2>1. CASE i <= n
    <3>1. k = 0 /\ i \in 1..n /\ Cat(q, r)[i] = q[i] /\ i # n + l
      BY <1>3, <1>4, <1>7, <2>1
    <3>. QED  BY <1>5, <3>1
  <2>2. CASE i > n
    <3>1. i - n \in 1..m /\ Cat(q, r)[i] = r[i - n] /\ (i = n + l <=> i - n = l)
      BY <1>3, <1>4, <2>2
    <3>. QED  BY <1>5, <3>1
  <2>. QED  BY <2>1, <2>2
<1>8. k \in 0..(n + m) /\ n + l \in 0..(n + m)
  BY <1>4
<1>9. l = 0 => TimelineAt(Cat(q, r), k)
  BY <1>3, <1>6, <1>8 DEF TimelineAt
<1>10. l # 0 => TimelineAt(Cat(q, r), n + l)
  BY <1>3, <1>7, <1>8 DEF TimelineAt
<1>. QED  BY <1>2, <1>3, <1>9, <1>10

(* The timeline has its place after the requests for variables. *)
LEMMA ChainFacts ==
  /\ Chain \in Seq(Published)
  /\ Len(Chain) \in Nat /\ Scopes \in Nat /\ Len(Chain) > Scopes + 4
  /\ \A i \in 1..Len(Chain) : /\ Chain[i] \in Published /\ Chain[i] \notin Events
                              /\ Chain[i] = "timeline" <=> i = Scopes + 4
<1>. DEFINE a == <<"threads", "stackTrace", "scopes">>
            b == Times(Scopes, "variables")
            c == <<"timeline">>
            d == Times(Watches, "evaluate")
            e == IF Watches = 0 THEN <<>> ELSE <<"watches_updated">>
            f == <<"sourceLoaded">>
<1>1. Scopes \in Nat /\ Watches \in Nat
  BY SessionAssumption
<1>2. TimelineAt(a, 0) /\ Len(a) = 3
  BY DEF Published, TimelineAt
<1>3. TimelineAt(b, 0) /\ Len(b) = Scopes
  <2>1. "variables" \in Published
    BY DEF Published
  <2>2. b \in Seq(Published) /\ Len(b) = Scopes /\ \A i \in 1..Scopes : b[i] = "variables"
    BY <1>1, <2>1, TimesProperties
  <2>. QED  BY <1>1, <2>2 DEF TimelineAt
<1>4. TimelineAt(c, 1) /\ Len(c) = 1
  BY DEF Published, TimelineAt
<1>5. TimelineAt(d, 0)
  <2>1. "evaluate" \in Published
    BY DEF Published
  <2>2. d \in Seq(Published) /\ Len(d) = Watches /\ \A i \in 1..Watches : d[i] = "evaluate"
    BY <1>1, <2>1, TimesProperties
  <2>. QED  BY <1>1, <2>2 DEF TimelineAt
<1>6. TimelineAt(e, 0)
  <2>1. CASE Watches = 0
    BY <2>1 DEF TimelineAt
  <2>2. CASE Watches # 0
    BY <2>2 DEF Published, TimelineAt
  <2>. QED  BY <2>1, <2>2
<1>7. TimelineAt(f, 0) /\ Len(f) = 1
  BY DEF Published, TimelineAt
<1>8. Chain = Cat(Cat(Cat(Cat(Cat(a, b), c), d), e), f)
  BY DEF Chain, Cat
<1>. HIDE DEF a, b, c, d, e, f
<1>9. TimelineAt(Cat(a, b), 0) /\ Len(Cat(a, b)) = 3 + Scopes
  BY <1>2, <1>3, ChainGrows
<1>10. TimelineAt(Cat(Cat(a, b), c), Scopes + 4) /\ Len(Cat(Cat(a, b), c)) = 3 + Scopes + 1
  <2>1. /\ TimelineAt(Cat(Cat(a, b), c), Len(Cat(a, b)) + 1)
        /\ Len(Cat(Cat(a, b), c)) = Len(Cat(a, b)) + 1
    BY <1>4, <1>9, 1 # 0, ChainGrows
  <2>2. Len(Cat(a, b)) + 1 = Scopes + 4
    BY <1>1, <1>9
  <2>. QED  BY <1>9, <2>1, <2>2
<1>11. TimelineAt(Cat(Cat(Cat(a, b), c), d), Scopes + 4)
  BY <1>5, <1>10, ChainGrows
<1>12. TimelineAt(Cat(Cat(Cat(Cat(a, b), c), d), e), Scopes + 4)
  BY <1>6, <1>11, ChainGrows
<1>13. /\ TimelineAt(Chain, Scopes + 4)
       /\ Len(Chain) = Len(Cat(Cat(Cat(Cat(a, b), c), d), e)) + 1
       /\ Len(Cat(Cat(Cat(Cat(a, b), c), d), e)) \in Nat
  <2>1. PICK g : g = Cat(Cat(Cat(Cat(a, b), c), d), e)
    OBVIOUS
  <2>2. TimelineAt(g, Scopes + 4) /\ Chain = Cat(g, f)
    BY <1>8, <1>12, <2>1
  <2>3. TimelineAt(Cat(g, f), Scopes + 4) /\ Len(Cat(g, f)) = Len(g) + 1 /\ Len(g) \in Nat
    BY <1>7, <2>2, ChainGrows
  <2>. QED  BY <2>1, <2>2, <2>3
<1>14. Len(Chain) \in Nat /\ Len(Chain) > Scopes + 4
  BY <1>1, <1>12, <1>13 DEF TimelineAt
<1>15. Chain \in Seq(Published)
  BY <1>13 DEF TimelineAt
<1>16. \A i \in 1..Len(Chain) : Chain[i] \in Published
  BY <1>15, ElementOfSeq
<1>. HIDE DEF Chain
<1>. QED  BY <1>1, <1>13, <1>14, <1>15, <1>16, NamesAssumption DEF TimelineAt

-----------------------------------------------------------------------------
(* What is on the wire *)

Told == {Event(e) : e \in Sent}

LEMMA NamesProperties ==
  ASSUME NEW q \in Seq(Told)
  PROVE  /\ NamesOf(q) \in Seq(Sent)
         /\ \A m \in Told : NamesOf(Append(q, m)) = Append(NamesOf(q), m.event)
         /\ q # <<>> => NamesOf(q) = Cat(<<Head(q).event>>, NamesOf(Tail(q)))
<1>1. \A m \in Told : m.event \in Sent
  BY DEF Told, Event
<1>2. ASSUME NEW r \in Seq(Told)
      PROVE  /\ NamesOf(r) \in Seq(Sent) /\ Len(NamesOf(r)) = Len(r) /\ Len(r) \in Nat
             /\ \A i \in 1..Len(r) : NamesOf(r)[i] = r[i].event
  <2>1. Len(r) \in Nat /\ \A i \in 1..Len(r) : r[i] \in Told
    BY ElementOfSeq
  <2>2. NamesOf(r) \in [1..Len(r) -> Sent]
    BY <1>1, <2>1 DEF NamesOf
  <2>3. NamesOf(r) \in Seq(Sent)
    BY <2>1, <2>2, SeqDef, Zenon
  <2>4. DOMAIN NamesOf(r) = 1..Len(r)
    BY DEF NamesOf
  <2>. QED  BY <2>1, <2>3, <2>4, LenProperties DEF NamesOf
<1>3. ASSUME NEW m \in Told
      PROVE  NamesOf(Append(q, m)) = Append(NamesOf(q), m.event)
  <2>1. PICK r \in Seq(Told) : /\ r = Append(q, m) /\ Len(r) = Len(q) + 1 /\ r[Len(q) + 1] = m
                               /\ \A i \in 1..Len(q) : r[i] = q[i]
    <3>1. /\ Append(q, m) \in Seq(Told)
          /\ Len(Append(q, m)) = Len(q) + 1 /\ Append(q, m)[Len(q) + 1] = m
          /\ \A i \in 1..Len(q) : Append(q, m)[i] = q[i]
      BY <1>3
    <3>. QED  BY <3>1, Zenon
  <2>2. PICK n \in Seq(Sent) : n = NamesOf(q) /\ Len(n) = Len(q) /\ Len(q) \in Nat
                               /\ \A i \in 1..Len(q) : n[i] = q[i].event
    BY <1>2
  <2>3. PICK k \in Seq(Sent) : k = NamesOf(r) /\ Len(k) = Len(q) + 1
                               /\ \A i \in 1..(Len(q) + 1) : k[i] = r[i].event
    BY <1>2, <2>1
  <2>4. PICK x \in Sent : x = m.event
    BY <1>1
  <2>5. \A i \in 1..(Len(q) + 1) : i \in 1..Len(q) \/ i = Len(q) + 1
    BY <2>2
  <2>6. /\ Append(n, x) \in Seq(Sent) /\ Len(Append(n, x)) = Len(q) + 1
        /\ \A i \in 1..Len(q) : Append(n, x)[i] = n[i]
        /\ Append(n, x)[Len(q) + 1] = x
    BY <2>2
  <2>7. \A i \in 1..(Len(q) + 1) : k[i] = Append(n, x)[i]
    BY <2>1, <2>2, <2>3, <2>4, <2>5, <2>6
  <2>8. k = Append(n, x)
    BY <2>2, <2>3, <2>6, <2>7, SeqEqual
  <2>. QED  BY <2>1, <2>2, <2>3, <2>4, <2>8
<1>4. ASSUME q # <<>>  PROVE NamesOf(q) = Cat(<<Head(q).event>>, NamesOf(Tail(q)))
  <2>1. PICK x \in Sent, t \in Seq(Told) :
          /\ x = Head(q).event /\ t = Tail(q) /\ Len(q) = Len(t) + 1 /\ Len(t) \in Nat
          /\ q[1].event = x /\ \A i \in 1..Len(t) : t[i] = q[i + 1]
    <3>1. /\ Head(q) \in Told /\ Tail(q) \in Seq(Told) /\ Len(q) = Len(Tail(q)) + 1
          /\ Len(Tail(q)) \in Nat /\ q[1] = Head(q)
          /\ \A i \in 1..Len(Tail(q)) : Tail(q)[i] = q[i + 1]
      BY <1>4
    <3>. QED  BY <1>1, <3>1, Zenon
  <2>2. PICK n \in Seq(Sent) : n = NamesOf(t) /\ Len(n) = Len(t)
                               /\ \A i \in 1..Len(t) : n[i] = t[i].event
    BY <1>2
  <2>3. PICK k \in Seq(Sent) : k = NamesOf(q) /\ Len(k) = Len(t) + 1
                               /\ \A i \in 1..(Len(t) + 1) : k[i] = q[i].event
    BY <1>2, <2>1
  <2>4. /\ Cat(<<x>>, n) \in Seq(Sent) /\ Len(Cat(<<x>>, n)) = Len(t) + 1
        /\ Cat(<<x>>, n)[1] = x
        /\ \A i \in 2..(Len(t) + 1) : Cat(<<x>>, n)[i] = n[i - 1]
    <3>1. PICK o \in Seq(Sent) : o = <<x>> /\ Len(o) = 1 /\ o[1] = x
      <4>1. <<x>> \in Seq(Sent) /\ Len(<<x>>) = 1 /\ <<x>>[1] = x
        OBVIOUS
      <4>. QED  BY <4>1, Zenon
    <3>2. PICK l \in Nat : l = Len(t) /\ Len(n) = l
      BY <2>1, <2>2
    <3>5. Len(o) = 1 /\ o[1] = x
      BY <3>1
    <3>6. PICK j \in Nat : j = 1 /\ j = Len(o)
      BY <3>5
    <3>7. /\ Cat(o, n) \in Seq(Sent) /\ Len(Cat(o, n)) = j + l
          /\ \A i \in 1..(j + l) : /\ i <= j => Cat(o, n)[i] = o[i] /\ i \in 1..j
                                   /\ i > j => Cat(o, n)[i] = n[i - j] /\ i - j \in 1..l
      <4>1. j = Len(o) /\ l = Len(n)
        BY <3>2, <3>6
      <4>. QED  BY <4>1, CatAt
    <3>3. /\ Cat(o, n) \in Seq(Sent) /\ Len(Cat(o, n)) = 1 + l
          /\ \A i \in 1..(1 + l) : /\ i <= 1 => Cat(o, n)[i] = o[i]
                                   /\ i > 1 => Cat(o, n)[i] = n[i - 1]
      BY <3>6, <3>7
    <3>4. Len(Cat(o, n)) = l + 1 /\ Cat(o, n)[1] = x /\ \A i \in 2..(l + 1) : Cat(o, n)[i] = n[i - 1]
      BY <3>5, <3>3
    <3>. QED  BY <3>1, <3>2, <3>3, <3>4, Zenon
  <2>5. ASSUME NEW i \in 1..(Len(t) + 1)  PROVE k[i] = Cat(<<x>>, n)[i]
    <3>1. CASE i = 1
      BY <2>1, <2>3, <2>4, <3>1
    <3>2. CASE i # 1
      <4>1. i \in 2..(Len(t) + 1) /\ i - 1 \in 1..Len(t) /\ (i - 1) + 1 = i
        BY <2>1, <3>2
      <4>2. n[i - 1] = t[i - 1].event /\ t[i - 1] = q[i]
        BY <2>1, <2>2, <4>1
      <4>. QED  BY <2>3, <2>4, <4>1, <4>2
    <3>. QED  BY <3>1, <3>2
  <2>6. k = Cat(<<x>>, n)
    BY <2>3, <2>4, <2>5, SeqEqual
  <2>. QED  BY <2>1, <2>2, <2>3, <2>6
<1>. QED  BY <1>2, <1>3, <1>4

(* A stream's events, when a message is added or read. *)
EventsIn(w) == NamesOf(Only(w, {Event(e) : e \in Sent}))

LEMMA MessageKinds ==
  \A m \in Message : /\ m.type = "event" => m \in Told /\ m.event \in Sent
                     /\ m.type # "event" => m \notin Told
<1>1. ASSUME NEW m \in Message, m.type = "event"
      PROVE  m \in Told /\ m.event \in Sent
  <2>1. m \in [type : {"event"}, event : Events \cup {Reverse}]
    BY <1>1 DEF Message
  <2>2. m = [type |-> "event", event |-> m.event] /\ m.event \in Events \cup {Reverse}
    BY <2>1
  <2>. QED  BY <2>2 DEF Told, Event, Sent
<1>2. \A m \in Told : m.type = "event"
  BY DEF Told, Event
<1>. QED  BY <1>1, <1>2

LEMMA EventsInType == ASSUME NEW w \in Seq(Message)  PROVE EventsIn(w) \in Seq(Sent)
<1>1. PICK U : U = Message \cap Told
  OBVIOUS
<1>2. Only(w, Told) \in Seq(U)
  BY <1>1, OnlyType
<1>3. Only(w, Told) \in Seq(Told)
  BY <1>1, <1>2, SeqMonotonic
<1>. QED  BY <1>3, NamesProperties DEF EventsIn, Told

LEMMA EventsInAppend ==
  ASSUME NEW w \in Seq(Message), NEW m \in Message
  PROVE  EventsIn(Append(w, m)) = IF m.type = "event" THEN Append(EventsIn(w), m.event) ELSE EventsIn(w)
<1>1. Only(w, Told) \in Seq(Told)
  <2>1. PICK U : U = Message \cap Told
    OBVIOUS
  <2>2. Only(w, Told) \in Seq(U)
    BY <2>1, OnlyType
  <2>. QED  BY <2>1, <2>2, SeqMonotonic
<1>2. Only(Append(w, m), Told) = IF m \in Told THEN Append(Only(w, Told), m) ELSE Only(w, Told)
  BY OnlyAppend
<1>3. m \in Told => NamesOf(Append(Only(w, Told), m)) = Append(NamesOf(Only(w, Told)), m.event)
  BY <1>1, NamesProperties
<1>. HIDE DEF Told
<1>. QED  BY <1>2, <1>3, MessageKinds DEF EventsIn, Told

LEMMA EventsInHead ==
  ASSUME NEW w \in Seq(Message), w # <<>>
  PROVE  EventsIn(w) = IF Head(w).type = "event" THEN Cat(<<Head(w).event>>, EventsIn(Tail(w)))
                       ELSE EventsIn(Tail(w))
<1>1. PICK m \in Message, t \in Seq(Message) : m = Head(w) /\ t = Tail(w)
  <2>1. Head(w) \in Message /\ Tail(w) \in Seq(Message)
    OBVIOUS
  <2>. QED  BY <2>1, Zenon
<1>2. Only(t, Told) \in Seq(Told)
  <2>1. PICK U : U = Message \cap Told
    OBVIOUS
  <2>2. Only(t, Told) \in Seq(U)
    BY <2>1, OnlyType
  <2>. QED  BY <2>1, <2>2, SeqMonotonic
<1>3. Only(w, Told) = IF m \in Told THEN Cat(<<m>>, Only(t, Told)) ELSE Only(t, Told)
  BY <1>1, OnlyHead
<1>4. ASSUME m \in Told
      PROVE  NamesOf(Cat(<<m>>, Only(t, Told))) = Cat(<<m.event>>, NamesOf(Only(t, Told)))
  <2>1. PICK o \in Seq(Told) : o = Only(t, Told)
    BY <1>2
  <2>2. PICK q \in Seq(Told) : q = Cat(<<m>>, o) /\ q # <<>> /\ Head(q) = m /\ Tail(q) = o
    <3>1. /\ Cat(<<m>>, o) \in Seq(Told) /\ Cat(<<m>>, o) # <<>>
          /\ Head(Cat(<<m>>, o)) = m /\ Tail(Cat(<<m>>, o)) = o
      BY <1>4 DEF Cat
    <3>. QED  BY <3>1, Zenon
  <2>. QED  BY <2>1, <2>2, NamesProperties
<1>. QED  BY <1>1, <1>3, <1>4, MessageKinds DEF EventsIn, Told

-----------------------------------------------------------------------------
(* What the client's steps leave to the dispatcher *)

(* What was sent and is not yet handled. *)
Ahead == Cat(events, EventsIn(wire))

LEMMA AheadType == ASSUME TypeOK  PROVE Ahead \in Seq(Sent)
<1>1. events \in Seq(Sent) /\ wire \in Seq(Message)
  BY DEF TypeOK, Sent
<1>. QED  BY <1>1, EventsInType, CatProperties DEF Ahead

(* The read loop moves an event from one queue to the other. *)
LEMMA ReadKeeps ==
  ASSUME TypeOK, ReadStep
  PROVE  Ahead' = Ahead
<1>1. events \in Seq(Sent) /\ wire \in Seq(Message)
  BY DEF TypeOK, Sent
<1>2. ASSUME wire # <<>>, wire' = Tail(wire), events' = events, Head(wire).type # "event"
      PROVE  Ahead' = Ahead
  <2>1. EventsIn(wire) = EventsIn(Tail(wire))
    BY <1>1, <1>2, EventsInHead
  <2>. QED  BY <1>2, <2>1 DEF Ahead, EventsIn
<1>3. CASE ReadResponse
  BY <1>2, <1>3 DEF ReadResponse
<1>4. CASE ReadEvent
  <2>1. wire # <<>> /\ Head(wire).type = "event" /\ wire' = Tail(wire)
        /\ events' = Append(events, Head(wire).event)
    BY <1>4 DEF ReadEvent
  <2>2. PICK x \in Sent, t \in Seq(Message), r \in Seq(Sent) :
          x = Head(wire).event /\ t = Tail(wire) /\ r = EventsIn(t)
    <3>1. Head(wire) \in Message /\ Tail(wire) \in Seq(Message)
      BY <1>1, <2>1
    <3>2. Head(wire).event \in Sent /\ EventsIn(Tail(wire)) \in Seq(Sent)
      BY <2>1, <3>1, MessageKinds, EventsInType
    <3>. QED  BY <3>1, <3>2, Zenon
  <2>3. EventsIn(wire) = Cat(<<x>>, EventsIn(t))
    BY <1>1, <2>1, <2>2, EventsInHead
  <2>4. Cat(events, Cat(<<x>>, r)) = Cat(Append(events, x), r)
    BY <1>1, CatShift
  <2>5. wire' = t /\ events' = Append(events, x)
    BY <2>1, <2>2
  <2>. QED  BY <2>2, <2>3, <2>4, <2>5 DEF Ahead, EventsIn
<1>5. CASE ReadGarbage
  BY <1>2, <1>5 DEF ReadGarbage
<1>6. CASE ReadEof
  BY <1>6 DEF ReadEof, adapterVars, Ahead, EventsIn
<1>. QED  BY <1>3, <1>4, <1>5, <1>6 DEF ReadStep

(* What the dispatcher has to know of the client. *)
Kept ==
  /\ caller'[Dispatcher] = caller[Dispatcher]
  /\ writer' = "running" => writer = "running"
  /\ emitted' = emitted

LEMMA ElsewhereKeeps ==
  ASSUME TypeOK, Elsewhere
  PROVE  Ahead' = Ahead /\ Kept /\ UNCHANGED sessionVars
<1>1. UNCHANGED sessionVars
  BY DEF Elsewhere
<1>2. Dispatcher \in Callers /\ caller \in [Callers -> CallerState] /\ wire \in Seq(Message)
      /\ writer \in {"running", "broken"}
  BY SessionAssumption DEF TypeOK
<1>. DEFINE Rest == events' = events /\ wire' = wire /\ Kept
<1>3. ASSUME Rest  PROVE Ahead' = Ahead
  BY <1>3 DEF Ahead, EventsIn
<1>4. ASSUME NEW c \in Callers \ {Dispatcher}, TaskStep(c)  PROVE Rest
  <2>. USE DEF Kept, taskVars, adapterVars
  <2>1. ASSUME NEW kind, Begin(c, kind)  PROVE Rest
    BY <1>2, <2>1 DEF Begin
  <2>2. ASSUME BeginRaw(c)  PROVE Rest
    BY <1>2, <2>2 DEF BeginRaw
  <2>3. ASSUME Register(c)  PROVE Rest
    BY <1>2, <2>3 DEF Register
  <2>4. ASSUME Send(c)  PROVE Rest
    BY <1>2, <2>4 DEF Send
  <2>5. ASSUME Leave(c)  PROVE Rest
    BY <1>2, <2>5 DEF Leave
  <2>. QED  BY <1>4, <2>1, <2>2, <2>3, <2>4, <2>5 DEF TaskStep, SendFails, Complete, Cancel
<1>5. ASSUME ReadStep  PROVE Ahead' = Ahead /\ Kept
  <2>1. Kept
    BY <1>5 DEF ReadStep, ReadResponse, ReadEvent, ReadGarbage, ReadEof, Kept, taskVars, adapterVars
  <2>. QED  BY <1>5, <2>1, ReadKeeps
<1>6. ASSUME WriteStep  PROVE Rest
  BY <1>6 DEF WriteStep, WriteFrame, WriteDead, Kept, taskVars, adapterVars
<1>7. ASSUME NEW s \in inbox, AdapterAnswer(s)  PROVE Ahead' = Ahead /\ Kept
  <2>1. Kept /\ events' = events
    BY <1>7 DEF AdapterAnswer, Kept, taskVars
  <2>2. PICK m \in Message : wire' = Append(wire, m) /\ m.type # "event"
    <3>1. s \in Nat
      BY DEF TypeOK
    <3>2. Response(s) \in Message /\ Response(s).type = "response"
      BY <3>1 DEF Response, Message
    <3>3. Garbage \in Message /\ Garbage.type = "garbage"
      BY DEF Garbage, Message
    <3>4. wire' = Append(wire, Response(s)) \/ wire' = Append(wire, Garbage)
      BY <1>7 DEF AdapterAnswer
    <3>. HIDE DEF Response, Garbage
    <3>. QED  BY <3>2, <3>3, <3>4
  <2>3. EventsIn(Append(wire, m)) = EventsIn(wire)
    BY <1>2, <2>2, EventsInAppend
  <2>4. EventsIn(wire)' = EventsIn(wire)
    BY <2>2, <2>3 DEF EventsIn
  <2>. QED  BY <2>1, <2>4 DEF Ahead
<1>8. ASSUME AdapterExit  PROVE Rest
  BY <1>8 DEF AdapterExit, Kept, taskVars
<1>. HIDE DEF Rest
<1>9. Rest => Kept
  BY DEF Rest
<1>. QED  BY <1>1, <1>3, <1>4, <1>5, <1>6, <1>7, <1>8, <1>9 DEF Elsewhere

LEMMA EmitKeeps ==
  ASSUME TypeOK, NEW e \in Events \cup {Reverse}, Emit(e)
  PROVE  /\ Ahead' = Append(Ahead, e) /\ emitted' = emitted + 1
         /\ caller' = caller /\ writer' = writer
<1>1. events \in Seq(Sent) /\ wire \in Seq(Message) /\ e \in Sent
  BY DEF TypeOK, Sent
<1>2. wire' = Append(wire, Event(e)) /\ events' = events /\ caller' = caller /\ writer' = writer
      /\ emitted' = emitted + 1
  BY DEF Emit, AdapterEmit, taskVars
<1>3. Event(e) \in Message /\ Event(e).type = "event" /\ Event(e).event = e
  BY DEF Event, Message
<1>4. EventsIn(Append(wire, Event(e))) = Append(EventsIn(wire), e)
  BY <1>1, <1>3, EventsInAppend
<1>5. EventsIn(wire)' = Append(EventsIn(wire), e)
  BY <1>2, <1>4 DEF EventsIn
<1>6. Append(Cat(events, EventsIn(wire)), e) = Cat(events, Append(EventsIn(wire), e))
  BY <1>1, EventsInType, CatProperties
<1>7. Ahead' = Cat(events, Append(EventsIn(wire), e))
  BY <1>2, <1>5 DEF Ahead
<1>. QED  BY <1>2, <1>6, <1>7 DEF Ahead

LEMMA ReceiveTakes ==
  ASSUME TypeOK, Receive
  PROVE  /\ Head(events) \in Sent
         /\ Ahead = Cat(<<Head(events)>>, Ahead') /\ Ahead' \in Seq(Sent)
         /\ Kept
<1>1. events \in Seq(Sent) /\ wire \in Seq(Message) /\ events # <<>>
  BY DEF TypeOK, Sent, Receive, TakeEvent
<1>2. events' = Tail(events) /\ wire' = wire /\ Kept
  BY DEF Receive, TakeEvent, Kept, taskVars, adapterVars
<1>3. PICK x \in Sent, t \in Seq(Sent) : x = Head(events) /\ t = Tail(events) /\ events = Cat(<<x>>, t)
  <2>1. Head(events) \in Sent /\ Tail(events) \in Seq(Sent) /\ events = Cat(<<Head(events)>>, Tail(events))
    BY <1>1 DEF Cat
  <2>. QED  BY <2>1, Zenon
<1>4. PICK o \in Seq(Sent) : o = <<x>>
  BY <1>3, CatShift
<1>5. Cat(Cat(o, t), EventsIn(wire)) = Cat(o, Cat(t, EventsIn(wire)))
  <2>1. EventsIn(wire) \in Seq(Sent)
    BY <1>1, EventsInType
  <2>. QED  BY <2>1, CatAssociative
<1>6. Ahead' = Cat(t, EventsIn(wire))
  BY <1>2, <1>3 DEF Ahead, EventsIn
<1>7. Cat(t, EventsIn(wire)) \in Seq(Sent)
  BY <1>1, EventsInType, CatProperties
<1>. QED  BY <1>2, <1>3, <1>4, <1>5, <1>6, <1>7 DEF Ahead

(* The dispatcher's calls of the client leave the events alone. *)
LEMMA CallKeeps ==
  ASSUME TypeOK,
         \/ \E kind : Begin(Dispatcher, kind)
         \/ BeginRaw(Dispatcher) \/ Register(Dispatcher) \/ Send(Dispatcher)
         \/ Leave(Dispatcher) \/ UNCHANGED vars
  PROVE  Ahead' = Ahead /\ writer' = writer /\ emitted' = emitted
<1>1. events' = events /\ wire' = wire /\ writer' = writer /\ emitted' = emitted
  BY DEF Begin, BeginRaw, Register, Send, Leave, vars, adapterVars
<1>. QED  BY <1>1 DEF Ahead, EventsIn

-----------------------------------------------------------------------------
(* The invariant of the dispatcher *)

SessionTypes ==
  /\ sent \in Seq(Sent) /\ Len(sent) = emitted
  /\ disp \in [pc : {"recv", "ack", "broadcast", "apply", "enrich"},
               event : Sent \cup {None}, step : 0..Len(Chain)]
  /\ log \in Seq(Events \cup {Chain[i] : i \in 1..Len(Chain)})
  /\ ready \in BOOLEAN /\ terminated \in BOOLEAN
  /\ acked \in Nat /\ stops \in Nat /\ lastStopped \in Nat \cup {None}
  /\ timeline \in Seq(Nat)

(* Where the dispatcher is in the client when it is where it is. *)
Placed ==
  /\ disp.pc \in {"broadcast", "apply"} => disp.event \in Events \ {"initialized"}
  /\ disp.pc \notin {"ack", "enrich"} => caller[Dispatcher] = Idle
  /\ disp.pc = "ack" => \/ caller[Dispatcher] = Idle
                        \/ caller[Dispatcher].pc = "sending" /\ caller[Dispatcher].kind = "raw"
  /\ disp.pc = "enrich" =>
       /\ disp.step \in 1..Len(Chain) /\ stops # 0
       /\ \/ caller[Dispatcher] = Idle
          \/ caller[Dispatcher].kind = "request" /\ Link \in Requests

(* The stop in hand is recorded by the link of the chain that does so. *)
Recorded == IF disp.pc = "enrich" /\ disp.step <= Scopes + 4 THEN stops - 1 ELSE stops
Recording == writer = "running" => timeline = [i \in 1..Recorded |-> i]

(* The session's view is that of an observer who saw p. *)
View(p) ==
  /\ ready <=> \E i \in 1..Len(p) : p[i] \in {"initialized"}
  /\ terminated <=> \E i \in 1..Len(p) : p[i] \in {"terminated", "exited"}
  /\ stops = Len(Only(p, {"stopped"}))
  /\ lastStopped = IF Paused(p) THEN stops ELSE None

(* d was received, and p has had its effect. *)
History(d, p) ==
  /\ Len(d) = handled
  /\ sent = Cat(d, Ahead)
  /\ d = IF disp.pc \in {"broadcast", "apply"} THEN Append(p, disp.event) ELSE p
  /\ Only(log, Events) = ForTheHub(IF disp.pc = "apply" THEN d ELSE p)
  /\ View(p)

HistoryKnown == \E d, p \in Seq(Sent) : History(d, p)

SInv == TypeOK /\ SessionTypes /\ Placed /\ Recording /\ HistoryKnown

-----------------------------------------------------------------------------
(* What one more event means to an observer *)

LEMMA Appended ==
  ASSUME NEW p \in Seq(Sent), NEW e \in Sent
  PROVE  \E r \in Seq(Sent), n \in Nat :
           /\ r = Append(p, e) /\ n = Len(p) /\ Len(r) = n + 1 /\ r[n + 1] = e
           /\ \A i \in 1..n : r[i] = p[i]
<1>1. Append(p, e) \in Seq(Sent) /\ Len(p) \in Nat /\ Len(Append(p, e)) = Len(p) + 1
      /\ Append(p, e)[Len(p) + 1] = e /\ \A i \in 1..Len(p) : Append(p, e)[i] = p[i]
  OBVIOUS
<1>. QED  BY <1>1, Zenon

LEMMA HasAppend ==
  ASSUME NEW p \in Seq(Sent), NEW e \in Sent, NEW K
  PROVE  (\E i \in 1..Len(Append(p, e)) : Append(p, e)[i] \in K)
           <=> e \in K \/ \E i \in 1..Len(p) : p[i] \in K
<1>1. PICK r \in Seq(Sent), n \in Nat :
           /\ r = Append(p, e) /\ n = Len(p) /\ Len(r) = n + 1 /\ r[n + 1] = e
           /\ \A i \in 1..n : r[i] = p[i]
  BY Appended
<1>2. \A i : i \in 1..(n + 1) <=> i \in 1..n \/ i = n + 1
  OBVIOUS
<1>3. (\E i \in 1..(n + 1) : r[i] \in K) <=> e \in K \/ \E i \in 1..n : p[i] \in K
  BY <1>1, <1>2
<1>. QED  BY <1>1, <1>3

LEMMA PausedAppend ==
  ASSUME NEW p \in Seq(Sent), NEW e \in Sent
  PROVE  Paused(Append(p, e)) <=> e = "stopped" \/ (Paused(p) /\ e # "continued")
<1>1. PICK r \in Seq(Sent), n \in Nat :
           /\ r = Append(p, e) /\ n = Len(p) /\ Len(r) = n + 1 /\ r[n + 1] = e
           /\ \A i \in 1..n : r[i] = p[i]
  BY Appended
<1>2. Paused(r) <=> \E i \in 1..(n + 1) : r[i] = "stopped" /\ \A j \in i..(n + 1) : r[j] # "continued"
  BY <1>1 DEF Paused
<1>3. Paused(p) <=> \E i \in 1..n : p[i] = "stopped" /\ \A j \in i..n : p[j] # "continued"
  BY <1>1 DEF Paused
<1>4. ASSUME Paused(r)  PROVE e = "stopped" \/ (Paused(p) /\ e # "continued")
  <2>1. PICK i \in 1..(n + 1) : r[i] = "stopped" /\ \A j \in i..(n + 1) : r[j] # "continued"
    BY <1>2, <1>4
  <2>2. e # "continued"
    BY <1>1, <2>1
  <2>3. CASE i = n + 1
    BY <1>1, <2>1, <2>3
  <2>4. CASE i # n + 1
    <3>1. i \in 1..n /\ \A j \in i..n : j \in i..(n + 1) /\ j \in 1..n
      BY <2>4
    <3>2. p[i] = "stopped" /\ \A j \in i..n : p[j] # "continued"
      BY <1>1, <2>1, <3>1
    <3>. QED  BY <1>3, <2>2, <3>1, <3>2
  <2>. QED  BY <2>3, <2>4
<1>5. ASSUME e = "stopped"  PROVE Paused(r)
  <2>1. n + 1 \in 1..(n + 1) /\ \A j \in (n + 1)..(n + 1) : j = n + 1
    OBVIOUS
  <2>2. r[n + 1] = "stopped" /\ \A j \in (n + 1)..(n + 1) : r[j] # "continued"
    BY <1>1, <1>5, <2>1
  <2>. QED  BY <1>2, <2>1, <2>2
<1>6. ASSUME Paused(p), e # "continued"  PROVE Paused(r)
  <2>1. PICK i \in 1..n : p[i] = "stopped" /\ \A j \in i..n : p[j] # "continued"
    BY <1>3, <1>6
  <2>2. i \in 1..(n + 1) /\ \A j \in i..(n + 1) : j = n + 1 \/ (j \in i..n /\ j \in 1..n)
    OBVIOUS
  <2>3. r[i] = "stopped" /\ \A j \in i..(n + 1) : r[j] # "continued"
    BY <1>1, <1>6, <2>1, <2>2
  <2>. QED  BY <1>2, <2>2, <2>3
<1>. QED  BY <1>1, <1>4, <1>5, <1>6

LEMMA StopsAppend ==
  ASSUME NEW p \in Seq(Sent), NEW e \in Sent
  PROVE  /\ Len(Only(p, {"stopped"})) \in Nat
         /\ Len(Only(Append(p, e), {"stopped"}))
              = IF e = "stopped" THEN Len(Only(p, {"stopped"})) + 1 ELSE Len(Only(p, {"stopped"}))
<1>1. Only(Append(p, e), {"stopped"})
        = IF e \in {"stopped"} THEN Append(Only(p, {"stopped"}), e) ELSE Only(p, {"stopped"})
  BY OnlyAppend
<1>2. PICK o \in Seq(Sent) : o = Only(p, {"stopped"})
  <2>1. PICK U : U = Sent \cap {"stopped"}
    OBVIOUS
  <2>2. Only(p, {"stopped"}) \in Seq(U)
    BY <2>1, OnlyType
  <2>3. Only(p, {"stopped"}) \in Seq(Sent)
    BY <2>1, <2>2, SeqMonotonic
  <2>. QED  BY <2>3, Zenon
<1>3. Len(o) \in Nat /\ Len(Append(o, e)) = Len(o) + 1
  OBVIOUS
<1>. QED  BY <1>1, <1>2, <1>3

LEMMA HubAppend ==
  ASSUME NEW p \in Seq(Sent), NEW e \in Sent
  PROVE  ForTheHub(Append(p, e))
           = IF e \in Events \ {"initialized"} THEN Append(ForTheHub(p), e) ELSE ForTheHub(p)
BY OnlyAppend DEF ForTheHub

(* Neither the dispatcher nor the adapter undoes a history. *)
LEMMA HistoryStays ==
  ASSUME NEW d, NEW p, History(d, p), Ahead' = Ahead,
         UNCHANGED <<sent, handled, ready, terminated, stops, lastStopped>>,
         \/ UNCHANGED <<disp, log>>
         \/ /\ disp.pc \notin {"broadcast", "apply"} /\ disp'.pc \notin {"broadcast", "apply"}
            /\ Only(log, Events)' = Only(log, Events)
  PROVE  History(d, p)'
BY DEF History, View

(* A link of the chain that is published is no event. *)
LEMMA PublishedApart ==
  ASSUME SessionTypes, NEW x \in {Chain[i] : i \in 1..Len(Chain)}
  PROVE  /\ Append(log, x) \in Seq(Events \cup {Chain[i] : i \in 1..Len(Chain)})
         /\ Only(Append(log, x), Events) = Only(log, Events)
<1>1. PICK T : T = Events \cup {Chain[i] : i \in 1..Len(Chain)}
  OBVIOUS
<1>2. x \notin Events /\ x \in T /\ log \in Seq(T)
  BY <1>1, ChainFacts DEF SessionTypes
<1>3. Only(Append(log, x), Events) = Only(log, Events)
  BY <1>2, OnlyAppend
<1>. QED  BY <1>1, <1>2, <1>3

LEMMA AfterLinkProperties ==
  ASSUME SessionTypes, Placed, disp.pc = "enrich"
  PROVE  /\ AfterLink \in [pc : {"recv", "ack", "broadcast", "apply", "enrich"},
                           event : Sent \cup {None}, step : 0..Len(Chain)]
         /\ \/ /\ AfterLink.pc = "recv" /\ disp.step = Len(Chain) /\ disp.step > Scopes + 4
            \/ /\ AfterLink.pc = "enrich" /\ AfterLink.step = disp.step + 1
               /\ disp.step + 1 \in 1..Len(Chain)
         /\ Link \in {Chain[i] : i \in 1..Len(Chain)}
         /\ Link = "timeline" <=> disp.step = Scopes + 4
<1>1. disp.step \in 1..Len(Chain) /\ Len(Chain) \in Nat /\ Scopes \in Nat /\ Len(Chain) > Scopes + 4
  BY ChainFacts DEF Placed
<1>2. disp \in [pc : {"recv", "ack", "broadcast", "apply", "enrich"},
                event : Sent \cup {None}, step : 0..Len(Chain)]
  BY DEF SessionTypes
<1>3. Link \in {Chain[i] : i \in 1..Len(Chain)} /\ (Link = "timeline" <=> disp.step = Scopes + 4)
  BY <1>1, ChainFacts DEF Link
<1>4. CASE disp.step = Len(Chain)
  <2>1. AfterLink = Receiving
    BY <1>4 DEF AfterLink
  <2>2. Receiving.pc = "recv" /\ Receiving \in [pc : {"recv", "ack", "broadcast", "apply", "enrich"},
                                                event : Sent \cup {None}, step : 0..Len(Chain)]
    BY <1>1 DEF Receiving, Doing
  <2>. QED  BY <1>1, <1>3, <1>4, <2>1, <2>2
<1>5. CASE disp.step # Len(Chain)
  <2>1. AfterLink = [disp EXCEPT !.step = @ + 1]
    BY <1>5 DEF AfterLink
  <2>2. disp.step + 1 \in 1..Len(Chain) /\ disp.step + 1 \in 0..Len(Chain)
    BY <1>1, <1>5
  <2>. QED  BY <1>2, <1>3, <2>1, <2>2
<1>. QED  BY <1>4, <1>5

-----------------------------------------------------------------------------
(* Its beginning, and receiving *)

LEMMA NoNames == NamesOf(<<>>) = <<>>
<1>1. PICK n \in Nat : n = 0 /\ n = Len(<<>>)
  OBVIOUS
<1>2. NamesOf(<<>>) = [i \in 1..n |-> <<>>[i].event]
  BY <1>1 DEF NamesOf
<1>3. 1..n = {}
  BY <1>1
<1>4. DOMAIN NamesOf(<<>>) = {}
  BY <1>2, <1>3
<1>5. NamesOf(<<>>) = [i \in {} |-> i]
  BY <1>2, <1>3
<1>6. <<>> = [i \in {} |-> i]
  OBVIOUS
<1>. QED  BY <1>5, <1>6

LEMMA SInvInit == SessionInit => SInv
<1>. SUFFICES ASSUME SessionInit  PROVE SInv
  OBVIOUS
<1>1. TypeOK
  BY TypeInit DEF SessionInit
<1>2. Dispatcher \in Callers /\ 0 \in 0..Len(Chain)
  BY SessionAssumption, ChainFacts
<1>3. disp = Receiving /\ disp.pc = "recv"
  BY DEF SessionInit, Receiving, Doing
<1>4. SessionTypes
  <2>1. sent = <<>> /\ log = <<>> /\ timeline = <<>> /\ emitted = 0
    BY DEF SessionInit, Init
  <2>2. /\ <<>> \in Seq(Sent) /\ Len(<<>>) = 0 /\ <<>> \in Seq(Nat)
        /\ <<>> \in Seq(Events \cup {Chain[i] : i \in 1..Len(Chain)})
    BY EmptySeq
  <2>3. disp \in [pc : {"recv", "ack", "broadcast", "apply", "enrich"},
                  event : Sent \cup {None}, step : 0..Len(Chain)]
    BY <1>2 DEF SessionInit, Receiving, Doing
  <2>4. /\ ready \in BOOLEAN /\ terminated \in BOOLEAN
        /\ acked \in Nat /\ stops \in Nat /\ lastStopped \in Nat \cup {None}
    BY DEF SessionInit
  <2>. QED  BY <2>1, <2>2, <2>3, <2>4 DEF SessionTypes
<1>5. caller[Dispatcher] = Idle
  BY <1>2 DEF SessionInit, Init
<1>6. Placed
  BY <1>3, <1>5 DEF Placed
<1>7. Recording
  <2>1. Recorded = 0 /\ timeline = <<>>
    BY <1>3 DEF SessionInit, Recorded
  <2>2. [i \in 1..0 |-> i] = <<>>
    OBVIOUS
  <2>. QED  BY <2>1, <2>2 DEF Recording
<1>8. PICK e \in Seq(Sent) : e = <<>> /\ Len(e) = 0
  <2>1. <<>> \in Seq(Sent) /\ Len(<<>>) = 0
    OBVIOUS
  <2>. QED  BY <2>1, Zenon
<1>9. Ahead = e
  <2>1. EventsIn(<<>>) = <<>>
    <3>1. Len(<<>>) = 0
      OBVIOUS
    <3>2. Only(<<>>, {Event(x) : x \in Sent}) = <<>>
      BY OnlyEmpty
    <3>3. NamesOf(<<>>) = <<>>
      BY <3>1, NoNames
    <3>. QED  BY <3>2, <3>3 DEF EventsIn
  <2>2. Cat(<<>>, <<>>) = <<>>
    BY <1>8, CatProperties
  <2>. QED  BY <1>8, <2>1, <2>2 DEF SessionInit, Init, Ahead
<1>10. History(e, e)
  <2>1. Cat(e, e) = e /\ \A S : Only(e, S) = e
    BY <1>8, CatProperties, OnlyEmpty
  <2>2. sent = e /\ log = e /\ handled = 0
    BY <1>8 DEF SessionInit
  <2>3. View(e)
    <3>1. ~Paused(e) /\ \A i \in 1..Len(e) : FALSE
      BY <1>8 DEF Paused
    <3>. QED  BY <1>8, <2>1, <3>1 DEF View, SessionInit
  <2>. QED  BY <1>3, <1>8, <1>9, <2>1, <2>2, <2>3 DEF History, ForTheHub
<1>. QED  BY <1>1, <1>4, <1>6, <1>7, <1>10 DEF SInv, HistoryKnown

(* One event more is received. *)
LEMMA SInvReceive ==
  ASSUME SInv, Receive
  PROVE  SessionTypes' /\ Placed' /\ Recording' /\ HistoryKnown'
<1>. DEFINE e == Head(events)
<1>1. /\ e \in Sent /\ Ahead = Cat(<<e>>, Ahead') /\ Ahead' \in Seq(Sent)
      /\ caller'[Dispatcher] = caller[Dispatcher] /\ emitted' = emitted
      /\ writer' = "running" => writer = "running"
  BY ReceiveTakes DEF SInv, Kept
<1>2. /\ disp.pc = "recv" /\ handled' = handled + 1 /\ (ready' <=> ready \/ e = "initialized")
      /\ disp' = CASE e = "initialized" -> Receiving
                   [] e = Reverse       -> Doing("ack", e, 0)
                   [] OTHER             -> Doing("broadcast", e, 0)
      /\ UNCHANGED <<sent, log, acked, lastStopped, stops, timeline, terminated>>
  BY DEF Receive
<1>3. ready' \in BOOLEAN
  BY DEF Receive, SInv, SessionTypes
<1>. HIDE DEF e
<1>4. caller[Dispatcher] = Idle
  BY <1>2 DEF SInv, Placed
<1>5. Len(Chain) \in Nat
  BY ChainFacts
<1>6. /\ SessionTypes
      /\ disp' \in [pc : {"recv", "ack", "broadcast", "apply", "enrich"},
                    event : Sent \cup {None}, step : 0..Len(Chain)]
      /\ disp'.pc = IF e = "initialized" THEN "recv" ELSE IF e = Reverse THEN "ack" ELSE "broadcast"
      /\ disp'.pc = "broadcast" => disp'.event = e /\ e \in Events \ {"initialized"}
  BY <1>1, <1>2, <1>5 DEF Receiving, Doing, SInv, Sent, Reverse
<1>7. SessionTypes'
  BY <1>1, <1>2, <1>3, <1>6 DEF SessionTypes
<1>8. Placed'
  BY <1>1, <1>4, <1>6 DEF Placed
<1>9. Recording'
  BY <1>1, <1>2, <1>6 DEF SInv, Recording, Recorded
<1>10. PICK d \in Seq(Sent), p \in Seq(Sent) : History(d, p)
  BY DEF SInv, HistoryKnown
<1>11. d = p
  BY <1>2, <1>10 DEF History
<1>12. PICK r \in Seq(Sent) : r = Append(p, e) /\ Len(r) = handled + 1
  <2>1. Append(p, e) \in Seq(Sent) /\ Len(Append(p, e)) = Len(p) + 1
    BY <1>1
  <2>2. Len(p) = handled
    BY <1>10, <1>11 DEF History
  <2>. QED  BY <2>1, <2>2, Zenon
<1>13. sent' = Cat(r, Ahead')
  <2>1. sent' = Cat(p, Cat(<<e>>, Ahead'))
    BY <1>1, <1>2, <1>10, <1>11 DEF History
  <2>2. Cat(p, Cat(<<e>>, Ahead')) = Cat(Append(p, e), Ahead')
    BY <1>1, CatShift
  <2>. QED  BY <1>12, <2>1, <2>2
<1>14. /\ Only(log, Events) = ForTheHub(p) /\ View(p)
  BY <1>2, <1>10 DEF History
<1>15. CASE e = "initialized"
  <2>1. disp'.pc = "recv"
    BY <1>6, <1>15
  <2>2. ForTheHub(r) = ForTheHub(p)
    BY <1>1, <1>12, <1>15, HubAppend
  <2>3. View(r)'
    <3>1. (\E i \in 1..Len(r) : r[i] \in {"initialized"}) /\ ready'
      <4>1. e \in {"initialized"} /\ ready'
        BY <1>2, <1>15
      <4>2. \E i \in 1..Len(Append(p, e)) : Append(p, e)[i] \in {"initialized"}
        BY <1>1, <4>1, HasAppend
      <4>. QED  BY <1>12, <4>1, <4>2
    <3>2. (\E i \in 1..Len(r) : r[i] \in {"terminated", "exited"})
            <=> \E i \in 1..Len(p) : p[i] \in {"terminated", "exited"}
      BY <1>1, <1>12, <1>15, HasAppend
    <3>3. Len(Only(r, {"stopped"})) = Len(Only(p, {"stopped"}))
      BY <1>1, <1>12, <1>15, StopsAppend
    <3>4. Paused(r) <=> Paused(p)
      BY <1>1, <1>12, <1>15, PausedAppend
    <3>. QED  BY <1>2, <1>14, <3>1, <3>2, <3>3, <3>4 DEF View
  <2>4. Only(log, Events)' = ForTheHub(r)
    BY <1>2, <1>14, <2>2
  <2>5. History(r, r)'
    BY <1>2, <1>12, <1>13, <2>1, <2>3, <2>4 DEF History, ForTheHub
  <2>. QED  BY <1>7, <1>8, <1>9, <2>5 DEF HistoryKnown
<1>16. CASE e = Reverse
  <2>1. disp'.pc = "ack" /\ e \notin Events /\ e # "initialized"
    BY <1>6, <1>16, ClientAssumption DEF Reverse
  <2>2. ForTheHub(r) = ForTheHub(p)
    BY <1>1, <1>12, <2>1, HubAppend
  <2>3. View(r)'
    <3>0. e \notin {"initialized", "terminated", "exited", "stopped", "continued"}
      BY <1>16 DEF Reverse
    <3>1. (\E i \in 1..Len(r) : r[i] \in {"initialized"})
            <=> \E i \in 1..Len(p) : p[i] \in {"initialized"}
      BY <1>1, <1>12, <3>0, HasAppend
    <3>2. (\E i \in 1..Len(r) : r[i] \in {"terminated", "exited"})
            <=> \E i \in 1..Len(p) : p[i] \in {"terminated", "exited"}
      BY <1>1, <1>12, <3>0, HasAppend
    <3>3. Len(Only(r, {"stopped"})) = Len(Only(p, {"stopped"}))
      BY <1>1, <1>12, <3>0, StopsAppend
    <3>4. Paused(r) <=> Paused(p)
      BY <1>1, <1>12, <3>0, PausedAppend
    <3>5. ready' <=> ready
      BY <1>2, <3>0
    <3>. QED  BY <1>2, <1>14, <3>1, <3>2, <3>3, <3>4, <3>5 DEF View
  <2>4. Only(log, Events)' = ForTheHub(r)
    BY <1>2, <1>14, <2>2
  <2>5. History(r, r)'
    BY <1>2, <1>12, <1>13, <2>1, <2>3, <2>4 DEF History, ForTheHub
  <2>. QED  BY <1>7, <1>8, <1>9, <2>5 DEF HistoryKnown
<1>17. CASE e # "initialized" /\ e # Reverse
  <2>1. disp'.pc = "broadcast" /\ disp'.event = e
    BY <1>6, <1>17
  <2>2. View(p)'
    BY <1>2, <1>14, <1>17 DEF View
  <2>3. Only(log, Events)' = ForTheHub(p)
    BY <1>2, <1>14
  <2>4. History(r, p)'
    BY <1>2, <1>12, <1>13, <2>1, <2>2, <2>3 DEF History, ForTheHub
  <2>. QED  BY <1>7, <1>8, <1>9, <2>4 DEF HistoryKnown
<1>. QED  BY <1>15, <1>16, <1>17

-----------------------------------------------------------------------------
(* The steps that no event is received, broadcast or applied in. *)

LEMMA QuietStep ==
  ASSUME SInv, Ahead' = Ahead,
         UNCHANGED <<sent, handled, ready, terminated, stops, lastStopped>>,
         \/ UNCHANGED <<disp, log>>
         \/ /\ disp.pc \notin {"broadcast", "apply"} /\ disp'.pc \notin {"broadcast", "apply"}
            /\ Only(log, Events)' = Only(log, Events)
  PROVE  HistoryKnown'
<1>1. PICK d \in Seq(Sent), p \in Seq(Sent) : History(d, p)
  BY DEF SInv, HistoryKnown
<1>2. History(d, p)'
  BY <1>1, HistoryStays
<1>. QED  BY <1>2 DEF HistoryKnown

LEMMA RestStays ==
  ASSUME SInv, Ahead' = Ahead, Kept, UNCHANGED sessionVars
  PROVE  SessionTypes' /\ Placed' /\ Recording' /\ HistoryKnown'
<1>1. SessionTypes'
  BY DEF SInv, SessionTypes, sessionVars, Kept
<1>2. Placed'
  BY DEF SInv, Placed, sessionVars, Kept, Link
<1>3. Recording'
  BY DEF SInv, Recording, Recorded, sessionVars, Kept
<1>4. HistoryKnown'
  BY QuietStep DEF sessionVars
<1>. QED  BY <1>1, <1>2, <1>3, <1>4

LEMMA SInvElsewhere ==
  ASSUME SInv, Elsewhere
  PROVE  SessionTypes' /\ Placed' /\ Recording' /\ HistoryKnown'
BY ElsewhereKeeps, RestStays DEF SInv

LEMMA SInvStutter ==
  ASSUME SInv, UNCHANGED svars
  PROVE  SessionTypes' /\ Placed' /\ Recording' /\ HistoryKnown'
<1>1. UNCHANGED vars /\ UNCHANGED sessionVars
  BY DEF svars
<1>2. Ahead' = Ahead
  BY <1>1, CallKeeps DEF SInv
<1>3. Kept
  BY <1>1 DEF Kept, vars
<1>. QED  BY <1>1, <1>2, <1>3, RestStays

LEMMA SInvEmit ==
  ASSUME SInv, NEW e \in Events \cup {Reverse}, Emit(e)
  PROVE  SessionTypes' /\ Placed' /\ Recording' /\ HistoryKnown'
<1>1. /\ Ahead' = Append(Ahead, e) /\ emitted' = emitted + 1
      /\ caller' = caller /\ writer' = writer
  BY EmitKeeps DEF SInv
<1>2. /\ sent' = Append(sent, e)
      /\ UNCHANGED <<disp, handled, log, ready, acked, lastStopped, stops, timeline, terminated>>
  BY DEF Emit
<1>3. SessionTypes /\ Placed /\ Recording /\ e \in Sent /\ sent \in Seq(Sent) /\ Len(sent) = emitted
  BY DEF SInv, SessionTypes, Sent
<1>4. Append(sent, e) \in Seq(Sent) /\ Len(Append(sent, e)) = emitted + 1
  BY <1>3
<1>5. SessionTypes'
  BY <1>1, <1>2, <1>3, <1>4 DEF SessionTypes
<1>6. Placed'
  BY <1>1, <1>2, <1>3 DEF Placed, Link
<1>7. Recording'
  BY <1>1, <1>2, <1>3 DEF Recording, Recorded
<1>8. PICK d \in Seq(Sent), p \in Seq(Sent) : History(d, p)
  BY DEF SInv, HistoryKnown
<1>9. sent' = Cat(d, Ahead')
  <2>1. sent = Cat(d, Ahead)
    BY <1>8 DEF History
  <2>2. Append(Cat(d, Ahead), e) = Cat(d, Append(Ahead, e))
    BY <1>3, AheadType, CatProperties DEF SInv
  <2>. QED  BY <1>1, <1>2, <2>1, <2>2
<1>10. View(p)'
  BY <1>2, <1>8 DEF History, View
<1>11. History(d, p)'
  BY <1>2, <1>8, <1>9, <1>10 DEF History
<1>. QED  BY <1>5, <1>6, <1>7, <1>11 DEF HistoryKnown

-----------------------------------------------------------------------------
(* The dispatcher's own steps *)

LEMMA SInvBeginAck ==
  ASSUME SInv, BeginAck
  PROVE  SessionTypes' /\ Placed' /\ Recording' /\ HistoryKnown'
<1>1. disp.pc = "ack" /\ UNCHANGED sessionVars
      /\ Ahead' = Ahead /\ writer' = writer /\ emitted' = emitted
  BY CallKeeps DEF BeginAck, SInv
<1>2. caller'[Dispatcher].pc = "sending" /\ caller'[Dispatcher].kind = "raw"
  BY SessionAssumption DEF BeginAck, BeginRaw, SInv, TypeOK
<1>3. SessionTypes'
  BY <1>1 DEF SInv, SessionTypes, sessionVars
<1>4. Placed'
  BY <1>1, <1>2 DEF SInv, Placed, sessionVars
<1>5. Recording'
  BY <1>1 DEF SInv, Recording, Recorded, sessionVars
<1>6. HistoryKnown'
  BY <1>1, QuietStep DEF sessionVars
<1>. QED  BY <1>3, <1>4, <1>5, <1>6

LEMMA SInvEndAck ==
  ASSUME SInv, EndAck
  PROVE  SessionTypes' /\ Placed' /\ Recording' /\ HistoryKnown'
<1>1. /\ disp.pc = "ack" /\ disp' = Receiving
      /\ UNCHANGED <<sent, handled, log, ready, lastStopped, stops, timeline, terminated>>
      /\ acked' = acked \/ acked' = acked + 1
      /\ Send(Dispatcher) \/ (Leave(Dispatcher) /\ caller[Dispatcher].pc = "sending")
  BY DEF EndAck, SendFails
<1>2. Ahead' = Ahead /\ writer' = writer /\ emitted' = emitted
  BY <1>1, CallKeeps DEF SInv
<1>3. caller[Dispatcher].pc = "sending" => caller[Dispatcher].kind = "raw"
  BY <1>1 DEF SInv, Placed, Idle
<1>4. caller'[Dispatcher] = Idle
  <2>1. Dispatcher \in Callers /\ caller \in [Callers -> CallerState]
    BY SessionAssumption DEF SInv, TypeOK
  <2>2. CASE Send(Dispatcher)
    BY <1>3, <2>1, <2>2 DEF Send
  <2>3. CASE Leave(Dispatcher)
    BY <2>1, <2>3 DEF Leave
  <2>. QED  BY <1>1, <2>2, <2>3
<1>5. Receiving.pc = "recv" /\ Receiving \in [pc : {"recv", "ack", "broadcast", "apply", "enrich"},
                                               event : Sent \cup {None}, step : 0..Len(Chain)]
  BY ChainFacts DEF Receiving, Doing
<1>6. SessionTypes'
  <2>1. SessionTypes
    BY DEF SInv
  <2>2. acked' \in Nat
    BY <1>1, <2>1 DEF SessionTypes
  <2>. QED  BY <1>1, <1>2, <1>5, <2>1, <2>2 DEF SessionTypes
<1>7. Placed'
  BY <1>1, <1>4, <1>5 DEF Placed
<1>8. Recording'
  BY <1>1, <1>2, <1>5 DEF SInv, Recording, Recorded
<1>9. HistoryKnown'
  BY <1>1, <1>2, <1>5, QuietStep
<1>. QED  BY <1>6, <1>7, <1>8, <1>9

LEMMA SInvAsk ==
  ASSUME SInv, Ask
  PROVE  SessionTypes' /\ Placed' /\ Recording' /\ HistoryKnown'
<1>1. /\ disp.pc = "enrich" /\ Link \in Requests /\ UNCHANGED sessionVars
      /\ Ahead' = Ahead /\ writer' = writer /\ emitted' = emitted
  BY CallKeeps DEF Ask, SInv
<1>2. caller'[Dispatcher] = Idle \/ caller'[Dispatcher].kind = "request"
  <2>1. Dispatcher \in Callers /\ caller \in [Callers -> CallerState]
    BY SessionAssumption DEF SInv, TypeOK
  <2>2. caller[Dispatcher] = Idle \/ caller[Dispatcher].kind = "request"
    BY <1>1 DEF SInv, Placed
  <2>3. CASE Begin(Dispatcher, "request")
    BY <2>1, <2>3 DEF Begin
  <2>4. CASE Register(Dispatcher)
    <3>1. caller[Dispatcher] # Idle /\ caller' = [caller EXCEPT ![Dispatcher].pc = "sending"]
      BY <2>4 DEF Register, Idle
    <3>2. caller'[Dispatcher] = [caller[Dispatcher] EXCEPT !.pc = "sending"]
      BY <2>1, <3>1
    <3>3. caller[Dispatcher] \in CallerState /\ caller[Dispatcher].kind = "request"
      BY <2>1, <2>2, <3>1
    <3>. QED  BY <3>2, <3>3 DEF CallerState
  <2>5. CASE caller[Dispatcher].kind = "request" /\ Send(Dispatcher)
    <3>1. caller'[Dispatcher] = [caller[Dispatcher] EXCEPT !.pc = "waiting"]
      BY <2>1, <2>5 DEF Send
    <3>2. caller[Dispatcher] \in CallerState
      BY <2>1
    <3>. QED  BY <2>5, <3>1, <3>2 DEF CallerState
  <2>. QED  BY <2>3, <2>4, <2>5 DEF Ask
<1>3. SessionTypes'
  BY <1>1 DEF SInv, SessionTypes, sessionVars
<1>4. Placed'
  BY <1>1, <1>2 DEF SInv, Placed, sessionVars, Link
<1>5. Recording'
  BY <1>1 DEF SInv, Recording, Recorded, sessionVars
<1>6. HistoryKnown'
  BY <1>1, QuietStep DEF sessionVars
<1>. QED  BY <1>3, <1>4, <1>5, <1>6

(* Leaving an operation, the dispatcher is idle. *)
LEMMA LeaveIsIdle ==
  ASSUME SInv, Leave(Dispatcher)
  PROVE  caller'[Dispatcher] = Idle
BY SessionAssumption DEF SInv, TypeOK, Leave

(* Where the chain goes on is a place of the dispatcher's. *)
LEMMA MovedOn ==
  ASSUME SInv, disp.pc = "enrich", disp' = AfterLink, caller'[Dispatcher] = Idle, stops' = stops
  PROVE  /\ disp' \in [pc : {"recv", "ack", "broadcast", "apply", "enrich"},
                       event : Sent \cup {None}, step : 0..Len(Chain)]
         /\ Placed'
         /\ disp'.pc \notin {"broadcast", "apply"}
         /\ Link # "timeline" => Recorded' = Recorded
         /\ Link = "timeline" => Recorded = stops - 1 /\ Recorded' = stops
<1>1. SessionTypes /\ Placed
  BY DEF SInv
<1>2. /\ AfterLink \in [pc : {"recv", "ack", "broadcast", "apply", "enrich"},
                        event : Sent \cup {None}, step : 0..Len(Chain)]
      /\ \/ AfterLink.pc = "recv" /\ disp.step = Len(Chain) /\ disp.step > Scopes + 4
         \/ /\ AfterLink.pc = "enrich" /\ AfterLink.step = disp.step + 1
            /\ disp.step + 1 \in 1..Len(Chain)
      /\ Link = "timeline" <=> disp.step = Scopes + 4
  BY <1>1, AfterLinkProperties
<1>3. Placed'
  BY <1>1, <1>2 DEF Placed
<1>4. disp.step \in Nat /\ Scopes \in Nat
  BY <1>1, ChainFacts DEF SessionTypes
<1>5. (Link # "timeline" => Recorded' = Recorded)
      /\ (Link = "timeline" => Recorded = stops - 1 /\ Recorded' = stops)
  BY <1>2, <1>4 DEF Recorded
<1>. QED  BY <1>2, <1>3, <1>5

(* A failing link that is not the last ends the chain. *)
LEMMA GivenUp ==
  ASSUME caller'[Dispatcher] = Idle, disp' = Receiving
  PROVE  /\ disp' \in [pc : {"recv", "ack", "broadcast", "apply", "enrich"},
                       event : Sent \cup {None}, step : 0..Len(Chain)]
         /\ Placed' /\ disp'.pc = "recv"
<1>1. Receiving.pc = "recv" /\ Receiving \in [pc : {"recv", "ack", "broadcast", "apply", "enrich"},
                                               event : Sent \cup {None}, step : 0..Len(Chain)]
  BY ChainFacts DEF Receiving, Doing
<1>. QED  BY <1>1 DEF Placed

LEMMA SInvAnswered ==
  ASSUME SInv, Answered
  PROVE  SessionTypes' /\ Placed' /\ Recording' /\ HistoryKnown'
<1>1. /\ disp.pc = "enrich" /\ disp' = AfterLink
      /\ log' = (IF Link \in Echoed THEN Append(log, Link) ELSE log)
      /\ UNCHANGED <<sent, handled, ready, acked, lastStopped, stops, timeline, terminated>>
      /\ Leave(Dispatcher) /\ caller[Dispatcher].pc = "waiting"
  BY DEF Answered, Complete
<1>2. Ahead' = Ahead /\ writer' = writer /\ emitted' = emitted
  BY <1>1, CallKeeps DEF SInv
<1>3. caller'[Dispatcher] = Idle
  BY <1>1, LeaveIsIdle
<1>4. Link \in Requests
  BY <1>1 DEF SInv, Placed, Idle
<1>5. /\ disp' \in [pc : {"recv", "ack", "broadcast", "apply", "enrich"},
                    event : Sent \cup {None}, step : 0..Len(Chain)]
      /\ Placed' /\ disp'.pc \notin {"broadcast", "apply"} /\ Recorded' = Recorded
  BY <1>1, <1>3, <1>4, MovedOn DEF Requests
<1>6. SessionTypes /\ Placed
  BY DEF SInv
<1>7. /\ log' \in Seq(Events \cup {Chain[i] : i \in 1..Len(Chain)})
      /\ Only(log, Events)' = Only(log, Events)
  <2>1. Link \in {Chain[i] : i \in 1..Len(Chain)}
    BY <1>1, <1>6, AfterLinkProperties
  <2>2. Append(log, Link) \in Seq(Events \cup {Chain[i] : i \in 1..Len(Chain)})
        /\ Only(Append(log, Link), Events) = Only(log, Events)
    BY <1>6, <2>1, PublishedApart
  <2>3. log \in Seq(Events \cup {Chain[i] : i \in 1..Len(Chain)})
    BY <1>6 DEF SessionTypes
  <2>4. Only(log', Events) = Only(log, Events)
    BY <1>1, <2>2
  <2>. QED  BY <1>1, <2>2, <2>3, <2>4
<1>8. SessionTypes'
  BY <1>1, <1>2, <1>5, <1>6, <1>7 DEF SessionTypes
<1>9. Recording'
  BY <1>1, <1>2, <1>5 DEF SInv, Recording
<1>10. HistoryKnown'
  BY <1>1, <1>2, <1>5, <1>7, QuietStep
<1>. QED  BY <1>5, <1>8, <1>9, <1>10

LEMMA SInvAskFails ==
  ASSUME SInv, AskFails
  PROVE  SessionTypes' /\ Placed' /\ Recording' /\ HistoryKnown'
<1>1. /\ disp.pc = "enrich"
      /\ disp' = AfterLink \/ disp' = Receiving
      /\ UNCHANGED <<sent, handled, log, ready, acked, lastStopped, stops, timeline, terminated>>
      /\ Leave(Dispatcher) /\ writer = "broken"
  BY DEF AskFails, SendFails
<1>2. Ahead' = Ahead /\ writer' = writer /\ emitted' = emitted
  BY <1>1, CallKeeps DEF SInv
<1>3. caller'[Dispatcher] = Idle
  BY <1>1, LeaveIsIdle
<1>4. /\ disp' \in [pc : {"recv", "ack", "broadcast", "apply", "enrich"},
                    event : Sent \cup {None}, step : 0..Len(Chain)]
      /\ Placed' /\ disp'.pc \notin {"broadcast", "apply"}
  <2>1. CASE disp' = AfterLink
    BY <1>1, <1>3, <2>1, MovedOn
  <2>2. CASE disp' = Receiving
    BY <1>3, <2>2, GivenUp
  <2>. QED  BY <1>1, <2>1, <2>2
<1>5. SessionTypes'
  BY <1>1, <1>2, <1>4 DEF SInv, SessionTypes
<1>6. Recording'
  BY <1>1, <1>2 DEF Recording
<1>7. HistoryKnown'
  BY <1>1, <1>2, <1>4, QuietStep
<1>. QED  BY <1>4, <1>5, <1>6, <1>7

LEMMA CountUp ==
  ASSUME NEW n \in Nat, n # 0, NEW t \in Seq(Nat), t = [i \in 1..(n - 1) |-> i]
  PROVE  Append(t, n) = [i \in 1..n |-> i]
<1>. DEFINE c == [i \in 1..n |-> i]
<1>1. n - 1 \in Nat /\ Len(t) = n - 1 /\ \A i \in 1..(n - 1) : t[i] = i
  OBVIOUS
<1>2. /\ Append(t, n) \in Seq(Nat) /\ Len(Append(t, n)) = n
      /\ \A i \in 1..(n - 1) : Append(t, n)[i] = i
      /\ Append(t, n)[n] = n
  BY <1>1
<1>3. c \in Seq(Nat) /\ Len(c) = n /\ \A i \in 1..n : c[i] = i
  OBVIOUS
<1>4. \A i \in 1..n : i = n \/ i \in 1..(n - 1)
  OBVIOUS
<1>5. \A i \in 1..n : Append(t, n)[i] = c[i]
  BY <1>2, <1>3, <1>4
<1>. HIDE DEF c
<1>6. Append(t, n) = c
  BY <1>2, <1>3, <1>5, SeqEqual
<1>. QED  BY <1>6 DEF c

LEMMA SInvPublish ==
  ASSUME SInv, Publish
  PROVE  SessionTypes' /\ Placed' /\ Recording' /\ HistoryKnown'
<1>1. /\ disp.pc = "enrich" /\ Link \notin Requests /\ disp' = AfterLink
      /\ log' = Append(log, Link)
      /\ timeline' = (IF Link = "timeline" THEN Append(timeline, stops) ELSE timeline)
      /\ UNCHANGED vars
      /\ UNCHANGED <<sent, handled, ready, acked, lastStopped, stops, terminated>>
  BY DEF Publish
<1>2. Ahead' = Ahead /\ writer' = writer /\ emitted' = emitted /\ caller' = caller
  <2>1. Ahead' = Ahead /\ writer' = writer /\ emitted' = emitted
    BY <1>1, CallKeeps DEF SInv
  <2>. QED  BY <1>1, <2>1 DEF vars
<1>3. caller'[Dispatcher] = Idle
  BY <1>1, <1>2 DEF SInv, Placed
<1>4. /\ disp' \in [pc : {"recv", "ack", "broadcast", "apply", "enrich"},
                    event : Sent \cup {None}, step : 0..Len(Chain)]
      /\ Placed' /\ disp'.pc \notin {"broadcast", "apply"}
      /\ Link # "timeline" => Recorded' = Recorded
      /\ Link = "timeline" => Recorded = stops - 1 /\ Recorded' = stops
  BY <1>1, <1>3, MovedOn
<1>5. SessionTypes /\ Placed /\ Recording
  BY DEF SInv
<1>6. /\ log' \in Seq(Events \cup {Chain[i] : i \in 1..Len(Chain)})
      /\ Only(log, Events)' = Only(log, Events)
  <2>1. Link \in {Chain[i] : i \in 1..Len(Chain)}
    BY <1>1, <1>5, AfterLinkProperties
  <2>2. Append(log, Link) \in Seq(Events \cup {Chain[i] : i \in 1..Len(Chain)})
        /\ Only(Append(log, Link), Events) = Only(log, Events)
    BY <1>5, <2>1, PublishedApart
  <2>3. Only(log', Events) = Only(log, Events)
    BY <1>1, <2>2
  <2>. QED  BY <1>1, <2>2, <2>3
<1>7. stops \in Nat /\ stops # 0 /\ timeline \in Seq(Nat)
  BY <1>1, <1>5 DEF SessionTypes, Placed
<1>8. timeline' \in Seq(Nat)
  BY <1>1, <1>7
<1>9. SessionTypes'
  BY <1>1, <1>2, <1>4, <1>5, <1>6, <1>8 DEF SessionTypes
<1>10. Recording'
  <2>1. CASE Link # "timeline"
    BY <1>1, <1>2, <1>4, <1>5, <2>1 DEF Recording
  <2>2. CASE Link = "timeline"
    <3>1. writer = "running" => timeline = [i \in 1..(stops - 1) |-> i]
      BY <1>4, <1>5, <2>2 DEF Recording
    <3>2. writer = "running" => Append(timeline, stops) = [i \in 1..stops |-> i]
      BY <1>7, <3>1, CountUp
    <3>3. timeline' = Append(timeline, stops) /\ Recorded' = stops
      BY <1>1, <1>4, <2>2
    <3>. QED  BY <1>2, <3>2, <3>3 DEF Recording
  <2>. QED  BY <2>1, <2>2
<1>11. HistoryKnown'
  BY <1>1, <1>2, <1>4, <1>6, QuietStep
<1>. QED  BY <1>4, <1>9, <1>10, <1>11

LEMMA SInvBroadcast ==
  ASSUME SInv, Broadcast
  PROVE  SessionTypes' /\ Placed' /\ Recording' /\ HistoryKnown'
<1>. DEFINE e == disp.event
<1>1. /\ disp.pc = "broadcast" /\ log' = Append(log, e) /\ disp' = [disp EXCEPT !.pc = "apply"]
      /\ UNCHANGED vars
      /\ UNCHANGED <<sent, handled, ready, acked, lastStopped, stops, timeline, terminated>>
  BY DEF Broadcast
<1>2. Ahead' = Ahead /\ writer' = writer /\ emitted' = emitted /\ caller' = caller
  <2>1. Ahead' = Ahead /\ writer' = writer /\ emitted' = emitted
    BY <1>1, CallKeeps DEF SInv
  <2>. QED  BY <1>1, <2>1 DEF vars
<1>3. e \in Events \ {"initialized"} /\ caller[Dispatcher] = Idle
  BY <1>1 DEF SInv, Placed
<1>4. e \in Sent
  BY <1>3 DEF Sent
<1>5. SessionTypes /\ Recording
  BY DEF SInv
<1>6. /\ disp' \in [pc : {"recv", "ack", "broadcast", "apply", "enrich"},
                    event : Sent \cup {None}, step : 0..Len(Chain)]
      /\ disp'.pc = "apply" /\ disp'.event = e
  BY <1>1, <1>5 DEF SessionTypes
<1>7. /\ log' \in Seq(Events \cup {Chain[i] : i \in 1..Len(Chain)})
      /\ Only(log', Events) = Append(Only(log, Events), e)
  <2>1. PICK T : T = Events \cup {Chain[i] : i \in 1..Len(Chain)}
    OBVIOUS
  <2>2. log \in Seq(T) /\ e \in T /\ e \in Events
    BY <1>3, <1>5, <2>1 DEF SessionTypes
  <2>3. Only(Append(log, e), Events) = Append(Only(log, Events), e)
    BY <2>2, OnlyAppend
  <2>4. Append(log, e) \in Seq(T)
    BY <2>2
  <2>. QED  BY <1>1, <2>1, <2>3, <2>4
<1>. HIDE DEF e
<1>8. SessionTypes'
  BY <1>1, <1>2, <1>5, <1>6, <1>7 DEF SessionTypes
<1>9. Placed'
  BY <1>2, <1>3, <1>6 DEF Placed
<1>10. Recording'
  BY <1>1, <1>2, <1>5, <1>6 DEF Recording, Recorded
<1>11. PICK d \in Seq(Sent), p \in Seq(Sent) : History(d, p)
  BY DEF SInv, HistoryKnown
<1>12. d = Append(p, e) /\ Only(log, Events) = ForTheHub(p)
  BY <1>1, <1>11 DEF History, e
<1>13. Only(log', Events) = ForTheHub(d)
  BY <1>3, <1>4, <1>7, <1>12, HubAppend
<1>14. View(p)'
  BY <1>1, <1>11 DEF History, View
<1>15. sent' = Cat(d, Ahead') /\ Len(d) = handled'
  BY <1>1, <1>2, <1>11 DEF History
<1>16. Only(log, Events)' = ForTheHub(d)
  BY <1>13
<1>17. ForTheHub(d)' = ForTheHub(d)
  BY DEF ForTheHub
<1>18. History(d, p)'
  BY <1>6, <1>12, <1>14, <1>15, <1>16, <1>17 DEF History
<1>. QED  BY <1>8, <1>9, <1>10, <1>18 DEF HistoryKnown

(* An event takes effect. *)
LEMMA SInvApply ==
  ASSUME SInv, Apply
  PROVE  SessionTypes' /\ Placed' /\ Recording' /\ HistoryKnown'
<1>. DEFINE e == disp.event
<1>1. /\ disp.pc = "apply" /\ UNCHANGED vars
      /\ UNCHANGED <<sent, handled, log, ready, acked, timeline>>
  BY DEF Apply
<1>2. /\ terminated' = (terminated \/ e \in {"terminated", "exited"})
      /\ stops' = (IF e = "stopped" THEN stops + 1 ELSE stops)
      /\ lastStopped' = (IF e = "stopped" THEN stops' ELSE IF e = "continued" THEN None
                         ELSE lastStopped)
      /\ disp' = (IF e = "stopped" THEN [disp EXCEPT !.pc = "enrich", !.step = 1] ELSE Receiving)
  BY DEF Apply
<1>3. Ahead' = Ahead /\ writer' = writer /\ emitted' = emitted /\ caller' = caller
  <2>1. Ahead' = Ahead /\ writer' = writer /\ emitted' = emitted
    BY <1>1, CallKeeps DEF SInv
  <2>. QED  BY <1>1, <2>1 DEF vars
<1>4. e \in Events \ {"initialized"} /\ caller[Dispatcher] = Idle
  BY <1>1 DEF SInv, Placed
<1>5. e \in Sent
  BY <1>4 DEF Sent
<1>6. SessionTypes /\ Recording
  BY DEF SInv
<1>7. stops \in Nat /\ stops' \in Nat /\ (e = "stopped" => stops' # 0 /\ stops' - 1 = stops)
  <2>1. stops \in Nat
    BY <1>6 DEF SessionTypes
  <2>2. CASE e = "stopped"
    <3>1. stops' = stops + 1
      BY <1>2, <2>2
    <3>. QED  BY <2>1, <3>1
  <2>3. CASE e # "stopped"
    BY <1>2, <2>1, <2>3
  <2>. QED  BY <2>2, <2>3
<1>8. 1 \in 1..Len(Chain) /\ 1 \in 0..Len(Chain) /\ 0 \in 0..Len(Chain) /\ 1 <= Scopes + 4
  BY ChainFacts
<1>9. /\ disp' \in [pc : {"recv", "ack", "broadcast", "apply", "enrich"},
                    event : Sent \cup {None}, step : 0..Len(Chain)]
      /\ e = "stopped" => disp'.pc = "enrich" /\ disp'.step = 1
      /\ e # "stopped" => disp'.pc = "recv"
  <2>1. CASE e = "stopped"
    BY <1>2, <1>6, <1>8, <2>1 DEF SessionTypes
  <2>2. CASE e # "stopped"
    BY <1>2, <1>8, <2>2 DEF Receiving, Doing
  <2>. QED  BY <2>1, <2>2
<1>10. lastStopped' \in Nat \cup {None} /\ terminated' \in BOOLEAN
  <2>1. lastStopped' \in Nat \cup {None}
    BY <1>2, <1>6, <1>7 DEF SessionTypes
  <2>2. terminated' \in BOOLEAN
    BY <1>2
  <2>. QED  BY <2>1, <2>2
<1>. HIDE DEF e
<1>11. SessionTypes'
  BY <1>1, <1>3, <1>6, <1>7, <1>9, <1>10 DEF SessionTypes
<1>12. Placed'
  BY <1>3, <1>4, <1>7, <1>8, <1>9 DEF Placed
<1>13. Recording'
  <2>1. Recorded = stops
    BY <1>1 DEF Recorded
  <2>2. Recorded' = stops
    <3>1. CASE e = "stopped"
      BY <1>7, <1>8, <1>9, <3>1 DEF Recorded
    <3>2. CASE e # "stopped"
      BY <1>2, <1>9, <3>2 DEF Recorded
    <3>. QED  BY <3>1, <3>2
  <2>. QED  BY <1>1, <1>3, <1>6, <2>1, <2>2 DEF Recording
<1>14. PICK d \in Seq(Sent), p \in Seq(Sent) : History(d, p)
  BY DEF SInv, HistoryKnown
<1>15. d = Append(p, e) /\ Only(log, Events) = ForTheHub(d) /\ View(p)
  BY <1>1, <1>14 DEF History, e
<1>16. View(d)'
  <2>1. (\E i \in 1..Len(d) : d[i] \in {"initialized"})
          <=> \E i \in 1..Len(p) : p[i] \in {"initialized"}
    <3>1. e \notin {"initialized"}
      BY <1>4
    <3>. QED  BY <1>5, <1>15, <3>1, HasAppend
  <2>2. (\E i \in 1..Len(d) : d[i] \in {"terminated", "exited"})
          <=> e \in {"terminated", "exited"} \/ \E i \in 1..Len(p) : p[i] \in {"terminated", "exited"}
    BY <1>5, <1>15, HasAppend
  <2>3. stops' = Len(Only(d, {"stopped"}))
    BY <1>2, <1>5, <1>15, StopsAppend DEF View
  <2>4. Paused(d) <=> e = "stopped" \/ (Paused(p) /\ e # "continued")
    BY <1>5, <1>15, PausedAppend
  <2>5. lastStopped' = IF Paused(d) THEN stops' ELSE None
    <3>1. lastStopped = IF Paused(p) THEN stops ELSE None
      BY <1>15 DEF View
    <3>. QED  BY <1>2, <2>4, <3>1
  <2>6. ready' <=> \E i \in 1..Len(d) : d[i] \in {"initialized"}
    BY <1>1, <1>15, <2>1 DEF View
  <2>7. terminated' <=> \E i \in 1..Len(d) : d[i] \in {"terminated", "exited"}
    BY <1>2, <1>15, <2>2 DEF View
  <2>. QED  BY <2>3, <2>5, <2>6, <2>7 DEF View
<1>17. disp'.pc \notin {"broadcast", "apply"}
  BY <1>9
<1>18. sent' = Cat(d, Ahead') /\ Len(d) = handled' /\ Only(log, Events)' = ForTheHub(d)
       /\ ForTheHub(d)' = ForTheHub(d)
  BY <1>1, <1>3, <1>14, <1>15 DEF History, ForTheHub
<1>19. History(d, d)'
  BY <1>16, <1>17, <1>18 DEF History
<1>. QED  BY <1>11, <1>12, <1>13, <1>19 DEF HistoryKnown

-----------------------------------------------------------------------------
(* The invariant *)

LEMMA SInvStep == ASSUME SInv, [SessionNext]_svars  PROVE SInv'
<1>1. TypeOK'
  BY StepIsClient, TypeStep DEF SInv
<1>2. CASE Dispatch
  <2>1. SessionTypes' /\ Placed' /\ Recording' /\ HistoryKnown'
    BY <1>2, SInvReceive, SInvBeginAck, SInvEndAck, SInvBroadcast, SInvApply, SInvAsk,
       SInvAnswered, SInvAskFails, SInvPublish DEF Dispatch
  <2>. QED  BY <1>1, <2>1 DEF SInv
<1>3. ASSUME NEW e \in Events \cup {Reverse}, Emit(e)  PROVE SInv'
  BY <1>1, <1>3, SInvEmit DEF SInv
<1>4. CASE Elsewhere
  BY <1>1, <1>4, SInvElsewhere DEF SInv
<1>5. CASE UNCHANGED svars
  BY <1>1, <1>5, SInvStutter DEF SInv
<1>. QED  BY <1>2, <1>3, <1>4, <1>5 DEF SessionNext

(* The inductive invariant of the dispatcher, whatever its client, the     *)
(* adapter and the other tasks do.                                         *)
THEOREM SessionInvariance == SessionSpec => []SInv
BY SInvInit, SInvStep, PTL DEF SessionSpec

LEMMA SInvTypes == SInv => SessionTypeOK
<1>. SUFFICES ASSUME SInv  PROVE SessionTypeOK
  OBVIOUS
<1>1. handled \in 0..Len(sent)
  <2>1. PICK d \in Seq(Sent), p \in Seq(Sent) : History(d, p)
    BY DEF SInv, HistoryKnown
  <2>2. Ahead \in Seq(Sent)
    BY AheadType DEF SInv
  <2>3. Len(d) = handled /\ sent = Cat(d, Ahead)
    BY <2>1 DEF History
  <2>4. Len(sent) = Len(d) + Len(Ahead) /\ Len(d) \in Nat /\ Len(Ahead) \in Nat
    BY <2>2, <2>3, CatLen
  <2>. QED  BY <2>3, <2>4
<1>2. disp.pc \notin {"ack", "enrich"} => caller[Dispatcher] = Idle
  BY DEF SInv, Placed
<1>. QED  BY <1>1, <1>2 DEF SInv, SessionTypes, SessionTypeOK

(* The dispatcher's state keeps its types, it has handled no more than was *)
(* sent, and it is inside the client only while it acknowledges a reverse  *)
(* request or enriches a stop (session.rs 282-420, 1032-1200).             *)
THEOREM DispatcherTypes == SessionSpec => []SessionTypeOK
BY SessionInvariance, SInvTypes, PTL

-----------------------------------------------------------------------------
(* What the history tells *)

LEMMA HubCat ==
  ASSUME NEW q \in Seq(Sent), NEW r \in Seq(Sent)
  PROVE  ForTheHub(Cat(q, r)) = Cat(ForTheHub(q), ForTheHub(r))
BY OnlyCat DEF ForTheHub

LEMMA HubType == ASSUME NEW q \in Seq(Sent)  PROVE ForTheHub(q) \in Seq(Events)
<1>1. PICK U : U = Sent \cap (Events \ {"initialized"})
  OBVIOUS
<1>2. Only(q, Events \ {"initialized"}) \in Seq(U)
  BY <1>1, OnlyType
<1>. QED  BY <1>1, <1>2, SeqMonotonic DEF ForTheHub

LEMMA SInvOnce == SInv => EveryEventOnce
<1>. SUFFICES ASSUME SInv  PROVE EveryEventOnce
  OBVIOUS
<1>1. PICK d \in Seq(Sent), p \in Seq(Sent) : History(d, p)
  BY DEF SInv, HistoryKnown
<1>2. PICK a \in Seq(Sent) : a = Ahead
  BY AheadType DEF SInv
<1>3. events \o OnTheWire = a
  BY <1>2 DEF Ahead, EventsIn, OnTheWire, Told, Cat
<1>4. ForTheHub(sent) = Cat(ForTheHub(d), ForTheHub(a))
  BY <1>1, <1>2, HubCat DEF History
<1>5. PICK h \in Seq(Events), o \in Seq(Events) : h = ForTheHub(a) /\ o = Only(log, Events)
  <2>1. ForTheHub(a) \in Seq(Events)
    BY <1>2, HubType
  <2>2. Only(log, Events) \in Seq(Events)
    <3>1. PICK T : T = Events \cup {Chain[i] : i \in 1..Len(Chain)}
      OBVIOUS
    <3>2. PICK U : U = T \cap Events
      OBVIOUS
    <3>3. Only(log, Events) \in Seq(U)
      BY <3>1, <3>2, OnlyType DEF SInv, SessionTypes
    <3>. QED  BY <3>2, <3>3, SeqMonotonic
  <2>. QED  BY <2>1, <2>2, Zenon
<1>6. CASE disp.pc = "broadcast"
  <2>. DEFINE e == disp.event
  <2>1. d = Append(p, e) /\ o = ForTheHub(p) /\ InHand = <<e>>
    BY <1>1, <1>5, <1>6 DEF History, InHand
  <2>2. e \in Events \ {"initialized"}
    BY <1>6 DEF SInv, Placed
  <2>. HIDE DEF e
  <2>3. ForTheHub(d) = Append(o, e)
    BY <2>1, <2>2, HubAppend DEF Sent
  <2>4. (o \o <<e>>) \o h = Append(o, e) \o h
    BY <1>5, <2>2
  <2>. QED  BY <1>3, <1>4, <1>5, <2>1, <2>3, <2>4 DEF EveryEventOnce, Cat
<1>7. CASE disp.pc # "broadcast"
  <2>1. o = ForTheHub(d) /\ InHand = <<>>
    BY <1>1, <1>5, <1>7 DEF History, InHand
  <2>2. (o \o <<>>) \o h = o \o h
    OBVIOUS
  <2>. QED  BY <1>3, <1>4, <1>5, <2>1, <2>2 DEF EveryEventOnce, Cat
<1>. QED  BY <1>6, <1>7

LEMMA SInvSettled == SInv => SettledView /\ TimelinePerStop
<1>. SUFFICES ASSUME SInv, Settled  PROVE SettledView /\ (writer = "running" => timeline = [i \in 1..stops |-> i])
  BY DEF SettledView, TimelinePerStop
<1>1. PICK d \in Seq(Sent), p \in Seq(Sent) : History(d, p)
  BY DEF SInv, HistoryKnown
<1>2. disp.pc = "recv" /\ handled = Len(sent)
  BY DEF Settled, Receiving, Doing
<1>3. d = p /\ View(p)
  BY <1>1, <1>2 DEF History
<1>4. sent = d
  <2>1. Ahead \in Seq(Sent)
    BY AheadType DEF SInv
  <2>2. sent = Cat(d, Ahead) /\ Len(d) = Len(sent)
    BY <1>1, <1>2 DEF History
  <2>3. Len(sent) = Len(d) + Len(Ahead) /\ Len(d) \in Nat /\ Len(Ahead) \in Nat
        /\ (Len(Ahead) = 0 => Ahead = <<>>)
    BY <2>1, <2>2, CatLen
  <2>4. Ahead = <<>>
    BY <2>2, <2>3
  <2>5. Cat(d, <<>>) = d
    BY CatProperties
  <2>. QED  BY <2>2, <2>4, <2>5
<1>5. SettledView
  BY <1>3, <1>4 DEF SettledView, View
<1>6. Recorded = stops
  BY <1>2 DEF Recorded
<1>7. writer = "running" => timeline = [i \in 1..stops |-> i]
  BY <1>6 DEF SInv, Recording
<1>. QED  BY <1>5, <1>7

(* No event is lost, duplicated or overtaken between the adapter and the   *)
(* hub, and once all are handled the session is paused, configured and     *)
(* over exactly when its debuggee is, with one timeline entry per stop     *)
(* (client.rs 212-241, session.rs 282-420 and 1032-1200).                  *)
THEOREM EventsAreTold == SessionSpec => []EventsTold
<1>1. SInv => EventsTold
  BY SInvOnce, SInvSettled DEF EventsTold
<1>. QED  BY <1>1, SessionInvariance, PTL
=============================================================================
