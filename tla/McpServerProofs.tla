-------------------------- MODULE McpServerProofs --------------------------
(***************************************************************************)
(* The MCP server's loop, outbox and writer, for any number of sessions,   *)
(* adapters, lines from the host and places in the outbox.                 *)
(*                                                                         *)
(* The invariant MInv is about the stream: what was written followed by    *)
(* what waits in the outbox.  It places the lines that were taken on it    *)
(* (Placed), says what is due after each of them (Told, NoGaps) and what a *)
(* host that reads it knows of the tools (Fresh).  Moving a message from   *)
(* the outbox to the output leaves the stream alone, so only the loop's    *)
(* own steps disturb it.                                                   *)
(***************************************************************************)
EXTENDS McpServer, SequenceTheorems, TLAPS

(* Everything that was sent, whether it is written yet or not. *)
Stream == out \o outbox

-----------------------------------------------------------------------------
(* Sequences of messages *)

LEMMA Appended ==
  ASSUME NEW s \in Seq(Messages), NEW m \in Messages
  PROVE  \E r \in Seq(Messages), n \in Nat :
           /\ r = Append(s, m) /\ n = Len(s) /\ Len(r) = n + 1 /\ r[n + 1] = m
           /\ \A k \in 1..n : r[k] = s[k]
<1>1. Append(s, m) \in Seq(Messages) /\ Len(s) \in Nat /\ Len(Append(s, m)) = Len(s) + 1
      /\ Append(s, m)[Len(s) + 1] = m /\ \A k \in 1..Len(s) : Append(s, m)[k] = s[k]
  OBVIOUS
<1>. QED  BY <1>1, Zenon

LEMMA Joined ==
  ASSUME NEW T, NEW q \in Seq(T), NEW r \in Seq(T)
  PROVE  /\ q \o r \in Seq(T) /\ Len(q) \in Nat /\ Len(q \o r) \in Nat /\ Len(q) <= Len(q \o r)
         /\ \A k \in 1..Len(q) : k \in 1..Len(q \o r) /\ (q \o r)[k] = q[k]
         /\ q \o <<>> = q
OBVIOUS

LEMMA Moved ==
  ASSUME NEW T, NEW q \in Seq(T), NEW r \in Seq(T)
  PROVE  /\ r # <<>> => Append(q, Head(r)) \o Tail(r) = q \o r
         /\ \A m \in T : q \o Append(r, m) = Append(q \o r, m)
<1>1. \A m \in T : q \o Append(r, m) = Append(q \o r, m)
  OBVIOUS
<1>2. ASSUME r # <<>>  PROVE Append(q, Head(r)) \o Tail(r) = q \o r
  <2>1. Head(r) \in T /\ Tail(r) \in Seq(T) /\ Len(Tail(r)) = Len(r) - 1 /\ Len(r) \in Nat \ {0}
    BY <1>2
  <2>2. PICK h \in T, t \in Seq(T) : h = Head(r) /\ t = Tail(r) /\ r = <<h>> \o t
    <3>1. r = <<Head(r)>> \o Tail(r)
      BY <1>2
    <3>. QED  BY <2>1, <3>1, Zenon
  <2>3. Append(q, h) \o t = q \o (<<h>> \o t)
    OBVIOUS
  <2>. QED  BY <2>2, <2>3
<1>. QED  BY <1>1, <1>2

(* What one message more means to who reads them. *)
LEMMA AppendedAnswers ==
  ASSUME NEW s \in Seq(Messages), NEW m \in Messages
  PROVE  \E r \in Seq(Messages), n \in Nat :
           /\ r = Append(s, m) /\ n = Len(s) /\ Len(r) = n + 1 /\ r[n + 1] = m
           /\ \A k \in 1..n : r[k] = s[k]
           /\ \A k : k \in AnswersIn(r) <=> k \in AnswersIn(s) \/ (k = n + 1 /\ m.what = "answer")
           /\ \A k \in AnswersIn(s) : k \in 1..n /\ r[k] = s[k]
           /\ \A i : i \in AnsweredBy(r) <=> i \in AnsweredBy(s) \/ (i = m.re /\ m.what = "answer")
<1>0. PICK r \in Seq(Messages), n \in Nat :
           /\ r = Append(s, m) /\ n = Len(s) /\ Len(r) = n + 1 /\ r[n + 1] = m
           /\ \A k \in 1..n : r[k] = s[k]
  BY Appended
<1>1. \A k : k \in 1..(n + 1) <=> k \in 1..n \/ k = n + 1
  OBVIOUS
<1>2. \A k : k \in AnswersIn(s) <=> k \in 1..n /\ s[k].what = "answer"
  BY <1>0 DEF AnswersIn
<1>3. \A k : k \in AnswersIn(r) <=> k \in 1..(n + 1) /\ r[k].what = "answer"
  BY <1>0 DEF AnswersIn
<1>4. \A k : k \in AnswersIn(r) <=> k \in AnswersIn(s) \/ (k = n + 1 /\ m.what = "answer")
  BY <1>0, <1>1, <1>2, <1>3
<1>5. \A k \in AnswersIn(s) : k \in 1..n /\ r[k] = s[k]
  BY <1>0, <1>2
<1>6. \A i : i \in AnsweredBy(r) <=> \E k \in AnswersIn(r) : i = r[k].re
  BY DEF AnsweredBy
<1>7. \A i : i \in AnsweredBy(s) <=> \E k \in AnswersIn(s) : i = s[k].re
  BY DEF AnsweredBy
<1>8. \A i : i \in AnsweredBy(r) <=> i \in AnsweredBy(s) \/ (i = m.re /\ m.what = "answer")
  BY <1>0, <1>4, <1>5, <1>6, <1>7
<1>. QED  BY <1>0, <1>4, <1>5, <1>8

(* One due line more. *)
LEMMA DueGrows ==
  ASSUME NEW n \in Nat
  PROVE  \A i : i \in Due(n + 1) <=> i \in Due(n) \/ (i = n + 1 /\ lines[n + 1] \in Answered)
<1>1. \A i : i \in 1..(n + 1) <=> i \in 1..n \/ i = n + 1
  OBVIOUS
<1>. QED  BY <1>1 DEF Due

-----------------------------------------------------------------------------
(* The invariant *)

Placed ==
  /\ pc \in {"handle", "notify", "send"} => taken < Len(lines)
  /\ pc = "handle" => Line \in Requests \cup {"notification"}
  /\ pc = "notify" => Line \in {"launch", "stop"}
  /\ pc = "send" => Line \in Answered /\ response.what = "answer" /\ response.re = taken + 1
  /\ pc = "failed" \/ writer = "aborted" => taken < Len(lines) /\ Line = "not_utf8"
  /\ writer = "done" => outbox = <<>> /\ pc \in {"drain", "failed", "exited"}
  /\ writer = "broken" => outbox = <<>>
  /\ writer = "aborted" => pc = "exited"
  /\ pc = "exited" => writer # "running"

(* A list_changed that is last waits for the response it announces. *)
LastChanged(s) ==
  writer = "running" /\ Len(s) # 0 /\ s[Len(s)].what = "changed" =>
    pc = "send" /\ s[Len(s)].re = taken + 1

Told(s) ==
  /\ InOrder(s) /\ Announced(s)
  /\ AnsweredBy(s) \subseteq Due(taken)
  /\ writer \in {"running", "done"} => Due(taken) \subseteq AnsweredBy(s)
  /\ LastChanged(s)

NoGaps == \A i \in AnsweredBy(out) : Due(i) \subseteq AnsweredBy(out)

(* The last list among the messages is one that a session accounts for, or *)
(* a list_changed came after it.                                           *)
Current(s) ==
  \A last \in ListedBy(s) : (\A k \in ListedBy(s) : k <= last) =>
    s[last].tools \in Listable \/ \E k \in last..Len(s) : s[k].what = "changed"

Fresh(s) ==
  mode = "local" /\ quiet /\ writer = "running" =>
    /\ pc = "send" /\ Line = "list" => response.tools \in Listable
    /\ pc = "notify" \/ (pc = "send" /\ Line = "list") \/ Current(s)

MInv == TypeOK /\ Placed /\ Told(Stream) /\ NoGaps /\ Fresh(Stream)

-----------------------------------------------------------------------------
(* The first state *)

LEMMA MInvInit == Init => MInv
<1>. SUFFICES ASSUME Init  PROVE MInv
  OBVIOUS
<1>1. out = <<>> /\ outbox = <<>> /\ lines = <<>> /\ taken = 0 /\ pc = "read"
      /\ writer = "running" /\ response = Message("none", 0, {})
  BY DEF Init
<1>2. TypeOK
  <2>1. /\ <<>> \in Seq(Kinds) /\ <<>> \in Seq(Messages) /\ Len(<<>>) = 0
    OBVIOUS
  <2>2. response \in Messages
    BY <1>1, McpAssumption DEF Messages, Message
  <2>3. /\ mode \in {"local", "proxy"} /\ closed \in BOOLEAN /\ registered \subseteq Sessions
        /\ ready \subseteq registered /\ background \in 0..MaxBackground /\ quiet \in BOOLEAN
    <3>1. registered \subseteq Sessions
      BY McpAssumption DEF Init
    <3>2. /\ mode \in {"local", "proxy"} /\ closed \in BOOLEAN
          /\ ready \subseteq registered /\ quiet \in BOOLEAN
      BY DEF Init
    <3>3. background \in 0..MaxBackground
      BY McpAssumption DEF Init
    <3>. QED  BY <3>1, <3>2, <3>3
  <2>4. 0 <= MaxLines /\ 0 <= OutboxCap /\ 0 \in 0..0
    BY McpAssumption
  <2>. QED  BY <1>1, <2>1, <2>2, <2>3, <2>4 DEF TypeOK
<1>3. Placed
  BY <1>1 DEF Placed
<1>4. Stream = <<>> /\ Len(<<>>) = 0 /\ 1..0 = {}
  BY <1>1 DEF Stream
<1>5. AnswersIn(<<>>) = {} /\ AnsweredBy(<<>>) = {} /\ Due(0) = {} /\ ListedBy(<<>>) = {}
  BY <1>4 DEF AnswersIn, AnsweredBy, Due, ListedBy
<1>6. Told(<<>>)
  BY <1>1, <1>4, <1>5 DEF Told, InOrder, Announced, LastChanged
<1>7. NoGaps
  BY <1>1, <1>5 DEF NoGaps
<1>8. Fresh(<<>>)
  BY <1>1, <1>5 DEF Fresh, Current
<1>. QED  BY <1>2, <1>3, <1>4, <1>6, <1>7, <1>8 DEF MInv

-----------------------------------------------------------------------------
(* Types *)

LEMMA LineTypes ==
  ASSUME TypeOK
  PROVE  /\ Len(lines) \in Nat /\ taken \in Nat /\ taken <= Len(lines) /\ Len(lines) <= MaxLines
         /\ taken < Len(lines) => taken + 1 \in 1..Len(lines) /\ Line \in Kinds
                                  /\ taken + 1 \in 0..Len(lines) /\ taken + 1 \in 0..MaxLines
<1>1. lines \in Seq(Kinds) /\ Len(lines) \in Nat /\ taken \in Nat /\ taken <= Len(lines)
      /\ Len(lines) <= MaxLines /\ MaxLines \in Nat
  BY McpAssumption DEF TypeOK
<1>2. ASSUME taken < Len(lines)
      PROVE  taken + 1 \in 1..Len(lines) /\ taken + 1 \in 0..Len(lines) /\ taken + 1 \in 0..MaxLines
  BY <1>1, <1>2
<1>3. ASSUME taken < Len(lines)  PROVE Line \in Kinds
  BY <1>1, <1>2, <1>3, ElementOfSeq DEF Line
<1>. QED  BY <1>1, <1>2, <1>3

LEMMA ListableTypes ==
  ASSUME TypeOK
  PROVE  Listable \subseteq SUBSET Gated
<1>1. \A s \in Sessions : Supports[s] \in SUBSET Gated
  BY McpAssumption
<1>2. ASSUME NEW c, c \subseteq Sessions  PROVE {ToolList(s) : s \in c} \subseteq SUBSET Gated
  BY <1>1, <1>2 DEF ToolList
<1>3. registered \subseteq Sessions /\ registered \cap {Default} \subseteq Sessions
      /\ {Gated} \subseteq SUBSET Gated
  BY DEF TypeOK
<1>. QED  BY <1>2, <1>3 DEF Listable

LEMMA MessageTypes ==
  ASSUME TypeOK, taken < Len(lines)
  PROVE  /\ \A tools \in SUBSET Gated : Message("answer", taken + 1, tools) \in Messages
         /\ Message("changed", taken + 1, {}) \in Messages
         /\ Answer \in Messages /\ Answer.what = "answer" /\ Answer.re = taken + 1
<1>1. taken + 1 \in 0..MaxLines
  BY LineTypes
<1>. QED  BY <1>1 DEF Message, Messages, Answer

(* The loop's own state keeps its types if nothing else changes. *)
LEMMA LoopTypes ==
  ASSUME TypeOK, UNCHANGED <<inputs, output>>,
         taken' \in 0..Len(lines),
         pc' \in {"read", "handle", "notify", "send", "drain", "failed", "exited"},
         response' \in Messages,
         registered' \subseteq Sessions, ready' \subseteq registered',
         background' = background, quiet' \in BOOLEAN
  PROVE  TypeOK'
BY DEF TypeOK, inputs, output

-----------------------------------------------------------------------------
(* What the messages tell is undisturbed by most steps. *)

LEMMA ListableSame ==
  ASSUME UNCHANGED <<mode, registered, ready>>
  PROVE  Listable' = Listable
BY DEF Listable, ToolList

LEMMA StreamType ==
  ASSUME TypeOK
  PROVE  /\ Stream \in Seq(Messages) /\ Len(out) \in Nat /\ Len(Stream) \in Nat /\ Len(out) <= Len(Stream)
         /\ \A k \in 1..Len(out) : k \in 1..Len(Stream) /\ Stream[k] = out[k]
         /\ outbox = <<>> => Stream = out
BY Joined DEF TypeOK, Stream

LEMMA Untold ==
  ASSUME MInv, UNCHANGED <<lines, taken, outbox, out, writer>>, pc = "send" => pc' = "send"
  PROVE  Told(Stream)' /\ NoGaps'
<1>1. PICK s : s = Stream
  OBVIOUS
<1>2. Stream' = s
  BY <1>1 DEF Stream
<1>3. Told(s)'
  BY <1>1 DEF MInv, Told, LastChanged, Due
<1>. QED  BY <1>2, <1>3 DEF MInv, NoGaps, Due

(* The answers so far are about lines that are there. *)
LEMMA ListedLines ==
  ASSUME MInv
  PROVE  \A k \in AnswersIn(Stream) : Stream[k].re \in 1..Len(lines)
<1>1. taken \in Nat /\ Len(lines) \in Nat /\ taken <= Len(lines)
  BY LineTypes DEF MInv
<1>2. ASSUME NEW k \in AnswersIn(Stream)  PROVE Stream[k].re \in 1..taken
  <2>1. Stream[k].re \in AnsweredBy(Stream)
    BY DEF AnsweredBy
  <2>. QED  BY <2>1 DEF MInv, Told, Due
<1>. QED  BY <1>1, <1>2

LEMMA HostStep ==
  ASSUME MInv, Host
  PROVE  MInv'
<1>1. CASE HostCloses
  <2>1. TypeOK'
    BY <1>1 DEF MInv, TypeOK, HostCloses, output, sessionsVars
  <2>2. Placed'
    BY <1>1 DEF MInv, Placed, HostCloses, output, Line
  <2>3. Told(Stream)' /\ NoGaps'
    BY <1>1, Untold DEF HostCloses, output
  <2>4. Fresh(Stream)'
    <3>1. Stream' = Stream /\ Listable' = Listable
      BY <1>1, ListableSame DEF HostCloses, output, sessionsVars, Stream
    <3>. QED  BY <1>1, <3>1 DEF MInv, Fresh, Current, ListedBy, HostCloses, output, sessionsVars, Line
  <2>. QED  BY <2>1, <2>2, <2>3, <2>4 DEF MInv
<1>2. ASSUME NEW kind \in Kinds, HostWrites(kind)  PROVE MInv'
  <2>1. /\ lines' = Append(lines, kind) /\ Len(lines) < MaxLines
        /\ UNCHANGED <<mode, closed, taken, pc, response, outbox, writer, out,
                       registered, ready, background, quiet>>
    BY <1>2 DEF HostWrites, output, sessionsVars
  <2>2. lines \in Seq(Kinds) /\ Len(lines) \in Nat /\ taken \in Nat /\ taken <= Len(lines) /\ MaxLines \in Nat
    BY LineTypes, McpAssumption DEF MInv, TypeOK
  <2>3. /\ lines' \in Seq(Kinds) /\ Len(lines') = Len(lines) + 1
        /\ \A i \in 1..Len(lines) : lines'[i] = lines[i]
    BY <2>1, <2>2
  <2>4. TypeOK'
    <3>1. Len(lines') <= MaxLines /\ taken \in 0..Len(lines')
      BY <2>1, <2>2, <2>3
    <3>. QED  BY <2>1, <2>3, <3>1 DEF MInv, TypeOK
  <2>5. taken < Len(lines) => Line' = Line /\ taken' < Len(lines)'
    <3>1. taken < Len(lines) => taken + 1 \in 1..Len(lines) /\ taken < Len(lines) + 1
      BY <2>2
    <3>. QED  BY <2>1, <2>3, <3>1 DEF Line
  <2>6. Placed'
    BY <2>1, <2>5 DEF MInv, Placed
  <2>7. \A n \in 0..Len(lines) : Due(n)' = Due(n)
    <3>1. \A n \in 0..Len(lines) : \A i \in 1..n : i \in 1..Len(lines)
      BY <2>2
    <3>. QED  BY <2>3, <3>1 DEF Due
  <2>8. PICK s : s = Stream
    OBVIOUS
  <2>9. Stream' = s
    BY <2>1, <2>8 DEF Stream
  <2>10. Told(s)'
    <3>1. Due(taken)' = Due(taken)
      BY <2>1, <2>2, <2>7 DEF Due
    <3>. QED  BY <2>1, <2>8, <3>1 DEF MInv, Told, LastChanged
  <2>11. NoGaps'
    <3>1. ASSUME NEW i \in AnsweredBy(out)  PROVE i \in 0..Len(lines)
      <4>1. PICK k \in AnswersIn(out) : i = out[k].re
        BY DEF AnsweredBy
      <4>2. k \in AnswersIn(Stream) /\ Stream[k] = out[k]
        BY StreamType DEF MInv, AnswersIn
      <4>3. i \in 1..Len(lines)
        BY <4>1, <4>2, ListedLines
      <4>. QED  BY <2>2, <4>3
    <3>2. \A i \in AnsweredBy(out) : Due(i)' \subseteq AnsweredBy(out)
      BY <2>7, <3>1 DEF MInv, NoGaps
    <3>. QED  BY <2>1, <3>2 DEF NoGaps, Due
  <2>12. Fresh(s)'
    <3>1. ListedBy(s)' = ListedBy(s)
      BY <2>3, <2>8, ListedLines DEF ListedBy
    <3>2. Listable' = Listable
      BY <2>1, ListableSame
    <3>3. Current(s)' <=> Current(s)
      BY <3>1, <3>2 DEF Current
    <3>4. pc = "send" => taken < Len(lines)
      BY DEF MInv, Placed
    <3>. QED  BY <2>1, <2>5, <2>8, <3>2, <3>3, <3>4 DEF MInv, Fresh
  <2>. QED  BY <2>4, <2>6, <2>9, <2>10, <2>11, <2>12 DEF MInv
<1>. QED  BY <1>1, <1>2 DEF Host

LEMMA BackgroundStep ==
  ASSUME MInv, Background
  PROVE  MInv'
<1>1. /\ background < MaxBackground /\ background' = background + 1 /\ quiet' = FALSE
      /\ UNCHANGED <<mode, lines, closed, taken, pc, response, outbox, writer, out>>
  BY DEF Background, inputs, output
<1>2. TypeOK'
  <2>1. registered' \subseteq Sessions /\ ready' \subseteq registered'
    BY DEF MInv, TypeOK, Background
  <2>2. background' \in 0..MaxBackground
    BY <1>1, McpAssumption DEF MInv, TypeOK
  <2>. QED  BY <1>1, <2>1, <2>2 DEF MInv, TypeOK
<1>3. Placed'
  BY <1>1 DEF MInv, Placed, Line
<1>4. Told(Stream)' /\ NoGaps'
  BY <1>1, Untold
<1>5. Fresh(Stream)'
  BY <1>1 DEF Fresh
<1>. QED  BY <1>2, <1>3, <1>4, <1>5 DEF MInv

-----------------------------------------------------------------------------
(* The loop: what is put in the outbox *)

LEMMA PutStep ==
  ASSUME MInv, NEW m \in Messages, Put(m), out' = out
  PROVE  /\ outbox' \in Seq(Messages) /\ Len(outbox') <= OutboxCap
         /\ writer = "running" => Stream' = Append(Stream, m)
         /\ writer # "running" => Stream' = Stream /\ outbox' = outbox
<1>1. outbox \in Seq(Messages) /\ out \in Seq(Messages) /\ Len(outbox) <= OutboxCap /\ OutboxCap \in Nat
  BY McpAssumption DEF MInv, TypeOK
<1>2. CASE writer = "running"
  <2>1. Len(outbox) < OutboxCap /\ outbox' = Append(outbox, m)
    BY <1>2 DEF Put
  <2>2. Append(outbox, m) \in Seq(Messages) /\ Len(Append(outbox, m)) <= OutboxCap
    BY <1>1, <2>1
  <2>3. out \o Append(outbox, m) = Append(out \o outbox, m)
    BY <1>1, Moved
  <2>. QED  BY <1>2, <2>1, <2>2, <2>3 DEF Stream
<1>3. CASE writer # "running"
  BY <1>1, <1>3 DEF Put, Stream
<1>. QED  BY <1>2, <1>3

(* A line's answer is put last. *)
LEMMA ToldAnswer ==
  ASSUME MInv, pc = "send", writer = "running"
  PROVE  \E r \in Seq(Messages), n \in Nat :
           /\ r = Append(Stream, response) /\ n = Len(Stream) /\ Len(r) = n + 1
           /\ r[n + 1] = response /\ \A k \in 1..n : r[k] = Stream[k]
           /\ InOrder(r) /\ Announced(r)
           /\ \A i : i \in AnsweredBy(r) <=> i \in Due(taken + 1)
           /\ \A k : k \in ListedBy(r) <=> k \in ListedBy(Stream) \/ (k = n + 1 /\ Line = "list")
<1>1. PICK s \in Seq(Messages), m \in Messages : s = Stream /\ m = response
  BY StreamType DEF MInv, TypeOK
<1>2. PICK r \in Seq(Messages), n \in Nat :
           /\ r = Append(s, m) /\ n = Len(s) /\ Len(r) = n + 1 /\ r[n + 1] = m
           /\ \A k \in 1..n : r[k] = s[k]
           /\ \A k : k \in AnswersIn(r) <=> k \in AnswersIn(s) \/ (k = n + 1 /\ m.what = "answer")
           /\ \A k \in AnswersIn(s) : k \in 1..n /\ r[k] = s[k]
           /\ \A i : i \in AnsweredBy(r) <=> i \in AnsweredBy(s) \/ (i = m.re /\ m.what = "answer")
  BY AppendedAnswers
<1>3. /\ m.what = "answer" /\ m.re = taken + 1 /\ lines[taken + 1] \in Answered
      /\ taken \in Nat
  BY <1>1, LineTypes DEF MInv, Placed, Line
<1>4. /\ \A k : k \in AnswersIn(r) <=> k \in AnswersIn(s) \/ k = n + 1
      /\ \A k \in AnswersIn(s) : k \in 1..n /\ r[k] = s[k]
      /\ \A i : i \in AnsweredBy(r) <=> i \in AnsweredBy(s) \/ i = taken + 1
  BY <1>2, <1>3
<1>5. \A i : i \in AnsweredBy(r) <=> i \in Due(taken + 1)
  <2>1. \A i : i \in AnsweredBy(s) <=> i \in Due(taken)
    BY <1>1 DEF MInv, Told
  <2>2. \A i : i \in Due(taken + 1) <=> i \in Due(taken) \/ i = taken + 1
    BY <1>3, DueGrows
  <2>. QED  BY <1>4, <2>1, <2>2
<1>6. InOrder(r)
  <2>1. ASSUME NEW j \in AnswersIn(r), NEW k \in AnswersIn(r), j < k  PROVE r[j].re < r[k].re
    <3>1. j # n + 1
      <4>1. ASSUME j = n + 1  PROVE FALSE
        <5>1. k \in 1..n \/ k = n + 1
          BY <1>4
        <5>. QED  BY <2>1, <4>1, <5>1
      <4>. QED  BY <4>1
    <3>2. j \in AnswersIn(s) /\ r[j] = s[j]
      BY <1>4, <3>1
    <3>3. s[j].re \in 1..taken
      <4>1. s[j].re \in AnsweredBy(s)
        BY <3>2 DEF AnsweredBy
      <4>. QED  BY <1>1, <4>1 DEF MInv, Told, Due
    <3>4. CASE k = n + 1
      BY <1>2, <1>3, <3>2, <3>3, <3>4
    <3>5. CASE k \in AnswersIn(s)
      <4>1. s[j].re < s[k].re
        BY <1>1, <2>1, <3>2, <3>5 DEF MInv, Told, InOrder
      <4>. QED  BY <1>4, <3>2, <3>5, <4>1
    <3>. QED  BY <1>4, <3>4, <3>5
  <2>. QED  BY <2>1 DEF InOrder
<1>7. Announced(r)
  <2>1. ASSUME NEW k \in 1..(n + 1), r[k].what = "changed", k # n + 1
        PROVE  k + 1 \in AnswersIn(r) /\ r[k + 1].re = r[k].re
    <3>1. k \in 1..n /\ s[k].what = "changed" /\ r[k] = s[k]
      BY <1>2, <2>1
    <3>2. CASE k = n
      <4>1. s[n].re = taken + 1
        BY <1>1, <1>2, <3>1, <3>2 DEF MInv, Told, LastChanged
      <4>. QED  BY <1>2, <1>3, <1>4, <3>1, <3>2, <4>1
    <3>3. CASE k # n
      <4>1. k + 1 \in AnswersIn(s) /\ s[k + 1].re = s[k].re
        BY <1>1, <1>2, <3>1, <3>3 DEF MInv, Told, Announced
      <4>. QED  BY <1>4, <3>1, <4>1
    <3>. QED  BY <3>2, <3>3
  <2>. QED  BY <1>2, <2>1 DEF Announced
<1>8. \A k : k \in ListedBy(r) <=> k \in ListedBy(s) \/ (k = n + 1 /\ Line = "list")
  <2>1. \A k : k \in ListedBy(r) <=> k \in AnswersIn(r) /\ lines[r[k].re] = "list"
    BY DEF ListedBy
  <2>2. \A k : k \in ListedBy(s) <=> k \in AnswersIn(s) /\ lines[s[k].re] = "list"
    BY DEF ListedBy
  <2>3. lines[r[n + 1].re] = Line
    BY <1>2, <1>3 DEF Line
  <2>. QED  BY <1>4, <2>1, <2>2, <2>3
<1>. QED  BY <1>1, <1>2, <1>5, <1>6, <1>7, <1>8

LEMMA SendStep ==
  ASSUME MInv, Send
  PROVE  MInv'
<1>1. /\ pc = "send" /\ pc' = "read" /\ taken' = taken + 1
      /\ UNCHANGED <<mode, lines, closed, response, writer, out, registered, ready, background, quiet>>
  BY DEF Send, inputs, sessionsVars
<1>2. /\ outbox' \in Seq(Messages) /\ Len(outbox') <= OutboxCap
      /\ writer = "running" => Stream' = Append(Stream, response)
      /\ writer # "running" => Stream' = Stream /\ outbox' = outbox
  BY <1>1, PutStep DEF Send, MInv, TypeOK
<1>3. taken < Len(lines) /\ taken \in Nat /\ taken + 1 \in 0..Len(lines)
  BY <1>1, LineTypes DEF MInv, Placed
<1>4. TypeOK'
  BY <1>1, <1>2, <1>3 DEF MInv, TypeOK
<1>5. writer \notin {"done", "aborted"}
  BY <1>1 DEF MInv, Placed
<1>6. Placed'
  BY <1>1, <1>2, <1>5 DEF MInv, Placed
<1>7. NoGaps'
  BY <1>1 DEF MInv, NoGaps, Due
<1>8. CASE writer # "running"
  <2>1. Stream' = Stream /\ writer' = "broken"
    BY <1>1, <1>2, <1>5, <1>8 DEF MInv, TypeOK
  <2>2. PICK s : s = Stream
    OBVIOUS
  <2>3. AnsweredBy(s) \subseteq Due(taken + 1)
    BY <1>3, <2>2, DueGrows DEF MInv, Told
  <2>4. Told(s)'
    <3>1. Due(taken)' = Due(taken + 1)
      BY <1>1 DEF Due
    <3>. QED  BY <2>1, <2>2, <2>3, <3>1 DEF MInv, Told, LastChanged
  <2>5. Fresh(s)'
    BY <2>1 DEF Fresh
  <2>. QED  BY <1>4, <1>6, <1>7, <2>1, <2>2, <2>4, <2>5 DEF MInv
<1>9. CASE writer = "running"
  <2>1. PICK r \in Seq(Messages), n \in Nat :
           /\ r = Append(Stream, response) /\ n = Len(Stream) /\ Len(r) = n + 1
           /\ r[n + 1] = response /\ \A k \in 1..n : r[k] = Stream[k]
           /\ InOrder(r) /\ Announced(r)
           /\ \A i : i \in AnsweredBy(r) <=> i \in Due(taken + 1)
           /\ \A k : k \in ListedBy(r) <=> k \in ListedBy(Stream) \/ (k = n + 1 /\ Line = "list")
    BY <1>1, <1>9, ToldAnswer
  <2>2. Stream' = r
    BY <1>2, <1>9, <2>1
  <2>3. Told(r)'
    <3>1. Due(taken)' = Due(taken + 1)
      BY <1>1 DEF Due
    <3>2. r[n + 1].what # "changed"
      BY <1>1, <2>1 DEF MInv, Placed
    <3>3. LastChanged(r)'
      BY <2>1, <3>2 DEF LastChanged
    <3>. QED  BY <2>1, <3>1, <3>3 DEF Told
  <2>4. PICK s : s = Stream
    OBVIOUS
  <2>5. ASSUME mode = "local", quiet  PROVE Current(r)
    <3>1. ASSUME NEW last \in ListedBy(r), \A k \in ListedBy(r) : k <= last
          PROVE  r[last].tools \in Listable \/ \E k \in last..(n + 1) : r[k].what = "changed"
      <4>1. CASE Line = "list"
        <5>1. n + 1 \in ListedBy(r)
          BY <2>1, <4>1
        <5>2. last \in 1..(n + 1)
          BY <2>1 DEF ListedBy, AnswersIn
        <5>3. last = n + 1
          BY <3>1, <5>1, <5>2
        <5>4. response.tools \in Listable
          BY <1>1, <1>9, <2>5, <4>1 DEF MInv, Fresh
        <5>. QED  BY <2>1, <5>3, <5>4
      <4>2. CASE Line # "list"
        <5>1. Current(s)
          BY <1>1, <1>9, <2>4, <2>5, <4>2 DEF MInv, Fresh
        <5>2. last \in ListedBy(s) /\ \A k \in ListedBy(s) : k <= last
          BY <2>1, <2>4, <3>1, <4>2
        <5>3. last \in 1..n
          BY <2>1, <2>4, <5>2 DEF ListedBy, AnswersIn
        <5>4. s[last].tools \in Listable \/ \E k \in last..n : s[k].what = "changed"
          BY <2>1, <2>4, <5>1, <5>2 DEF Current
        <5>5. \A k \in last..n : k \in last..(n + 1) /\ r[k] = s[k]
          BY <2>1, <2>4, <5>3
        <5>. QED  BY <2>1, <2>4, <5>3, <5>4, <5>5
      <4>. QED  BY <4>1, <4>2
    <3>. QED  BY <2>1, <3>1 DEF Current
  <2>6. Fresh(r)'
    <3>1. Listable' = Listable
      BY <1>1, ListableSame
    <3>2. Current(r) => Current(r)'
      BY <1>1, <3>1 DEF Current, ListedBy
    <3>. QED  BY <1>1, <2>5, <3>2 DEF Fresh
  <2>. QED  BY <1>4, <1>6, <1>7, <2>2, <2>3, <2>6 DEF MInv
<1>. QED  BY <1>8, <1>9

(* A change is announced. *)
LEMMA NotifyStep ==
  ASSUME MInv, Notify
  PROVE  MInv'
<1>. DEFINE m == Message("changed", taken + 1, {})
<1>1. /\ pc = "notify" /\ pc' = "send" /\ response' = Answer
      /\ UNCHANGED <<mode, lines, closed, taken, writer, out, registered, ready, background, quiet>>
  BY DEF Notify, Respond, inputs, sessionsVars
<1>2. /\ taken < Len(lines) /\ Line \in {"launch", "stop"}
      /\ Answer \in Messages /\ Answer.what = "answer" /\ Answer.re = taken + 1
      /\ m \in Messages
  BY <1>1, MessageTypes DEF MInv, Placed
<1>3. m.what = "changed" /\ m.re = taken + 1
  BY DEF Message
<1>4. /\ outbox' \in Seq(Messages) /\ Len(outbox') <= OutboxCap
      /\ writer = "running" => Stream' = Append(Stream, m)
      /\ writer # "running" => Stream' = Stream /\ outbox' = outbox
  BY <1>1, <1>2, PutStep DEF Notify
<1>. HIDE DEF m
<1>5. TypeOK'
  BY <1>1, <1>2, <1>4 DEF MInv, TypeOK
<1>6. writer \notin {"done", "aborted"}
  BY <1>1 DEF MInv, Placed
<1>7. Line' = Line /\ Line \in Answered /\ Line # "list"
  BY <1>1, <1>2 DEF Line, Answered, Requests
<1>8. Placed'
  BY <1>1, <1>2, <1>4, <1>6, <1>7 DEF MInv, Placed
<1>9. NoGaps'
  BY <1>1 DEF MInv, NoGaps, Due
<1>10. Due(taken)' = Due(taken)
  BY <1>1 DEF Due
<1>11. PICK s \in Seq(Messages) : s = Stream
  BY StreamType DEF MInv
<1>12. CASE writer # "running"
  <2>1. Stream' = s /\ writer' = "broken"
    BY <1>1, <1>4, <1>6, <1>11, <1>12 DEF MInv, TypeOK
  <2>2. Told(s)'
    BY <1>10, <1>11, <2>1 DEF MInv, Told, LastChanged
  <2>3. Fresh(s)'
    BY <2>1 DEF Fresh
  <2>. QED  BY <1>5, <1>8, <1>9, <2>1, <2>2, <2>3 DEF MInv
<1>13. CASE writer = "running"
  <2>1. PICK r \in Seq(Messages), n \in Nat :
           /\ r = Append(s, m) /\ n = Len(s) /\ Len(r) = n + 1 /\ r[n + 1] = m
           /\ \A k \in 1..n : r[k] = s[k]
           /\ \A k : k \in AnswersIn(r) <=> k \in AnswersIn(s) \/ (k = n + 1 /\ m.what = "answer")
           /\ \A k \in AnswersIn(s) : k \in 1..n /\ r[k] = s[k]
           /\ \A i : i \in AnsweredBy(r) <=> i \in AnsweredBy(s) \/ (i = m.re /\ m.what = "answer")
    BY <1>2, AppendedAnswers
  <2>2. Stream' = r
    BY <1>4, <1>11, <1>13, <2>1
  <2>3. AnswersIn(r) = AnswersIn(s) /\ AnsweredBy(r) = AnsweredBy(s)
    BY <1>3, <2>1
  <2>4. InOrder(r)
    BY <1>11, <2>1, <2>3 DEF MInv, Told, InOrder
  <2>5. Announced(r)
    <3>1. ASSUME NEW k \in 1..(n + 1), r[k].what = "changed", k # n + 1
          PROVE  k + 1 \in AnswersIn(r) /\ r[k + 1].re = r[k].re
      <4>1. k \in 1..n /\ s[k].what = "changed" /\ r[k] = s[k]
        BY <2>1, <3>1
      <4>2. k # n
        <5>1. ASSUME k = n  PROVE FALSE
          <6>1. Len(s) # 0 /\ s[Len(s)].what = "changed"
            BY <2>1, <4>1, <5>1
          <6>2. pc = "send"
            BY <1>11, <1>13, <6>1 DEF MInv, Told, LastChanged
          <6>. QED  BY <1>1, <6>2
        <5>. QED  BY <5>1
      <4>3. k + 1 \in AnswersIn(s) /\ s[k + 1].re = s[k].re
        BY <1>11, <2>1, <4>1, <4>2 DEF MInv, Told, Announced
      <4>. QED  BY <2>1, <2>3, <4>1, <4>3
    <3>. QED  BY <2>1, <3>1 DEF Announced
  <2>6. Told(r)'
    <3>1. LastChanged(r)'
      BY <1>1, <1>3, <2>1 DEF LastChanged
    <3>2. writer' = "running" /\ Due(taken) = AnsweredBy(r)
      BY <1>1, <1>11, <1>13, <2>3 DEF MInv, Told
    <3>. QED  BY <1>10, <2>4, <2>5, <3>1, <3>2 DEF Told
  <2>7. Current(r)'
    <3>1. ASSUME NEW last \in ListedBy(r)'
          PROVE  \E k \in last..(n + 1) : r[k].what = "changed"
      <4>1. last \in 1..(n + 1)
        BY <2>1 DEF ListedBy, AnswersIn
      <4>2. n + 1 \in last..(n + 1)
        BY <4>1
      <4>. QED  BY <1>3, <2>1, <4>2
    <3>. QED  BY <2>1, <3>1 DEF Current
  <2>8. Fresh(r)'
    BY <1>1, <1>7, <2>7 DEF Fresh
  <2>. QED  BY <1>5, <1>8, <1>9, <2>2, <2>6, <2>8 DEF MInv
<1>. QED  BY <1>12, <1>13

-----------------------------------------------------------------------------
(* The loop: what it does in between *)

(* These steps leave the messages alone. *)
LEMMA BetweenStep ==
  ASSUME MInv, UNCHANGED <<mode, lines, taken, outbox, out, writer>>,
         pc = "send" => pc' = "send", TypeOK', Placed',
         mode = "local" /\ quiet' /\ writer = "running" =>
           /\ pc' = "send" /\ Line = "list" => response'.tools \in Listable'
           /\ \/ pc' = "notify" \/ (pc' = "send" /\ Line = "list")
              \/ UNCHANGED <<quiet, registered, ready>> /\ pc # "notify" /\ ~(pc = "send" /\ Line = "list")
  PROVE  MInv'
<1>1. Told(Stream)' /\ NoGaps'
  BY Untold
<1>2. PICK s : s = Stream
  OBVIOUS
<1>3. Stream' = s /\ Line' = Line
  BY <1>2 DEF Stream, Line
<1>4. ASSUME UNCHANGED <<registered, ready>>, Current(s)  PROVE Current(s)'
  <2>1. Listable' = Listable /\ ListedBy(s)' = ListedBy(s)
    BY <1>4, ListableSame DEF ListedBy
  <2>. QED  BY <1>4, <2>1 DEF Current
<1>5. Fresh(s)'
  <2>1. SUFFICES ASSUME mode = "local", quiet', writer = "running"
                 PROVE  /\ pc' = "send" /\ Line = "list" => response'.tools \in Listable'
                        /\ pc' = "notify" \/ (pc' = "send" /\ Line = "list") \/ Current(s)'
    BY <1>3 DEF Fresh
  <2>2. ASSUME UNCHANGED <<quiet, registered, ready>>, pc # "notify", ~(pc = "send" /\ Line = "list")
        PROVE  Current(s)
    BY <1>2, <2>1, <2>2 DEF MInv, Fresh
  <2>. QED  BY <1>4, <2>1, <2>2
<1>. QED  BY <1>1, <1>2, <1>3, <1>5 DEF MInv

(* A line that is owed nothing is over. *)
LEMMA SkipStep ==
  ASSUME MInv, UNCHANGED <<inputs, output, response, sessionsVars>>,
         pc \in {"read", "handle"}, pc' = "read",
         taken < Len(lines), taken' = taken + 1, Line \notin Answered
  PROVE  MInv'
<1>1. UNCHANGED <<mode, lines, closed, outbox, writer, out, registered, ready, background, quiet>>
  BY DEF inputs, output, sessionsVars
<1>2. taken \in Nat /\ taken + 1 \in 0..Len(lines)
  BY LineTypes DEF MInv
<1>3. TypeOK'
  BY <1>1, <1>2, LoopTypes DEF MInv, TypeOK
<1>4. writer \notin {"done", "aborted"}
  BY DEF MInv, Placed
<1>5. Placed'
  BY <1>1, <1>4 DEF MInv, Placed
<1>6. PICK s : s = Stream
  OBVIOUS
<1>7. Stream' = s
  BY <1>1, <1>6 DEF Stream
<1>8. Told(s)'
  <2>1. Due(taken)' = Due(taken)
    <3>1. Due(taken)' = Due(taken + 1)
      BY <1>1 DEF Due
    <3>2. Due(taken + 1) = Due(taken)
      BY <1>2, DueGrows DEF Line
    <3>. QED  BY <3>1, <3>2
  <2>2. LastChanged(s)'
    BY <1>1, <1>6 DEF MInv, Told, LastChanged
  <2>. QED  BY <1>1, <1>6, <2>1, <2>2 DEF MInv, Told
<1>9. NoGaps'
  BY <1>1 DEF MInv, NoGaps, Due
<1>10. Fresh(s)'
  <2>1. Current(s)' <=> Current(s)
    BY <1>1, ListableSame DEF Current, ListedBy
  <2>. QED  BY <1>1, <1>6, <2>1 DEF MInv, Fresh
<1>. QED  BY <1>3, <1>5, <1>7, <1>8, <1>9, <1>10 DEF MInv

LEMMA ReadTheLine ==
  ASSUME MInv, Read
  PROVE  MInv'
<1>1. /\ pc = "read" /\ taken < Len(lines)
      /\ UNCHANGED <<mode, lines, closed, outbox, writer, out, registered, ready, background, quiet>>
  BY DEF Read, inputs, output, sessionsVars
<1>2. Line \in Kinds /\ writer \notin {"done", "aborted"}
  BY <1>1, LineTypes DEF MInv, Placed
<1>3. CASE Line = "dropped"
  <2>1. taken' = taken + 1 /\ pc' = pc /\ response' = response
    BY <1>3 DEF Read
  <2>2. Line \notin Answered
    BY <1>3 DEF Answered, Requests
  <2>. QED  BY <1>1, <2>1, <2>2, SkipStep DEF inputs, output, sessionsVars
<1>4. CASE Line = "garbage"
  <2>1. pc' = "send" /\ response' = Answer /\ taken' = taken
    BY <1>4 DEF Read
  <2>2. Answer \in Messages /\ Answer.what = "answer" /\ Answer.re = taken + 1
    BY <1>1, MessageTypes DEF MInv
  <2>3. TypeOK'
    BY <1>1, <2>1, <2>2 DEF MInv, TypeOK
  <2>4. Line' = Line /\ Line \in Answered /\ Line # "list"
    BY <1>1, <1>4, <2>1 DEF Line, Answered
  <2>5. Placed'
    BY <1>1, <1>2, <2>1, <2>2, <2>4 DEF MInv, Placed
  <2>. QED  BY <1>1, <2>1, <2>3, <2>4, <2>5, BetweenStep
<1>5. CASE Line = "not_utf8"
  <2>1. pc' = "failed" /\ response' = response /\ taken' = taken
    BY <1>5 DEF Read
  <2>2. TypeOK'
    BY <1>1, <2>1 DEF MInv, TypeOK
  <2>3. Line' = Line
    BY <1>1, <2>1 DEF Line
  <2>4. Placed'
    BY <1>1, <1>2, <1>5, <2>1, <2>3 DEF MInv, Placed
  <2>. QED  BY <1>1, <2>1, <2>2, <2>4, BetweenStep
<1>6. CASE Line \notin {"dropped", "garbage", "not_utf8"}
  <2>1. pc' = "handle" /\ response' = response /\ taken' = taken
    BY <1>6 DEF Read
  <2>2. TypeOK'
    BY <1>1, <2>1 DEF MInv, TypeOK
  <2>3. Line' = Line /\ Line \in Requests \cup {"notification"}
    BY <1>1, <1>2, <1>6, <2>1 DEF Line, Kinds
  <2>4. Placed'
    BY <1>1, <1>2, <2>1, <2>3 DEF MInv, Placed
  <2>. QED  BY <1>1, <2>1, <2>2, <2>4, BetweenStep
<1>. QED  BY <1>3, <1>4, <1>5, <1>6

(* An answer that is ready, or an announcement, is told what it is about.  *)
LEMMA Responding ==
  ASSUME MInv, pc = "handle", UNCHANGED <<inputs, output, taken>>, Line \in Answered,
         \/ /\ pc' = "send" /\ response' \in Messages
            /\ response'.what = "answer" /\ response'.re = taken + 1
         \/ pc' = "notify" /\ response' = response /\ Line \in {"launch", "stop"},
         registered' \subseteq Sessions, ready' \subseteq registered',
         background' = background, quiet' \in BOOLEAN
  PROVE  TypeOK' /\ Placed'
<1>1. UNCHANGED <<mode, lines, closed, outbox, writer, out, taken>> /\ Line' = Line
  BY DEF inputs, output, Line
<1>2. taken < Len(lines) /\ writer \notin {"done", "aborted"}
  BY DEF MInv, Placed
<1>3. TypeOK'
  BY <1>1 DEF MInv, TypeOK
<1>4. Placed'
  BY <1>1, <1>2 DEF MInv, Placed
<1>. QED  BY <1>3, <1>4

LEMMA AnnounceStep ==
  ASSUME MInv, pc = "handle", Announce, Line \in {"launch", "stop"}
  PROVE  /\ Line \in Answered
         /\ \/ /\ pc' = "send" /\ response' \in Messages
               /\ response'.what = "answer" /\ response'.re = taken + 1
            \/ pc' = "notify" /\ response' = response /\ Line \in {"launch", "stop"}
         /\ mode = "local" => pc' = "notify"
<1>1. taken < Len(lines)
  BY DEF MInv, Placed
<1>2. Answer \in Messages /\ Answer.what = "answer" /\ Answer.re = taken + 1
  BY <1>1, MessageTypes DEF MInv
<1>3. mode = "local" \/ mode # "local"
  OBVIOUS
<1>. QED  BY <1>2, <1>3 DEF Announce, Respond, Answered, Requests

LEMMA HandleStep ==
  ASSUME MInv, Handle
  PROVE  MInv'
<1>1. pc = "handle" /\ UNCHANGED <<inputs, output>>
  BY DEF Handle
<1>2. UNCHANGED <<mode, lines, closed, outbox, writer, out>>
  BY <1>1 DEF inputs, output
<1>3. taken < Len(lines) /\ Line \in Requests \cup {"notification"}
  BY <1>1 DEF MInv, Placed
<1>4. /\ Answer \in Messages /\ Answer.what = "answer" /\ Answer.re = taken + 1
      /\ \A tools \in SUBSET Gated : Message("answer", taken + 1, tools) \in Messages
  BY <1>3, MessageTypes DEF MInv
<1>5. registered \subseteq Sessions /\ ready \subseteq registered /\ quiet \in BOOLEAN
  BY DEF MInv, TypeOK
<1>6. taken' = taken => Line' = Line
  BY <1>2 DEF Line
<1>7. CASE HandleNotification
  <2>1. Line \notin Answered
    BY <1>3, <1>7 DEF HandleNotification, Answered, Requests
  <2>. QED  BY <1>1, <1>3, <1>7, <2>1, SkipStep DEF HandleNotification
<1>8. CASE HandleList /\ UNCHANGED taken
  <2>1. PICK tools \in Listable \cup (IF mode = "proxy" THEN {Gated} ELSE {}) :
          Respond(Message("answer", taken + 1, tools))
    BY <1>8 DEF HandleList
  <2>2. pc' = "send" /\ response' = Message("answer", taken + 1, tools) /\ Line = "list"
        /\ quiet' = TRUE /\ UNCHANGED <<registered, ready, background>>
    BY <1>8, <2>1 DEF HandleList, Respond
  <2>3. tools \in SUBSET Gated /\ (mode = "local" => tools \in Listable)
    BY <2>1, ListableTypes DEF MInv
  <2>4. response' \in Messages /\ response'.what = "answer" /\ response'.re = taken + 1
        /\ response'.tools = tools
    BY <1>4, <2>2, <2>3 DEF Message
  <2>5. Line \in Answered
    BY <2>2 DEF Answered, Requests
  <2>6. TypeOK' /\ Placed'
    BY <1>1, <1>5, <1>8, <2>2, <2>4, <2>5, Responding
  <2>7. Listable' = Listable
    BY <1>2, <2>2, ListableSame
  <2>. QED  BY <1>1, <1>2, <1>8, <2>2, <2>3, <2>4, <2>6, <2>7, BetweenStep
<1>9. CASE HandleLaunch /\ UNCHANGED taken
  <2>1. Line = "launch" /\ Line \in Answered /\ Line # "list"
    BY <1>9 DEF HandleLaunch, Answered, Requests
  <2>2. CASE /\ \E s \in Sessions : registered' = registered \cup {s} /\ ready' = ready \cup {s}
             /\ Announce
             /\ UNCHANGED <<background, quiet>>
    <3>1. registered' \subseteq Sessions /\ ready' \subseteq registered'
      BY <1>5, <2>2
    <3>2. TypeOK' /\ Placed'
      BY <1>1, <1>5, <1>9, <2>1, <2>2, <3>1, AnnounceStep, Responding
    <3>. QED  BY <1>1, <1>2, <1>9, <2>1, <2>2, <3>2, AnnounceStep, BetweenStep
  <2>3. CASE /\ \E s \in Sessions : registered' = registered \cup {s} /\ ready' \in {ready \ {s}, ready \cup {s}}
             /\ quiet' = FALSE
             /\ Respond(Answer)
             /\ UNCHANGED background
    <3>1. registered' \subseteq Sessions /\ ready' \subseteq registered'
      BY <1>5, <2>3
    <3>2. pc' = "send" /\ response' = Answer
      BY <2>3 DEF Respond
    <3>3. TypeOK' /\ Placed'
      BY <1>1, <1>4, <1>9, <2>1, <2>3, <3>1, <3>2, Responding
    <3>. QED  BY <1>1, <1>2, <1>9, <2>3, <3>2, <3>3, BetweenStep
  <2>4. CASE Respond(Answer) /\ UNCHANGED sessionsVars
    <3>1. pc' = "send" /\ response' = Answer /\ UNCHANGED <<registered, ready, background, quiet>>
      BY <2>4 DEF Respond, sessionsVars
    <3>2. TypeOK' /\ Placed'
      BY <1>1, <1>4, <1>5, <1>9, <2>1, <3>1, Responding
    <3>. QED  BY <1>1, <1>2, <1>9, <2>1, <3>1, <3>2, BetweenStep
  <2>. QED  BY <1>9, <2>2, <2>3, <2>4 DEF HandleLaunch
<1>10. CASE HandleStop /\ UNCHANGED taken
  <2>1. Line = "stop" /\ Line \in Answered /\ Line # "list" /\ UNCHANGED <<background, quiet>>
    BY <1>10 DEF HandleStop, Answered, Requests
  <2>2. CASE /\ \E s \in registered : registered' = registered \ {s} /\ ready' = ready \ {s}
             /\ Announce
    <3>1. registered' \subseteq Sessions /\ ready' \subseteq registered'
      BY <1>5, <2>2
    <3>2. TypeOK' /\ Placed'
      BY <1>1, <1>5, <1>10, <2>1, <2>2, <3>1, AnnounceStep, Responding
    <3>. QED  BY <1>1, <1>2, <1>10, <2>1, <2>2, <3>2, AnnounceStep, BetweenStep
  <2>3. CASE Respond(Answer) /\ UNCHANGED <<registered, ready>>
    <3>1. pc' = "send" /\ response' = Answer
      BY <2>3 DEF Respond
    <3>2. TypeOK' /\ Placed'
      BY <1>1, <1>4, <1>5, <1>10, <2>1, <2>3, <3>1, Responding
    <3>. QED  BY <1>1, <1>2, <1>10, <2>1, <2>3, <3>1, <3>2, BetweenStep
  <2>. QED  BY <1>10, <2>2, <2>3 DEF HandleStop
<1>11. CASE HandlePlain /\ UNCHANGED taken
  <2>1. Line = "plain" /\ Line \in Answered /\ Line # "list"
        /\ pc' = "send" /\ response' = Answer /\ UNCHANGED <<registered, ready, background, quiet>>
    BY <1>11 DEF HandlePlain, Respond, sessionsVars, Answered, Requests
  <2>2. TypeOK' /\ Placed'
    BY <1>1, <1>4, <1>5, <1>11, <2>1, Responding
  <2>. QED  BY <1>1, <1>2, <1>11, <2>1, <2>2, BetweenStep
<1>. QED  BY <1>7, <1>8, <1>9, <1>10, <1>11 DEF Handle

-----------------------------------------------------------------------------
(* The end of the loop, and the writer *)

LEMMA LoopEnds ==
  ASSUME MInv, Eof \/ Exit
  PROVE  MInv'
<1>1. /\ pc' \in {"drain", "exited"} /\ pc \in {"read", "drain"}
      /\ (pc' = "exited" => writer # "running")
      /\ UNCHANGED <<mode, lines, closed, taken, response, outbox, writer, out,
                     registered, ready, background, quiet>>
  BY DEF Eof, Exit, inputs, output, sessionsVars
<1>2. TypeOK'
  BY <1>1 DEF MInv, TypeOK
<1>3. Line' = Line
  BY <1>1 DEF Line
<1>4. Placed'
  BY <1>1, <1>3 DEF MInv, Placed
<1>. QED  BY <1>1, <1>2, <1>4, BetweenStep

(* The writer's state changes, the messages do not. *)
LEMMA WriterStops ==
  ASSUME MInv, UNCHANGED <<lines, taken, outbox, out>>, writer' # "running",
         writer' = "done" => writer \in {"running", "done"}
  PROVE  Told(Stream)' /\ NoGaps' /\ Fresh(Stream)'
<1>1. PICK s : s = Stream
  OBVIOUS
<1>2. Stream' = s
  BY <1>1 DEF Stream
<1>3. Due(taken)' = Due(taken)
  BY DEF Due
<1>4. Told(s)'
  BY <1>1, <1>3 DEF MInv, Told, LastChanged
<1>5. NoGaps'
  BY DEF MInv, NoGaps, Due
<1>6. Fresh(s)'
  BY DEF Fresh
<1>. QED  BY <1>2, <1>4, <1>5, <1>6

LEMMA AbortStep ==
  ASSUME MInv, Abort
  PROVE  MInv'
<1>1. /\ pc = "failed" /\ pc' = "exited"
      /\ writer' = (IF writer = "running" THEN "aborted" ELSE writer)
      /\ UNCHANGED <<mode, lines, closed, taken, response, outbox, out,
                     registered, ready, background, quiet>>
  BY DEF Abort, inputs, sessionsVars
<1>2. TypeOK'
  BY <1>1 DEF MInv, TypeOK
<1>3. Line' = Line
  BY <1>1 DEF Line
<1>4. Placed'
  BY <1>1, <1>3 DEF MInv, Placed
<1>5. Told(Stream)' /\ NoGaps' /\ Fresh(Stream)'
  BY <1>1, WriterStops
<1>. QED  BY <1>2, <1>4, <1>5 DEF MInv

LEMMA FinishStep ==
  ASSUME MInv, Finish
  PROVE  MInv'
<1>1. /\ pc \in {"drain", "failed"} /\ writer = "running" /\ writer' = "done" /\ outbox = <<>>
      /\ UNCHANGED <<mode, lines, closed, taken, pc, response, outbox, out,
                     registered, ready, background, quiet>>
  BY DEF Finish, inputs, sessionsVars
<1>2. TypeOK'
  BY <1>1 DEF MInv, TypeOK
<1>3. Line' = Line
  BY <1>1 DEF Line
<1>4. Placed'
  BY <1>1, <1>3 DEF MInv, Placed
<1>5. Told(Stream)' /\ NoGaps' /\ Fresh(Stream)'
  BY <1>1, WriterStops
<1>. QED  BY <1>2, <1>4, <1>5 DEF MInv

(* What holds of all messages holds of the first of them. *)
LEMMA BeginningTold ==
  ASSUME MInv, NEW o \in Seq(Messages), Len(o) \in Nat,
         \A k \in 1..Len(o) : k \in 1..Len(Stream) /\ Stream[k] = o[k]
  PROVE  /\ InOrder(o) /\ Announced(o) /\ AnsweredBy(o) \subseteq Due(taken)
         /\ \A k \in AnswersIn(o) : k \in AnswersIn(Stream) /\ Stream[k] = o[k]
<1>1. \A k \in AnswersIn(o) : k \in 1..Len(o) /\ k \in AnswersIn(Stream) /\ Stream[k] = o[k]
  BY DEF AnswersIn
<1>2. InOrder(o)
  BY <1>1 DEF MInv, Told, InOrder
<1>3. Announced(o)
  <2>1. ASSUME NEW k \in 1..Len(o), o[k].what = "changed", k # Len(o)
        PROVE  k + 1 \in AnswersIn(o) /\ o[k + 1].re = o[k].re
    <3>1. k + 1 \in 1..Len(o) /\ k \in 1..Len(Stream) /\ Stream[k] = o[k]
          /\ k + 1 \in 1..Len(Stream) /\ Stream[k + 1] = o[k + 1]
      BY <2>1
    <3>2. k # Len(Stream)
      BY <3>1, StreamType DEF MInv
    <3>3. k + 1 \in AnswersIn(Stream) /\ Stream[k + 1].re = Stream[k].re
      BY <2>1, <3>1, <3>2 DEF MInv, Told, Announced
    <3>. QED  BY <3>1, <3>3 DEF AnswersIn
  <2>. QED  BY <2>1 DEF Announced
<1>4. AnsweredBy(o) \subseteq Due(taken)
  <2>1. AnsweredBy(o) \subseteq AnsweredBy(Stream)
    BY <1>1 DEF AnsweredBy
  <2>. QED  BY <2>1 DEF MInv, Told
<1>. QED  BY <1>1, <1>2, <1>3, <1>4

LEMMA BreakStep ==
  ASSUME MInv, Break
  PROVE  MInv'
<1>1. /\ writer = "running" /\ writer' = "broken" /\ outbox' = <<>>
      /\ UNCHANGED <<mode, lines, closed, taken, pc, response, out,
                     registered, ready, background, quiet>>
  BY DEF Break, inputs, sessionsVars
<1>2. TypeOK'
  <2>1. <<>> \in Seq(Messages) /\ Len(<<>>) = 0 /\ 0 <= OutboxCap
    BY McpAssumption
  <2>. QED  BY <1>1, <2>1 DEF MInv, TypeOK
<1>3. Line' = Line
  BY <1>1 DEF Line
<1>4. Placed'
  BY <1>1, <1>3 DEF MInv, Placed
<1>5. PICK o \in Seq(Messages) : o = out
  BY DEF MInv, TypeOK
<1>6. Stream' = o
  BY <1>1, <1>5, Joined DEF Stream
<1>7. InOrder(o) /\ Announced(o) /\ AnsweredBy(o) \subseteq Due(taken)
  BY <1>5, BeginningTold, StreamType DEF MInv
<1>8. Told(o)'
  <2>1. Due(taken)' = Due(taken)
    BY <1>1 DEF Due
  <2>. QED  BY <1>1, <1>7, <2>1 DEF Told, LastChanged
<1>9. NoGaps'
  BY <1>1 DEF MInv, NoGaps, Due
<1>10. Fresh(o)'
  BY <1>1 DEF Fresh
<1>. QED  BY <1>2, <1>4, <1>6, <1>8, <1>9, <1>10 DEF MInv

LEMMA WriteStep ==
  ASSUME MInv, Write
  PROVE  MInv'
<1>1. /\ writer = "running" /\ outbox # <<>>
      /\ out' = Append(out, Head(outbox)) /\ outbox' = Tail(outbox)
      /\ UNCHANGED <<mode, lines, closed, taken, pc, response, writer,
                     registered, ready, background, quiet>>
  BY DEF Write, inputs, sessionsVars
<1>2. outbox \in Seq(Messages) /\ out \in Seq(Messages) /\ Len(outbox) <= OutboxCap /\ OutboxCap \in Nat
  BY McpAssumption DEF MInv, TypeOK
<1>3. /\ Head(outbox) \in Messages /\ Tail(outbox) \in Seq(Messages) /\ Len(Tail(outbox)) <= OutboxCap
  <2>1. Head(outbox) \in Messages /\ Tail(outbox) \in Seq(Messages) /\ Len(Tail(outbox)) = Len(outbox) - 1
        /\ Len(outbox) \in Nat
    BY <1>1, <1>2
  <2>. QED  BY <1>2, <2>1
<1>4. out' \in Seq(Messages)
  BY <1>1, <1>2, <1>3
<1>5. TypeOK'
  BY <1>1, <1>3, <1>4 DEF MInv, TypeOK
<1>6. Line' = Line
  BY <1>1 DEF Line
<1>7. Placed'
  BY <1>1, <1>6 DEF MInv, Placed
<1>8. PICK s : s = Stream
  OBVIOUS
<1>9. Stream' = s
  BY <1>1, <1>2, <1>8, Moved DEF Stream
<1>10. Told(s)'
  <2>1. Due(taken)' = Due(taken)
    BY <1>1 DEF Due
  <2>. QED  BY <1>1, <1>8, <2>1 DEF MInv, Told, LastChanged
<1>11. Fresh(s)'
  <2>1. Current(s)' <=> Current(s)
    BY <1>1, ListableSame DEF Current, ListedBy
  <2>2. Listable' = Listable
    BY <1>1, ListableSame
  <2>. QED  BY <1>1, <1>6, <1>8, <2>1, <2>2 DEF MInv, Fresh
<1>12. PICK o \in Seq(Messages) : o = out'
  BY <1>4
<1>13. Len(o) \in Nat /\ \A k \in 1..Len(o) : k \in 1..Len(s) /\ s[k] = o[k]
  <2>1. o \o Tail(outbox) = s
    BY <1>1, <1>2, <1>8, <1>12, Moved DEF Stream
  <2>. QED  BY <1>3, <1>12, <2>1, Joined
<1>14. \A k \in AnswersIn(o) : k \in AnswersIn(s) /\ s[k] = o[k]
  BY <1>8, <1>13, BeginningTold
<1>15. \A i \in AnsweredBy(o) : Due(i) \subseteq AnsweredBy(o)
  <2>1. ASSUME NEW i \in AnsweredBy(o), NEW j \in Due(i)  PROVE j \in AnsweredBy(o)
    <3>1. PICK k \in AnswersIn(o) : i = o[k].re
      BY DEF AnsweredBy
    <3>2. k \in AnswersIn(s) /\ s[k].re = i /\ k \in 1..Len(o)
      BY <1>14, <3>1 DEF AnswersIn
    <3>3. i \in Due(taken)
      <4>1. i \in AnsweredBy(s)
        BY <3>2 DEF AnsweredBy
      <4>. QED  BY <1>8, <4>1 DEF MInv, Told
    <3>4. taken \in Nat /\ i \in 1..taken /\ j \in 1..i /\ lines[j] \in Answered
      BY <3>3, LineTypes DEF Due, MInv
    <3>5. j \in Due(taken)
      BY <3>4 DEF Due
    <3>6. PICK m \in AnswersIn(s) : s[m].re = j
      <4>1. j \in AnsweredBy(s)
        BY <1>1, <1>8, <3>5 DEF MInv, Told
      <4>. QED  BY <4>1 DEF AnsweredBy
    <3>7. ~(k < m)
      <4>1. k < m => i < j
        BY <1>8, <3>2, <3>6 DEF MInv, Told, InOrder
      <4>. QED  BY <3>4, <4>1
    <3>8. m \in 1..Len(o)
      <4>1. m \in 1..Len(s)
        BY DEF AnswersIn
      <4>. QED  BY <1>13, <3>2, <3>7, <4>1
    <3>9. m \in AnswersIn(o) /\ o[m].re = j
      <4>1. s[m] = o[m] /\ s[m].what = "answer"
        BY <1>13, <3>6, <3>8 DEF AnswersIn
      <4>. QED  BY <3>6, <3>8, <4>1 DEF AnswersIn
    <3>. QED  BY <3>9 DEF AnsweredBy
  <2>. QED  BY <2>1
<1>16. NoGaps'
  <2>1. \A i : Due(i)' = Due(i)
    BY <1>1 DEF Due
  <2>. QED  BY <1>12, <1>15, <2>1 DEF NoGaps
<1>. QED  BY <1>5, <1>7, <1>9, <1>10, <1>11, <1>16 DEF MInv

-----------------------------------------------------------------------------
(* The invariant *)

LEMMA MInvStep == ASSUME MInv, [Next]_vars  PROVE MInv'
<1>1. CASE Loop
  BY <1>1, ReadTheLine, HandleStep, NotifyStep, SendStep, LoopEnds, AbortStep DEF Loop
<1>2. CASE Writer
  BY <1>2, WriteStep, BreakStep, FinishStep DEF Writer
<1>3. CASE UNCHANGED vars
  <2>1. UNCHANGED <<mode, lines, closed, taken, pc, response, outbox, writer, out,
                    registered, ready, background, quiet>>
    BY <1>3 DEF vars, inputs, output, sessionsVars
  <2>2. TypeOK'
    BY <2>1 DEF MInv, TypeOK
  <2>3. Placed'
    BY <2>1 DEF MInv, Placed, Line
  <2>4. Told(Stream)' /\ NoGaps'
    BY <2>1, Untold
  <2>5. Fresh(Stream)'
    <3>1. Stream' = Stream /\ Listable' = Listable
      BY <2>1, ListableSame DEF Stream
    <3>. QED  BY <2>1, <3>1 DEF MInv, Fresh, Current, ListedBy, Line
  <2>. QED  BY <2>2, <2>3, <2>4, <2>5 DEF MInv
<1>. QED  BY <1>1, <1>2, <1>3, HostStep, BackgroundStep DEF Next

(* The inductive invariant of the server, for any number of sessions,      *)
(* adapters, lines and places in the outbox.                               *)
THEOREM McpInvariance == Spec => []MInv
BY MInvInit, MInvStep, PTL DEF Spec

(* The loop, the outbox and the set of sessions keep their types, and the  *)
(* outbox its bound (mod.rs 1119-1131).                                    *)
THEOREM McpTypes == Spec => []TypeOK
<1>1. MInv => TypeOK
  BY DEF MInv
<1>. QED  BY <1>1, McpInvariance, PTL

LEMMA MInvAnswers == MInv => Answers
<1>. SUFFICES ASSUME MInv  PROVE Answers
  OBVIOUS
<1>1. /\ InOrder(Stream) /\ Announced(Stream)
      /\ AnsweredBy(Stream) \subseteq Due(taken)
      /\ writer \in {"running", "done"} => Due(taken) \subseteq AnsweredBy(Stream)
  BY DEF MInv, Told
<1>2. \A i \in AnsweredBy(out) : Due(i) \subseteq AnsweredBy(out)
  BY DEF MInv, NoGaps
<1>3. pc = "exited" /\ writer \notin {"broken", "aborted"} => AnsweredBy(out) = Due(taken)
  <2>1. pc = "exited" /\ writer \notin {"broken", "aborted"} => writer = "done" /\ outbox = <<>>
    BY DEF MInv, Placed, TypeOK
  <2>. QED  BY <1>1, <2>1, StreamType DEF MInv
<1>4. pc = "exited" /\ writer = "aborted" => taken < Len(lines) /\ Line = "not_utf8"
  BY DEF MInv, Placed
<1>. QED  BY <1>1, <1>2, <1>3, <1>4 DEF Answers, Stream

(* Every request has one response, in the order of the requests, whatever  *)
(* the tools do to the sessions meanwhile and however full the outbox is;  *)
(* a list_changed comes directly before the response of its call; the      *)
(* queue is written before the process ends (mod.rs 1119-1148, 1228-1263). *)
THEOREM RequestsAnswered == Spec => []Answers
BY McpInvariance, MInvAnswers, PTL

LEMMA MInvFresh == MInv => ListFresh
<1>. SUFFICES ASSUME MInv, mode = "local", quiet, pc = "read", outbox = <<>>, writer = "running",
                     NEW last \in ListedBy(out), \A k \in ListedBy(out) : k <= last
              PROVE  out[last].tools \in Listable \/ \E k \in last..Len(out) : out[k].what = "changed"
  BY DEF ListFresh
<1>1. Stream = out
  BY StreamType DEF MInv
<1>2. Current(out)
  BY <1>1 DEF MInv, Fresh
<1>. QED  BY <1>2 DEF Current

(* A host that lists the tools knows which there are until it is told that *)
(* they changed, as far as its own calls change them (mod.rs 1228-1250).   *)
THEOREM ListsStayFresh == Spec => []ListFresh
BY McpInvariance, MInvFresh, PTL
=============================================================================
