-------------------------- MODULE SessionDataProofs --------------------------
(***************************************************************************)
(* What the tools read from a session, for any program, any number of      *)
(* calls and any capacity: the timeline and the tools on it agree,         *)
(* wait_for_output matches new lines only, a context is of one stop, and   *)
(* the lists of watches and data breakpoints agree with what they are of.  *)
(***************************************************************************)
EXTENDS SessionData, SequenceTheorems, WellFoundedInduction, TLAPS

-----------------------------------------------------------------------------
(* The operators *)

(* A set of numbers that is not empty has a least element. *)
LEMMA LeastFacts ==
  ASSUME NEW set, set \subseteq Nat, set # {}
  PROVE  Least(set) \in set /\ \A j \in set : Least(set) <= j
<1>1. PICK i \in set : \A j \in set : ~(<<j, i>> \in OpToRel(<, Nat))
  BY NatLessThanWellFounded, WFMin
<1>2. \A j \in set : i <= j
  <2>1. ASSUME NEW j \in set, j < i  PROVE FALSE
    <3>1. <<j, i>> \in Nat \X Nat /\ <<j, i>>[1] = j /\ <<j, i>>[2] = i
      OBVIOUS
    <3>2. <<j, i>>[1] < <<j, i>>[2]
      BY <2>1, <3>1
    <3>3. <<j, i>> \in OpToRel(<, Nat)
      BY <3>1, <3>2 DEF OpToRel
    <3>. QED  BY <1>1, <3>3
  <2>. QED  BY <2>1
<1>. QED
  BY <1>2 DEF Least

(* r is q with x at its end, and without its first d entries. *)
Shifted(r, q, x, d) ==
  /\ Len(r) = Len(q) + 1 - d
  /\ \A i \in 1..(Len(q) - d) : r[i] = q[i + d]
  /\ r[Len(q) + 1 - d] = x

(* A bounded buffer keeps its order and drops its oldest entry when full.  *)
LEMMA PushedFacts ==
  ASSUME NEW S, NEW q \in Seq(S), NEW x \in S, NEW cap \in Nat \ {0}
  PROVE  /\ Pushed(q, x, cap) \in Seq(S)
         /\ Shifted(Pushed(q, x, cap), q, x, IF Len(q) < cap THEN 0 ELSE 1)
<1>1. Len(q) \in Nat
  OBVIOUS
<1>2. CASE Len(q) < cap
  <2>1. Pushed(q, x, cap) = Append(q, x)
    BY <1>2 DEF Pushed
  <2>2. /\ Append(q, x) \in Seq(S) /\ Len(Append(q, x)) = Len(q) + 1
        /\ \A i \in 1..Len(q) : Append(q, x)[i] = q[i]
        /\ Append(q, x)[Len(q) + 1] = x
    OBVIOUS
  <2>3. \A i \in 1..(Len(q) - 0) : Pushed(q, x, cap)[i] = q[i + 0]
    BY <1>1, <2>1, <2>2
  <2>. QED  BY <1>1, <1>2, <2>1, <2>2, <2>3 DEF Shifted
<1>3. CASE ~(Len(q) < cap)
  <2>1. Pushed(q, x, cap) = Append(Tail(q), x) /\ q # <<>>
    BY <1>1, <1>3 DEF Pushed
  <2>2. /\ Tail(q) \in Seq(S) /\ Len(Tail(q)) = Len(q) - 1
        /\ \A i \in 1..(Len(q) - 1) : Tail(q)[i] = q[i + 1]
    BY <2>1
  <2>3. /\ Append(Tail(q), x) \in Seq(S) /\ Len(Append(Tail(q), x)) = Len(q)
        /\ \A i \in 1..(Len(q) - 1) : Append(Tail(q), x)[i] = q[i + 1]
        /\ Append(Tail(q), x)[Len(q)] = x
    BY <2>1, <2>2
  <2>4. Len(q) + 1 - 1 = Len(q)
    BY <1>1
  <2>5. Shifted(Pushed(q, x, cap), q, x, 1)
    BY <2>1, <2>3, <2>4 DEF Shifted
  <2>. QED  BY <1>3, <2>1, <2>3, <2>5
<1>. QED
  BY <1>2, <1>3

(* The stop that find_first_change reports: before it the variable has one *)
(* value, at it another; and when it reports none, there was but one.      *)
LEMMA FirstChangeFacts ==
  ASSUME NEW S, timeline \in Seq(S), NEW x
  PROVE  LET first == FirstChange(x)
             before == {i \in History(x) : i < first}
         IN /\ first = 0 =>
                 \A i, j \in History(x) : timeline[i].vars[x] = timeline[j].vars[x]
            /\ first # 0 =>
                 /\ before # {}
                 /\ \A i, j \in before : timeline[i].vars[x] = timeline[j].vars[x]
                 /\ \A i \in before : timeline[first].vars[x] # timeline[i].vars[x]
<1>. DEFINE b == Least(History(x))
            value(i) == timeline[i].vars[x]
            later == {i \in History(x) : i > 1 /\ value(i) # value(b)}
<1>1. History(x) \subseteq Nat \ {0}
  BY DEF History, Positions
<1>2. CASE History(x) = {}
  BY <1>2 DEF FirstChange
<1>3. CASE History(x) # {}
  <2>1. b \in History(x) /\ \A i \in History(x) : b <= i
    BY <1>1, <1>3, LeastFacts
  <2>2. FirstChange(x) = IF later = {} THEN 0 ELSE Least(later)
    BY <1>3 DEF FirstChange
  <2>3. \A i \in History(x) : i \notin later => value(i) = value(b)
    BY <1>1, <2>1
  <2>. HIDE DEF b
  <2>4. CASE later = {}
    BY <2>2, <2>3, <2>4
  <2>5. CASE later # {}
    <3>1. Least(later) \in later /\ \A i \in later : Least(later) <= i
      BY <1>1, <2>5, LeastFacts
    <3>2. FirstChange(x) = Least(later) /\ Least(later) \in Nat \ {0}
      BY <1>1, <2>2, <2>5, <3>1
    <3>3. b < Least(later)
      BY <1>1, <2>1, <3>1
    <3>4. \A i \in History(x) : i < Least(later) => value(i) = value(b)
      <4>1. ASSUME NEW i \in History(x), i < Least(later)  PROVE i \notin later
        <5>1. i \in Nat /\ Least(later) \in Nat
          BY <1>1, <3>2
        <5>. QED  BY <3>1, <4>1, <5>1
      <4>. QED  BY <2>3, <4>1
    <3>5. value(Least(later)) # value(b)
      BY <3>1
    <3>. HIDE DEF later
    <3>. QED  BY <2>1, <3>2, <3>3, <3>4, <3>5
  <2>. QED  BY <2>4, <2>5
<1>. QED
  BY <1>2, <1>3

-----------------------------------------------------------------------------
(* The inductive invariant *)

Entry == [id : Nat, stop : Nat, vars : Snapshots, changed : SUBSET Names]
Event == {"stopped", "output"} \X Nat

Types ==
  /\ program \in [paused : BOOLEAN, at : Nat, locals : Snapshots, printed : Nat, hits : SUBSET Nat]
  /\ events \in Seq(Event)
  /\ DOMAIN dispatcher = DOMAIN Idle /\ dispatcher.stop \in Nat /\ dispatcher.vars \in Snapshots
  /\ timeline \in Seq(Entry) /\ nextId \in Nat
  /\ console \in Seq(Nat)
  /\ seen \in [dropped : Nat, failed : Nat, raced : BOOLEAN, clashed : BOOLEAN]
  /\ DOMAIN call = Calls
  /\ \A c \in Calls : DOMAIN call[c] = DOMAIN NoCall

(* What an entry says has changed since the one before. *)
Compared ==
  \A i \in 1..Len(timeline) : i > 1 =>
    timeline[i].changed = Changed(timeline[i - 1].vars, timeline[i].vars)

(* The lines that the console has taken, dropped ones included. *)
Taken == seen.dropped + Len(console)

IsOutput(i) == events[i][1] = "output"

(* Of the lines printed, the console holds the last ones that it has       *)
(* taken, and the others are on their way in order.                        *)
LinesOK ==
  /\ \A i \in 1..Len(console) : console[i] = seen.dropped + i
  /\ Taken <= program.printed
  /\ \A i \in 1..Len(events) : IsOutput(i) => Taken < events[i][2] /\ events[i][2] <= program.printed
  /\ \A n \in Nat : Taken < n /\ n <= program.printed =>
       \E i \in 1..Len(events) : events[i] = <<"output", n>>
  /\ \A i, j \in 1..Len(events) : IsOutput(i) /\ IsOutput(j) /\ i < j => events[i][2] < events[j][2]

(* The count in hand was right when it was taken. *)
CountOK(k) ==
  k.pc \in {"counted", "poll"} =>
    /\ k.from \in Nat /\ k.before \in Nat /\ k.dropped \in Nat
    /\ k.dropped <= seen.dropped
    /\ k.dropped + k.from <= k.before
    /\ k.calm => k.before = k.dropped + k.from

CountsOK == \A c \in Calls : CountOK(call[c])

IInv == Types /\ Compared /\ LinesOK /\ CountsOK

-----------------------------------------------------------------------------
(* Parts of a step *)

LEMMA NoVarsFacts == NoVars \in Snapshots /\ Idle.vars \in Snapshots /\ Idle.stop \in Nat
<1>1. NoVars \in [{} -> Values]
  BY DEF NoVars
<1>2. {} \in SUBSET Names
  OBVIOUS
<1>. QED
  BY <1>1, <1>2 DEF Snapshots, Idle

(* A call that is not counting, or counts as before. *)
SameCount(new, old) ==
  \/ new.pc \notin {"counted", "poll"}
  \/ /\ old.pc \in {"counted", "poll"}
     /\ new.from = old.from /\ new.before = old.before /\ new.dropped = old.dropped
     /\ new.calm => old.calm

LEMMA CountsStep ==
  ASSUME CountsOK, seen.dropped \in Nat, seen'.dropped \in Nat, seen.dropped <= seen'.dropped,
         \A c \in Calls : SameCount(call'[c], call[c])
  PROVE  CountsOK'
BY DEF CountsOK, CountOK, SameCount

(* Somebody resumes the program. *)
LEMMA ResumedFacts ==
  ASSUME Types
  PROVE  /\ DOMAIN Resumed(call) = Calls
         /\ \A c \in Calls : DOMAIN Resumed(call)[c] = DOMAIN NoCall /\ SameCount(Resumed(call)[c], call[c])
         /\ \A c \in Calls : Resumed(call)[c].pc = call[c].pc
<1>1. ASSUME NEW c \in Calls
      PROVE  /\ DOMAIN Resumed(call)[c] = DOMAIN NoCall /\ SameCount(Resumed(call)[c], call[c])
             /\ Resumed(call)[c].pc = call[c].pc
  <2>1. DOMAIN call[c] = {"pc", "arg", "calm", "context", "from", "before", "dropped", "line", "list"}
    BY DEF Types, NoCall
  <2>2. PICK calm : Resumed(call)[c] = [call[c] EXCEPT !.calm = calm] /\ (calm => call[c].calm)
    BY DEF Resumed
  <2>. QED  BY <2>1, <2>2 DEF Types, SameCount
<1>. QED
  BY <1>1 DEF Resumed

(* Nothing is printed, taken or dropped. *)
LEMMA LinesStay ==
  ASSUME LinesOK, UNCHANGED <<console, events>>,
         program'.printed = program.printed, seen'.dropped = seen.dropped
  PROVE  LinesOK'
BY DEF LinesOK, Taken, IsOutput

(* An event that is no output is added or taken. *)
LEMMA LinesAdd ==
  ASSUME Types, LinesOK, NEW n \in Nat, events' = Append(events, <<"stopped", n>>),
         UNCHANGED console, program'.printed = program.printed, seen'.dropped = seen.dropped
  PROVE  LinesOK'
<1>1. /\ Len(events') = Len(events) + 1 /\ Len(events) \in Nat
      /\ \A i \in 1..Len(events) : events'[i] = events[i]
      /\ events'[Len(events) + 1] = <<"stopped", n>>
  BY DEF Types
<1>2. <<"stopped", n>>[1] # "output"
  OBVIOUS
<1>3. \A i \in 1..Len(events') : i \in 1..Len(events) \/ (i = Len(events) + 1 /\ events'[i][1] # "output")
  BY <1>1, <1>2
<1>4. \A i \in 1..Len(events) : i \in 1..Len(events')
  BY <1>1
<1>5. Taken' = Taken
  BY DEF Taken
<1>6. ASSUME NEW i \in 1..Len(events'), IsOutput(i)'
      PROVE  i \in 1..Len(events) /\ events'[i] = events[i] /\ IsOutput(i)
  BY <1>1, <1>3, <1>6 DEF IsOutput
<1>7. \A i \in 1..Len(console') : console'[i] = seen'.dropped + i
  BY DEF LinesOK
<1>8. Taken' <= program'.printed
  BY <1>5 DEF LinesOK
<1>9. \A i \in 1..Len(events') :
        IsOutput(i)' => Taken' < events'[i][2] /\ events'[i][2] <= program'.printed
  BY <1>5, <1>6 DEF LinesOK
<1>10. \A m \in Nat : Taken' < m /\ m <= program'.printed =>
         \E i \in 1..Len(events') : events'[i] = <<"output", m>>
  BY <1>1, <1>4, <1>5 DEF LinesOK
<1>11. \A i, j \in 1..Len(events') :
         IsOutput(i)' /\ IsOutput(j)' /\ i < j => events'[i][2] < events'[j][2]
  BY <1>6 DEF LinesOK
<1>. QED
  BY <1>7, <1>8, <1>9, <1>10, <1>11 DEF LinesOK

-----------------------------------------------------------------------------
(* The program *)

LEMMA StopIInv ==
  ASSUME IInv, Stop
  PROVE  IInv'
<1>1. UNCHANGED <<dispatcher, timeline, nextId, console, call, seen>>
  BY DEF Stop, session
<1>2. PICK locals \in Snapshots :
        program' = [program EXCEPT !.paused = TRUE, !.at = @ + 1, !.locals = locals]
  BY NoVarsFacts DEF Stop
<1>3. program.at + 1 \in Nat /\ events' = Append(events, <<"stopped", program.at + 1>>)
  BY DEF IInv, Types, Stop
<1>4. /\ program' \in [paused : BOOLEAN, at : Nat, locals : Snapshots, printed : Nat, hits : SUBSET Nat]
      /\ program'.printed = program.printed
  BY <1>2, <1>3 DEF IInv, Types
<1>5. events' \in Seq(Event)
  <2>1. <<"stopped", program.at + 1>> \in Event
    BY <1>3 DEF Event
  <2>. QED  BY <1>3, <2>1 DEF IInv, Types
<1>6. Types'
  BY <1>1, <1>4, <1>5 DEF IInv, Types
<1>7. LinesOK'
  BY <1>1, <1>3, <1>4, LinesAdd DEF IInv
<1>8. Compared' /\ CountsOK'
  BY <1>1 DEF IInv, Compared, CountsOK, CountOK
<1>. QED
  BY <1>6, <1>7, <1>8 DEF IInv

(* A line is printed: it is the next one. *)
LEMMA OutputIInv ==
  ASSUME IInv, Output
  PROVE  IInv'
<1>. DEFINE n == program.printed + 1
<1>1. UNCHANGED <<dispatcher, timeline, nextId, console, call, seen>>
  BY DEF Output, session
<1>2. n \in Nat /\ Taken \in Nat
  BY DEF IInv, Types, Taken
<1>3. PICK hit \in BOOLEAN :
        program' = [program EXCEPT !.printed = n, !.hits = IF hit THEN @ \cup {n} ELSE @]
  BY DEF Output
<1>4. /\ program' \in [paused : BOOLEAN, at : Nat, locals : Snapshots, printed : Nat, hits : SUBSET Nat]
      /\ program'.printed = n
  <2>1. program.hits \cup {n} \in SUBSET Nat /\ program.hits \in SUBSET Nat
    BY <1>2 DEF IInv, Types
  <2>2. PICK hits \in SUBSET Nat : program' = [program EXCEPT !.printed = n, !.hits = hits]
    BY <1>3, <2>1
  <2>. QED  BY <1>2, <2>2 DEF IInv, Types
<1>5. events' = Append(events, <<"output", n>>)
  BY DEF Output
<1>6. <<"output", n>> \in Event
  BY <1>2 DEF Event
<1>7. /\ events' \in Seq(Event) /\ Len(events') = Len(events) + 1 /\ Len(events) \in Nat
      /\ \A i \in 1..Len(events) : events'[i] = events[i]
      /\ events'[Len(events) + 1] = <<"output", n>>
  BY <1>5, <1>6 DEF IInv, Types
<1>8. Types'
  BY <1>1, <1>4, <1>7 DEF IInv, Types
<1>9. LinesOK'
  <2>1. Taken' = Taken /\ Taken <= program.printed /\ program.printed \in Nat
    BY <1>1 DEF Taken, IInv, LinesOK, Types
  <2>2. \A i \in 1..Len(events) : events[i] = events'[i] /\ events[i][2] \in Nat
    <3>1. events \in Seq(Event)
      BY DEF IInv, Types
    <3>2. \A i \in 1..Len(events) : events[i] \in Event
      BY <3>1
    <3>3. \A e \in Event : e[2] \in Nat
      BY DEF Event
    <3>. QED  BY <1>7, <3>2, <3>3
  <2>3. \A i \in 1..Len(events') : i \in 1..Len(events) \/ i = Len(events) + 1
    BY <1>7
  <2>4. \A i \in 1..Len(events) : i \in 1..Len(events')
    BY <1>7
  <2>5. Len(events) + 1 \in 1..Len(events')
    BY <1>7
  <2>6. /\ events'[Len(events) + 1][1] = "output" /\ events'[Len(events) + 1][2] = n
    BY <1>7
  <2>7. ASSUME NEW i \in 1..Len(events'), events'[i][1] = "output"
        PROVE  Taken < events'[i][2] /\ events'[i][2] <= n
    <3>1. CASE i \in 1..Len(events)
      BY <1>2, <2>1, <2>2, <2>7, <3>1 DEF IInv, LinesOK, IsOutput
    <3>2. CASE i = Len(events) + 1
      BY <1>2, <2>1, <2>6, <3>2
    <3>. QED  BY <2>3, <3>1, <3>2
  <2>8. ASSUME NEW m \in Nat, Taken < m, m <= n
        PROVE  \E i \in 1..Len(events') : events'[i] = <<"output", m>>
    <3>1. CASE m = n
      BY <1>7, <2>5, <3>1
    <3>2. CASE m # n
      <4>1. m <= program.printed
        BY <2>1, <2>8, <3>2
      <4>2. PICK i \in 1..Len(events) : events[i] = <<"output", m>>
        BY <2>8, <4>1 DEF IInv, LinesOK
      <4>. QED  BY <2>2, <2>4, <4>2
    <3>. QED  BY <3>1, <3>2
  <2>9. ASSUME NEW i \in 1..Len(events'), NEW j \in 1..Len(events'), i < j,
               events'[i][1] = "output", events'[j][1] = "output"
        PROVE  events'[i][2] < events'[j][2]
    <3>1. i \in 1..Len(events)
      BY <1>7, <2>3, <2>9
    <3>2. CASE j \in 1..Len(events)
      BY <2>2, <2>9, <3>1, <3>2 DEF IInv, LinesOK, IsOutput
    <3>3. CASE j = Len(events) + 1
      <4>1. events[i][2] <= program.printed
        BY <2>2, <2>9, <3>1 DEF IInv, LinesOK, IsOutput
      <4>. QED  BY <2>1, <2>2, <2>6, <3>1, <3>3, <4>1
    <3>. QED  BY <2>3, <3>2, <3>3
  <2>10. /\ \A i \in 1..Len(console') : console'[i] = seen'.dropped + i
         /\ Taken' <= program'.printed
    <3>1. Taken <= n
      BY <1>2, <2>1
    <3>. QED  BY <1>1, <1>4, <2>1, <3>1 DEF IInv, LinesOK
  <2>. QED  BY <1>4, <2>1, <2>7, <2>8, <2>9, <2>10 DEF LinesOK, IsOutput
<1>10. Compared' /\ CountsOK'
  BY <1>1 DEF IInv, Compared, CountsOK, CountOK
<1>. QED
  BY <1>8, <1>9, <1>10 DEF IInv

LEMMA ResumeIInv ==
  ASSUME IInv, Resume \/ Assign
  PROVE  IInv'
<1>1. UNCHANGED <<events, dispatcher, timeline, nextId, console, seen>>
  BY DEF Resume, Assign, session
<1>2. /\ program' \in [paused : BOOLEAN, at : Nat, locals : Snapshots, printed : Nat, hits : SUBSET Nat]
      /\ program'.printed = program.printed
  <2>1. CASE Resume
    BY <2>1 DEF Resume, IInv, Types
  <2>2. CASE Assign
    <3>1. PICK x \in DOMAIN program.locals, v \in Values : program' = [program EXCEPT !.locals[x] = v]
      BY <2>2 DEF Assign
    <3>2. PICK names \in SUBSET Names : program.locals \in [names -> Values]
      BY DEF IInv, Types, Snapshots
    <3>3. [program.locals EXCEPT ![x] = v] \in [names -> Values]
      BY <3>1, <3>2
    <3>4. [program.locals EXCEPT ![x] = v] \in Snapshots
      BY <3>3 DEF Snapshots
    <3>5. program' = [program EXCEPT !.locals = [program.locals EXCEPT ![x] = v]]
      BY <3>1
    <3>. QED  BY <3>4, <3>5 DEF IInv, Types
  <2>. QED  BY <2>1, <2>2
<1>3. /\ DOMAIN call' = Calls
      /\ \A c \in Calls : DOMAIN call'[c] = DOMAIN NoCall /\ SameCount(call'[c], call[c])
  <2>1. CASE Resume
    BY <2>1, ResumedFacts DEF Resume, IInv
  <2>2. CASE Assign
    BY <2>2 DEF Assign, IInv, Types, SameCount
  <2>. QED  BY <2>1, <2>2
<1>4. Types'
  BY <1>1, <1>2, <1>3 DEF IInv, Types
<1>5. LinesOK' /\ Compared'
  BY <1>1, <1>2, LinesStay DEF IInv, Compared
<1>6. CountsOK'
  BY <1>1, <1>3, CountsStep DEF IInv, Types
<1>. QED
  BY <1>4, <1>5, <1>6 DEF IInv

-----------------------------------------------------------------------------
(* The dispatcher *)

(* The next line moves from the queue to the end of the console. *)
LEMMA TakeOutputIInv ==
  ASSUME IInv, TakeOutput
  PROVE  IInv'
<1>. DEFINE n == Head(events)[2]
<1>1. UNCHANGED <<program, dispatcher, timeline, nextId, call>>
  BY DEF TakeOutput
<1>2. /\ events \in Seq(Event) /\ events # <<>> /\ events' = Tail(events)
      /\ console' = Pushed(console, n, ConsoleCap)
  BY DEF TakeOutput, IInv, Types
<1>3. /\ Len(events) \in Nat /\ 1 \in 1..Len(events) /\ Head(events) = events[1] /\ events[1] \in Event
      /\ events' \in Seq(Event) /\ Len(events') = Len(events) - 1
      /\ \A i \in 1..Len(events') : i + 1 \in 1..Len(events) /\ events'[i] = events[i + 1]
  BY <1>2
<1>4. n \in Nat /\ events[1][2] = n /\ IsOutput(1)
  BY <1>3 DEF Event, TakeOutput, IsOutput
<1>. HIDE DEF n
<1>5. PICK d \in {0, 1} :
        /\ d = 0 <=> Len(console) < ConsoleCap
        /\ console' \in Seq(Nat)
        /\ Len(console') = Len(console) + 1 - d
        /\ \A i \in 1..(Len(console) - d) : console'[i] = console[i + d]
        /\ console'[Len(console) + 1 - d] = n
  <2>1. console \in Seq(Nat) /\ ConsoleCap \in Nat \ {0}
    BY SessionDataAssumption DEF IInv, Types
  <2>2. /\ Pushed(console, n, ConsoleCap) \in Seq(Nat)
        /\ Shifted(Pushed(console, n, ConsoleCap), console, n,
                   IF Len(console) < ConsoleCap THEN 0 ELSE 1)
    BY <1>4, <2>1, PushedFacts
  <2>3. CASE Len(console) < ConsoleCap
    BY <1>2, <2>2, <2>3 DEF Shifted
  <2>4. CASE ~(Len(console) < ConsoleCap)
    BY <1>2, <2>2, <2>4 DEF Shifted
  <2>. QED  BY <2>3, <2>4
<1>6. /\ seen' \in [dropped : Nat, failed : Nat, raced : BOOLEAN, clashed : BOOLEAN]
      /\ seen'.dropped = seen.dropped + d
  <2>1. seen.dropped \in Nat /\ seen.dropped + 1 \in Nat
    BY DEF IInv, Types
  <2>2. seen' = [seen EXCEPT !.dropped = IF Len(console) < ConsoleCap THEN @ ELSE @ + 1]
    BY DEF TakeOutput
  <2>3. seen' = [seen EXCEPT !.dropped = seen.dropped + d]
    <3>1. CASE d = 0
      BY <1>5, <2>1, <2>2, <3>1
    <3>2. CASE d = 1
      BY <1>5, <2>1, <2>2, <3>2
    <3>. QED  BY <3>1, <3>2
  <2>4. seen.dropped + d \in Nat
    BY <2>1
  <2>. QED  BY <2>3, <2>4 DEF IInv, Types
<1>7. Taken \in Nat /\ Taken' = Taken + 1 /\ program.printed \in Nat /\ seen.dropped \in Nat
      /\ Len(console) \in Nat
  <2>1. seen.dropped \in Nat /\ Len(console) \in Nat /\ program.printed \in Nat
    BY DEF IInv, Types
  <2>2. Taken' = (seen.dropped + d) + (Len(console) + 1 - d)
    BY <1>5, <1>6 DEF Taken
  <2>3. Taken' = (seen.dropped + Len(console)) + 1
    BY <2>1, <2>2
  <2>. QED  BY <2>1, <2>3 DEF Taken
<1>8. n = Taken + 1 /\ n <= program.printed
  <2>1. Taken < n /\ n <= program.printed
    BY <1>3, <1>4 DEF IInv, LinesOK
  <2>2. PICK i \in 1..Len(events) : events[i] = <<"output", Taken + 1>>
    <3>1. Taken + 1 \in Nat /\ Taken < Taken + 1 /\ Taken + 1 <= program.printed
      BY <1>4, <1>7, <2>1
    <3>. QED  BY <3>1 DEF IInv, LinesOK
  <2>3. CASE i = 1
    BY <1>4, <2>1, <2>2, <2>3
  <2>4. CASE i # 1
    <3>1. IsOutput(i) /\ events[i][2] = Taken + 1 /\ 1 < i
      BY <1>3, <2>2, <2>4 DEF IsOutput
    <3>2. n < Taken + 1
      BY <1>3, <1>4, <3>1 DEF IInv, LinesOK
    <3>. QED  BY <1>4, <1>7, <2>1, <3>2
  <2>. QED  BY <2>3, <2>4
<1>9. Types'
  BY <1>1, <1>3, <1>5, <1>6 DEF IInv, Types
<1>10. LinesOK'
  <2>1. ASSUME NEW i \in 1..Len(console')  PROVE console'[i] = seen'.dropped + i
    <3>1. CASE i = Len(console) + 1 - d
      BY <1>5, <1>6, <1>7, <1>8, <3>1 DEF Taken
    <3>2. CASE i # Len(console) + 1 - d
      <4>1. i \in 1..(Len(console) - d) /\ i + d \in 1..Len(console)
        BY <1>5, <1>7, <3>2
      <4>2. console[i + d] = seen.dropped + (i + d)
        BY <4>1 DEF IInv, LinesOK
      <4>. QED  BY <1>5, <1>6, <1>7, <4>1, <4>2
    <3>. QED  BY <3>1, <3>2
  <2>2. Taken' <= program'.printed
    BY <1>1, <1>7, <1>8
  <2>3. ASSUME NEW i \in 1..Len(events'), IsOutput(i)'
        PROVE  /\ i + 1 \in 1..Len(events) /\ IsOutput(i + 1) /\ events'[i] = events[i + 1]
               /\ events[i + 1][2] \in Nat /\ 1 < i + 1
    BY <1>2, <1>3, <2>3 DEF IsOutput, Event
  <2>4. ASSUME NEW i \in 1..Len(events'), IsOutput(i)'
        PROVE  Taken' < events'[i][2] /\ events'[i][2] <= program'.printed
    <3>1. i + 1 \in 1..Len(events) /\ IsOutput(i + 1) /\ events'[i] = events[i + 1]
          /\ events[i + 1][2] \in Nat /\ 1 < i + 1
      BY <2>3, <2>4
    <3>2. n < events[i + 1][2] /\ events[i + 1][2] <= program.printed
      BY <1>3, <1>4, <3>1 DEF IInv, LinesOK
    <3>. QED  BY <1>1, <1>7, <1>8, <3>1, <3>2
  <2>5. ASSUME NEW m \in Nat, Taken' < m, m <= program'.printed
        PROVE  \E i \in 1..Len(events') : events'[i] = <<"output", m>>
    <3>1. PICK j \in 1..Len(events) : events[j] = <<"output", m>>
      <4>1. Taken < m /\ m <= program.printed
        BY <1>1, <1>7, <2>5
      <4>. QED  BY <4>1 DEF IInv, LinesOK
    <3>2. j # 1
      BY <1>4, <1>7, <1>8, <2>5, <3>1
    <3>3. j - 1 \in 1..Len(events') /\ (j - 1) + 1 = j
      BY <1>3, <3>2
    <3>. QED  BY <1>3, <3>1, <3>3
  <2>6. ASSUME NEW i \in 1..Len(events'), NEW j \in 1..Len(events'),
               IsOutput(i)', IsOutput(j)', i < j
        PROVE  events'[i][2] < events'[j][2]
    <3>1. i + 1 < j + 1
      BY <2>6
    <3>. QED  BY <2>3, <2>6, <3>1 DEF IInv, LinesOK
  <2>. QED  BY <2>1, <2>2, <2>4, <2>5, <2>6 DEF LinesOK
<1>11. Compared'
  BY <1>1 DEF IInv, Compared
<1>12. CountsOK'
  <2>1. seen'.dropped \in Nat /\ seen.dropped <= seen'.dropped
    BY <1>6, <1>7
  <2>2. \A c \in Calls : SameCount(call'[c], call[c])
    BY <1>1 DEF SameCount
  <2>. QED  BY <1>7, <2>1, <2>2, CountsStep DEF IInv
<1>. QED
  BY <1>9, <1>10, <1>11, <1>12 DEF IInv

(* A stop is taken: the lines on their way stay in order. *)
LEMMA TakeStoppedIInv ==
  ASSUME IInv, TakeStopped
  PROVE  IInv'
<1>1. UNCHANGED <<program, timeline, nextId, console, call, seen>>
  BY DEF TakeStopped, session
<1>2. events \in Seq(Event) /\ events # <<>> /\ events' = Tail(events)
  BY DEF TakeStopped, IInv, Types
<1>3. /\ Len(events) \in Nat /\ 1 \in 1..Len(events) /\ Head(events) = events[1] /\ events[1] \in Event
      /\ events' \in Seq(Event) /\ Len(events') = Len(events) - 1
      /\ \A i \in 1..Len(events') : i + 1 \in 1..Len(events) /\ events'[i] = events[i + 1]
  BY <1>2
<1>4. Head(events)[2] \in Nat /\ ~IsOutput(1)
  BY <1>3 DEF Event, TakeStopped, IsOutput
<1>5. /\ DOMAIN dispatcher' = DOMAIN Idle /\ dispatcher'.stop \in Nat /\ dispatcher'.vars \in Snapshots
  <2>1. dispatcher' = [Idle EXCEPT !.pc = "stack", !.stop = Head(events)[2]]
    BY DEF TakeStopped
  <2>2. dispatcher'.vars = NoVars /\ dispatcher'.stop = Head(events)[2] /\ DOMAIN dispatcher' = DOMAIN Idle
    BY <2>1 DEF Idle
  <2>. QED  BY <1>4, <2>2, NoVarsFacts
<1>6. Types'
  BY <1>1, <1>3, <1>5 DEF IInv, Types
<1>7. LinesOK'
  <2>1. Taken' = Taken /\ Taken \in Nat
    BY <1>1 DEF Taken, IInv, Types
  <2>2. ASSUME NEW i \in 1..Len(events'), IsOutput(i)'
        PROVE  i + 1 \in 1..Len(events) /\ IsOutput(i + 1) /\ events'[i] = events[i + 1]
    BY <1>3, <2>2 DEF IsOutput
  <2>3. \A i \in 1..Len(console') : console'[i] = seen'.dropped + i
    BY <1>1 DEF IInv, LinesOK
  <2>4. Taken' <= program'.printed
    BY <1>1, <2>1 DEF IInv, LinesOK
  <2>5. \A i \in 1..Len(events') :
          IsOutput(i)' => Taken' < events'[i][2] /\ events'[i][2] <= program'.printed
    BY <1>1, <2>1, <2>2 DEF IInv, LinesOK
  <2>6. ASSUME NEW m \in Nat, Taken' < m, m <= program'.printed
        PROVE  \E i \in 1..Len(events') : events'[i] = <<"output", m>>
    <3>1. PICK j \in 1..Len(events) : events[j] = <<"output", m>>
      BY <1>1, <2>1, <2>6 DEF IInv, LinesOK
    <3>2. j # 1
      BY <1>4, <3>1 DEF IsOutput
    <3>3. j - 1 \in 1..Len(events') /\ (j - 1) + 1 = j
      BY <1>3, <3>2
    <3>. QED  BY <1>3, <3>1, <3>3
  <2>7. ASSUME NEW i \in 1..Len(events'), NEW j \in 1..Len(events'),
               IsOutput(i)', IsOutput(j)', i < j
        PROVE  events'[i][2] < events'[j][2]
    <3>1. i + 1 < j + 1
      BY <2>7
    <3>. QED  BY <2>2, <2>7, <3>1 DEF IInv, LinesOK
  <2>. QED  BY <2>3, <2>4, <2>5, <2>6, <2>7 DEF LinesOK
<1>8. Compared' /\ CountsOK'
  BY <1>1 DEF IInv, Compared, CountsOK, CountOK
<1>. QED
  BY <1>6, <1>7, <1>8 DEF IInv

(* The enrichment, but for the entry. *)
LEMMA EnrichIInv ==
  ASSUME IInv,
         EnrichStack \/ EnrichLocals \/ EnrichReadWatches \/ EnrichEvaluate \/ EnrichStore
  PROVE  IInv'
<1>1. UNCHANGED <<program, events, timeline, nextId, console, call>>
  BY DEF EnrichStack, EnrichLocals, EnrichReadWatches, EnrichEvaluate, EnrichStore, session
<1>2. DOMAIN dispatcher = {"pc", "stop", "frame", "vars", "list", "new"} /\ dispatcher.stop \in Nat
      /\ dispatcher.vars \in Snapshots /\ program.locals \in Snapshots
      /\ DOMAIN Idle = {"pc", "stop", "frame", "vars", "list", "new"}
  BY DEF IInv, Types, Idle
<1>3. /\ DOMAIN dispatcher' = DOMAIN Idle /\ dispatcher'.stop \in Nat /\ dispatcher'.vars \in Snapshots
  <2>1. CASE EnrichStack
    BY <1>2, <2>1, NoVarsFacts DEF EnrichStack
  <2>2. CASE EnrichLocals
    BY <1>2, <2>2, NoVarsFacts DEF EnrichLocals
  <2>3. CASE EnrichReadWatches
    BY <1>2, <2>3, NoVarsFacts DEF EnrichReadWatches
  <2>4. CASE EnrichEvaluate
    BY <1>2, <2>4, NoVarsFacts DEF EnrichEvaluate
  <2>5. CASE EnrichStore
    BY <1>2, <2>5, NoVarsFacts DEF EnrichStore
  <2>. QED  BY <2>1, <2>2, <2>3, <2>4, <2>5
<1>4. /\ seen' \in [dropped : Nat, failed : Nat, raced : BOOLEAN, clashed : BOOLEAN]
      /\ seen'.dropped = seen.dropped
  <2>1. seen' = seen \/ seen' = [seen EXCEPT !.failed = dispatcher.stop]
    BY DEF EnrichStack, EnrichLocals, EnrichReadWatches, EnrichEvaluate, EnrichStore
  <2>. QED  BY <1>2, <2>1 DEF IInv, Types
<1>5. Types'
  BY <1>1, <1>3, <1>4 DEF IInv, Types
<1>6. LinesOK' /\ Compared'
  BY <1>1, <1>4, LinesStay DEF IInv, Compared
<1>7. CountsOK'
  BY <1>1, <1>4 DEF IInv, CountsOK, CountOK
<1>. QED
  BY <1>5, <1>6, <1>7 DEF IInv

(* The entry is compared with the last one. *)
LEMMA EnrichPushIInv ==
  ASSUME IInv, EnrichPush
  PROVE  IInv'
<1>. DEFINE entry == [id |-> nextId, stop |-> dispatcher.stop, vars |-> dispatcher.vars,
                      changed |-> Changed(PreviousVars, dispatcher.vars)]
            d == IF Len(timeline) < TimelineCap THEN 0 ELSE 1
<1>1. UNCHANGED <<program, events, console, call, seen>>
      /\ timeline' = Pushed(timeline, entry, TimelineCap) /\ nextId' = nextId + 1
      /\ dispatcher' = [dispatcher EXCEPT !.pc = "watches"]
  BY DEF EnrichPush
<1>2. timeline \in Seq(Entry) /\ nextId \in Nat /\ dispatcher.stop \in Nat /\ dispatcher.vars \in Snapshots
      /\ DOMAIN dispatcher = DOMAIN Idle /\ DOMAIN Idle = {"pc", "stop", "frame", "vars", "list", "new"}
      /\ Len(timeline) \in Nat /\ TimelineCap \in Nat \ {0}
  BY SessionDataAssumption DEF IInv, Types, Idle
<1>3. entry \in Entry /\ entry.vars = dispatcher.vars
      /\ entry.changed = Changed(PreviousVars, dispatcher.vars)
  <2>1. PICK names \in SUBSET Names : dispatcher.vars \in [names -> Values]
    BY <1>2 DEF Snapshots
  <2>2. Changed(PreviousVars, dispatcher.vars) \in SUBSET Names
    BY <2>1 DEF Changed
  <2>. QED  BY <1>2, <2>2 DEF Entry
<1>. HIDE DEF entry
<1>4. timeline' \in Seq(Entry) /\ Shifted(timeline', timeline, entry, d)
  BY <1>1, <1>2, <1>3, PushedFacts
<1>5. d \in {0, 1}
  OBVIOUS
<1>. HIDE DEF d
<1>6. /\ Len(timeline') = Len(timeline) + 1 - d
      /\ \A i \in 1..(Len(timeline) - d) : timeline'[i] = timeline[i + d]
      /\ timeline'[Len(timeline) + 1 - d] = entry
  BY <1>4 DEF Shifted
<1>7. Types'
  <2>1. /\ DOMAIN dispatcher' = DOMAIN Idle /\ dispatcher'.stop \in Nat
        /\ dispatcher'.vars \in Snapshots
    BY <1>1, <1>2
  <2>. QED  BY <1>1, <1>2, <1>4, <2>1 DEF IInv, Types
<1>8. ASSUME NEW i \in 1..Len(timeline'), i > 1
      PROVE  timeline'[i].changed = Changed(timeline'[i - 1].vars, timeline'[i].vars)
  <2>1. CASE i = Len(timeline) + 1 - d
    <3>1. i - 1 \in 1..(Len(timeline) - d) /\ (i - 1) + d = Len(timeline) /\ timeline # <<>>
      BY <1>2, <1>5, <1>8, <2>1
    <3>2. timeline'[i - 1] = timeline[Len(timeline)] /\ timeline'[i] = entry
      BY <1>6, <2>1, <3>1
    <3>3. PreviousVars = timeline[Len(timeline)].vars
      BY <3>1 DEF PreviousVars, Last
    <3>. QED  BY <1>3, <3>2, <3>3
  <2>2. CASE i # Len(timeline) + 1 - d
    <3>1. /\ i \in 1..(Len(timeline) - d) /\ i - 1 \in 1..(Len(timeline) - d)
          /\ i + d \in 1..Len(timeline) /\ i + d > 1 /\ (i + d) - 1 = (i - 1) + d
      BY <1>2, <1>5, <1>6, <1>8, <2>2
    <3>2. timeline'[i] = timeline[i + d] /\ timeline'[i - 1] = timeline[(i + d) - 1]
      BY <1>6, <3>1
    <3>. QED  BY <3>1, <3>2 DEF IInv, Compared
  <2>. QED  BY <2>1, <2>2
<1>9. Compared'
  BY <1>8 DEF Compared, Changed
<1>10. LinesOK' /\ CountsOK'
  BY <1>1, LinesStay DEF IInv, CountsOK, CountOK
<1>. QED
  BY <1>7, <1>9, <1>10 DEF IInv

-----------------------------------------------------------------------------
(* The tools *)

Fields == {"pc", "arg", "calm", "context", "from", "before", "dropped", "line", "list"}

(* Watches, contexts and data breakpoints have nothing to do with lines or *)
(* the timeline's entries.                                                 *)
LEMMA OtherIInv ==
  ASSUME IInv, NEW c \in Calls,
         \/ AddWatch(c) \/ RemoveWatch(c) \/ RemoveResult(c)
         \/ ContextStack(c) \/ ContextLocals(c) \/ ContextValues(c) \/ ContextDelta(c)
         \/ SetData(c) \/ ClearData(c) \/ SendData(c)
  PROVE  IInv'
<1>1. UNCHANGED <<program, events, dispatcher, timeline, nextId, console>>
  BY DEF AddWatch, RemoveWatch, RemoveResult, ContextStack, ContextLocals, ContextValues,
         ContextDelta, SetData, ClearData, Store, SendData, session
<1>2. /\ seen' \in [dropped : Nat, failed : Nat, raced : BOOLEAN, clashed : BOOLEAN]
      /\ seen'.dropped = seen.dropped
  <2>1. \/ seen' = seen
        \/ \E raced \in BOOLEAN : seen' = [seen EXCEPT !.raced = raced]
        \/ \E clashed \in BOOLEAN : seen' = [seen EXCEPT !.clashed = clashed]
    <3>0. seen.raced \in BOOLEAN /\ seen.clashed \in BOOLEAN
      BY DEF IInv, Types
    <3>1. CASE AddWatch(c)
      BY <3>0, <3>1 DEF AddWatch
    <3>2. CASE RemoveWatch(c)
      BY <3>0, <3>2 DEF RemoveWatch
    <3>3. CASE SetData(c) \/ ClearData(c)
      BY <3>0, <3>3 DEF SetData, ClearData, Store, Clash
    <3>4. CASE SendData(c)
      BY <3>4 DEF SendData
    <3>5. CASE RemoveResult(c) \/ ContextStack(c) \/ ContextLocals(c) \/ ContextValues(c) \/ ContextDelta(c)
      BY <3>5 DEF RemoveResult, ContextStack, ContextLocals, ContextValues, ContextDelta
    <3>. QED  BY <3>1, <3>2, <3>3, <3>4, <3>5
  <2>2. CASE seen' = seen
    BY <2>2 DEF IInv, Types
  <2>3. CASE \E raced \in BOOLEAN : seen' = [seen EXCEPT !.raced = raced]
    BY <2>3 DEF IInv, Types
  <2>4. CASE \E clashed \in BOOLEAN : seen' = [seen EXCEPT !.clashed = clashed]
    BY <2>4 DEF IInv, Types
  <2>. QED  BY <2>1, <2>2, <2>3, <2>4
<1>3. DOMAIN call = Calls /\ DOMAIN NoCall = Fields /\ \A o \in Calls : DOMAIN call[o] = Fields
  BY DEF IInv, Types, NoCall, Fields
<1>4. \E k : /\ call' = [call EXCEPT ![c] = k] /\ DOMAIN k = Fields
             /\ k.pc \notin {"counted", "poll"}
  <2>1. ASSUME NEW pc \in {"done", "timed out", "matched"}
        PROVE  DOMAIN Over(pc) = Fields /\ Over(pc).pc = pc
    BY DEF Over, NoCall, Fields
  <2>2. CASE AddWatch(c) \/ RemoveResult(c) \/ SendData(c)
    BY <2>1, <2>2 DEF AddWatch, RemoveResult, SendData, Finish
  <2>3. CASE RemoveWatch(c)
    <3>1. PICK w \in Watches : call' = [call EXCEPT ![c].pc = "unwatch", ![c].arg = w]
      BY <2>3 DEF RemoveWatch
    <3>. DEFINE k == [call[c] EXCEPT !.pc = "unwatch", !.arg = w]
    <3>2. call' = [call EXCEPT ![c] = k] /\ DOMAIN k = Fields /\ k.pc = "unwatch"
      BY <1>3, <3>1 DEF Fields
    <3>. QED  BY <3>2
  <2>4. CASE ContextStack(c)
    <3>1. call' = [call EXCEPT ![c].pc = "context", ![c].context.stack = Frame,
                               ![c].calm = Settled /\ program.paused]
      BY <2>4 DEF ContextStack
    <3>. DEFINE k == [call[c] EXCEPT !.pc = "context", !.context.stack = Frame,
                                     !.calm = Settled /\ program.paused]
    <3>2. call' = [call EXCEPT ![c] = k] /\ DOMAIN k = Fields /\ k.pc = "context"
      BY <1>3, <3>1 DEF Fields
    <3>. QED  BY <3>2
  <2>5. CASE ContextLocals(c)
    <3>1. PICK stop : call' = [call EXCEPT ![c].pc = "collect", ![c].context.locals = stop]
      BY <2>5 DEF ContextLocals
    <3>. DEFINE k == [call[c] EXCEPT !.pc = "collect", !.context.locals = stop]
    <3>2. call' = [call EXCEPT ![c] = k] /\ DOMAIN k = Fields /\ k.pc = "collect"
      BY <1>3, <3>1 DEF Fields
    <3>. QED  BY <3>2
  <2>6. CASE ContextValues(c)
    <3>1. PICK values, going : call' = [call EXCEPT ![c].pc = "delta", ![c].context.values = values,
                                                   ![c].context.going = going]
      BY <2>6 DEF ContextValues
    <3>. DEFINE k == [call[c] EXCEPT !.pc = "delta", !.context.values = values, !.context.going = going]
    <3>2. call' = [call EXCEPT ![c] = k] /\ DOMAIN k = Fields /\ k.pc = "delta"
      BY <1>3, <3>1 DEF Fields
    <3>. QED  BY <3>2
  <2>7. CASE ContextDelta(c)
    <3>1. PICK last : call' = [call EXCEPT ![c].pc = "context done", ![c].context.last = last]
      BY <2>7 DEF ContextDelta
    <3>. DEFINE k == [call[c] EXCEPT !.pc = "context done", !.context.last = last]
    <3>2. call' = [call EXCEPT ![c] = k] /\ DOMAIN k = Fields /\ k.pc = "context done"
      BY <1>3, <3>1 DEF Fields
    <3>. QED  BY <3>2
  <2>8. CASE SetData(c) \/ ClearData(c)
    <3>1. PICK list : call' = [call EXCEPT ![c].pc = "send", ![c].list = list]
      BY <2>8 DEF SetData, ClearData, Store
    <3>. DEFINE k == [call[c] EXCEPT !.pc = "send", !.list = list]
    <3>2. call' = [call EXCEPT ![c] = k] /\ DOMAIN k = Fields /\ k.pc = "send"
      BY <1>3, <3>1 DEF Fields
    <3>. QED  BY <3>2
  <2>. QED  BY <2>2, <2>3, <2>4, <2>5, <2>6, <2>7, <2>8
<1>5. /\ DOMAIN call' = Calls
      /\ \A o \in Calls : DOMAIN call'[o] = DOMAIN NoCall /\ SameCount(call'[o], call[o])
  BY <1>3, <1>4 DEF SameCount
<1>6. Types'
  BY <1>1, <1>2, <1>5 DEF IInv, Types
<1>7. LinesOK' /\ Compared'
  BY <1>1, <1>2, LinesStay DEF IInv, Compared
<1>8. CountsOK'
  <2>1. seen.dropped \in Nat
    BY DEF IInv, Types
  <2>. QED  BY <1>2, <1>5, <2>1, CountsStep DEF IInv
<1>. QED
  BY <1>6, <1>7, <1>8 DEF IInv

(* The count of a calm call is of all the lines printed. *)
LEMMA CountIInv ==
  ASSUME IInv, NEW c \in Calls, CountLines(c)
  PROVE  IInv'
<1>1. UNCHANGED <<program, events, dispatcher, timeline, nextId, console, seen>>
      /\ call' = [call EXCEPT ![c].pc = "counted", ![c].from = Len(console), ![c].calm = Settled,
                              ![c].before = program.printed, ![c].dropped = seen.dropped]
  BY DEF CountLines, session
<1>2. DOMAIN call = Calls /\ DOMAIN NoCall = Fields /\ \A o \in Calls : DOMAIN call[o] = Fields
  BY DEF IInv, Types, NoCall, Fields
<1>3. seen.dropped \in Nat /\ Len(console) \in Nat /\ program.printed \in Nat
  BY DEF IInv, Types
<1>. DEFINE k == [call[c] EXCEPT !.pc = "counted", !.from = Len(console), !.calm = Settled,
                                 !.before = program.printed, !.dropped = seen.dropped]
<1>4. /\ call' = [call EXCEPT ![c] = k] /\ DOMAIN k = Fields
      /\ k.from = Len(console) /\ k.calm = Settled /\ k.before = program.printed
      /\ k.dropped = seen.dropped
  BY <1>1, <1>2 DEF Fields
<1>. HIDE DEF k
<1>5. k.dropped + k.from <= k.before
  BY <1>4 DEF IInv, LinesOK, Taken
<1>6. ASSUME k.calm  PROVE k.before = k.dropped + k.from
  <2>1. events = <<>>
    BY <1>4, <1>6 DEF Settled
  <2>2. ~(Taken < program.printed)
    <3>1. Len(events) = 0
      BY <2>1
    <3>2. 1..Len(events) = {}
      BY <3>1
    <3>. QED  BY <1>3, <3>2 DEF IInv, LinesOK
  <2>3. Taken = program.printed
    BY <1>3, <2>2 DEF IInv, LinesOK, Taken
  <2>. QED  BY <1>4, <2>3 DEF Taken
<1>7. /\ DOMAIN call' = Calls /\ \A o \in Calls : DOMAIN call'[o] = DOMAIN NoCall
      /\ call'[c] = k /\ \A o \in Calls \ {c} : call'[o] = call[o]
  BY <1>2, <1>4
<1>8. Types'
  BY <1>1, <1>7 DEF IInv, Types
<1>9. LinesOK' /\ Compared'
  BY <1>1, LinesStay DEF IInv, Compared
<1>10. CountsOK'
  <2>1. CountOK(call[c])'
    BY <1>1, <1>3, <1>4, <1>5, <1>6, <1>7 DEF CountOK
  <2>2. \A o \in Calls \ {c} : CountOK(call[o])'
    BY <1>1, <1>7 DEF IInv, CountsOK, CountOK
  <2>. QED  BY <2>1, <2>2 DEF CountsOK
<1>. QED
  BY <1>8, <1>9, <1>10 DEF IInv

(* Continuing keeps the count, and a poll ends with it. *)
LEMMA PollIInv ==
  ASSUME IInv, NEW c \in Calls, Continue(c) \/ Poll(c)
  PROVE  IInv'
<1>1. UNCHANGED <<events, dispatcher, timeline, nextId, console, seen>>
  BY DEF Continue, Poll, session
<1>2. DOMAIN call = Calls /\ DOMAIN NoCall = Fields /\ \A o \in Calls : DOMAIN call[o] = Fields
  BY DEF IInv, Types, NoCall, Fields
<1>3. /\ program' \in [paused : BOOLEAN, at : Nat, locals : Snapshots, printed : Nat, hits : SUBSET Nat]
      /\ program'.printed = program.printed
  <2>1. program' = program \/ program' = [program EXCEPT !.paused = FALSE]
    BY DEF Continue, Poll
  <2>. QED  BY <2>1 DEF IInv, Types
<1>4. /\ DOMAIN call' = Calls
      /\ \A o \in Calls : DOMAIN call'[o] = DOMAIN NoCall /\ SameCount(call'[o], call[o])
  <2>1. CASE Continue(c)
    <3>1. /\ DOMAIN Resumed(call) = Calls
          /\ \A o \in Calls : DOMAIN Resumed(call)[o] = Fields /\ SameCount(Resumed(call)[o], call[o])
          /\ Resumed(call)[c].pc = "counted" /\ call[c].pc = "counted"
      BY <1>2, <2>1, ResumedFacts DEF Continue, IInv
    <3>. DEFINE k == [Resumed(call)[c] EXCEPT !.pc = "poll"]
    <3>2. call' = [Resumed(call) EXCEPT ![c] = k]
      BY <2>1 DEF Continue
    <3>3. DOMAIN k = Fields /\ SameCount(k, call[c])
      BY <3>1 DEF SameCount, Fields
    <3>. HIDE DEF k
    <3>4. DOMAIN call' = Calls /\ call'[c] = k /\ \A o \in Calls \ {c} : call'[o] = Resumed(call)[o]
      BY <3>1, <3>2
    <3>. QED  BY <1>2, <3>1, <3>3, <3>4
  <2>2. CASE Poll(c)
    <3>1. PICK k : call' = [call EXCEPT ![c] = k] /\ DOMAIN k = Fields /\ k.pc \notin {"counted", "poll"}
      <4>1. /\ DOMAIN Over("timed out") = Fields /\ Over("timed out").pc = "timed out"
            /\ DOMAIN Over("matched") = Fields /\ Over("matched").pc = "matched"
        BY DEF Over, NoCall, Fields
      <4>2. \/ call' = [call EXCEPT ![c] = Over("timed out")]
            \/ \E line : call' = [call EXCEPT ![c] = [Over("matched") EXCEPT !.line = line]]
        BY <2>2 DEF Poll
      <4>3. ASSUME NEW line
            PROVE  /\ DOMAIN [Over("matched") EXCEPT !.line = line] = Fields
                   /\ [Over("matched") EXCEPT !.line = line].pc = "matched"
        BY <4>1 DEF Fields
      <4>. QED  BY <4>1, <4>2, <4>3
    <3>. QED  BY <1>2, <3>1 DEF SameCount
  <2>. QED  BY <2>1, <2>2
<1>5. Types'
  BY <1>1, <1>3, <1>4 DEF IInv, Types
<1>6. LinesOK' /\ Compared'
  BY <1>1, <1>3, LinesStay DEF IInv, Compared
<1>7. CountsOK'
  <2>1. seen.dropped \in Nat
    BY DEF IInv, Types
  <2>. QED  BY <1>1, <1>4, <2>1, CountsStep DEF IInv
<1>. QED
  BY <1>5, <1>6, <1>7 DEF IInv

-----------------------------------------------------------------------------
(* The invariant *)

LEMMA InitIInv == Init => IInv
<1>. SUFFICES ASSUME Init  PROVE IInv
  OBVIOUS
<1>1. program = [paused |-> FALSE, at |-> 0, locals |-> NoVars, printed |-> 0, hits |-> {}]
      /\ events = <<>> /\ dispatcher = Idle /\ timeline = <<>> /\ nextId = 0 /\ console = <<>>
      /\ call = [c \in Calls |-> NoCall] /\ seen = NothingSeen
  BY DEF Init
<1>2. Types
  BY <1>1, NoVarsFacts DEF Types, NothingSeen
<1>3. Compared
  BY <1>1 DEF Compared
<1>4. LinesOK
  BY <1>1 DEF LinesOK, Taken, NothingSeen
<1>5. CountsOK
  BY <1>1 DEF CountsOK, CountOK, NoCall
<1>. QED
  BY <1>2, <1>3, <1>4, <1>5 DEF IInv

LEMMA NextIInv == IInv /\ [Next]_vars => IInv'
<1>. SUFFICES ASSUME IInv, [Next]_vars  PROVE IInv'
  OBVIOUS
<1>1. CASE Stop
  BY <1>1, StopIInv
<1>2. CASE Output
  BY <1>2, OutputIInv
<1>3. CASE Resume \/ Assign
  BY <1>3, ResumeIInv
<1>4. CASE Dispatch
  BY <1>4, TakeOutputIInv, TakeStoppedIInv, EnrichIInv, EnrichPushIInv DEF Dispatch
<1>5. ASSUME NEW c \in Calls, Tool(c)  PROVE IInv'
  BY <1>5, OtherIInv, CountIInv, PollIInv DEF Tool
<1>6. CASE UNCHANGED vars
  BY <1>6 DEF vars, session, IInv, Types, Compared, LinesOK, Taken, IsOutput, CountsOK, CountOK
<1>. QED
  BY <1>1, <1>2, <1>3, <1>4, <1>5, <1>6 DEF Next

LEMMA Invariance == Spec => []IInv
BY InitIInv, NextIInv, PTL DEF Spec

-----------------------------------------------------------------------------
(* The theorems *)

(* However many stops there were, and however many of them have left the   *)
(* timeline, what an entry says has changed (session.rs 1121-1129) is what *)
(* compare_snapshots finds between it and the one before, and              *)
(* find_first_change reports the stop at which the variable's history      *)
(* first leaves its first value (tools.rs 1785-1806).                      *)
THEOREM HistoryCorrect == Spec => []HistoryAgrees
<1>1. IInv => HistoryAgrees
  <2>. SUFFICES ASSUME IInv  PROVE HistoryAgrees
    OBVIOUS
  <2>1. timeline \in Seq(Entry) /\ Positions = 1..Len(timeline)
    BY DEF IInv, Types, Positions
  <2>2. \A i \in Positions : i > 1 =>
          timeline[i].changed = Added(timeline[i - 1].vars, timeline[i].vars)
                                \cup Differing(timeline[i - 1].vars, timeline[i].vars)
    BY <2>1 DEF IInv, Compared, Changed, Added, Differing
  <2>3. ASSUME NEW x \in Names
        PROVE  LET first == FirstChange(x)
                   before == {i \in History(x) : i < first}
               IN /\ first = 0 =>
                       \A i, j \in History(x) : timeline[i].vars[x] = timeline[j].vars[x]
                  /\ first # 0 =>
                       /\ before # {}
                       /\ \A i, j \in before : timeline[i].vars[x] = timeline[j].vars[x]
                       /\ \A i \in before : timeline[first].vars[x] # timeline[i].vars[x]
    BY <2>1, FirstChangeFacts
  <2>. QED  BY <2>2, <2>3 DEF HistoryAgrees
<1>. QED
  BY <1>1, Invariance, PTL

(* A step of a poll. *)
OutputStep ==
  \A c \in Calls : call[c].pc = "poll" /\ call'[c].pc # "poll" =>
    /\ call'[c].pc = "matched" /\ call[c].calm => call'[c].line > call[c].before
    /\ call'[c].pc = "timed out" /\ seen.dropped = call[c].dropped =>
         \A i \in DOMAIN console : console[i] \in program.hits => console[i] <= call[c].before

LEMMA PollStep ==
  ASSUME IInv, NEW c \in Calls, Poll(c)
  PROVE  /\ call'[c].pc = "matched" /\ call[c].calm => call'[c].line > call[c].before
         /\ call'[c].pc = "timed out" /\ seen.dropped = call[c].dropped =>
              \A i \in DOMAIN console : console[i] \in program.hits => console[i] <= call[c].before
<1>. DEFINE found == Matches(call[c].from)
<1>1. /\ DOMAIN call = Calls /\ seen.dropped \in Nat /\ console \in Seq(Nat) /\ Len(console) \in Nat
      /\ DOMAIN console = 1..Len(console)
  BY DEF IInv, Types
<1>2. /\ call[c].from \in Nat /\ call[c].before \in Nat /\ call[c].dropped \in Nat
      /\ call[c].dropped <= seen.dropped
      /\ call[c].dropped + call[c].from <= call[c].before
      /\ call[c].calm => call[c].before = call[c].dropped + call[c].from
  BY DEF IInv, CountsOK, CountOK, Poll
<1>3. \A i \in 1..Len(console) : console[i] = seen.dropped + i
  BY DEF IInv, LinesOK
<1>4. found = {i \in (call[c].from + 1)..Len(console) : console[i] \in program.hits}
  BY DEF Matches
<1>. HIDE DEF found
<1>5. CASE found = {}
  <2>1. call' = [call EXCEPT ![c] = Over("timed out")]
    BY <1>5 DEF Poll, found
  <2>2. call'[c].pc = "timed out"
    BY <1>1, <2>1 DEF Over, NoCall
  <2>3. ASSUME seen.dropped = call[c].dropped, NEW i \in 1..Len(console), console[i] \in program.hits
        PROVE  console[i] <= call[c].before
    <3>1. i <= call[c].from
      BY <1>1, <1>2, <1>4, <1>5, <2>3, SMTT(30)
    <3>. QED  BY <1>1, <1>2, <1>3, <2>3, <3>1
  <2>. QED  BY <1>1, <2>2, <2>3
<1>6. CASE found # {}
  <2>1. call' = [call EXCEPT ![c] = [Over("matched") EXCEPT !.line = console[Least(found)]]]
    BY <1>6 DEF Poll, found, Least
  <2>2. call'[c].pc = "matched" /\ call'[c].line = console[Least(found)]
    BY <1>1, <2>1 DEF Over, NoCall
  <2>3. Least(found) \in found
    <3>1. found \subseteq Nat
      BY <1>1, <1>2, <1>4
    <3>. QED  BY <1>6, <3>1, LeastFacts
  <2>4. Least(found) \in (call[c].from + 1)..Len(console)
    BY <1>4, <2>3
  <2>5. console[Least(found)] = seen.dropped + Least(found)
    BY <1>1, <1>2, <1>3, <2>4
  <2>6. call[c].calm => seen.dropped + Least(found) > call[c].before
    BY <1>1, <1>2, <2>4
  <2>. QED  BY <2>2, <2>5, <2>6
<1>. QED
  BY <1>5, <1>6

(* Nothing but a poll ends a poll. *)
LEMMA OutputStepHolds == IInv /\ [Next]_vars => [OutputStep]_vars
<1>. SUFFICES ASSUME IInv, [Next]_vars, NEW c \in Calls, call[c].pc = "poll", call'[c].pc # "poll"
              PROVE  Poll(c)
  BY PollStep DEF OutputStep
<1>1. DOMAIN call = Calls
  BY DEF IInv, Types
<1>2. call' # call
  OBVIOUS
<1>3. ~Resume
  BY <1>1, ResumedFacts DEF Resume, IInv
<1>4. ~(UNCHANGED vars) /\ ~Stop /\ ~Output /\ ~Assign /\ ~Dispatch
  BY <1>2 DEF vars, Stop, Output, Assign, Dispatch, TakeOutput, TakeStopped, EnrichStack, EnrichLocals,
              EnrichPush, EnrichReadWatches, EnrichEvaluate, EnrichStore
<1>5. PICK o \in Calls : Tool(o)
  BY <1>3, <1>4 DEF Next
<1>6. CASE o # c
  <2>1. ~Continue(o)
    <3>. SUFFICES ASSUME Continue(o)  PROVE FALSE
      OBVIOUS
    <3>1. call'[c] = Resumed(call)[c]
      BY <1>6, ResumedFacts DEF Continue, IInv
    <3>. QED  BY <3>1, ResumedFacts DEF IInv
  <2>2. \E k : call' = [call EXCEPT ![o] = k]
    BY <1>5, <2>1 DEF Tool, AddWatch, RemoveWatch, RemoveResult, ContextStack, ContextLocals,
       ContextValues, ContextDelta, CountLines, Poll, SetData, ClearData, Store, SendData, Finish
  <2>. QED  BY <1>1, <1>6, <2>2
<1>7. CASE o = c
  BY <1>5, <1>7 DEF Tool, AddWatch, RemoveWatch, RemoveResult, ContextStack, ContextLocals,
     ContextValues, ContextDelta, CountLines, Continue, SetData, ClearData, Store, SendData, Finish
<1>. QED
  BY <1>6, <1>7

(* However many lines the program prints and however many are dropped,     *)
(* wait_for_output matches only what was printed after the count it was    *)
(* given, if everything was handled when that was taken, and overlooks no  *)
(* such line that is still there, unless one was dropped since             *)
(* (mod.rs 746, tools.rs 1370-1403).                                       *)
THEOREM OutputCorrect == Spec => OutputFound
<1>1. IInv /\ [Next]_vars => [OutputStep]_vars
  BY OutputStepHolds
<1>. QED
  BY <1>1, Invariance, PTL DEF Spec, OutputFound, OutputStep

-----------------------------------------------------------------------------
(* The last stop, the watches, the data breakpoints and the contexts *)

Result == [expression : Watches, value : Nat]
ContextFields == {"stack", "locals", "values", "going", "last"}

MoreTypes ==
  /\ dispatcher.pc \in {"idle", "stack", "locals", "push", "watches", "evaluate"}
  /\ dispatcher.pc = "idle" => dispatcher = Idle
  /\ dispatcher.pc # "evaluate" => dispatcher.new = {}
  /\ dispatcher.list \subseteq Watches /\ dispatcher.new \subseteq Result
  /\ watches \subseteq Watches /\ results \subseteq Result
  /\ dataBps \subseteq DataIds /\ adapterBps \subseteq DataIds
  /\ \A c \in Calls :
       /\ DOMAIN call[c].context = ContextFields /\ call[c].context.stack \in Nat
       /\ call[c].pc = "send" => call[c].list \subseteq DataIds

(* The watches whose results are still to be removed. *)
Going == {call[o].arg : o \in {o \in Calls : call[o].pc = "unwatch"}}

(* How much there is of everything, and how the entries are numbered. *)
Bounds ==
  /\ program.at <= StopBound /\ program.printed <= MaxLines /\ program.hits \subseteq 1..program.printed
  /\ Len(timeline) <= TimelineCap /\ Len(console) <= ConsoleCap
  /\ \A i \in 1..Len(timeline) : timeline[i].id = nextId - (Len(timeline) + 1 - i)

IsStop(i) == events[i][1] = "stopped"

(* The stops are handled in their order: none that is on its way is before *)
(* the one in hand, or before the last one whose enrichment failed.        *)
StopsInOrder ==
  /\ seen.failed <= program.at /\ dispatcher.stop <= program.at
  /\ dispatcher.pc # "idle" => seen.failed <= dispatcher.stop
  /\ \A i \in 1..Len(events) : IsStop(i) =>
       seen.failed <= events[i][2] /\ dispatcher.stop <= events[i][2] /\ events[i][2] <= program.at
  /\ \A i, j \in 1..Len(events) : IsStop(i) /\ IsStop(j) /\ i < j => events[i][2] <= events[j][2]

(* The program is paused, and its stop has been taken. *)
Caught == program.paused /\ events = <<>>

Entered == timeline # <<>> /\ timeline[Len(timeline)].stop = program.at

(* While the program is paused, its stop is the last event on its way, or  *)
(* the one in hand, or what the session remembers is of that stop.         *)
LastStop ==
  /\ program.paused /\ events # <<>> => events[Len(events)] = <<"stopped", program.at>>
  /\ Caught =>
       /\ dispatcher.pc # "idle" => dispatcher.stop = program.at
       /\ dispatcher.pc \in {"locals", "push", "watches", "evaluate"} => dispatcher.frame = program.at
       /\ dispatcher.pc \in {"watches", "evaluate"} => Entered
       /\ dispatcher.pc = "evaluate" => \A r \in dispatcher.new : r.value = program.at
       /\ dispatcher.pc = "idle" /\ seen.failed < program.at =>
            /\ Entered
            /\ \A r \in results : seen.raced \/ r.expression \in Going \/ r.value = program.at

(* Unless a removal raced, the results are of watches there are, or of     *)
(* watches whose results are about to be removed.                          *)
WatchesOK ==
  ~seen.raced =>
    /\ \A r \in results : r.expression \in watches \cup Going
    /\ dispatcher.pc = "evaluate" =>
         dispatcher.list \subseteq watches /\ \A r \in dispatcher.new : r.expression \in watches

Sending(c) == call[c].pc = "send"

(* Unless two calls clashed, the one that sends has the list of the        *)
(* session, and between calls the adapter has it.                          *)
DataOK ==
  ~seen.clashed =>
    /\ \A c \in Calls : Sending(c) => call[c].list = dataBps
    /\ \A c, o \in Calls : Sending(c) /\ Sending(o) => c = o
    /\ (\A c \in Calls : ~Sending(c)) => adapterBps = dataBps

(* What a context has got so far is of one stop, which is the program's    *)
(* until it is complete.                                                   *)
ContextOK(k) ==
  /\ k.pc \in {"context", "collect", "delta"} =>
       Caught /\ dispatcher.pc = "idle" /\ k.context.stack = program.at
  /\ k.pc \in {"collect", "delta", "context done"} => k.context.locals = k.context.stack
  /\ k.pc \in {"delta", "context done"} /\ seen.failed < k.context.stack =>
       \A r \in k.context.values :
         seen.raced \/ r.expression \in k.context.going \/ r.value = k.context.stack
  /\ k.pc = "context done" /\ seen.failed < k.context.stack => k.context.last = k.context.stack

ContextsOK == \A c \in Calls : call[c].calm => ContextOK(call[c])

SInv ==
  /\ IInv /\ MoreTypes /\ Bounds
  /\ StopsInOrder /\ LastStop /\ WatchesOK /\ DataOK /\ ContextsOK

-----------------------------------------------------------------------------
(* What a tool does to the calls *)

(* Another task's call: at most it is calm no longer. *)
Alike(new, old) ==
  /\ new.pc = old.pc /\ new.arg = old.arg /\ new.context = old.context /\ new.list = old.list
  /\ new.calm => old.calm

LEMMA ResumedCalls ==
  ASSUME Types, NEW c \in Calls
  PROVE  /\ Alike(Resumed(call)[c], call[c])
         /\ Resumed(call)[c].calm => call[c].pc \notin {"context", "collect", "delta"}
<1>1. DOMAIN call[c] = Fields
  BY DEF Types, NoCall, Fields
<1>2. Resumed(call)[c] = [call[c] EXCEPT !.calm = @ /\ call[c].pc \notin {"context", "collect", "delta"}]
  BY DEF Resumed
<1>. QED
  BY <1>1, <1>2 DEF Alike, Fields

(* Whoever makes a step, no other call changes but for its calm. *)
LEMMA OtherCalls ==
  ASSUME Types, NEW c \in Calls, Tool(c)
  PROVE  /\ DOMAIN call' = Calls
         /\ \A o \in Calls \ {c} : Alike(call'[o], call[o])
         /\ ~Continue(c) => \A o \in Calls \ {c} : call'[o] = call[o]
<1>1. DOMAIN call = Calls
  BY DEF Types
<1>2. CASE Continue(c)
  <2>1. DOMAIN Resumed(call) = Calls
    BY DEF Resumed
  <2>2. DOMAIN call' = Calls /\ \A o \in Calls \ {c} : call'[o] = Resumed(call)[o]
    <3>1. call' = [Resumed(call) EXCEPT ![c].pc = "poll"]
      BY <1>2 DEF Continue
    <3>. QED  BY <2>1, <3>1
  <2>. QED  BY <1>2, <2>2, ResumedCalls
<1>3. CASE ~Continue(c)
  <2>1. \E k : call' = [call EXCEPT ![c] = k]
    BY <1>3 DEF Tool, AddWatch, RemoveWatch, RemoveResult, ContextStack, ContextLocals,
       ContextValues, ContextDelta, CountLines, Poll, SetData, ClearData, Store, SendData, Finish
  <2>2. DOMAIN call' = Calls /\ \A o \in Calls \ {c} : call'[o] = call[o]
    BY <1>1, <2>1
  <2>. QED  BY <2>2 DEF Alike
<1>. QED
  BY <1>2, <1>3

(* What a tool makes of its own call. *)
LEMMA OverCalls ==
  ASSUME Types, NEW c \in Calls, NEW pc, Finish(c, pc)
  PROVE  call[c].pc = pc /\ call'[c] = Over("done")
BY DEF Types, Finish

LEMMA WatchCalls ==
  ASSUME Types, NEW c \in Calls, NEW w, call' = [call EXCEPT ![c].pc = "unwatch", ![c].arg = w]
  PROVE  /\ call'[c].pc = "unwatch" /\ call'[c].arg = w /\ call'[c].calm = call[c].calm
         /\ call'[c].context = call[c].context
<1>1. DOMAIN call = Calls /\ DOMAIN call[c] = Fields
  BY DEF Types, NoCall, Fields
<1>2. call'[c] = [call[c] EXCEPT !.pc = "unwatch", !.arg = w]
  BY <1>1
<1>. QED
  BY <1>1, <1>2 DEF Fields

LEMMA ContextCalls ==
  ASSUME Types, MoreTypes, NEW c \in Calls
  PROVE  LET old == call[c].context
             new == call'[c].context
         IN /\ ContextStack(c) =>
                 /\ call'[c].pc = "context" /\ DOMAIN new = ContextFields
                 /\ new.stack = Frame /\ call'[c].calm = (Settled /\ program.paused)
            /\ ContextLocals(c) =>
                 /\ call'[c].pc = "collect" /\ DOMAIN new = ContextFields
                 /\ new.stack = old.stack /\ new.locals \in Locals(old.stack)
                 /\ call'[c].calm = call[c].calm
            /\ ContextValues(c) =>
                 /\ call'[c].pc = "delta" /\ DOMAIN new = ContextFields
                 /\ new.stack = old.stack /\ new.locals = old.locals
                 /\ new.values = results /\ new.going = Going
                 /\ call'[c].calm = call[c].calm
            /\ ContextDelta(c) =>
                 /\ call'[c].pc = "context done" /\ DOMAIN new = ContextFields
                 /\ new.stack = old.stack /\ new.locals = old.locals
                 /\ new.values = old.values /\ new.going = old.going
                 /\ new.last = IF timeline = <<>> THEN 0 ELSE timeline[Len(timeline)].stop
                 /\ call'[c].calm = call[c].calm
<1>1. DOMAIN call = Calls /\ DOMAIN call[c] = Fields /\ DOMAIN call[c].context = ContextFields
  BY DEF Types, MoreTypes, NoCall, Fields
<1>2. CASE ContextStack(c)
  <2>1. call'[c] = [call[c] EXCEPT !.pc = "context", !.context.stack = Frame,
                                   !.calm = Settled /\ program.paused]
    BY <1>1, <1>2 DEF ContextStack
  <2>2. call'[c].context = [call[c].context EXCEPT !.stack = Frame]
    BY <1>1, <2>1 DEF Fields
  <2>. QED  BY <1>1, <1>2, <2>1, <2>2 DEF Fields, ContextFields, ContextStack, ContextLocals, ContextValues, ContextDelta
<1>3. CASE ContextLocals(c)
  <2>1. PICK stop \in Locals(call[c].context.stack) :
          call' = [call EXCEPT ![c].pc = "collect", ![c].context.locals = stop]
    BY <1>3 DEF ContextLocals
  <2>2. call'[c] = [call[c] EXCEPT !.pc = "collect", !.context.locals = stop]
    BY <1>1, <2>1
  <2>3. call'[c].context = [call[c].context EXCEPT !.locals = stop]
    BY <1>1, <2>2 DEF Fields
  <2>. QED  BY <1>1, <1>3, <2>1, <2>2, <2>3 DEF Fields, ContextFields, ContextStack, ContextLocals, ContextValues, ContextDelta
<1>4. CASE ContextValues(c)
  <2>1. call'[c] = [call[c] EXCEPT !.pc = "delta", !.context.values = results, !.context.going = Going]
    BY <1>1, <1>4 DEF ContextValues, Going
  <2>2. call'[c].context = [call[c].context EXCEPT !.values = results, !.going = Going]
    BY <1>1, <2>1 DEF Fields
  <2>. QED  BY <1>1, <1>4, <2>1, <2>2 DEF Fields, ContextFields, ContextStack, ContextLocals, ContextValues, ContextDelta
<1>5. CASE ContextDelta(c)
  <2>. DEFINE last == IF timeline = <<>> THEN 0 ELSE timeline[Len(timeline)].stop
  <2>1. call'[c] = [call[c] EXCEPT !.pc = "context done", !.context.last = last]
    BY <1>1, <1>5 DEF ContextDelta, Last
  <2>2. call'[c].context = [call[c].context EXCEPT !.last = last]
    BY <1>1, <2>1 DEF Fields
  <2>. QED  BY <1>1, <1>5, <2>1, <2>2 DEF Fields, ContextFields, ContextStack, ContextLocals, ContextValues, ContextDelta
<1>. QED
  BY <1>2, <1>3, <1>4, <1>5

LEMMA CountCalls ==
  ASSUME Types, NEW c \in Calls, CountLines(c) \/ Continue(c) \/ Poll(c)
  PROVE  /\ call'[c].pc \notin {"unwatch", "send", "context", "collect", "delta", "context done"}
         /\ call[c].pc \notin {"unwatch", "send", "context", "collect", "delta", "context done"}
         /\ call'[c].context = call[c].context \/ call'[c].context = NoContext
<1>1. DOMAIN call = Calls /\ DOMAIN call[c] = Fields
  BY DEF Types, NoCall, Fields
<1>2. CASE CountLines(c)
  <2>1. call'[c] = [call[c] EXCEPT !.pc = "counted", !.from = Len(console), !.calm = Settled,
                                   !.before = program.printed, !.dropped = seen.dropped]
    BY <1>1, <1>2 DEF CountLines
  <2>. QED  BY <1>1, <1>2, <2>1 DEF Fields, CountLines
<1>3. CASE Continue(c)
  <2>1. /\ DOMAIN Resumed(call) = Calls
        /\ Resumed(call)[c] = [call[c] EXCEPT !.calm = @ /\ call[c].pc \notin {"context", "collect", "delta"}]
    BY DEF Resumed
  <2>2. call'[c] = [Resumed(call)[c] EXCEPT !.pc = "poll"]
    BY <1>3, <2>1 DEF Continue
  <2>3. DOMAIN Resumed(call)[c] = Fields /\ Resumed(call)[c].context = call[c].context
    BY <1>1, <2>1 DEF Fields
  <2>4. call'[c].pc = "poll" /\ call'[c].context = call[c].context
    BY <2>2, <2>3 DEF Fields
  <2>. QED  BY <1>3, <2>4 DEF Continue
<1>4. CASE Poll(c)
  <2>1. \/ call'[c] = Over("timed out")
        \/ \E line : call'[c] = [Over("matched") EXCEPT !.line = line]
    BY <1>1, <1>4 DEF Poll
  <2>2. call'[c].pc \in {"timed out", "matched"} /\ call'[c].context = NoContext
    BY <2>1 DEF Over, NoCall
  <2>. QED  BY <1>4, <2>2 DEF Poll
<1>. QED
  BY <1>2, <1>3, <1>4

LEMMA StoreCalls ==
  ASSUME Types, NEW c \in Calls, NEW list, Store(c, list)
  PROVE  /\ call'[c].pc = "send" /\ call'[c].list = list /\ call'[c].context = call[c].context
         /\ call[c].pc = "none" /\ dataBps' = list
<1>1. DOMAIN call = Calls /\ DOMAIN call[c] = Fields
  BY DEF Types, NoCall, Fields
<1>2. call'[c] = [call[c] EXCEPT !.pc = "send", !.list = list]
  BY <1>1 DEF Store
<1>. QED
  BY <1>1, <1>2 DEF Fields, Store

-----------------------------------------------------------------------------
(* What the dispatcher does with its own state *)

EnrichFields == {"pc", "stop", "frame", "vars", "list", "new"}

LEMMA IdleFacts ==
  /\ Idle.pc = "idle" /\ Idle.stop = 0 /\ Idle.list = {} /\ Idle.new = {}
  /\ DOMAIN Idle = EnrichFields
BY DEF Idle, EnrichFields

LEMMA TakenFacts ==
  ASSUME Types, TakeStopped
  PROVE  /\ dispatcher.pc = "idle" /\ dispatcher'.pc = "stack" /\ dispatcher'.stop = Head(events)[2]
         /\ dispatcher'.list = {} /\ dispatcher'.new = {}
<1>1. dispatcher' = [Idle EXCEPT !.pc = "stack", !.stop = Head(events)[2]] /\ dispatcher.pc = "idle"
  BY DEF TakeStopped
<1>. QED
  BY <1>1 DEF Idle

(* An enrichment goes on, or fails. *)
Failing ==
  /\ dispatcher' = Idle /\ seen' = [seen EXCEPT !.failed = dispatcher.stop]
  /\ seen'.failed = dispatcher.stop /\ seen'.raced = seen.raced /\ seen'.clashed = seen.clashed

LEMMA EnrichFacts ==
  ASSUME Types, MoreTypes
  PROVE  /\ EnrichStack \/ EnrichLocals => Failing \/ seen' = seen
         /\ EnrichStack => \/ Failing
                           \/ /\ dispatcher'.pc = "locals" /\ dispatcher'.frame = Frame
                              /\ dispatcher'.stop = dispatcher.stop
                              /\ dispatcher'.list = dispatcher.list /\ dispatcher'.new = dispatcher.new
         /\ EnrichLocals => \/ Failing
                            \/ /\ dispatcher'.pc = "push" /\ dispatcher'.frame = dispatcher.frame
                               /\ dispatcher'.stop = dispatcher.stop
                               /\ dispatcher'.list = dispatcher.list /\ dispatcher'.new = dispatcher.new
         /\ EnrichPush => /\ dispatcher'.pc = "watches" /\ dispatcher'.frame = dispatcher.frame
                          /\ dispatcher'.stop = dispatcher.stop
                          /\ dispatcher'.list = dispatcher.list /\ dispatcher'.new = dispatcher.new
         /\ EnrichReadWatches => \/ watches = {} /\ dispatcher' = Idle
                                 \/ /\ dispatcher'.pc = "evaluate" /\ dispatcher'.frame = dispatcher.frame
                                    /\ dispatcher'.stop = dispatcher.stop
                                    /\ dispatcher'.list = watches /\ dispatcher'.new = dispatcher.new
<1>1. DOMAIN dispatcher = EnrichFields
  BY DEF Types, Idle, EnrichFields
<1>2. DOMAIN seen = {"dropped", "failed", "raced", "clashed"}
  BY DEF Types
<1>3. EnrichStack =>
        \/ Failing
        \/ dispatcher' = [dispatcher EXCEPT !.pc = "locals", !.frame = Frame] /\ seen' = seen
  BY <1>2 DEF EnrichStack, Failing
<1>4. EnrichLocals =>
        \/ Failing
        \/ seen' = seen /\ \E new : dispatcher' = [dispatcher EXCEPT !.pc = "push", !.vars = new]
  BY <1>2 DEF EnrichLocals, Failing
<1>5. EnrichPush => dispatcher' = [dispatcher EXCEPT !.pc = "watches"]
  BY DEF EnrichPush
<1>6. EnrichReadWatches =>
        \/ watches = {} /\ dispatcher' = Idle
        \/ dispatcher' = [dispatcher EXCEPT !.pc = "evaluate", !.list = watches]
  BY DEF EnrichReadWatches
<1>. QED
  BY <1>1, <1>3, <1>4, <1>5, <1>6 DEF EnrichFields

(* A watch is evaluated. *)
LEMMA EvaluateFacts ==
  ASSUME Types, MoreTypes, EnrichEvaluate
  PROVE  \E w \in dispatcher.list :
           LET value == IF dispatcher.frame = Frame THEN Frame ELSE 0
           IN /\ dispatcher'.pc = "evaluate" /\ dispatcher'.stop = dispatcher.stop
              /\ dispatcher'.frame = dispatcher.frame /\ dispatcher'.list = dispatcher.list \ {w}
              /\ dispatcher'.new = dispatcher.new \cup {[expression |-> w, value |-> value]}
<1>1. DOMAIN dispatcher = EnrichFields
  BY DEF Types, Idle, EnrichFields
<1>. DEFINE value == IF dispatcher.frame = Frame THEN Frame ELSE 0
<1>2. PICK w \in dispatcher.list :
        dispatcher' = [dispatcher EXCEPT !.list = @ \ {w},
                                         !.new = @ \cup {[expression |-> w, value |-> value]}]
  BY DEF EnrichEvaluate
<1>. HIDE DEF value
<1>3. /\ dispatcher'.pc = "evaluate" /\ dispatcher'.stop = dispatcher.stop
      /\ dispatcher'.frame = dispatcher.frame /\ dispatcher'.list = dispatcher.list \ {w}
      /\ dispatcher'.new = dispatcher.new \cup {[expression |-> w, value |-> value]}
  BY <1>1, <1>2 DEF EnrichFields, EnrichEvaluate
<1>. QED
  BY <1>3 DEF value

LEMMA FrameType == ASSUME Types PROVE Frame \in Nat
BY DEF Types, Frame

-----------------------------------------------------------------------------
(* The types *)

LEMMA InitMore == Init => MoreTypes /\ Bounds /\ StopsInOrder /\ LastStop /\ WatchesOK /\ DataOK /\ ContextsOK
<1>. SUFFICES ASSUME Init
              PROVE MoreTypes /\ Bounds /\ StopsInOrder /\ LastStop /\ WatchesOK /\ DataOK /\ ContextsOK
  OBVIOUS
<1>1. program = [paused |-> FALSE, at |-> 0, locals |-> NoVars, printed |-> 0, hits |-> {}]
      /\ events = <<>> /\ dispatcher = Idle /\ timeline = <<>> /\ nextId = 0 /\ console = <<>>
      /\ call = [c \in Calls |-> NoCall] /\ seen = NothingSeen
      /\ results = {} /\ dataBps = {} /\ adapterBps = {} /\ watches \subseteq Watches
  BY DEF Init
<1>2. seen.failed = 0
  BY <1>1 DEF NothingSeen
<1>3. \A c \in Calls : /\ call[c].pc = "none" /\ call[c].context = NoContext /\ call[c].list = {}
                       /\ call[c].calm = FALSE
  BY <1>1 DEF NoCall
<1>4. NoContext.stack = 0 /\ DOMAIN NoContext = ContextFields
  BY DEF NoContext, ContextFields
<1>5. MoreTypes
  BY <1>1, <1>3, <1>4, IdleFacts DEF MoreTypes
<1>6. Bounds
  BY <1>1, SessionDataAssumption DEF Bounds, StopBound
<1>7. StopsInOrder /\ LastStop
  BY <1>1, <1>2, IdleFacts DEF StopsInOrder, LastStop, Caught
<1>8. WatchesOK /\ DataOK /\ ContextsOK
  BY <1>1, <1>3, IdleFacts DEF WatchesOK, DataOK, Sending, ContextsOK
<1>. QED
  BY <1>5, <1>6, <1>7, <1>8

LEMMA MoreTypesStep ==
  ASSUME IInv, MoreTypes, [Next]_vars
  PROVE  MoreTypes'
<1>1. Types /\ Frame \in Nat
  BY FrameType DEF IInv
<1>2. CASE UNCHANGED vars
  BY <1>2 DEF vars, session, MoreTypes
<1>3. CASE Stop \/ Output \/ Assign \/ TakeOutput
  <2>1. UNCHANGED <<dispatcher, watches, results, dataBps, adapterBps, call>>
    BY <1>3 DEF Stop, Output, Assign, TakeOutput, session
  <2>. QED  BY <2>1 DEF MoreTypes
<1>4. CASE Resume
  <2>1. UNCHANGED <<dispatcher, watches, results, dataBps, adapterBps>> /\ call' = Resumed(call)
    BY <1>4 DEF Resume, session
  <2>2. \A c \in Calls : Alike(call'[c], call[c])
    BY <1>1, <2>1, ResumedCalls
  <2>. QED  BY <2>1, <2>2 DEF MoreTypes, Alike
<1>5. CASE Dispatch /\ ~TakeOutput
  <2>1. UNCHANGED <<watches, dataBps, adapterBps, call>>
    BY <1>5 DEF Dispatch, TakeStopped, EnrichStack, EnrichLocals, EnrichPush, EnrichReadWatches,
                EnrichEvaluate, EnrichStore, session
  <2>2. /\ dispatcher'.pc \in {"idle", "stack", "locals", "push", "watches", "evaluate"}
        /\ dispatcher'.pc = "idle" => dispatcher' = Idle
        /\ dispatcher'.pc # "evaluate" => dispatcher'.new = {}
        /\ dispatcher'.list \subseteq Watches /\ dispatcher'.new \subseteq Result
        /\ results' \subseteq Result
    <3>1. CASE TakeStopped
      BY <1>1, <3>1, TakenFacts DEF MoreTypes, TakeStopped, session
    <3>2. CASE EnrichStack \/ EnrichLocals \/ EnrichPush \/ EnrichReadWatches
      <4>1. results' = results
        BY <3>2 DEF EnrichStack, EnrichLocals, EnrichPush, EnrichReadWatches, session
      <4>2. dispatcher.new = {}
        BY <3>2 DEF MoreTypes, EnrichStack, EnrichLocals, EnrichPush, EnrichReadWatches
      <4>. QED  BY <1>1, <3>2, <4>1, <4>2, EnrichFacts, IdleFacts DEF MoreTypes, Failing
    <3>3. CASE EnrichEvaluate
      <4>1. PICK w \in dispatcher.list, value \in Nat :
              /\ dispatcher'.pc = "evaluate" /\ dispatcher'.list = dispatcher.list \ {w}
              /\ dispatcher'.new = dispatcher.new \cup {[expression |-> w, value |-> value]}
        BY <1>1, <3>3, EvaluateFacts
      <4>2. [expression |-> w, value |-> value] \in Result
        BY <4>1 DEF Result, MoreTypes
      <4>. QED  BY <3>3, <4>1, <4>2 DEF MoreTypes, EnrichEvaluate, session
    <3>4. CASE EnrichStore
      BY <3>4, IdleFacts DEF EnrichStore, MoreTypes
    <3>. QED  BY <1>5, <3>1, <3>2, <3>3, <3>4 DEF Dispatch
  <2>. QED  BY <2>1, <2>2 DEF MoreTypes
<1>6. ASSUME NEW c \in Calls, Tool(c)
      PROVE  MoreTypes'
  <2>1. dispatcher' = dispatcher
    BY <1>6 DEF Tool, AddWatch, RemoveWatch, RemoveResult, ContextStack, ContextLocals,
       ContextValues, ContextDelta, CountLines, Continue, Poll, SetData, ClearData, Store, SendData
  <2>2. /\ watches' \subseteq Watches /\ results' \subseteq Result
        /\ dataBps' \subseteq DataIds /\ adapterBps' \subseteq DataIds
        /\ DOMAIN call'[c].context = ContextFields /\ call'[c].context.stack \in Nat
        /\ call'[c].pc = "send" => call'[c].list \subseteq DataIds
    <3>0. /\ NoContext.stack = 0 /\ DOMAIN NoContext = ContextFields
          /\ Over("done").pc = "done" /\ Over("done").context = NoContext
      BY DEF NoContext, ContextFields, Over, NoCall
    <3>1. CASE AddWatch(c)
      BY <1>1, <3>0, <3>1, OverCalls DEF AddWatch, MoreTypes
    <3>2. CASE RemoveWatch(c)
      BY <1>1, <3>2, WatchCalls DEF RemoveWatch, MoreTypes
    <3>3. CASE RemoveResult(c)
      BY <1>1, <3>0, <3>3, OverCalls DEF RemoveResult, MoreTypes
    <3>4. CASE ContextStack(c) \/ ContextLocals(c) \/ ContextValues(c) \/ ContextDelta(c)
      <4>1. UNCHANGED <<watches, results, dataBps, adapterBps>>
        BY <3>4 DEF ContextStack, ContextLocals, ContextValues, ContextDelta, session
      <4>. QED  BY <1>1, <3>4, <4>1, ContextCalls DEF MoreTypes
    <3>5. CASE CountLines(c) \/ Continue(c) \/ Poll(c)
      <4>1. UNCHANGED <<watches, results, dataBps, adapterBps>>
        BY <3>5 DEF CountLines, Continue, Poll, session
      <4>2. /\ call'[c].pc # "send"
            /\ call'[c].context = call[c].context \/ call'[c].context = NoContext
        BY <1>1, <3>5, CountCalls
      <4>3. DOMAIN call[c].context = ContextFields /\ call[c].context.stack \in Nat
        BY DEF MoreTypes
      <4>4. DOMAIN call'[c].context = ContextFields /\ call'[c].context.stack \in Nat
        BY <3>0, <4>2, <4>3
      <4>. QED  BY <4>1, <4>2, <4>4 DEF MoreTypes
    <3>6. CASE SetData(c) \/ ClearData(c)
      <4>1. PICK list : list \subseteq DataIds /\ Store(c, list)
        BY <3>6 DEF SetData, ClearData, MoreTypes
      <4>2. UNCHANGED <<watches, results, adapterBps>>
        BY <4>1 DEF Store
      <4>. QED  BY <1>1, <4>1, <4>2, StoreCalls DEF MoreTypes
    <3>7. CASE SendData(c)
      BY <1>1, <3>0, <3>7, OverCalls DEF SendData, MoreTypes, session
    <3>. QED  BY <1>6, <3>1, <3>2, <3>3, <3>4, <3>5, <3>6, <3>7 DEF Tool
  <2>3. \A o \in Calls \ {c} : Alike(call'[o], call[o])
    BY <1>1, <1>6, OtherCalls
  <2>. QED  BY <2>1, <2>2, <2>3 DEF MoreTypes, Alike
<1>. QED
  BY <1>2, <1>3, <1>4, <1>5, <1>6 DEF Next, Dispatch

-----------------------------------------------------------------------------
(* The bounds *)

LEMMA BoundsStep ==
  ASSUME IInv, Bounds, [Next]_vars
  PROVE  Bounds'
<1>0. /\ program.at \in Nat /\ program.printed \in Nat /\ program.hits \subseteq Nat
      /\ DOMAIN program = {"paused", "at", "locals", "printed", "hits"}
      /\ timeline \in Seq(Entry) /\ nextId \in Nat /\ console \in Seq(Nat)
      /\ Len(timeline) \in Nat /\ Len(console) \in Nat
      /\ TimelineCap \in Nat \ {0} /\ ConsoleCap \in Nat \ {0} /\ MaxLines \in Nat /\ StopBound \in Nat
  BY SessionDataAssumption DEF IInv, Types, StopBound
<1>1. StopBound' = StopBound
  BY DEF Next, vars, StopBound
<1>2. ASSUME program'.at <= StopBound, program'.printed <= MaxLines,
             program'.hits \subseteq 1..program'.printed, UNCHANGED <<timeline, nextId, console>>
      PROVE  Bounds'
  BY <1>1, <1>2 DEF Bounds
<1>3. ASSUME program'.at = program.at, program'.printed = program.printed,
             program'.hits = program.hits, UNCHANGED <<timeline, nextId, console>>
      PROVE  Bounds'
  BY <1>1, <1>3 DEF Bounds
<1>4. CASE UNCHANGED vars
  BY <1>3, <1>4 DEF vars, session
<1>5. CASE Stop
  <2>1. /\ program'.at = program.at + 1 /\ program'.printed = program.printed
        /\ program'.hits = program.hits /\ program.at < StopBound
    BY <1>0, <1>5 DEF Stop
  <2>2. UNCHANGED <<timeline, nextId, console>>
    BY <1>5 DEF Stop, session
  <2>3. program'.at <= StopBound
    BY <1>0, <2>1
  <2>. QED  BY <1>2, <2>1, <2>2, <2>3 DEF Bounds
<1>6. CASE Output
  <2>1. PICK hit \in BOOLEAN : program' = [program EXCEPT !.printed = program.printed + 1,
                                 !.hits = IF hit THEN @ \cup {program.printed + 1} ELSE @]
    BY <1>6 DEF Output
  <2>2. /\ program'.at = program.at /\ program'.printed = program.printed + 1
        /\ program'.hits \subseteq program.hits \cup {program.printed + 1}
    BY <1>0, <2>1
  <2>3. program.printed < MaxLines /\ UNCHANGED <<timeline, nextId, console>>
    BY <1>6 DEF Output, session
  <2>4. program'.printed <= MaxLines
    BY <1>0, <2>2, <2>3
  <2>5. program.hits \cup {program.printed + 1} \subseteq 1..(program.printed + 1)
    BY <1>0 DEF Bounds
  <2>. QED  BY <1>2, <2>2, <2>3, <2>4, <2>5 DEF Bounds
<1>7. CASE Resume
  BY <1>0, <1>3, <1>7 DEF Resume, session
<1>8. CASE Assign
  <2>1. \E locals : program' = [program EXCEPT !.locals = locals]
    BY <1>8 DEF Assign
  <2>. QED  BY <1>0, <1>3, <1>8, <2>1 DEF Assign, session
<1>9. CASE TakeOutput
  <2>1. UNCHANGED <<program, timeline, nextId>> /\ console' = Pushed(console, Head(events)[2], ConsoleCap)
    BY <1>9 DEF TakeOutput
  <2>2. Head(events)[2] \in Nat
    <3>1. events \in Seq(Event) /\ events # <<>>
      BY <1>9 DEF TakeOutput, IInv, Types
    <3>2. Head(events) \in Event
      BY <3>1
    <3>. QED  BY <3>2 DEF Event
  <2>3. Len(console') = Len(console) + 1 - (IF Len(console) < ConsoleCap THEN 0 ELSE 1)
    <3>. DEFINE d == IF Len(console) < ConsoleCap THEN 0 ELSE 1
    <3>1. Shifted(Pushed(console, Head(events)[2], ConsoleCap), console, Head(events)[2], d)
      BY <1>0, <2>2, PushedFacts
    <3>2. Len(console') = Len(console) + 1 - d
      <4>. HIDE DEF d
      <4>. QED  BY <2>1, <3>1 DEF Shifted
    <3>. QED  BY <3>2
  <2>4. Len(console') <= ConsoleCap
    BY <1>0, <2>3 DEF Bounds
  <2>. QED  BY <1>1, <2>1, <2>4 DEF Bounds
<1>10. CASE EnrichPush
  <2>. DEFINE entry == [id |-> nextId, stop |-> dispatcher.stop, vars |-> dispatcher.vars,
                        changed |-> Changed(PreviousVars, dispatcher.vars)]
              d == IF Len(timeline) < TimelineCap THEN 0 ELSE 1
  <2>1. UNCHANGED <<program, console>> /\ timeline' = Pushed(timeline, entry, TimelineCap)
        /\ nextId' = nextId + 1
    BY <1>10 DEF EnrichPush
  <2>2. entry \in Entry
    <3>1. PICK names \in SUBSET Names : dispatcher.vars \in [names -> Values]
      BY DEF IInv, Types, Snapshots
    <3>2. Changed(PreviousVars, dispatcher.vars) \in SUBSET Names
      BY <3>1 DEF Changed
    <3>3. dispatcher.stop \in Nat /\ dispatcher.vars \in Snapshots
      BY DEF IInv, Types
    <3>. QED  BY <1>0, <3>2, <3>3 DEF Entry
  <2>3. entry.id = nextId
    OBVIOUS
  <2>. HIDE DEF entry
  <2>4. /\ Len(timeline') = Len(timeline) + 1 - d
        /\ \A i \in 1..(Len(timeline) - d) : timeline'[i] = timeline[i + d]
        /\ timeline'[Len(timeline) + 1 - d] = entry
    <3>1. Shifted(Pushed(timeline, entry, TimelineCap), timeline, entry, d)
      BY <1>0, <2>2, PushedFacts
    <3>. HIDE DEF d
    <3>. QED  BY <2>1, <3>1 DEF Shifted
  <2>5. d \in {0, 1} /\ Len(timeline') <= TimelineCap
    BY <1>0, <2>4 DEF Bounds
  <2>. HIDE DEF d
  <2>6. ASSUME NEW i \in 1..Len(timeline')
        PROVE  timeline'[i].id = nextId' - (Len(timeline') + 1 - i)
    <3>1. CASE i = Len(timeline) + 1 - d
      <4>1. Len(timeline') = i
        BY <2>4, <3>1
      <4>2. nextId' - (i + 1 - i) = nextId
        BY <1>0, <2>1
      <4>. QED  BY <2>3, <2>4, <3>1, <4>1, <4>2
    <3>2. CASE i # Len(timeline) + 1 - d
      <4>1. i \in 1..(Len(timeline) - d) /\ i + d \in 1..Len(timeline)
        BY <1>0, <2>4, <2>5, <3>2
      <4>2. timeline'[i].id = nextId - (Len(timeline) + 1 - (i + d))
        BY <2>4, <4>1 DEF Bounds
      <4>3. nextId' - (Len(timeline') + 1 - i) = nextId - (Len(timeline) + 1 - (i + d))
        BY <1>0, <2>1, <2>4, <2>5
      <4>. QED  BY <4>2, <4>3
    <3>. QED  BY <3>1, <3>2
  <2>. QED  BY <1>1, <2>1, <2>5, <2>6 DEF Bounds
<1>11. CASE TakeStopped \/ EnrichStack \/ EnrichLocals \/ EnrichReadWatches \/ EnrichEvaluate \/ EnrichStore
  BY <1>3, <1>11 DEF TakeStopped, EnrichStack, EnrichLocals, EnrichReadWatches, EnrichEvaluate,
                     EnrichStore, session
<1>12. ASSUME NEW c \in Calls, Tool(c)
       PROVE  Bounds'
  <2>1. UNCHANGED <<timeline, nextId, console>>
    BY <1>12 DEF Tool, AddWatch, RemoveWatch, RemoveResult, ContextStack, ContextLocals,
       ContextValues, ContextDelta, CountLines, Continue, Poll, SetData, ClearData, Store, SendData, session
  <2>2. program' = program \/ program' = [program EXCEPT !.paused = FALSE]
    BY <1>12 DEF Tool, AddWatch, RemoveWatch, RemoveResult, ContextStack, ContextLocals,
       ContextValues, ContextDelta, CountLines, Continue, Poll, SetData, ClearData, Store, SendData
  <2>. QED  BY <1>0, <1>3, <2>1, <2>2
<1>. QED
  BY <1>4, <1>5, <1>6, <1>7, <1>8, <1>9, <1>10, <1>11, <1>12 DEF Next, Dispatch

-----------------------------------------------------------------------------
(* The stops on their way *)

(* An event goes to the end of the queue, or its head is taken. *)
LEMMA QueueAdd ==
  ASSUME Types, NEW e \in Event, events' = Append(events, e)
  PROVE  /\ Len(events) \in Nat /\ Len(events') = Len(events) + 1
         /\ \A i \in 1..Len(events') : i \in 1..Len(events) \/ i = Len(events')
         /\ \A i \in 1..Len(events) : events'[i] = events[i] /\ events[i] \in Event
         /\ events'[Len(events')] = e /\ events' # <<>>
BY DEF Types

LEMMA QueueTake ==
  ASSUME Types, events # <<>>, events' = Tail(events)
  PROVE  /\ Len(events) \in Nat \ {0} /\ Len(events') = Len(events) - 1
         /\ Head(events) = events[1] /\ events[1] \in Event /\ 1 \in 1..Len(events)
         /\ \A i \in 1..Len(events') : i + 1 \in 1..Len(events) /\ 1 < i + 1 /\ events'[i] = events[i + 1]
         /\ events' = <<>> => events[Len(events)] = events[1]
         /\ events' # <<>> => events'[Len(events')] = events[Len(events)]
<1>1. events \in Seq(Event) /\ events' \in Seq(Event)
  BY DEF Types
<1>2. /\ Len(events) \in Nat \ {0} /\ Len(events') = Len(events) - 1
      /\ Head(events) = events[1] /\ events[1] \in Event /\ 1 \in 1..Len(events)
      /\ \A i \in 1..Len(events') : i + 1 \in 1..Len(events) /\ 1 < i + 1 /\ events'[i] = events[i + 1]
  BY <1>1
<1>3. ASSUME events' = <<>>  PROVE events[Len(events)] = events[1]
  <2>1. ~(Len(events) > 1)
    <3>1. Len(events) > 1 => 1 \in 1..Len(events')
      BY <1>2
    <3>2. \A s \in Seq(Event) : 1 \in 1..Len(s) => s # <<>>
      OBVIOUS
    <3>. QED  BY <1>1, <1>3, <3>1, <3>2
  <2>2. Len(events) = 1
    BY <1>2, <2>1
  <2>. QED  BY <2>2
<1>4. ASSUME events' # <<>>  PROVE events'[Len(events')] = events[Len(events)]
  <2>1. Len(events') \in 1..Len(events') /\ Len(events') + 1 = Len(events)
    BY <1>1, <1>2, <1>4
  <2>. QED  BY <1>2, <2>1
<1>. QED
  BY <1>2, <1>3, <1>4

LEMMA StopsInOrderStep ==
  ASSUME IInv, MoreTypes, StopsInOrder, [Next]_vars
  PROVE  StopsInOrder'
<1>0. /\ Types /\ program.at \in Nat /\ program.printed \in Nat
      /\ DOMAIN program = {"paused", "at", "locals", "printed", "hits"}
      /\ seen.failed \in Nat /\ DOMAIN seen = {"dropped", "failed", "raced", "clashed"}
      /\ dispatcher.stop \in Nat /\ \A e \in Event : e[2] \in Nat
  BY DEF IInv, Types, Event
<1>1. ASSUME program'.at = program.at, seen'.failed = seen.failed, UNCHANGED <<events, dispatcher>>
      PROVE  StopsInOrder'
  BY <1>1 DEF StopsInOrder, IsStop
<1>2. CASE UNCHANGED vars
  BY <1>1, <1>2 DEF vars
<1>3. CASE Stop
  <2>1. /\ program'.at = program.at + 1 /\ events' = Append(events, <<"stopped", program.at + 1>>)
        /\ UNCHANGED <<dispatcher, seen>>
    BY <1>0, <1>3 DEF Stop
  <2>2. <<"stopped", program.at + 1>> \in Event
    BY <1>0 DEF Event
  <2>3. /\ Len(events) \in Nat /\ Len(events') = Len(events) + 1
        /\ \A i \in 1..Len(events') : i \in 1..Len(events) \/ i = Len(events')
        /\ \A i \in 1..Len(events) : events'[i] = events[i] /\ events[i] \in Event
        /\ events'[Len(events')] = <<"stopped", program.at + 1>>
    BY <1>0, <2>1, <2>2, QueueAdd
  <2>4. events'[Len(events')][2] = program.at + 1
    BY <2>3
  <2>5. seen'.failed <= program'.at /\ dispatcher'.stop <= program'.at
        /\ (dispatcher'.pc # "idle" => seen'.failed <= dispatcher'.stop)
    BY <1>0, <2>1 DEF StopsInOrder
  <2>6. ASSUME NEW i \in 1..Len(events'), IsStop(i)'
        PROVE  seen'.failed <= events'[i][2] /\ dispatcher'.stop <= events'[i][2]
               /\ events'[i][2] <= program'.at
    <3>1. CASE i \in 1..Len(events)
      <4>1. events'[i] = events[i] /\ events[i][2] \in Nat /\ IsStop(i)
        BY <1>0, <2>3, <2>6, <3>1 DEF IsStop
      <4>2. /\ seen.failed <= events[i][2] /\ dispatcher.stop <= events[i][2]
            /\ events[i][2] <= program.at
        BY <3>1, <4>1 DEF StopsInOrder
      <4>. QED  BY <1>0, <2>1, <4>1, <4>2
    <3>2. CASE i = Len(events')
      BY <1>0, <2>1, <2>4, <3>2 DEF StopsInOrder
    <3>. QED  BY <2>3, <3>1, <3>2
  <2>7. ASSUME NEW i \in 1..Len(events'), NEW j \in 1..Len(events'), IsStop(i)', IsStop(j)', i < j
        PROVE  events'[i][2] <= events'[j][2]
    <3>1. i \in 1..Len(events) /\ events'[i] = events[i] /\ IsStop(i) /\ events[i][2] \in Nat
      BY <1>0, <2>3, <2>7 DEF IsStop
    <3>2. CASE j \in 1..Len(events)
      <4>1. events'[j] = events[j] /\ IsStop(j)
        BY <2>3, <2>7, <3>2 DEF IsStop
      <4>. QED  BY <2>7, <3>1, <3>2, <4>1 DEF StopsInOrder
    <3>3. CASE j = Len(events')
      <4>1. events[i][2] <= program.at
        BY <3>1 DEF StopsInOrder
      <4>. QED  BY <1>0, <2>4, <3>1, <3>3, <4>1
    <3>. QED  BY <2>3, <3>2, <3>3
  <2>. QED  BY <2>5, <2>6, <2>7 DEF StopsInOrder
<1>4. CASE Output
  <2>. DEFINE n == program.printed + 1
  <2>1. /\ \E hits : program' = [program EXCEPT !.printed = n, !.hits = hits]
        /\ events' = Append(events, <<"output", n>>) /\ UNCHANGED <<dispatcher, seen>>
    BY <1>4 DEF Output
  <2>2. <<"output", n>> \in Event /\ program'.at = program.at
    BY <1>0, <2>1 DEF Event
  <2>. HIDE DEF n
  <2>3. /\ \A i \in 1..Len(events') : i \in 1..Len(events) \/ i = Len(events')
        /\ \A i \in 1..Len(events) : events'[i] = events[i]
        /\ events'[Len(events')] = <<"output", n>>
    BY <1>0, <2>1, <2>2, QueueAdd
  <2>4. events'[Len(events')][1] # "stopped"
    BY <2>3
  <2>5. ASSUME NEW i \in 1..Len(events'), IsStop(i)'
        PROVE  i \in 1..Len(events) /\ events'[i] = events[i] /\ IsStop(i)
    BY <2>3, <2>4, <2>5 DEF IsStop
  <2>. QED  BY <2>1, <2>2, <2>5 DEF StopsInOrder
<1>5. CASE Resume \/ Assign
  <2>1. UNCHANGED <<events, dispatcher, seen>>
    BY <1>5 DEF Resume, Assign
  <2>2. program'.at = program.at
    <3>1. \/ program' = [program EXCEPT !.paused = FALSE]
          \/ \E locals : program' = [program EXCEPT !.locals = locals]
      BY <1>5 DEF Resume, Assign
    <3>. QED  BY <1>0, <3>1
  <2>. QED  BY <1>1, <2>1, <2>2
<1>6. CASE TakeOutput \/ TakeStopped
  <2>1. /\ events # <<>> /\ events' = Tail(events) /\ program' = program /\ dispatcher.pc = "idle"
        /\ seen'.failed = seen.failed
    BY <1>0, <1>6 DEF TakeOutput, TakeStopped
  <2>2. /\ Head(events) = events[1] /\ events[1] \in Event /\ 1 \in 1..Len(events)
        /\ \A i \in 1..Len(events') : i + 1 \in 1..Len(events) /\ 1 < i + 1 /\ events'[i] = events[i + 1]
    BY <1>0, <2>1, QueueTake
  <2>3. ASSUME NEW i \in 1..Len(events'), IsStop(i)'
        PROVE  i + 1 \in 1..Len(events) /\ 1 < i + 1 /\ events'[i] = events[i + 1] /\ IsStop(i + 1)
    BY <2>2, <2>3 DEF IsStop
  <2>4. ASSUME NEW i \in 1..Len(events'), NEW j \in 1..Len(events'), IsStop(i)', IsStop(j)', i < j
        PROVE  events'[i][2] <= events'[j][2]
    <3>1. i + 1 < j + 1
      BY <2>4
    <3>. QED  BY <2>3, <2>4, <3>1 DEF StopsInOrder
  <2>5. CASE TakeOutput
    <3>1. dispatcher' = dispatcher
      BY <2>5 DEF TakeOutput
    <3>. QED  BY <2>1, <2>3, <2>4, <3>1 DEF StopsInOrder
  <2>6. CASE TakeStopped
    <3>1. dispatcher'.pc = "stack" /\ dispatcher'.stop = events[1][2] /\ IsStop(1)
      BY <1>0, <2>2, <2>6, TakenFacts DEF TakeStopped, IsStop
    <3>2. seen.failed <= events[1][2] /\ events[1][2] <= program.at
      BY <2>2, <3>1 DEF StopsInOrder
    <3>3. \A i \in 1..Len(events') : IsStop(i)' => events[1][2] <= events'[i][2]
      BY <2>2, <2>3, <3>1 DEF StopsInOrder
    <3>. QED  BY <2>1, <2>3, <2>4, <3>1, <3>2, <3>3 DEF StopsInOrder
  <2>. QED  BY <1>6, <2>5, <2>6
<1>7. CASE EnrichStack \/ EnrichLocals \/ EnrichPush \/ EnrichReadWatches \/ EnrichEvaluate \/ EnrichStore
  <2>1. UNCHANGED <<program, events>> /\ dispatcher.pc # "idle"
    BY <1>7 DEF EnrichStack, EnrichLocals, EnrichPush, EnrichReadWatches, EnrichEvaluate, EnrichStore
  <2>2. \/ dispatcher'.pc # "idle" /\ dispatcher'.stop = dispatcher.stop /\ seen' = seen
        \/ dispatcher' = Idle /\ (seen'.failed = seen.failed \/ seen'.failed = dispatcher.stop)
    <3>1. CASE EnrichStack \/ EnrichLocals
      <4>1. Failing \/ seen' = seen
        BY <1>0, <3>1, EnrichFacts
      <4>. QED  BY <1>0, <3>1, <4>1, EnrichFacts DEF Failing
    <3>2. CASE EnrichPush \/ EnrichReadWatches
      <4>1. seen' = seen
        BY <3>2 DEF EnrichPush, EnrichReadWatches
      <4>. QED  BY <1>0, <3>2, <4>1, EnrichFacts
    <3>3. CASE EnrichEvaluate
      BY <1>0, <3>3, EvaluateFacts DEF EnrichEvaluate
    <3>4. CASE EnrichStore
      BY <3>4 DEF EnrichStore
    <3>. QED  BY <1>7, <3>1, <3>2, <3>3, <3>4
  <2>3. CASE dispatcher'.pc # "idle" /\ dispatcher'.stop = dispatcher.stop /\ seen' = seen
    BY <2>1, <2>3 DEF StopsInOrder, IsStop
  <2>4. CASE dispatcher' = Idle /\ (seen'.failed = seen.failed \/ seen'.failed = dispatcher.stop)
    <3>1. dispatcher'.pc = "idle" /\ dispatcher'.stop = 0
      BY <2>4, IdleFacts
    <3>2. \A i \in 1..Len(events) : events[i][2] \in Nat
      BY <1>0 DEF Types
    <3>3. seen'.failed <= program'.at /\ dispatcher'.stop <= program'.at
      BY <1>0, <2>1, <2>4, <3>1 DEF StopsInOrder
    <3>4. ASSUME NEW i \in 1..Len(events'), IsStop(i)'
          PROVE  seen'.failed <= events'[i][2] /\ dispatcher'.stop <= events'[i][2]
                 /\ events'[i][2] <= program'.at
      BY <2>1, <2>4, <3>1, <3>2, <3>4 DEF StopsInOrder, IsStop
    <3>. QED  BY <2>1, <3>1, <3>3, <3>4 DEF StopsInOrder, IsStop
  <2>. QED  BY <2>2, <2>3, <2>4
<1>8. ASSUME NEW c \in Calls, Tool(c)
      PROVE  StopsInOrder'
  <2>1. UNCHANGED <<events, dispatcher>>
    BY <1>8 DEF Tool, AddWatch, RemoveWatch, RemoveResult, ContextStack, ContextLocals,
       ContextValues, ContextDelta, CountLines, Continue, Poll, SetData, ClearData, Store, SendData
  <2>2. \/ seen' = seen
        \/ \E raced : seen' = [seen EXCEPT !.raced = raced]
        \/ \E clashed : seen' = [seen EXCEPT !.clashed = clashed]
    BY <1>8 DEF Tool, AddWatch, RemoveWatch, RemoveResult, ContextStack, ContextLocals,
       ContextValues, ContextDelta, CountLines, Continue, Poll, SetData, ClearData, Store, SendData
  <2>3. program' = program \/ program' = [program EXCEPT !.paused = FALSE]
    BY <1>8 DEF Tool, AddWatch, RemoveWatch, RemoveResult, ContextStack, ContextLocals,
       ContextValues, ContextDelta, CountLines, Continue, Poll, SetData, ClearData, Store, SendData
  <2>. QED  BY <1>0, <1>1, <2>1, <2>2, <2>3
<1>. QED
  BY <1>2, <1>3, <1>4, <1>5, <1>6, <1>7, <1>8 DEF Next, Dispatch

-----------------------------------------------------------------------------
(* What is remembered of the last stop *)

(* The watches that are going change only when a removal begins or ends. *)
LEMMA GoingStays ==
  ASSUME UNCHANGED call \/ \A c \in Calls : Alike(call'[c], call[c])
  PROVE  Going' = Going
BY DEF Going, Alike

LEMMA GoingAlso ==
  ASSUME NEW c \in Calls, call[c].pc # "unwatch", \A o \in Calls \ {c} : Alike(call'[o], call[o])
  PROVE  Going \subseteq Going'
BY DEF Going, Alike

LEMMA GoingLess ==
  ASSUME NEW c \in Calls, call[c].pc = "unwatch", \A o \in Calls \ {c} : Alike(call'[o], call[o])
  PROVE  Going \subseteq Going' \cup {call[c].arg}
BY DEF Going, Alike

(* Raced is never forgotten. *)
LEMMA RacedStays ==
  ASSUME Types, MoreTypes, [Next]_vars
  PROVE  seen.raced => seen'.raced
<1>0. DOMAIN seen = {"dropped", "failed", "raced", "clashed"}
  BY DEF Types
<1>1. CASE UNCHANGED vars \/ Stop \/ Output \/ Resume \/ Assign \/ TakeOutput \/ TakeStopped
           \/ EnrichPush \/ EnrichReadWatches \/ EnrichEvaluate \/ EnrichStore
  BY <1>0, <1>1 DEF vars, Stop, Output, Resume, Assign, TakeOutput, TakeStopped, EnrichPush,
     EnrichReadWatches, EnrichEvaluate, EnrichStore
<1>2. CASE EnrichStack \/ EnrichLocals
  BY <1>2, EnrichFacts DEF Failing
<1>3. ASSUME NEW c \in Calls, Tool(c)
      PROVE  seen.raced => seen'.raced
  <2>1. CASE AddWatch(c)
    BY <1>0, <2>1 DEF AddWatch
  <2>2. CASE RemoveWatch(c)
    BY <1>0, <2>2 DEF RemoveWatch
  <2>3. CASE SetData(c) \/ ClearData(c)
    BY <1>0, <2>3 DEF SetData, ClearData, Store
  <2>4. CASE SendData(c)
    BY <1>0, <2>4 DEF SendData
  <2>. QED
    BY <1>3, <2>1, <2>2, <2>3, <2>4 DEF Tool, RemoveResult, ContextStack, ContextLocals,
       ContextValues, ContextDelta, CountLines, Continue, Poll
<1>. QED
  BY <1>1, <1>2, <1>3 DEF Next, Dispatch

(* A stop the session remembers, with the results of its watches. *)
Remembered ==
  /\ Entered
  /\ \A r \in results : seen.raced \/ r.expression \in Going \/ r.value = program.at

LEMMA LastStopStep ==
  ASSUME IInv, MoreTypes, StopsInOrder, LastStop, WatchesOK, [Next]_vars
  PROVE  LastStop'
<1>0. /\ Types /\ program.at \in Nat /\ seen.failed \in Nat /\ Frame \in Nat
      /\ DOMAIN program = {"paused", "at", "locals", "printed", "hits"}
  BY FrameType DEF IInv, Types
<1>1. seen.raced => seen'.raced
  BY <1>0, RacedStays
<1>2. CASE UNCHANGED vars
  BY <1>2 DEF vars, session, LastStop, Caught, Entered, Going
<1>3. CASE Stop
  <2>1. program'.at = program.at + 1 /\ events' = Append(events, <<"stopped", program.at + 1>>)
    BY <1>0, <1>3 DEF Stop
  <2>2. <<"stopped", program.at + 1>> \in Event
    BY <1>0 DEF Event
  <2>3. events'[Len(events')] = <<"stopped", program.at + 1>> /\ events' # <<>>
    BY <1>0, <2>1, <2>2, QueueAdd
  <2>. QED  BY <2>1, <2>3 DEF LastStop, Caught
<1>4. CASE Output
  <2>1. program'.paused = program.paused /\ ~program.paused
    <3>1. \E n, hits : program' = [program EXCEPT !.printed = n, !.hits = hits]
      BY <1>4 DEF Output
    <3>. QED  BY <1>0, <1>4, <3>1 DEF Output
  <2>. QED  BY <2>1 DEF LastStop, Caught
<1>5. CASE Resume
  <2>1. program'.paused = FALSE
    BY <1>0, <1>5 DEF Resume
  <2>. QED  BY <2>1 DEF LastStop, Caught
<1>6. CASE Assign
  <2>1. UNCHANGED <<events, dispatcher, session, call, seen>>
    BY <1>6 DEF Assign
  <2>2. program'.paused = program.paused /\ program'.at = program.at
    <3>1. \E locals : program' = [program EXCEPT !.locals = locals]
      BY <1>6 DEF Assign
    <3>. QED  BY <1>0, <3>1
  <2>. QED  BY <2>1, <2>2, GoingStays DEF LastStop, Caught, Entered, session
<1>7. CASE TakeOutput
  <2>1. /\ events # <<>> /\ events' = Tail(events) /\ Head(events)[1] = "output"
        /\ program' = program
    BY <1>7 DEF TakeOutput
  <2>2. /\ Head(events) = events[1]
        /\ events' = <<>> => events[Len(events)] = events[1]
        /\ events' # <<>> => events'[Len(events')] = events[Len(events)]
    BY <1>0, <2>1, QueueTake
  <2>3. program.paused => events[Len(events)] = <<"stopped", program.at>>
    BY <2>1 DEF LastStop
  <2>4. program.paused => events' # <<>>
    BY <2>1, <2>2, <2>3
  <2>. QED  BY <2>1, <2>2, <2>3, <2>4 DEF LastStop, Caught
<1>8. CASE TakeStopped
  <2>1. events # <<>> /\ events' = Tail(events) /\ program' = program
    BY <1>8 DEF TakeStopped
  <2>2. /\ Head(events) = events[1]
        /\ events' = <<>> => events[Len(events)] = events[1]
        /\ events' # <<>> => events'[Len(events')] = events[Len(events)]
    BY <1>0, <2>1, QueueTake
  <2>3. program.paused => events[Len(events)] = <<"stopped", program.at>>
    BY <2>1 DEF LastStop
  <2>4. dispatcher'.pc = "stack" /\ dispatcher'.stop = events[1][2]
    BY <1>0, <1>8, <2>2, TakenFacts
  <2>5. Caught' => dispatcher'.stop = program'.at
    BY <2>1, <2>2, <2>3, <2>4 DEF Caught
  <2>. QED  BY <2>1, <2>2, <2>3, <2>4, <2>5 DEF LastStop
<1>9. CASE EnrichStack \/ EnrichLocals \/ EnrichPush \/ EnrichReadWatches \/ EnrichEvaluate \/ EnrichStore
  <2>1. UNCHANGED <<program, events, call>> /\ dispatcher.pc # "idle"
    BY <1>9 DEF EnrichStack, EnrichLocals, EnrichPush, EnrichReadWatches, EnrichEvaluate,
                EnrichStore
  <2>2. (program'.paused /\ events' # <<>>) => events'[Len(events')] = <<"stopped", program'.at>>
    BY <2>1 DEF LastStop
  <2>3. Caught' = Caught /\ Going' = Going
    BY <2>1, GoingStays DEF Caught
  <2>. SUFFICES ASSUME Caught
       PROVE /\ dispatcher'.pc # "idle" => dispatcher'.stop = program.at
             /\ dispatcher'.pc \in {"locals", "push", "watches", "evaluate"} => dispatcher'.frame = program.at
             /\ dispatcher'.pc \in {"watches", "evaluate"} => Entered'
             /\ dispatcher'.pc = "evaluate" => \A r \in dispatcher'.new : r.value = program.at
             /\ dispatcher'.pc = "idle" /\ seen'.failed < program.at => Remembered'
    BY <2>1, <2>2, <2>3 DEF LastStop, Remembered
  <2>4. /\ dispatcher.stop = program.at /\ program.paused /\ Frame = program.at
        /\ dispatcher.pc \in {"locals", "push", "watches", "evaluate"} => dispatcher.frame = program.at
        /\ dispatcher.pc \in {"watches", "evaluate"} => Entered
        /\ dispatcher.pc = "evaluate" => \A r \in dispatcher.new : r.value = program.at
    BY <2>1 DEF LastStop, Caught, Frame
  <2>5. CASE Failing
    <3>1. dispatcher'.pc = "idle" /\ ~(seen'.failed < program.at)
      BY <1>0, <2>4, <2>5, IdleFacts DEF Failing
    <3>. QED  BY <3>1
  <2>6. CASE EnrichStack /\ ~Failing
    BY <1>0, <2>4, <2>6, EnrichFacts
  <2>7. CASE EnrichLocals /\ ~Failing
    <3>1. dispatcher.pc = "locals"
      BY <2>7 DEF EnrichLocals
    <3>. QED  BY <1>0, <2>4, <2>7, <3>1, EnrichFacts
  <2>8. CASE EnrichPush
    <3>. DEFINE entry == [id |-> nextId, stop |-> dispatcher.stop, vars |-> dispatcher.vars,
                          changed |-> Changed(PreviousVars, dispatcher.vars)]
                d == IF Len(timeline) < TimelineCap THEN 0 ELSE 1
    <3>1. /\ timeline' = Pushed(timeline, entry, TimelineCap) /\ dispatcher.pc = "push"
          /\ UNCHANGED <<results, watches>>
      BY <2>8 DEF EnrichPush
    <3>2. timeline \in Seq(Entry) /\ TimelineCap \in Nat \ {0} /\ entry \in Entry
          /\ entry.stop = program.at
      <4>1. PICK names \in SUBSET Names : dispatcher.vars \in [names -> Values]
        BY <1>0 DEF Types, Snapshots
      <4>2. Changed(PreviousVars, dispatcher.vars) \in SUBSET Names
        BY <4>1 DEF Changed
      <4>3. dispatcher.stop \in Nat /\ dispatcher.vars \in Snapshots /\ nextId \in Nat
        BY <1>0 DEF Types
      <4>. QED  BY <1>0, <2>4, <4>2, <4>3, SessionDataAssumption DEF Entry, Types
    <3>. HIDE DEF entry
    <3>3. timeline' \in Seq(Entry) /\ Shifted(timeline', timeline, entry, d)
      BY <3>1, <3>2, PushedFacts
    <3>. HIDE DEF d
    <3>4. Len(timeline') = Len(timeline) + 1 - d /\ timeline'[Len(timeline) + 1 - d] = entry
      BY <3>3 DEF Shifted
    <3>5. Len(timeline) \in Nat /\ d \in {0, 1} /\ (d = 1 => Len(timeline) > 0)
      BY <3>2 DEF d
    <3>6. timeline'[Len(timeline')].stop = program.at
      BY <3>2, <3>4
    <3>7. timeline' # <<>>
      <4>1. Len(timeline') > 0
        BY <3>4, <3>5
      <4>. QED  BY <4>1
    <3>8. Entered'
      BY <2>1, <3>6, <3>7 DEF Entered
    <3>. QED  BY <1>0, <2>4, <2>8, <3>1, <3>8, EnrichFacts
  <2>9. CASE EnrichReadWatches
    <3>1. UNCHANGED <<timeline, results, watches, seen>> /\ dispatcher.pc = "watches"
      BY <2>9 DEF EnrichReadWatches, session
    <3>2. Entered' = Entered
      BY <2>1, <3>1 DEF Entered
    <3>3. CASE watches = {} /\ dispatcher' = Idle
      <4>1. \A r \in results : seen.raced \/ r.expression \in Going
        BY <3>3 DEF WatchesOK
      <4>2. Remembered'
        BY <2>3, <2>4, <3>1, <3>2, <4>1 DEF Remembered
      <4>. QED  BY <3>3, <4>2, IdleFacts
    <3>4. CASE ~(watches = {} /\ dispatcher' = Idle)
      <4>1. /\ dispatcher'.pc = "evaluate" /\ dispatcher'.frame = dispatcher.frame
            /\ dispatcher'.stop = dispatcher.stop /\ dispatcher'.new = dispatcher.new
        BY <1>0, <2>9, <3>4, EnrichFacts
      <4>2. dispatcher.new = {}
        BY <3>1, <4>1 DEF MoreTypes
      <4>. QED  BY <2>4, <3>1, <3>2, <4>1, <4>2
    <3>. QED  BY <3>3, <3>4
  <2>10. CASE EnrichEvaluate
    <3>1. UNCHANGED <<timeline, results, seen>> /\ dispatcher.pc = "evaluate"
      BY <2>10 DEF EnrichEvaluate, session
    <3>2. Entered' = Entered
      BY <2>1, <3>1 DEF Entered
    <3>3. PICK w \in dispatcher.list :
            /\ dispatcher'.pc = "evaluate" /\ dispatcher'.stop = dispatcher.stop
            /\ dispatcher'.frame = dispatcher.frame
            /\ dispatcher'.new = dispatcher.new \cup {[expression |-> w, value |-> program.at]}
      BY <1>0, <2>4, <2>10, <3>1, EvaluateFacts
    <3>4. [expression |-> w, value |-> program.at].value = program.at
      OBVIOUS
    <3>5. \A r \in dispatcher'.new : r.value = program.at
      BY <2>4, <3>1, <3>3, <3>4
    <3>. QED  BY <2>4, <3>1, <3>2, <3>3, <3>5
  <2>11. CASE EnrichStore
    <3>1. /\ UNCHANGED timeline /\ results' = dispatcher.new /\ dispatcher' = Idle
          /\ dispatcher.pc = "evaluate"
      BY <2>11 DEF EnrichStore
    <3>2. Remembered'
      BY <2>1, <2>4, <3>1 DEF Entered, Remembered
    <3>. QED  BY <3>1, <3>2, IdleFacts
  <2>. QED  BY <1>9, <2>5, <2>6, <2>7, <2>8, <2>9, <2>10, <2>11
<1>10. ASSUME NEW c \in Calls, Tool(c)
       PROVE  LastStop'
  <2>1. UNCHANGED <<events, dispatcher, timeline>>
    BY <1>10 DEF Tool, AddWatch, RemoveWatch, RemoveResult, ContextStack, ContextLocals,
       ContextValues, ContextDelta, CountLines, Continue, Poll, SetData, ClearData, Store, SendData, session
  <2>2. \A o \in Calls \ {c} : Alike(call'[o], call[o])
    BY <1>0, <1>10, OtherCalls
  <2>3. CASE Continue(c)
    <3>1. program'.paused = FALSE
      BY <1>0, <2>3 DEF Continue
    <3>. QED  BY <3>1 DEF LastStop, Caught
  <2>4. CASE ~Continue(c)
    <3>1. program' = program
      BY <1>10, <2>4 DEF Tool, AddWatch, RemoveWatch, RemoveResult, ContextStack, ContextLocals,
         ContextValues, ContextDelta, CountLines, Poll, SetData, ClearData, Store, SendData
    <3>2. seen'.failed = seen.failed
      <4>1. \/ seen' = seen
            \/ \E raced : seen' = [seen EXCEPT !.raced = raced]
            \/ \E clashed : seen' = [seen EXCEPT !.clashed = clashed]
        BY <1>10, <2>4 DEF Tool, AddWatch, RemoveWatch, RemoveResult, ContextStack, ContextLocals,
           ContextValues, ContextDelta, CountLines, Poll, SetData, ClearData, Store, SendData
      <4>2. DOMAIN seen = {"dropped", "failed", "raced", "clashed"}
        BY <1>0 DEF Types
      <4>. QED  BY <4>1, <4>2
    <3>3. \A r \in results' : r \in results /\ (r.expression \in Going => r.expression \in Going')
      <4>1. CASE RemoveResult(c)
        <5>1. call[c].pc = "unwatch" /\ results' = {r \in results : r.expression # call[c].arg}
          BY <4>1 DEF RemoveResult, Finish
        <5>2. Going \subseteq Going' \cup {call[c].arg}
          BY <2>2, <5>1, GoingLess
        <5>. QED  BY <5>1, <5>2
      <4>2. CASE ~RemoveResult(c)
        <5>1. results' = results
          BY <1>10, <2>4, <4>2 DEF Tool, AddWatch, RemoveWatch, ContextStack, ContextLocals,
             ContextValues, ContextDelta, CountLines, Poll, SetData, ClearData, Store, SendData, session
        <5>2. call[c].pc # "unwatch"
          BY <1>10, <2>4, <4>2 DEF Tool, AddWatch, RemoveWatch, ContextStack, ContextLocals, Finish,
             ContextValues, ContextDelta, CountLines, Poll, SetData, ClearData, Store, SendData
        <5>3. Going \subseteq Going'
          BY <2>2, <5>2, GoingAlso
        <5>. QED  BY <5>1, <5>3
      <4>. QED  BY <4>1, <4>2
    <3>4. Caught' = Caught /\ Entered' = Entered
      BY <2>1, <3>1 DEF Caught, Entered
    <3>5. ASSUME Caught, dispatcher.pc = "idle", seen.failed < program.at
          PROVE  /\ Entered
                 /\ \A r \in results' : seen'.raced \/ r.expression \in Going' \/ r.value = program.at
      BY <1>1, <3>3, <3>5 DEF LastStop
    <3>6. (program.paused /\ events # <<>>) => events[Len(events)] = <<"stopped", program.at>>
      BY DEF LastStop
    <3>7. ASSUME Caught
          PROVE  /\ dispatcher.pc # "idle" => dispatcher.stop = program.at
                 /\ dispatcher.pc \in {"locals", "push", "watches", "evaluate"} => dispatcher.frame = program.at
                 /\ dispatcher.pc \in {"watches", "evaluate"} => Entered
                 /\ dispatcher.pc = "evaluate" => \A r \in dispatcher.new : r.value = program.at
      BY <3>7 DEF LastStop
    <3>. QED  BY <2>1, <3>1, <3>2, <3>4, <3>5, <3>6, <3>7 DEF LastStop
  <2>. QED  BY <2>3, <2>4
<1>. QED
  BY <1>2, <1>3, <1>4, <1>5, <1>6, <1>7, <1>8, <1>9, <1>10 DEF Next, Dispatch

-----------------------------------------------------------------------------
(* The lists *)

LEMMA WatchesStep ==
  ASSUME IInv, MoreTypes, WatchesOK, [Next]_vars
  PROVE  WatchesOK'
<1>0. Types /\ DOMAIN seen = {"dropped", "failed", "raced", "clashed"}
  BY DEF IInv, Types
<1>. SUFFICES ASSUME ~seen'.raced  PROVE WatchesOK'
  BY DEF WatchesOK
<1>1. /\ ~seen.raced
      /\ \A r \in results : r.expression \in watches \cup Going
      /\ dispatcher.pc = "evaluate" =>
           dispatcher.list \subseteq watches /\ \A r \in dispatcher.new : r.expression \in watches
  BY <1>0, RacedStays DEF WatchesOK
<1>2. CASE UNCHANGED vars
  BY <1>1, <1>2 DEF vars, session, WatchesOK, Going
<1>3. CASE Stop \/ Output \/ Resume \/ Assign \/ TakeOutput
  <2>1. UNCHANGED <<watches, results, dispatcher>>
    BY <1>3 DEF Stop, Output, Resume, Assign, TakeOutput, session
  <2>2. Going' = Going
    <3>1. CASE Resume
      <4>1. \A c \in Calls : Alike(call'[c], call[c])
        BY <1>0, <3>1, ResumedCalls DEF Resume
      <4>. QED  BY <4>1, GoingStays
    <3>2. CASE ~Resume
      BY <1>3, <3>2, GoingStays DEF Stop, Output, Assign, TakeOutput
    <3>. QED  BY <3>1, <3>2
  <2>. QED  BY <1>1, <2>1, <2>2 DEF WatchesOK
<1>4. CASE Dispatch /\ ~TakeOutput
  <2>1. UNCHANGED <<watches, call>> /\ Going' = Going
    BY <1>4, GoingStays DEF Dispatch, TakeStopped, EnrichStack, EnrichLocals, EnrichPush, EnrichReadWatches,
                EnrichEvaluate, EnrichStore, session
  <2>2. CASE TakeStopped
    <3>1. results' = results /\ dispatcher'.pc = "stack"
      BY <1>0, <2>2, TakenFacts DEF TakeStopped, session
    <3>. QED  BY <1>1, <2>1, <3>1 DEF WatchesOK
  <2>3. CASE EnrichStack \/ EnrichLocals \/ EnrichPush
    <3>1. results' = results
      BY <2>3 DEF EnrichStack, EnrichLocals, EnrichPush, session
    <3>2. dispatcher'.pc # "evaluate"
      BY <1>0, <2>3, EnrichFacts, IdleFacts DEF Failing
    <3>. QED  BY <1>1, <2>1, <3>1, <3>2 DEF WatchesOK
  <2>4. CASE EnrichReadWatches
    <3>1. results' = results /\ dispatcher.new = {}
      BY <2>4 DEF EnrichReadWatches, session, MoreTypes
    <3>2. dispatcher'.pc = "evaluate" => dispatcher'.list = watches /\ dispatcher'.new = dispatcher.new
      BY <1>0, <2>4, EnrichFacts, IdleFacts
    <3>. QED  BY <1>1, <2>1, <3>1, <3>2 DEF WatchesOK
  <2>5. CASE EnrichEvaluate
    <3>1. results' = results /\ dispatcher.pc = "evaluate"
      BY <2>5 DEF EnrichEvaluate, session
    <3>2. PICK w \in dispatcher.list, value \in Nat :
            /\ dispatcher'.list = dispatcher.list \ {w}
            /\ dispatcher'.new = dispatcher.new \cup {[expression |-> w, value |-> value]}
      BY <1>0, <2>5, EvaluateFacts, FrameType
    <3>3. [expression |-> w, value |-> value].expression = w
      OBVIOUS
    <3>4. \A r \in dispatcher'.new : r.expression \in watches
      BY <1>1, <3>1, <3>2, <3>3
    <3>. QED  BY <1>1, <2>1, <3>1, <3>2, <3>4 DEF WatchesOK
  <2>6. CASE EnrichStore
    <3>1. results' = dispatcher.new /\ dispatcher' = Idle /\ dispatcher.pc = "evaluate"
      BY <2>6 DEF EnrichStore
    <3>. QED  BY <1>1, <2>1, <3>1, IdleFacts DEF WatchesOK
  <2>. QED  BY <1>4, <2>2, <2>3, <2>4, <2>5, <2>6 DEF Dispatch
<1>5. ASSUME NEW c \in Calls, Tool(c)
      PROVE  WatchesOK'
  <2>1. \A o \in Calls \ {c} : Alike(call'[o], call[o])
    BY <1>0, <1>5, OtherCalls
  <2>2. dispatcher' = dispatcher
    BY <1>5 DEF Tool, AddWatch, RemoveWatch, RemoveResult, ContextStack, ContextLocals,
       ContextValues, ContextDelta, CountLines, Continue, Poll, SetData, ClearData, Store, SendData
  <2>3. CASE RemoveResult(c)
    <3>1. /\ call[c].pc = "unwatch" /\ results' = {r \in results : r.expression # call[c].arg}
          /\ watches' = watches
      BY <2>3 DEF RemoveResult, Finish
    <3>2. Going \subseteq Going' \cup {call[c].arg}
      BY <2>1, <3>1, GoingLess
    <3>3. \A r \in results' : r.expression \in watches' \cup Going'
      BY <1>1, <3>1, <3>2
    <3>. QED  BY <1>1, <2>2, <3>1, <3>3 DEF WatchesOK
  <2>4. CASE ~RemoveResult(c)
    <3>1. call[c].pc # "unwatch" /\ results' = results
      BY <1>5, <2>4 DEF Tool, AddWatch, RemoveWatch, ContextStack, ContextLocals, Finish, Continue,
         ContextValues, ContextDelta, CountLines, Poll, SetData, ClearData, Store, SendData, session
    <3>2. Going \subseteq Going'
      BY <2>1, <3>1, GoingAlso
    <3>3. CASE RemoveWatch(c)
      <4>1. PICK w \in Watches : /\ watches' = watches \ {w}
                                 /\ call' = [call EXCEPT ![c].pc = "unwatch", ![c].arg = w]
        BY <3>3 DEF RemoveWatch
      <4>2. w \in Going'
        <5>1. call'[c].pc = "unwatch" /\ call'[c].arg = w
          BY <1>0, <4>1, WatchCalls
        <5>. QED  BY <5>1 DEF Going
      <4>3. dispatcher.pc # "evaluate"
        BY <1>0, <3>3 DEF RemoveWatch
      <4>. QED  BY <1>1, <2>2, <3>1, <3>2, <4>1, <4>2, <4>3 DEF WatchesOK
    <3>4. CASE ~RemoveWatch(c)
      <4>1. watches \subseteq watches'
        BY <1>5, <2>4, <3>4 DEF Tool, AddWatch, ContextStack, ContextLocals, Continue,
           ContextValues, ContextDelta, CountLines, Poll, SetData, ClearData, Store, SendData, session
      <4>. QED  BY <1>1, <2>2, <3>1, <3>2, <4>1 DEF WatchesOK
    <3>. QED  BY <3>3, <3>4
  <2>. QED  BY <2>3, <2>4
<1>. QED
  BY <1>2, <1>3, <1>4, <1>5 DEF Next, Dispatch

LEMMA DataStep ==
  ASSUME IInv, MoreTypes, DataOK, [Next]_vars
  PROVE  DataOK'
<1>0. Types /\ DOMAIN seen = {"dropped", "failed", "raced", "clashed"}
  BY DEF IInv, Types
<1>1. ASSUME seen'.clashed = seen.clashed, UNCHANGED <<dataBps, adapterBps>>,
             \A c \in Calls : (Sending(c)' <=> Sending(c)) /\ (Sending(c) => call'[c].list = call[c].list)
      PROVE  DataOK'
  BY <1>1 DEF DataOK
<1>2. CASE UNCHANGED vars
  BY <1>1, <1>2 DEF vars, session, Sending
<1>3. CASE Stop \/ Output \/ Assign \/ Dispatch
  <2>1. UNCHANGED <<dataBps, adapterBps, call>>
    BY <1>3 DEF Stop, Output, Assign, Dispatch, TakeOutput, TakeStopped, EnrichStack, EnrichLocals,
       EnrichPush, EnrichReadWatches, EnrichEvaluate, EnrichStore, session
  <2>2. seen'.clashed = seen.clashed
    <3>1. CASE EnrichStack \/ EnrichLocals
      BY <1>0, <3>1, EnrichFacts DEF Failing
    <3>2. CASE ~(EnrichStack \/ EnrichLocals)
      BY <1>0, <1>3, <3>2 DEF Stop, Output, Assign, Dispatch, TakeOutput, TakeStopped,
         EnrichPush, EnrichReadWatches, EnrichEvaluate, EnrichStore
    <3>. QED  BY <3>1, <3>2
  <2>. QED  BY <1>1, <2>1, <2>2 DEF Sending
<1>4. CASE Resume
  <2>1. \A c \in Calls : Alike(call'[c], call[c])
    BY <1>0, <1>4, ResumedCalls DEF Resume
  <2>. QED  BY <1>1, <1>4, <2>1 DEF Resume, session, Sending, Alike
<1>5. ASSUME NEW c \in Calls, Tool(c)
      PROVE  DataOK'
  <2>1. \A o \in Calls \ {c} : Alike(call'[o], call[o])
    BY <1>0, <1>5, OtherCalls
  <2>2. \A o \in Calls \ {c} : (Sending(o)' <=> Sending(o)) /\ call'[o].list = call[o].list
    BY <2>1 DEF Alike, Sending
  <2>3. CASE ~(SetData(c) \/ ClearData(c) \/ SendData(c))
    <3>1. UNCHANGED <<dataBps, adapterBps>> /\ seen'.clashed = seen.clashed
      BY <1>0, <1>5, <2>3 DEF Tool, AddWatch, RemoveWatch, RemoveResult, ContextStack, ContextLocals,
         ContextValues, ContextDelta, CountLines, Continue, Poll, session
    <3>2. ~Sending(c) /\ ~Sending(c)'
      <4>0. Over("done").pc = "done"
        BY DEF Over, NoCall
      <4>1. CASE AddWatch(c) \/ RemoveResult(c)
        BY <1>0, <4>0, <4>1, OverCalls DEF AddWatch, RemoveResult, Sending
      <4>2. CASE RemoveWatch(c)
        BY <1>0, <4>2, WatchCalls DEF RemoveWatch, Sending
      <4>3. CASE ContextStack(c) \/ ContextLocals(c) \/ ContextValues(c) \/ ContextDelta(c)
        <5>1. call'[c].pc # "send"
          BY <1>0, <4>3, ContextCalls
        <5>. QED  BY <4>3, <5>1 DEF ContextStack, ContextLocals, ContextValues, ContextDelta, Sending
      <4>4. CASE CountLines(c) \/ Continue(c) \/ Poll(c)
        BY <1>0, <4>4, CountCalls DEF Sending
      <4>. QED  BY <1>5, <2>3, <4>1, <4>2, <4>3, <4>4 DEF Tool
    <3>3. \A o \in Calls : (Sending(o)' <=> Sending(o)) /\ (Sending(o) => call'[o].list = call[o].list)
      BY <2>2, <3>2
    <3>. QED  BY <1>1, <3>1, <3>3
  <2>4. CASE SetData(c) \/ ClearData(c)
    <3>1. PICK list : Store(c, list)
      BY <2>4 DEF SetData, ClearData
    <3>2. call'[c].list = list /\ dataBps' = list /\ Sending(c)'
      BY <1>0, <3>1, StoreCalls DEF Sending
    <3>. SUFFICES ASSUME ~seen'.clashed  PROVE DataOK'
      BY DEF DataOK
    <3>3. ~Clash(c)
      BY <1>0, <3>1 DEF Store
    <3>4. \A o \in Calls \ {c} : ~Sending(o)'
      BY <2>2, <3>3 DEF Clash, Sending
    <3>. QED  BY <3>2, <3>4 DEF DataOK
  <2>5. CASE SendData(c)
    <3>1. Sending(c) /\ ~Sending(c)' /\ dataBps' = dataBps
      <4>1. Over("done").pc = "done"
        BY DEF Over, NoCall
      <4>. QED  BY <1>0, <2>5, <4>1, OverCalls DEF SendData, Sending, session
    <3>2. CASE seen' = [seen EXCEPT !.clashed = TRUE]
      BY <1>0, <3>2 DEF DataOK
    <3>3. CASE adapterBps' = call[c].list /\ seen' = seen
      <4>. SUFFICES ASSUME ~seen.clashed  PROVE DataOK'
        BY <3>3 DEF DataOK
      <4>1. adapterBps' = dataBps'
        BY <3>1, <3>3 DEF DataOK
      <4>2. \A o \in Calls : ~Sending(o)'
        BY <2>2, <3>1 DEF DataOK
      <4>. QED  BY <4>1, <4>2 DEF DataOK
    <3>. QED  BY <2>5, <3>2, <3>3 DEF SendData
  <2>. QED  BY <2>3, <2>4, <2>5
<1>. QED
  BY <1>2, <1>3, <1>4, <1>5 DEF Next

-----------------------------------------------------------------------------
(* The contexts *)

(* The last stop whose enrichment failed is never an earlier one. *)
LEMMA FailedGrows ==
  ASSUME IInv, MoreTypes, StopsInOrder, [Next]_vars
  PROVE  seen'.failed \in Nat /\ seen.failed <= seen'.failed
<1>0. /\ Types /\ DOMAIN seen = {"dropped", "failed", "raced", "clashed"} /\ seen.failed \in Nat
      /\ dispatcher.stop \in Nat
  BY DEF IInv, Types
<1>1. CASE EnrichStack \/ EnrichLocals
  <2>1. Failing \/ seen' = seen
    BY <1>0, <1>1, EnrichFacts
  <2>2. dispatcher.pc # "idle"
    BY <1>1 DEF EnrichStack, EnrichLocals
  <2>. QED  BY <1>0, <2>1, <2>2 DEF Failing, StopsInOrder
<1>2. CASE ~(EnrichStack \/ EnrichLocals)
  <2>1. CASE UNCHANGED vars \/ Stop \/ Output \/ Resume \/ Assign \/ Dispatch
    <3>1. seen' = seen \/ \E n : seen' = [seen EXCEPT !.dropped = n]
      BY <1>2, <2>1 DEF vars, Stop, Output, Resume, Assign, Dispatch, TakeOutput, TakeStopped,
         EnrichPush, EnrichReadWatches, EnrichEvaluate, EnrichStore
    <3>2. seen'.failed = seen.failed
      BY <1>0, <3>1
    <3>. QED  BY <1>0, <3>2
  <2>2. ASSUME NEW c \in Calls, Tool(c)
        PROVE  seen'.failed = seen.failed
    <3>1. \/ seen' = seen
          \/ \E raced : seen' = [seen EXCEPT !.raced = raced]
          \/ \E clashed : seen' = [seen EXCEPT !.clashed = clashed]
      BY <2>2 DEF Tool, AddWatch, RemoveWatch, RemoveResult, ContextStack, ContextLocals,
         ContextValues, ContextDelta, CountLines, Continue, Poll, SetData, ClearData, Store, SendData
    <3>. QED  BY <1>0, <3>1
  <2>. QED  BY <1>0, <2>1, <2>2 DEF Next
<1>. QED
  BY <1>1, <1>2

(* A call that stays as it is keeps its context, if the program stays      *)
(* where it is while the context is put together.                          *)
LEMMA ContextKept ==
  ASSUME IInv, MoreTypes, StopsInOrder, [Next]_vars, NEW CONSTANT new, NEW CONSTANT old,
         ContextOK(old), Alike(new, old), old.context.stack \in Nat,
         new.pc \in {"context", "collect", "delta"} =>
           Caught' /\ dispatcher'.pc = "idle" /\ program'.at = program.at
  PROVE  ContextOK(new)'
<1>1. seen.raced => seen'.raced
  BY RacedStays DEF IInv
<1>2. seen.failed \in Nat /\ seen'.failed \in Nat /\ seen.failed <= seen'.failed
  BY FailedGrows DEF IInv, Types
<1>3. seen'.failed < old.context.stack => seen.failed < old.context.stack
  BY <1>2
<1>4. new.pc = old.pc /\ new.context = old.context
  BY DEF Alike
<1>. QED
  BY <1>1, <1>3, <1>4 DEF ContextOK

(* While a context is put together, neither the program nor the dispatcher *)
(* makes a step, but for the assignment of a variable.                     *)
LEMMA QuietStep ==
  ASSUME IInv, MoreTypes, Caught, dispatcher.pc = "idle", [Next]_vars, ~Resume,
         \A c \in Calls : ~Continue(c)
  PROVE  Caught' /\ dispatcher'.pc = "idle" /\ program'.at = program.at
<1>0. DOMAIN program = {"paused", "at", "locals", "printed", "hits"} /\ program.paused /\ events = <<>>
  BY DEF IInv, Types, Caught
<1>1. ~Stop /\ ~Output /\ ~Dispatch
  BY <1>0 DEF Stop, Output, Dispatch, TakeOutput, TakeStopped, EnrichStack, EnrichLocals, EnrichPush,
     EnrichReadWatches, EnrichEvaluate, EnrichStore
<1>2. \/ UNCHANGED vars \/ Assign
      \/ \E c \in Calls : Tool(c)
  BY <1>1 DEF Next
<1>3. UNCHANGED <<events, dispatcher>>
      /\ (program' = program \/ \E locals : program' = [program EXCEPT !.locals = locals])
  <2>1. CASE UNCHANGED vars \/ Assign
    BY <2>1 DEF vars, Assign
  <2>2. ASSUME NEW c \in Calls, Tool(c)
        PROVE  UNCHANGED <<program, events, dispatcher>>
    BY <2>2 DEF Tool, AddWatch, RemoveWatch, RemoveResult, ContextStack, ContextLocals,
       ContextValues, ContextDelta, CountLines, Poll, SetData, ClearData, Store, SendData
  <2>. QED  BY <1>2, <2>1, <2>2
<1>4. program'.paused /\ program'.at = program.at
  BY <1>0, <1>3
<1>. QED
  BY <1>0, <1>3, <1>4 DEF Caught

LEMMA ContextsStep ==
  ASSUME IInv, MoreTypes, StopsInOrder, LastStop, WatchesOK, ContextsOK, [Next]_vars
  PROVE  ContextsOK'
<1>. SUFFICES ASSUME NEW c \in Calls, call'[c].calm  PROVE ContextOK(call[c])'
  BY DEF ContextsOK
<1>. DEFINE building == {"context", "collect", "delta"}
<1>0. /\ Types /\ program.at \in Nat /\ seen.failed \in Nat
      /\ call[c].context.stack \in Nat
  BY DEF IInv, Types, MoreTypes
<1>1. PICK new : new = call'[c]
  OBVIOUS
<1>2. PICK old : old = call[c]
  OBVIOUS
<1>. SUFFICES ContextOK(new)'
  BY <1>1 DEF ContextOK
(* Nobody resumes a program whose calm context is being put together. *)
<1>3. ASSUME Alike(new, old), new.pc \in building =>
               Caught' /\ dispatcher'.pc = "idle" /\ program'.at = program.at
      PROVE  ContextOK(new)'
  <2>1. old.calm
    BY <1>1, <1>3 DEF Alike
  <2>2. ContextOK(old)
    BY <1>2, <2>1 DEF ContextsOK
  <2>. QED  BY <1>0, <1>2, <1>3, <2>2, ContextKept
<1>4. ASSUME old.calm, old.pc \in building
      PROVE  Caught /\ dispatcher.pc = "idle" /\ old.context.stack = program.at
  BY <1>2, <1>4 DEF ContextsOK, ContextOK
<1>5. CASE Resume
  <2>1. Alike(new, old) /\ (new.calm => old.pc \notin building)
    BY <1>0, <1>1, <1>2, <1>5, ResumedCalls DEF Resume
  <2>2. new.pc \notin building
    BY <1>1, <2>1 DEF Alike
  <2>. QED  BY <1>3, <2>1, <2>2
<1>6. ASSUME NEW o \in Calls, Continue(o)
      PROVE  ContextOK(new)'
  <2>1. CASE o = c
    <3>1. new.pc \notin {"context", "collect", "delta", "context done"}
      BY <1>0, <1>1, <1>6, <2>1, CountCalls
    <3>. QED  BY <3>1 DEF ContextOK
  <2>2. CASE o # c
    <3>1. call'[c] = Resumed(call)[c]
      <4>1. call' = [Resumed(call) EXCEPT ![o].pc = "poll"] /\ DOMAIN Resumed(call) = Calls
        BY <1>6 DEF Continue, Resumed
      <4>. QED  BY <2>2, <4>1
    <3>2. Alike(new, old) /\ (new.calm => old.pc \notin building)
      BY <1>0, <1>1, <1>2, <3>1, ResumedCalls
    <3>3. new.pc \notin building
      BY <1>1, <3>2 DEF Alike
    <3>. QED  BY <1>3, <3>2, <3>3
  <2>. QED  BY <2>1, <2>2
<1>7. CASE ~Resume /\ \A o \in Calls : ~Continue(o)
  <2>1. ASSUME old.calm, old.pc \in building
        PROVE  Caught' /\ dispatcher'.pc = "idle" /\ program'.at = program.at
    BY <1>4, <1>7, <2>1, QuietStep
  <2>2. CASE Alike(new, old)
    <3>1. new.pc = old.pc /\ old.calm
      BY <1>1, <2>2 DEF Alike
    <3>. QED  BY <1>3, <2>1, <2>2, <3>1
  <2>3. CASE ~Alike(new, old)
    <3>1. Tool(c)
      <4>1. call' # call
        BY <1>1, <1>2, <2>3 DEF Alike
      <4>2. PICK o \in Calls : Tool(o)
        BY <1>7, <4>1 DEF Next, vars, Stop, Output, Assign, Dispatch, TakeOutput, TakeStopped,
           EnrichStack, EnrichLocals, EnrichPush, EnrichReadWatches, EnrichEvaluate, EnrichStore
      <4>3. o = c
        BY <1>0, <1>1, <1>2, <2>3, <4>2, OtherCalls
      <4>. QED  BY <4>2, <4>3
    <3>2. CASE ContextStack(c)
      <4>1. /\ new.pc = "context" /\ new.context.stack = Frame
            /\ Settled /\ program.paused
        BY <1>0, <1>1, <3>2, ContextCalls
      <4>2. Caught /\ dispatcher.pc = "idle" /\ Frame = program.at
        BY <4>1, IdleFacts DEF Settled, Caught, Frame
      <4>3. Caught' /\ dispatcher'.pc = "idle" /\ program'.at = program.at
        BY <1>7, <4>2, QuietStep
      <4>. QED  BY <4>1, <4>2, <4>3 DEF ContextOK
    <3>3. CASE ContextLocals(c)
      <4>1. /\ new.pc = "collect" /\ new.context.stack = old.context.stack
            /\ new.context.locals \in Locals(old.context.stack)
            /\ old.calm /\ old.pc = "context"
        BY <1>0, <1>1, <1>2, <3>3, ContextCalls DEF ContextLocals
      <4>2. Caught /\ old.context.stack = program.at
        BY <1>4, <4>1
      <4>3. new.context.locals = new.context.stack
        BY <4>1, <4>2 DEF Locals, Caught
      <4>4. Caught' /\ dispatcher'.pc = "idle" /\ new.context.stack = program'.at
        BY <2>1, <4>1, <4>2
      <4>. QED  BY <4>1, <4>3, <4>4 DEF ContextOK
    <3>4. CASE ContextValues(c)
      <4>1. /\ new.pc = "delta" /\ new.context.stack = old.context.stack
            /\ new.context.locals = old.context.locals
            /\ new.context.values = results /\ new.context.going = Going
            /\ old.calm /\ old.pc = "collect"
        BY <1>0, <1>1, <1>2, <3>4, ContextCalls DEF ContextValues
      <4>2. Caught /\ dispatcher.pc = "idle" /\ old.context.stack = program.at
        BY <1>4, <4>1
      <4>3. new.context.locals = new.context.stack
        BY <1>2, <4>1 DEF ContextsOK, ContextOK
      <4>4. Caught' /\ dispatcher'.pc = "idle" /\ new.context.stack = program'.at
        BY <2>1, <4>1, <4>2
      <4>5. seen' = seen
        BY <3>4 DEF ContextValues
      <4>6. seen.failed < new.context.stack =>
              \A r \in new.context.values :
                seen.raced \/ r.expression \in new.context.going \/ r.value = new.context.stack
        BY <4>1, <4>2 DEF LastStop
      <4>. QED  BY <4>1, <4>3, <4>4, <4>5, <4>6 DEF ContextOK
    <3>5. CASE ContextDelta(c)
      <4>1. /\ new.pc = "context done" /\ new.context.stack = old.context.stack
            /\ new.context.locals = old.context.locals
            /\ new.context.values = old.context.values /\ new.context.going = old.context.going
            /\ new.context.last = IF timeline = <<>> THEN 0 ELSE timeline[Len(timeline)].stop
            /\ old.calm /\ old.pc = "delta"
        BY <1>0, <1>1, <1>2, <3>5, ContextCalls DEF ContextDelta
      <4>2. Caught /\ dispatcher.pc = "idle" /\ old.context.stack = program.at
        BY <1>4, <4>1
      <4>3. ContextOK(old)
        BY <1>2, <4>1 DEF ContextsOK
      <4>4. seen' = seen
        BY <3>5 DEF ContextDelta
      <4>5. seen.failed < new.context.stack => new.context.last = new.context.stack
        BY <4>1, <4>2 DEF LastStop, Entered
      <4>. QED  BY <4>1, <4>3, <4>4, <4>5 DEF ContextOK
    <3>6. CASE CountLines(c) \/ Poll(c)
      <4>1. new.pc \notin {"context", "collect", "delta", "context done"}
        BY <1>0, <1>1, <3>6, CountCalls
      <4>. QED  BY <4>1 DEF ContextOK
    <3>7. CASE AddWatch(c) \/ RemoveResult(c) \/ SendData(c)
      <4>1. new = Over("done")
        BY <1>0, <1>1, <3>7, OverCalls DEF AddWatch, RemoveResult, SendData
      <4>. QED  BY <4>1 DEF ContextOK, Over, NoCall
    <3>8. CASE RemoveWatch(c)
      <4>1. new.pc = "unwatch"
        BY <1>0, <1>1, <3>8, WatchCalls DEF RemoveWatch
      <4>. QED  BY <4>1 DEF ContextOK
    <3>9. CASE SetData(c) \/ ClearData(c)
      <4>1. new.pc = "send"
        BY <1>0, <1>1, <3>9, StoreCalls DEF SetData, ClearData
      <4>. QED  BY <4>1 DEF ContextOK
    <3>. QED  BY <1>7, <3>1, <3>2, <3>3, <3>4, <3>5, <3>6, <3>7, <3>8, <3>9 DEF Tool
  <2>. QED  BY <2>2, <2>3
<1>. QED
  BY <1>5, <1>6, <1>7

LEMMA NextSInv == SInv /\ [Next]_vars => SInv'
BY NextIInv, MoreTypesStep, BoundsStep, StopsInOrderStep, LastStopStep, WatchesStep, DataStep,
   ContextsStep DEF SInv

LEMMA StrongInvariance == Spec => []SInv
<1>1. Init => SInv
  BY InitIInv, InitMore DEF SInv
<1>. QED
  BY <1>1, NextSInv, PTL DEF Spec

(* A context that get_debug_context put together while the program stayed  *)
(* paused, of a session that had handled everything, is of one stop, for   *)
(* any number of calls, watches and stops (tools.rs 569-718).              *)
THEOREM ContextsCoherent == Spec => []ContextCoherent
<1>1. SInv => ContextCoherent
  BY DEF SInv, ContextsOK, ContextOK, ContextCoherent
<1>. QED
  BY <1>1, StrongInvariance, PTL

(* Between calls the results are of watches there are, unless a removal    *)
(* raced with an enrichment (session.rs 1160-1179), and the adapter has    *)
(* the data breakpoints that the session lists, unless two calls clashed   *)
(* (tools.rs 345-361).                                                     *)
THEOREM ListsAgree == Spec => []ListsSettle
<1>1. SInv => ListsSettle
  <2>. SUFFICES ASSUME SInv  PROVE ListsSettle
    OBVIOUS
  <2>1. (\A c \in Calls : call[c].pc # "unwatch") => Going = {}
    BY DEF Going
  <2>2. ~seen.raced /\ (\A c \in Calls : call[c].pc # "unwatch") =>
          \A r \in results : r.expression \in watches
    BY <2>1 DEF SInv, WatchesOK
  <2>3. ~seen.clashed /\ (\A c \in Calls : call[c].pc # "send") => adapterBps = dataBps
    BY DEF SInv, DataOK, Sending
  <2>. QED  BY <2>2, <2>3 DEF ListsSettle
<1>. QED
  BY <1>1, StrongInvariance, PTL

(* The buffers stay within their capacities, and the entries of the        *)
(* timeline and the lines of the console are numbered without a gap.       *)
THEOREM DataTypes == Spec => []TypeOK
<1>1. SInv => TypeOK
  <2>. SUFFICES ASSUME SInv  PROVE TypeOK
    OBVIOUS
  <2>1. Types /\ LinesOK /\ MoreTypes /\ Bounds
    BY DEF SInv, IInv
  <2>2. /\ program.paused \in BOOLEAN /\ program.at \in 0..StopBound /\ program.locals \in Snapshots
        /\ program.printed \in 0..MaxLines /\ program.hits \subseteq 1..program.printed
    BY <2>1, SessionDataAssumption DEF Types, Bounds, StopBound
  <2>3. /\ Positions = 1..Len(timeline) /\ DOMAIN console = 1..Len(console)
    BY <2>1 DEF Types, Positions
  <2>4. /\ \A i \in Positions : timeline[i].id = nextId - (Len(timeline) + 1 - i)
        /\ Len(timeline) <= TimelineCap /\ Len(console) <= ConsoleCap
    BY <2>1, <2>3 DEF Bounds
  <2>5. \A i \in DOMAIN console : console[i] = seen.dropped + i
    BY <2>1, <2>3 DEF LinesOK
  <2>. QED  BY <2>1, <2>2, <2>4, <2>5 DEF TypeOK, MoreTypes
<1>. QED
  BY <1>1, StrongInvariance, PTL
=============================================================================
