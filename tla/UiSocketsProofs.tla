-------------------------- MODULE UiSocketsProofs --------------------------
(***************************************************************************)
(* For any number of sessions and sockets, whatever the server announces,  *)
(* forgets and restarts: the UI shows one of the sessions it lists, and a  *)
(* session has one socket unless it was pruned while it had one.           *)
(***************************************************************************)
EXTENDS UiSockets, FiniteSetTheorems, WellFoundedInduction, TLAPS

-----------------------------------------------------------------------------
(* Least and greatest elements *)

LEMMA LeastExists ==
  ASSUME NEW set, set \subseteq Nat, set # {}
  PROVE  \E i \in set : \A j \in set : i <= j
<1>1. PICK i \in set : \A j \in set : ~(<<j, i>> \in OpToRel(<, Nat))
  BY NatLessThanWellFounded, WFMin
<1>2. ASSUME NEW j \in set, j < i  PROVE FALSE
  <2>1. <<j, i>> \in Nat \X Nat /\ <<j, i>>[1] = j /\ <<j, i>>[2] = i
    OBVIOUS
  <2>2. <<j, i>>[1] < <<j, i>>[2]
    BY <1>2, <2>1
  <2>3. <<j, i>> \in OpToRel(<, Nat)
    BY <2>1, <2>2 DEF OpToRel
  <2>. QED  BY <1>1, <2>3
<1>. QED
  BY <1>2

LEMMA GreatestExists ==
  ASSUME NEW n \in Nat, NEW set, set \subseteq 1..n, set # {}
  PROVE  \E i \in set : \A j \in set : j <= i
<1>. DEFINE mirrored == {n - i : i \in set}
<1>1. mirrored \subseteq Nat /\ mirrored # {}
  <2>1. ASSUME NEW i \in set  PROVE n - i \in Nat
    <3>1. i \in 1..n
      OBVIOUS
    <3>. QED  BY <3>1
  <2>2. PICK i \in set : TRUE
    OBVIOUS
  <2>3. n - i \in mirrored
    OBVIOUS
  <2>. QED  BY <2>1, <2>3
<1>2. PICK m \in mirrored : \A k \in mirrored : m <= k
  BY <1>1, LeastExists
<1>3. PICK i \in set : m = n - i
  OBVIOUS
<1>4. ASSUME NEW j \in set  PROVE j <= i
  <2>1. n - i <= n - j
    BY <1>2, <1>3
  <2>. QED  BY <2>1
<1>. QED
  BY <1>4

-----------------------------------------------------------------------------
(* The inductive invariant *)

Limit == [names : SUBSET Ids, starts : Nat, crashes : Nat, ends : Nat, user : SUBSET {"launch", "select"}]
Socket == [pc : {"none", "connecting", "open", "waiting"}, inbox : Seq(Frames), cut : BOOLEAN]
Sockets == [Ids -> [Copies -> Socket]]
Senders == [Ids -> {0} \cup Copies]

ServerOK ==
  /\ server \in [up : BOOLEAN, listed : SUBSET Ids, pending : SUBSET Ids, limit : Limit]
  /\ hub \in [Ids -> Seq(Frames)]
  /\ submitted \subseteq Ids
  /\ poll # None => poll \in [ids : SUBSET Ids]

UiOK ==
  /\ sessions \subseteq Ids /\ pollKnown \subseteq sessions /\ ended \subseteq sessions
  /\ orphaned \subseteq Ids
  /\ sender \in Senders /\ \A x \in Ids : sender[x] # 0 <=> x \in sessions
  /\ socket \in Sockets
  /\ ActiveListed

(* A socket of a session is the one its commands are sent on. *)
Own(x) == \A n \in Copies : socket[x][n].pc # "none" => n = sender[x]

OwnOK == \A x \in Ids \ orphaned : Own(x)

IInv == ServerOK /\ UiOK /\ OwnOK

LEMMA CopiesFacts == Copies \subseteq Nat \ {0}
BY UiSocketsAssumption DEF Copies

LEMMA SocketFacts ==
  /\ NoSocket \in Socket
  /\ \A pc \in {"connecting", "open", "waiting"} :
       [NoSocket EXCEPT !.pc = pc] \in Socket /\ [NoSocket EXCEPT !.pc = pc].pc = pc
<1>1. <<>> \in Seq(Frames) /\ FALSE \in BOOLEAN
  OBVIOUS
<1>2. NoSocket \in Socket
  BY <1>1 DEF NoSocket, Socket
<1>. QED
  BY <1>2 DEF Socket

LEMMA FrameFacts ==
  ASSUME NEW frame \in Frames
  PROVE  frame[2] \in Ids
<1>1. \A x \in Ids : Launched(x)[2] = x /\ Terminated(x)[2] = x
  BY DEF Launched, Terminated
<1>. QED
  BY <1>1 DEF Frames

-----------------------------------------------------------------------------
(* The Effect *)

(* A listed session without a sender gets a socket that is not in use, and *)
(* nothing else changes but for the active session when there is none.     *)
OpenedSockets(list, senders, sockets) ==
  /\ sessions' = list
  /\ sender' \in Senders /\ socket' \in Sockets
  /\ \A x \in Ids : sender'[x] # 0 <=> x \in list
  /\ \A x \in Ids :
       \/ sender'[x] = senders[x] /\ socket'[x] = sockets[x]
       \/ /\ senders[x] = 0
          /\ \A n \in Copies : n # sender'[x] => socket'[x][n] = sockets[x][n]

OpenedActive(list, current, senders) ==
  \/ current = None /\ active' \in list
  \/ active' = current /\ (current = None => \A x \in list : senders[x] # 0)

LEMMA OpenedFacts ==
  ASSUME NEW list, list \subseteq Ids, NEW current, NEW senders \in Senders, NEW sockets \in Sockets,
         \A x \in Ids : senders[x] # 0 => x \in list,
         Opened(list, current, senders, sockets)
  PROVE  OpenedSockets(list, senders, sockets) /\ OpenedActive(list, current, senders)
<1>. DEFINE new == {x \in list : senders[x] = 0}
            copy(x) == CHOOSE n \in Free(sockets, x) : \A o \in Free(sockets, x) : n <= o
<1>1. /\ \A x \in new : Free(sockets, x) # {}
      /\ sessions' = list
      /\ sender' = [x \in Ids |-> IF x \in new THEN copy(x) ELSE senders[x]]
      /\ socket' = [x \in Ids |-> [n \in Copies |->
           IF x \in new /\ n = copy(x) THEN [NoSocket EXCEPT !.pc = "connecting"] ELSE sockets[x][n]]]
      /\ IF current = None /\ new # {} THEN active' \in new ELSE active' = current
  BY DEF Opened
<1>2. ASSUME NEW x \in new
      PROVE  copy(x) \in Copies /\ copy(x) # 0
  <2>1. Free(sockets, x) \subseteq Copies /\ Free(sockets, x) # {}
    BY <1>1 DEF Free
  <2>2. Free(sockets, x) \subseteq Nat
    BY <2>1, CopiesFacts
  <2>3. \E n \in Free(sockets, x) : \A o \in Free(sockets, x) : n <= o
    BY <2>1, <2>2, LeastExists
  <2>4. copy(x) \in Free(sockets, x)
    BY <2>3
  <2>. HIDE DEF copy
  <2>. QED  BY <2>1, <2>4, CopiesFacts
<1>. HIDE DEF copy
<1>3. [NoSocket EXCEPT !.pc = "connecting"] \in Socket
  BY SocketFacts
<1>4. socket' \in Sockets
  <2>1. \A x \in Ids, n \in Copies :
          (IF x \in new /\ n = copy(x) THEN [NoSocket EXCEPT !.pc = "connecting"] ELSE sockets[x][n]) \in Socket
    BY <1>3 DEF Sockets
  <2>. QED  BY <1>1, <2>1 DEF Sockets
<1>5. sender' \in Senders
  BY <1>1, <1>2 DEF Senders
<1>6. ASSUME NEW x \in Ids
      PROVE  sender'[x] # 0 <=> x \in list
  BY <1>1, <1>2
<1>7. ASSUME NEW x \in Ids
      PROVE  \/ sender'[x] = senders[x] /\ socket'[x] = sockets[x]
             \/ /\ senders[x] = 0
                /\ \A n \in Copies : n # sender'[x] => socket'[x][n] = sockets[x][n]
  <2>1. CASE x \in new
    BY <1>1, <2>1
  <2>2. CASE x \notin new
    <3>1. socket'[x] = [n \in Copies |-> sockets[x][n]] /\ sender'[x] = senders[x]
      BY <1>1, <2>2
    <3>2. sockets[x] \in [Copies -> Socket]
      BY DEF Sockets
    <3>3. sockets[x] = [n \in Copies |-> sockets[x][n]]
      BY <3>2
    <3>. QED  BY <3>1, <3>3
  <2>. QED  BY <2>1, <2>2
<1>8. \/ current = None /\ active' \in list
      \/ active' = current /\ (current = None => \A x \in list : senders[x] # 0)
  BY <1>1
<1>. QED
  BY <1>1, <1>4, <1>5, <1>6, <1>7, <1>8 DEF OpenedSockets, OpenedActive

(* After the Effect: one socket for each session that had one at most, and *)
(* that one its sender's.                                                  *)
LEMMA OpenedOwn ==
  ASSUME NEW list, list \subseteq Ids, NEW current, NEW senders \in Senders, NEW sockets \in Sockets,
         \A x \in Ids : senders[x] # 0 => x \in list,
         Opened(list, current, senders, sockets),
         orphaned \subseteq orphaned',
         \A x \in Ids \ orphaned' : \A n \in Copies : sockets[x][n].pc # "none" => n = senders[x]
  PROVE  OwnOK'
<1>. SUFFICES ASSUME NEW x \in Ids \ orphaned', NEW n \in Copies, socket'[x][n].pc # "none"
              PROVE  n = sender'[x]
  BY DEF OwnOK, Own
<1>0. OpenedSockets(list, senders, sockets)
  BY OpenedFacts
<1>1. \/ sender'[x] = senders[x] /\ socket'[x] = sockets[x]
      \/ senders[x] = 0 /\ (n # sender'[x] => socket'[x][n] = sockets[x][n])
  BY <1>0 DEF OpenedSockets
<1>2. CASE sender'[x] = senders[x] /\ socket'[x] = sockets[x]
  BY <1>2
<1>3. CASE senders[x] = 0 /\ (n # sender'[x] => socket'[x][n] = sockets[x][n])
  <2>1. n # 0
    BY CopiesFacts
  <2>. QED  BY <1>3, <2>1
<1>. QED
  BY <1>1, <1>2, <1>3

LEMMA UpdatedFacts ==
  ASSUME UiOK, NEW x \in Ids, NEW n \in Copies, NEW new \in Socket
  PROVE  /\ Updated(x, n, new) \in Sockets
         /\ \A y \in Ids, o \in Copies :
              Updated(x, n, new)[y][o] = IF y = x /\ o = n THEN new ELSE socket[y][o]
<1>1. socket \in Sockets
  BY DEF UiOK
<1>2. Updated(x, n, new) = [socket EXCEPT ![x] = [socket[x] EXCEPT ![n] = new]]
  BY DEF Updated
<1>3. socket[x] \in [Copies -> Socket]
  BY <1>1 DEF Sockets
<1>4. [socket[x] EXCEPT ![n] = new] \in [Copies -> Socket]
  BY <1>3
<1>5. Updated(x, n, new) \in Sockets
  BY <1>1, <1>2, <1>4 DEF Sockets
<1>6. ASSUME NEW y \in Ids, NEW o \in Copies
      PROVE  Updated(x, n, new)[y][o] = IF y = x /\ o = n THEN new ELSE socket[y][o]
  <2>1. CASE y = x
    <3>1. Updated(x, n, new)[y] = [socket[x] EXCEPT ![n] = new]
      BY <1>1, <1>2, <2>1 DEF Sockets
    <3>. QED  BY <1>3, <2>1, <3>1
  <2>2. CASE y # x
    BY <1>1, <1>2, <2>2 DEF Sockets
  <2>. QED  BY <2>1, <2>2
<1>. QED
  BY <1>5, <1>6

-----------------------------------------------------------------------------
(* The server *)

LEMMA BroadcastFacts ==
  ASSUME IInv, NEW xs, NEW frame \in Frames, Broadcast(xs, frame)
  PROVE  /\ hub' \in [Ids -> Seq(Frames)] /\ socket' \in Sockets
         /\ \A x \in Ids, n \in Copies : socket'[x][n].pc = socket[x][n].pc
<1>1. hub \in [Ids -> Seq(Frames)] /\ socket \in Sockets
  BY DEF IInv, ServerOK, UiOK
<1>2. hub' \in [Ids -> Seq(Frames)]
  <2>1. \A x \in Ids : (IF x \in xs THEN Append(hub[x], frame) ELSE hub[x]) \in Seq(Frames)
    BY <1>1
  <2>. QED  BY <2>1 DEF Broadcast
<1>3. ASSUME NEW x \in Ids, NEW n \in Copies
      PROVE  LET got == IF x \in xs /\ socket[x][n].pc = "open" /\ ~socket[x][n].cut
                        THEN [socket[x][n] EXCEPT !.inbox = Append(@, frame)] ELSE socket[x][n]
             IN got \in Socket /\ got.pc = socket[x][n].pc
  <2>1. socket[x][n] \in Socket
    BY <1>1 DEF Sockets
  <2>2. Append(socket[x][n].inbox, frame) \in Seq(Frames)
    BY <2>1 DEF Socket
  <2>. QED  BY <2>1, <2>2 DEF Socket
<1>. QED
  BY <1>2, <1>3 DEF Broadcast, Sockets

(* Nothing the server does touches what the UI keeps, and only frames      *)
(* arrive at its sockets, or their ends.                                   *)
LEMMA ServerStep ==
  ASSUME IInv, Start \/ Announce \/ End \/ Remove \/ Crash \/ Boot
  PROVE  IInv'
<1>1. UNCHANGED <<ui, poll, orphaned>>
  BY DEF Start, Announce, End, Remove, Crash, Boot
<1>2. server \in [up : BOOLEAN, listed : SUBSET Ids, pending : SUBSET Ids, limit : Limit]
  BY DEF IInv, ServerOK
<1>3. server' \in [up : BOOLEAN, listed : SUBSET Ids, pending : SUBSET Ids, limit : Limit]
  <2>1. CASE Start
    <3>1. PICK x \in server.limit.names :
            server' = [server EXCEPT !.listed = @ \cup {x}, !.pending = @ \cup {x}, !.limit.starts = @ - 1]
      BY <2>1 DEF Start
    <3>0. server.limit \in Limit
      BY <1>2
    <3>a. server.limit.starts \in Nat /\ server.limit.names \subseteq Ids
      BY <3>0 DEF Limit
    <3>b. server.limit.starts > 0
      BY <2>1 DEF Start
    <3>2. server.limit \in Limit /\ server.limit.starts - 1 \in Nat /\ x \in Ids
      BY <3>0, <3>a, <3>b
    <3>3. [server.limit EXCEPT !.starts = server.limit.starts - 1] \in Limit
      BY <3>2 DEF Limit
    <3>4. server' = [server EXCEPT !.listed = server.listed \cup {x}, !.pending = server.pending \cup {x},
                                   !.limit = [server.limit EXCEPT !.starts = server.limit.starts - 1]]
      BY <1>2, <3>1
    <3>. QED  BY <1>2, <3>2, <3>3, <3>4
  <2>2. CASE Announce
    <3>1. PICK x : server' = [server EXCEPT !.pending = @ \ {x}]
      BY <2>2 DEF Announce
    <3>. QED  BY <1>2, <3>1
  <2>3. CASE End
    <3>1. server' = [server EXCEPT !.limit = [server.limit EXCEPT !.ends = server.limit.ends - 1]]
      BY <1>2, <2>3 DEF End
    <3>2. server.limit \in Limit /\ server.limit.ends - 1 \in Nat
      BY <1>2, <2>3 DEF Limit, End
    <3>3. [server.limit EXCEPT !.ends = server.limit.ends - 1] \in Limit
      BY <3>2 DEF Limit
    <3>. QED  BY <1>2, <3>1, <3>3
  <2>4. CASE Remove
    <3>1. PICK x : server' = [server EXCEPT !.listed = @ \ {x}]
      BY <2>4 DEF Remove
    <3>. QED  BY <1>2, <3>1
  <2>5. CASE Crash
    <3>1. server' = [server EXCEPT !.up = FALSE, !.listed = {}, !.pending = {},
                       !.limit = [server.limit EXCEPT !.crashes = server.limit.crashes - 1]]
      BY <1>2, <2>5 DEF Crash
    <3>2. server.limit \in Limit /\ server.limit.crashes - 1 \in Nat
      BY <1>2, <2>5 DEF Limit, Crash
    <3>3. [server.limit EXCEPT !.crashes = server.limit.crashes - 1] \in Limit
      BY <3>2 DEF Limit
    <3>. QED  BY <1>2, <3>1, <3>3
  <2>6. CASE Boot
    BY <1>2, <2>6 DEF Boot
  <2>. QED  BY <2>1, <2>2, <2>3, <2>4, <2>5, <2>6
<1>4. /\ hub' \in [Ids -> Seq(Frames)] /\ socket' \in Sockets
      /\ \A x \in Ids, n \in Copies : socket'[x][n].pc = socket[x][n].pc
  <2>1. CASE Announce
    <3>1. PICK x \in Ids : Broadcast(server.listed, Launched(x))
      BY <1>2, <2>1 DEF Announce
    <3>2. Launched(x) \in Frames
      BY DEF Frames
    <3>. QED  BY <3>1, <3>2, BroadcastFacts
  <2>2. CASE End
    <3>1. PICK x \in Ids : Broadcast({x}, Terminated(x))
      BY <1>2, <2>2 DEF End
    <3>2. Terminated(x) \in Frames
      BY DEF Frames
    <3>. QED  BY <3>1, <3>2, BroadcastFacts
  <2>3. CASE Crash
    <3>1. /\ hub' = [x \in Ids |-> <<>>]
          /\ socket' = [x \in Ids |-> [n \in Copies |->
               [socket[x][n] EXCEPT !.cut = @ \/ socket[x][n].pc = "open"]]]
      BY <2>3 DEF Crash
    <3>2. ASSUME NEW x \in Ids, NEW n \in Copies
          PROVE  LET got == [socket[x][n] EXCEPT !.cut = @ \/ socket[x][n].pc = "open"]
                 IN got \in Socket /\ got.pc = socket[x][n].pc
      <4>1. socket[x][n] \in Socket
        BY DEF IInv, UiOK, Sockets
      <4>2. (socket[x][n].cut \/ socket[x][n].pc = "open") \in BOOLEAN
        OBVIOUS
      <4>. QED  BY <4>1, <4>2 DEF Socket
    <3>3. <<>> \in Seq(Frames)
      OBVIOUS
    <3>. QED  BY <3>1, <3>2, <3>3 DEF Sockets
  <2>4. CASE Start \/ Remove \/ Boot
    BY <2>4 DEF Start, Remove, Boot, IInv, ServerOK, UiOK
  <2>. QED  BY <2>1, <2>2, <2>3, <2>4
<1>5. submitted' \subseteq Ids
  BY <1>2 DEF Start, Announce, End, Remove, Crash, Boot, IInv, ServerOK
<1>6. ServerOK'
  BY <1>1, <1>3, <1>4, <1>5 DEF IInv, ServerOK
<1>7. UiOK'
  BY <1>1, <1>4 DEF IInv, UiOK, ui, ActiveListed
<1>8. OwnOK'
  BY <1>1, <1>4 DEF IInv, OwnOK, Own, ui
<1>. QED
  BY <1>6, <1>7, <1>8 DEF IInv

-----------------------------------------------------------------------------
(* The callbacks *)

LEMMA HandleEnvelopesStep ==
  ASSUME IInv, NEW frames \in Seq(Frames), NEW sockets \in Sockets,
         \A x \in Ids, n \in Copies : sockets[x][n].pc # "none" => socket[x][n].pc # "none",
         HandleEnvelopes(frames, sockets),
         UNCHANGED <<server, hub, pollKnown, poll, submitted, orphaned>>
  PROVE  IInv'
<1>. DEFINE ids == {frames[i][2] : i \in DOMAIN frames}
            launches == {i \in DOMAIN frames : frames[i] = Launched(frames[i][2])}
            last == CHOOSE i \in launches : \A j \in launches : j <= i
            current == IF launches # {} THEN frames[last][2]
                       ELSE IF active = None /\ frames # <<>> THEN frames[1][2] ELSE active
<1>1. /\ Opened(sessions \cup ids, current, sender, sockets)
      /\ ended' = ended \cup {x \in ids : \E i \in DOMAIN frames : frames[i] = Terminated(x)}
  BY DEF HandleEnvelopes
<1>2. DOMAIN frames = 1..Len(frames) /\ Len(frames) \in Nat
  OBVIOUS
<1>3. ids \subseteq Ids
  BY <1>2, FrameFacts
<1>4. launches # {} => last \in launches
  <2>1. launches \subseteq 1..Len(frames)
    BY <1>2
  <2>2. launches # {} => \E i \in launches : \A j \in launches : j <= i
    BY <1>2, <2>1, GreatestExists
  <2>. QED  BY <2>2
<1>. HIDE DEF last
<1>5. current \in ids \/ current = active
  <2>1. CASE launches # {}
    BY <1>4, <2>1
  <2>2. CASE launches = {} /\ active = None /\ frames # <<>>
    <3>1. 1 \in DOMAIN frames
      BY <1>2, <2>2
    <3>. QED  BY <2>2, <3>1
  <2>. QED  BY <2>1, <2>2
<1>. HIDE DEF current
<1>6. /\ sessions \subseteq Ids /\ sender \in Senders /\ \A x \in Ids : sender[x] # 0 <=> x \in sessions
      /\ pollKnown \subseteq sessions /\ ended \subseteq sessions /\ ActiveListed
  BY DEF IInv, UiOK
<1>7. sessions \cup ids \subseteq Ids /\ \A x \in Ids : sender[x] # 0 => x \in sessions \cup ids
  BY <1>3, <1>6
<1>. HIDE DEF ids
<1>8. /\ sessions' = sessions \cup ids /\ sender' \in Senders /\ socket' \in Sockets
      /\ \A x \in Ids : sender'[x] # 0 <=> x \in sessions \cup ids
      /\ \/ current = None /\ active' \in sessions \cup ids
         \/ active' = current /\ (current = None => \A x \in sessions \cup ids : sender[x] # 0)
  <2>1. OpenedSockets(sessions \cup ids, sender, sockets) /\ OpenedActive(sessions \cup ids, current, sender)
    BY <1>1, <1>6, <1>7, OpenedFacts
  <2>. QED  BY <2>1 DEF OpenedSockets, OpenedActive
<1>9. ActiveListed'
  <2>1. current \in sessions \cup ids \/ current = None
    BY <1>5, <1>6 DEF ActiveListed
  <2>2. active \in sessions \/ sessions = {}
    BY <1>6 DEF ActiveListed
  <2>3. None \notin Ids
    BY UiSocketsAssumption
  <2>4. CASE active' \in sessions \cup ids
    BY <1>8, <2>4 DEF ActiveListed
  <2>5. CASE active' \notin sessions \cup ids
    <3>1. active' = None /\ current = None /\ \A x \in sessions \cup ids : sender[x] # 0
      BY <1>8, <2>1, <2>5
    <3>2. active = None
      BY <1>5, <1>7, <2>3, <3>1
    <3>3. sessions = {}
      BY <1>6, <2>2, <2>3, <3>2
    <3>4. sessions \cup ids = {}
      BY <1>6, <1>7, <3>1, <3>3
    <3>. QED  BY <1>8, <3>1, <3>4 DEF ActiveListed
  <2>. QED  BY <2>4, <2>5
<1>10. UiOK'
  BY <1>1, <1>6, <1>7, <1>8, <1>9 DEF UiOK, IInv
<1>11. OwnOK'
  <2>1. \A x \in Ids \ orphaned' : \A n \in Copies : sockets[x][n].pc # "none" => n = sender[x]
    BY DEF IInv, OwnOK, Own
  <2>. QED  BY <1>1, <1>6, <1>7, <2>1, OpenedOwn
<1>12. ServerOK'
  BY DEF IInv, ServerOK
<1>. QED
  BY <1>10, <1>11, <1>12 DEF IInv

LEMMA CallbackStep ==
  ASSUME IInv, NEW x \in Ids, NEW n \in Copies, Callback(x, n)
  PROVE  IInv'
<1>. DEFINE s == socket[x][n]
<1>1. s \in Socket /\ socket \in Sockets /\ hub[x] \in Seq(Frames)
  BY DEF IInv, ServerOK, UiOK, Sockets
<1>2. UiOK
  BY DEF IInv
<1>3. CASE OnOpen(x, n)
  <2>. DEFINE new == [NoSocket EXCEPT !.pc = "open"]
  <2>1. new \in Socket
    BY SocketFacts
  <2>2. /\ Updated(x, n, new) \in Sockets
        /\ \A y \in Ids, o \in Copies : Updated(x, n, new)[y][o] = IF y = x /\ o = n THEN new ELSE socket[y][o]
    BY <1>2, <2>1, UpdatedFacts
  <2>3. HandleEnvelopes(hub[x], Updated(x, n, new)) /\ s.pc # "none"
        /\ UNCHANGED <<server, hub, pollKnown, poll, submitted, orphaned>>
    BY <1>3 DEF OnOpen
  <2>. HIDE DEF new
  <2>4. \A y \in Ids, o \in Copies : Updated(x, n, new)[y][o].pc # "none" => socket[y][o].pc # "none"
    BY <2>2, <2>3
  <2>. QED  BY <1>1, <2>2, <2>3, <2>4, HandleEnvelopesStep
<1>4. CASE OnMessage(x, n)
  <2>. DEFINE new == [s EXCEPT !.inbox = Tail(s.inbox)]
              frames == <<Head(s.inbox)>>
  <2>1. s.inbox \in Seq(Frames) /\ s.inbox # <<>>
    BY <1>1, <1>4 DEF Socket, OnMessage
  <2>2. Tail(s.inbox) \in Seq(Frames) /\ Head(s.inbox) \in Frames
    BY <2>1
  <2>3. new \in Socket /\ new.pc = s.pc /\ frames \in Seq(Frames)
    BY <1>1, <2>2 DEF Socket
  <2>4. HandleEnvelopes(frames, Updated(x, n, new))
        /\ UNCHANGED <<server, hub, pollKnown, poll, submitted, orphaned>>
    BY <1>4 DEF OnMessage
  <2>. HIDE DEF new, frames
  <2>5. /\ Updated(x, n, new) \in Sockets
        /\ \A y \in Ids, o \in Copies : Updated(x, n, new)[y][o] = IF y = x /\ o = n THEN new ELSE socket[y][o]
    BY <1>2, <2>3, UpdatedFacts
  <2>6. \A y \in Ids, o \in Copies : Updated(x, n, new)[y][o].pc # "none" => socket[y][o].pc # "none"
    BY <2>3, <2>5
  <2>. QED  BY <2>3, <2>4, <2>5, <2>6, HandleEnvelopesStep
<1>5. CASE OnClose(x, n)
  <2>. DEFINE new == [NoSocket EXCEPT !.pc = "waiting"]
  <2>1. new \in Socket
    BY SocketFacts
  <2>2. /\ Updated(x, n, new) \in Sockets
        /\ \A y \in Ids, o \in Copies : Updated(x, n, new)[y][o] = IF y = x /\ o = n THEN new ELSE socket[y][o]
    BY <1>2, <2>1, UpdatedFacts
  <2>3. socket' = Updated(x, n, new) /\ s.pc # "none"
        /\ UNCHANGED <<server, hub, ui, poll, submitted, orphaned>>
    BY <1>5 DEF OnClose
  <2>. HIDE DEF new
  <2>4. \A y \in Ids, o \in Copies : socket'[y][o].pc # "none" => socket[y][o].pc # "none"
    BY <2>2, <2>3
  <2>5. UiOK'
    BY <2>2, <2>3 DEF IInv, UiOK, ui, ActiveListed
  <2>6. OwnOK'
    BY <2>3, <2>4 DEF IInv, OwnOK, Own, ui
  <2>. QED  BY <2>3, <2>5, <2>6 DEF IInv, ServerOK
<1>6. CASE Retry(x, n)
  <2>1. /\ Updated(x, n, NoSocket) \in Sockets
        /\ \A y \in Ids, o \in Copies :
             Updated(x, n, NoSocket)[y][o] = IF y = x /\ o = n THEN NoSocket ELSE socket[y][o]
    BY <1>2, SocketFacts, UpdatedFacts
  <2>2. /\ s.pc # "none" /\ UNCHANGED <<server, hub, pollKnown, ended, poll, submitted, orphaned>>
        /\ NoSocket.pc = "none"
    BY <1>6 DEF Retry, NoSocket
  <2>3. \A y \in Ids, o \in Copies : Updated(x, n, NoSocket)[y][o].pc # "none" =>
          socket[y][o].pc # "none" /\ ~(y = x /\ o = n)
    BY <2>1, <2>2
  <2>4. ServerOK'
    BY <2>2 DEF IInv, ServerOK
  <2>5. CASE x \in ended
    <3>1. socket' = Updated(x, n, NoSocket) /\ UNCHANGED <<sessions, active, sender>>
      BY <1>6, <2>5 DEF Retry
    <3>2. UiOK'
      BY <2>1, <2>2, <3>1 DEF IInv, UiOK, ActiveListed
    <3>3. OwnOK'
      BY <2>2, <2>3, <3>1 DEF IInv, OwnOK, Own
    <3>. QED  BY <2>4, <3>2, <3>3 DEF IInv
  <2>6. CASE x \notin ended
    <3>. DEFINE senders == [sender EXCEPT ![x] = 0]
    <3>1. Opened(sessions, active, senders, Updated(x, n, NoSocket))
      BY <1>6, <2>6 DEF Retry
    <3>2. /\ sessions \subseteq Ids /\ sender \in Senders /\ senders \in Senders
          /\ \A y \in Ids : senders[y] = IF y = x THEN 0 ELSE sender[y]
          /\ \A y \in Ids : sender[y] # 0 <=> y \in sessions
      BY DEF IInv, UiOK, Senders
    <3>. HIDE DEF senders
    <3>3. \A y \in Ids : senders[y] # 0 => y \in sessions
      BY <3>2
    <3>4. /\ sessions' = sessions /\ sender' \in Senders /\ socket' \in Sockets
          /\ \A y \in Ids : sender'[y] # 0 <=> y \in sessions
          /\ \/ active = None /\ active' \in sessions
             \/ active' = active
      <4>1. OpenedSockets(sessions, senders, Updated(x, n, NoSocket)) /\ OpenedActive(sessions, active, senders)
        BY <2>1, <3>1, <3>2, <3>3, OpenedFacts
      <4>. QED  BY <4>1 DEF OpenedSockets, OpenedActive
    <3>5. UiOK'
      BY <2>2, <3>4 DEF IInv, UiOK, ActiveListed
    <3>6. \A y \in Ids \ orphaned' : \A o \in Copies :
            Updated(x, n, NoSocket)[y][o].pc # "none" => o = senders[y]
      <4>. SUFFICES ASSUME NEW y \in Ids \ orphaned, NEW o \in Copies,
                           Updated(x, n, NoSocket)[y][o].pc # "none"
                    PROVE  o = senders[y]
        BY <2>2
      <4>1. socket[y][o].pc # "none" /\ ~(y = x /\ o = n)
        BY <2>3
      <4>2. o = sender[y]
        BY <4>1 DEF IInv, OwnOK, Own
      <4>3. y = x => n = sender[y]
        BY <2>2 DEF IInv, OwnOK, Own
      <4>. QED  BY <3>2, <4>1, <4>2, <4>3
    <3>7. OwnOK'
      BY <2>1, <2>2, <3>1, <3>2, <3>3, <3>6, OpenedOwn
    <3>. QED  BY <2>4, <3>5, <3>7 DEF IInv
  <2>. QED  BY <2>5, <2>6
<1>. QED
  BY <1>3, <1>4, <1>5, <1>6 DEF Callback

-----------------------------------------------------------------------------
(* The poll and the user *)

(* A session that is pruned while it has a socket is an orphan from then   *)
(* on; any other one has neither socket nor sender left.                   *)
LEMMA PollTakeStep ==
  ASSUME IInv, PollTake
  PROVE  IInv'
<1>. DEFINE gone == sessions \ poll.ids
            senders == [x \in Ids |-> IF x \in gone THEN 0 ELSE sender[x]]
<1>1. PICK newest \in Switched(poll.ids) : \E current \in Survivor(newest, gone, poll.ids) :
        Opened(poll.ids, current, senders, socket)
  BY DEF PollTake
<1>2. PICK current \in Survivor(newest, gone, poll.ids) : Opened(poll.ids, current, senders, socket)
  BY <1>1
<1>3. /\ pollKnown' = Pruned(pollKnown \cup poll.ids, gone)
      /\ ended' = Pruned(ended, gone)
      /\ orphaned' = orphaned \cup {x \in gone : \E n \in Copies : socket[x][n].pc # "none"}
      /\ poll' = None /\ UNCHANGED <<server, hub, submitted>>
  BY DEF PollTake
<1>4. /\ poll.ids \subseteq Ids /\ sessions \subseteq Ids /\ sender \in Senders /\ socket \in Sockets
      /\ \A x \in Ids : sender[x] # 0 <=> x \in sessions
      /\ pollKnown \subseteq sessions /\ ended \subseteq sessions /\ orphaned \subseteq Ids
  BY DEF IInv, ServerOK, UiOK, PollTake
<1>5. /\ senders \in Senders
      /\ \A x \in Ids : senders[x] = IF x \in gone THEN 0 ELSE sender[x]
  BY <1>4 DEF Senders
<1>. HIDE DEF senders
<1>6. \A x \in Ids : senders[x] # 0 => x \in poll.ids
  BY <1>4, <1>5
<1>7. /\ sessions' = poll.ids /\ sender' \in Senders /\ socket' \in Sockets
      /\ \A x \in Ids : sender'[x] # 0 <=> x \in poll.ids
      /\ \/ current = None /\ active' \in poll.ids
         \/ active' = current /\ (current = None => \A x \in poll.ids : senders[x] # 0)
  <2>1. OpenedSockets(poll.ids, senders, socket) /\ OpenedActive(poll.ids, current, senders)
    BY <1>2, <1>4, <1>5, <1>6, OpenedFacts
  <2>. QED  BY <2>1 DEF OpenedSockets, OpenedActive
<1>8. ActiveListed'
  <2>1. None \notin Ids
    BY UiSocketsAssumption
  <2>2. newest \in poll.ids \/ newest = active
    BY <1>1 DEF Switched
  <2>3. (active \in sessions) \/ (active = None /\ sessions = {})
    BY DEF IInv, UiOK, ActiveListed
  <2>4. current \in poll.ids \/ current = None
    <3>1. CASE newest \in gone
      <4>1. \/ poll.ids = {} /\ current = None
            \/ current \in poll.ids
        BY <1>2, <3>1 DEF Survivor
      <4>. QED  BY <4>1
    <3>2. CASE newest \notin gone
      <4>1. current = newest
        BY <1>2, <3>2 DEF Survivor
      <4>. QED  BY <2>2, <2>3, <3>2, <4>1
    <3>. QED  BY <3>1, <3>2
  <2>5. current = None => sessions = {} \/ poll.ids = {}
    <3>1. CASE newest \in gone
      <4>1. current = None => poll.ids = {}
        BY <1>2, <1>4, <2>1, <3>1 DEF Survivor
      <4>. QED  BY <4>1
    <3>2. CASE newest \notin gone
      <4>1. current = newest
        BY <1>2, <3>2 DEF Survivor
      <4>. QED  BY <1>4, <2>1, <2>2, <2>3, <4>1
    <3>. QED  BY <3>1, <3>2
  <2>6. CASE active' \in poll.ids
    BY <1>7, <2>6 DEF ActiveListed
  <2>7. CASE active' \notin poll.ids
    <3>1. active' = None /\ current = None /\ \A x \in poll.ids : senders[x] # 0
      BY <1>7, <2>4, <2>7
    <3>2. \A x \in poll.ids : senders[x] # 0 => x \in sessions
      BY <1>4, <1>5
    <3>3. poll.ids = {}
      BY <2>5, <3>1, <3>2
    <3>. QED  BY <1>7, <3>1, <3>3 DEF ActiveListed
  <2>. QED  BY <2>6, <2>7
<1>9. UiOK'
  <2>1. pollKnown' \subseteq poll.ids /\ ended' \subseteq poll.ids /\ orphaned' \subseteq Ids
    BY <1>3, <1>4 DEF Pruned
  <2>. QED  BY <1>4, <1>7, <1>8, <2>1 DEF UiOK
<1>10. OwnOK'
  <2>1. ASSUME NEW x \in Ids \ orphaned', NEW n \in Copies, socket[x][n].pc # "none"
        PROVE  n = senders[x]
    <3>1. x \notin orphaned /\ x \notin gone
      BY <1>3, <2>1
    <3>2. n = sender[x]
      BY <2>1, <3>1 DEF IInv, OwnOK, Own
    <3>. QED  BY <1>5, <3>1, <3>2
  <2>2. orphaned \subseteq orphaned'
    BY <1>3
  <2>. QED  BY <1>2, <1>4, <1>5, <1>6, <2>1, <2>2, OpenedOwn
<1>11. ServerOK'
  BY <1>3 DEF IInv, ServerOK
<1>. QED
  BY <1>9, <1>10, <1>11 DEF IInv

LEMMA UserStep ==
  ASSUME IInv, PollAnswer \/ Submitted \/ Select
  PROVE  IInv'
<1>1. CASE PollAnswer
  <2>1. poll' = [ids |-> server.listed] /\ server.listed \subseteq Ids
        /\ UNCHANGED <<server, hub, ui, socket, submitted, orphaned>>
    BY <1>1 DEF PollAnswer, IInv, ServerOK
  <2>2. poll' \in [ids : SUBSET Ids]
    BY <2>1
  <2>3. ServerOK'
    BY <2>1, <2>2 DEF IInv, ServerOK
  <2>. QED  BY <2>1, <2>3 DEF IInv, UiOK, OwnOK, Own, ui, ActiveListed
<1>2. CASE Submitted
  <2>1. PICK x \in submitted :
          Opened(sessions \cup {x}, x, sender, socket) /\ submitted' = submitted \ {x}
    BY <1>2 DEF Submitted
  <2>2. UNCHANGED <<server, hub, pollKnown, ended, poll, orphaned>>
    BY <1>2 DEF Submitted
  <2>3. /\ x \in Ids /\ x # None /\ sessions \subseteq Ids /\ sender \in Senders /\ socket \in Sockets
        /\ \A y \in Ids : sender[y] # 0 <=> y \in sessions
    BY UiSocketsAssumption DEF IInv, ServerOK, UiOK
  <2>4. sessions \cup {x} \subseteq Ids /\ \A y \in Ids : sender[y] # 0 => y \in sessions \cup {x}
    BY <2>3
  <2>5. /\ sessions' = sessions \cup {x} /\ sender' \in Senders /\ socket' \in Sockets
        /\ \A y \in Ids : sender'[y] # 0 <=> y \in sessions \cup {x}
        /\ active' = x
    <3>1. OpenedSockets(sessions \cup {x}, sender, socket) /\ OpenedActive(sessions \cup {x}, x, sender)
      BY <2>1, <2>3, <2>4, OpenedFacts
    <3>. QED  BY <2>3, <3>1 DEF OpenedSockets, OpenedActive
  <2>6. UiOK'
    BY <2>2, <2>3, <2>5 DEF IInv, UiOK, ActiveListed
  <2>7. OwnOK'
    <3>1. \A y \in Ids \ orphaned' : \A n \in Copies : socket[y][n].pc # "none" => n = sender[y]
      BY <2>2 DEF IInv, OwnOK, Own
    <3>. QED  BY <2>1, <2>2, <2>3, <2>4, <3>1, OpenedOwn
  <2>8. ServerOK'
    BY <2>1, <2>2 DEF IInv, ServerOK
  <2>. QED  BY <2>6, <2>7, <2>8 DEF IInv
<1>3. CASE Select
  BY <1>3 DEF Select, IInv, ServerOK, UiOK, OwnOK, Own, ActiveListed
<1>. QED
  BY <1>1, <1>2, <1>3

-----------------------------------------------------------------------------
(* The whole *)

LEMMA InitIInv == Init => IInv
<1>. SUFFICES ASSUME Init  PROVE IInv
  OBVIOUS
<1>1. ServerOK
  <2>1. server.limit \in Limit
    BY UiSocketsAssumption DEF Init, Limit
  <2>2. server \in [up : BOOLEAN, listed : SUBSET Ids, pending : SUBSET Ids, limit : Limit]
    BY <2>1 DEF Init
  <2>. QED  BY <2>2 DEF Init, ServerOK
<1>2. NoSocket \in Socket /\ NoSocket.pc = "none"
  BY SocketFacts DEF NoSocket
<1>3. UiOK
  BY <1>2 DEF Init, UiOK, Sockets, Senders, ActiveListed
<1>4. OwnOK
  BY <1>2 DEF Init, OwnOK, Own
<1>. QED
  BY <1>1, <1>3, <1>4 DEF IInv

LEMMA NextIInv == IInv /\ [Next]_vars => IInv'
<1>. SUFFICES ASSUME IInv, [Next]_vars  PROVE IInv'
  OBVIOUS
<1>1. CASE UNCHANGED vars
  BY <1>1 DEF vars, ui, IInv, ServerOK, UiOK, OwnOK, Own, ActiveListed
<1>. QED
  BY <1>1, ServerStep, CallbackStep, PollTakeStep, UserStep DEF Next

LEMMA Invariance == Spec => []IInv
BY InitIInv, NextIInv, PTL DEF Spec

(* The types of the server's registry and hub and of the UI's signals; a   *)
(* session is listed exactly while it has a sender, and the sessions       *)
(* known to the poll and those that ended are listed (lib.rs 465-525).     *)
THEOREM SocketTypes == Spec => []TypeOK
<1>1. IInv => TypeOK
  <2>. SUFFICES ASSUME IInv  PROVE TypeOK
    OBVIOUS
  <2>1. active \in Ids \cup {None}
    BY DEF IInv, UiOK, ActiveListed
  <2>2. sessions = {x \in Ids : sender[x] # 0}
    BY DEF IInv, UiOK
  <2>3. poll # None => poll.ids \subseteq Ids
    BY DEF IInv, ServerOK
  <2>. QED  BY <2>1, <2>2, <2>3 DEF TypeOK, IInv, ServerOK, UiOK, Senders, Sockets, Socket
<1>. QED
  BY <1>1, Invariance, PTL

(* The UI shows one of its sessions whenever it has any, whatever is       *)
(* pruned, launched, replayed or selected when (lib.rs 465-486, 761-763,   *)
(* 1098-1100, 1562-1565).                                                  *)
THEOREM ActiveIsListed == Spec => []ActiveListed
BY Invariance, PTL DEF IInv, UiOK

(* "Open a WS per session as they appear" (lib.rs 506): one, for a session *)
(* that was never pruned while it had a socket or a retry due.             *)
THEOREM OneSocketEach == Spec => []OneSocket
<1>1. IInv => OneSocket
  <2>. SUFFICES ASSUME IInv, NEW x \in Ids \ orphaned  PROVE Cardinality(Live(x)) <= 1
    BY DEF OneSocket
  <2>1. Live(x) \in SUBSET {sender[x]}
    BY DEF IInv, OwnOK, Own, Live
  <2>2. IsFiniteSet({sender[x]}) /\ Cardinality({sender[x]}) = 1
    BY FS_Singleton
  <2>. QED  BY <2>1, <2>2, FS_Subset
<1>. QED
  BY <1>1, Invariance, PTL
=============================================================================
