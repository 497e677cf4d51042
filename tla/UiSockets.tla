------------------------------ MODULE UiSockets ------------------------------
(***************************************************************************)
(* How the web UI (debugium-ui/src/lib.rs) keeps its list of sessions, the *)
(* active one and a web socket per session, against a server that lists    *)
(* sessions at /sessions, announces launched ones on every session's hub,  *)
(* may end and be started again, and then reuses the names of sessions.    *)
(*                                                                         *)
(* The UI is one thread: a step handles one callback to its next await and *)
(* then runs the Effect that opens sockets, which depends on the list of   *)
(* sessions and on reconnect_tick.  What frames say of a session is left   *)
(* to UiView, but for "ended"; the delays of retries are not modelled.     *)
(***************************************************************************)
EXTENDS Naturals, Sequences, FiniteSets

CONSTANTS
  Ids,         \* session ids
  MaxCopies,   \* bound: sockets of one session at a time
  Scenarios,   \* bound: the names used in a behaviour, the sessions started, the times the
               \* server ends, and a session does, what the user does ("launch", "select")
  None

ASSUME UiSocketsAssumption ==
  /\ IsFiniteSet(Ids) /\ None \notin Ids
  /\ MaxCopies \in Nat \ {0}
  /\ Scenarios \subseteq [names : SUBSET Ids, starts : Nat, crashes : Nat, ends : Nat,
                          user : SUBSET {"launch", "select"}]

VARIABLES
  server,     \* up, listed (the registry), pending (launches not announced yet);
              \* limit: what may happen yet of the behaviour's scenario
  hub,        \* the frames cached for each session
  sessions,   \* the list of sessions
  active,     \* active_session
  sender,     \* ws_senders: for each session the copy of its socket, 0 without an entry
  pollKnown,  \* poll_known
  ended,      \* sessions whose session_data has status "ended"
  socket,     \* each copy of each session's socket
  poll,       \* the answer to GET /sessions, None while there is none
  submitted,  \* answers to the launch dialog's POST /sessions
  orphaned    \* history: sessions pruned while they had a socket or a retry

Copies == 1..MaxCopies

ui == <<sessions, active, sender, pollKnown, ended>>
vars == <<server, hub, ui, socket, poll, submitted, orphaned>>

(* pc: "none", "connecting", "open", "waiting" for the retry.  inbox: the  *)
(* frames on their way; cut: the connection is gone, which the browser     *)
(* sees after the last frame at the latest.                                *)
NoSocket == [pc |-> "none", inbox |-> <<>>, cut |-> FALSE]

Launched(x) == <<"session_launched", x>>
Terminated(x) == <<"terminated", x>>
Frames == {Launched(x) : x \in Ids} \cup {Terminated(x) : x \in Ids}

Init ==
  /\ server \in [up : {TRUE}, listed : {{}}, pending : {{}}, limit : Scenarios]
  /\ hub = [x \in Ids |-> <<>>]
  /\ sessions = {} /\ active = None /\ sender = [x \in Ids |-> 0]
  /\ pollKnown = {} /\ ended = {}
  /\ socket = [x \in Ids |-> [n \in Copies |-> NoSocket]]
  /\ poll = None
  /\ submitted = {}
  /\ orphaned = {}

-----------------------------------------------------------------------------
(* The server *)

(* Hub::broadcast on the sessions xs. *)
Broadcast(xs, frame) ==
  /\ hub' = [x \in Ids |-> IF x \in xs THEN Append(hub[x], frame) ELSE hub[x]]
  /\ socket' = [x \in Ids |-> [n \in Copies |->
       IF x \in xs /\ socket[x][n].pc = "open" /\ ~socket[x][n].cut
       THEN [socket[x][n] EXCEPT !.inbox = Append(@, frame)] ELSE socket[x][n]]]

(* A session is registered, by POST /sessions, an MCP client or the        *)
(* command line.  Bound: under a name this server has not used before.     *)
Start ==
  /\ server.up /\ server.limit.starts > 0
  /\ \E x \in server.limit.names \ server.listed :
       /\ hub[x] = <<>>
       /\ server' = [server EXCEPT !.listed = @ \cup {x}, !.pending = @ \cup {x},
                                   !.limit.starts = @ - 1]
  /\ UNCHANGED <<hub, ui, socket, poll, submitted, orphaned>>

(* Once it stops, or after five seconds, POST /sessions announces it on    *)
(* the hubs of all sessions and answers, maybe to this browser's dialog.   *)
Announce ==
  /\ \E x \in server.pending :
       /\ server' = [server EXCEPT !.pending = @ \ {x}]
       /\ Broadcast(server.listed, Launched(x))
       /\ \/ UNCHANGED submitted
          \/ "launch" \in server.limit.user /\ submitted' = submitted \cup {x}
  /\ UNCHANGED <<ui, poll, orphaned>>

(* The program ends; the clean-up task removes the session later.  Its hub *)
(* entry stays.                                                            *)
End ==
  /\ server.limit.ends > 0
  /\ server' = [server EXCEPT !.limit.ends = @ - 1]
  /\ \E x \in server.listed :
       /\ \A i \in DOMAIN hub[x] : hub[x][i] # Terminated(x)
       /\ Broadcast({x}, Terminated(x))
  /\ UNCHANGED <<ui, poll, submitted, orphaned>>

Remove ==
  /\ \E x \in server.listed :
       /\ \E i \in DOMAIN hub[x] : hub[x][i] = Terminated(x)
       /\ server' = [server EXCEPT !.listed = @ \ {x}]
  /\ UNCHANGED <<hub, ui, socket, poll, submitted, orphaned>>

(* With the server everything it holds goes, and every connection. *)
Crash ==
  /\ server.up /\ server.limit.crashes > 0
  /\ server' = [server EXCEPT !.up = FALSE, !.listed = {}, !.pending = {}, !.limit.crashes = @ - 1]
  /\ hub' = [x \in Ids |-> <<>>]
  /\ socket' = [x \in Ids |-> [n \in Copies |-> [socket[x][n] EXCEPT !.cut = @ \/ socket[x][n].pc = "open"]]]
  /\ UNCHANGED <<ui, poll, submitted, orphaned>>

Boot ==
  /\ ~server.up
  /\ server' = [server EXCEPT !.up = TRUE]
  /\ UNCHANGED <<hub, ui, socket, poll, submitted, orphaned>>

-----------------------------------------------------------------------------
(* The Effect that opens sockets: a session without a sender gets one, and *)
(* becomes the active one when there is none.                              *)

Free(sockets, x) == {n \in Copies : sockets[x][n].pc = "none"}

Opened(list, current, senders, sockets) ==
  LET new == {x \in list : senders[x] = 0}
      copy(x) == CHOOSE n \in Free(sockets, x) : \A o \in Free(sockets, x) : n <= o
  IN /\ \A x \in new : Free(sockets, x) # {}
     /\ sessions' = list
     /\ sender' = [x \in Ids |-> IF x \in new THEN copy(x) ELSE senders[x]]
     /\ socket' = [x \in Ids |-> [n \in Copies |->
          IF x \in new /\ n = copy(x) THEN [NoSocket EXCEPT !.pc = "connecting"] ELSE sockets[x][n]]]
     /\ IF current = None /\ new # {} THEN active' \in new ELSE active' = current

Updated(x, n, new) == [socket EXCEPT ![x][n] = new]

-----------------------------------------------------------------------------
(* A socket's callbacks *)

(* The beginning and the end of handle_envelope, for each frame in turn:   *)
(* its session is listed, and made active if it was launched or if there   *)
(* is no active one.                                                       *)
HandleEnvelopes(frames, sockets) ==
  LET ids == {frames[i][2] : i \in DOMAIN frames}
      launches == {i \in DOMAIN frames : frames[i] = Launched(frames[i][2])}
      last == CHOOSE i \in launches : \A j \in launches : j <= i
      current == IF launches # {} THEN frames[last][2]
                 ELSE IF active = None /\ frames # <<>> THEN frames[1][2] ELSE active
  IN /\ Opened(sessions \cup ids, current, sender, sockets)
     /\ ended' = ended \cup {x \in ids : \E i \in DOMAIN frames : frames[i] = Terminated(x)}

(* onopen; the server subscribes and sends the frames it has cached, which *)
(* are handled in one go: they come before the next poll does.             *)
OnOpen(x, n) ==
  /\ socket[x][n].pc = "connecting" /\ server.up
  /\ HandleEnvelopes(hub[x], Updated(x, n, [NoSocket EXCEPT !.pc = "open"]))
  /\ UNCHANGED <<server, hub, pollKnown, poll, submitted, orphaned>>

(* onmessage *)
OnMessage(x, n) ==
  /\ socket[x][n].inbox # <<>>
  /\ HandleEnvelopes(<<Head(socket[x][n].inbox)>>, Updated(x, n, [socket[x][n] EXCEPT !.inbox = Tail(@)]))
  /\ UNCHANGED <<server, hub, pollKnown, poll, submitted, orphaned>>

(* Mutant: the sender is forgotten as the connection closes. *)
OnCloseForgets(x, n) ==
  /\ \/ socket[x][n].pc = "connecting" /\ ~server.up
     \/ socket[x][n].pc = "open" /\ socket[x][n].cut
  /\ socket' = Updated(x, n, [NoSocket EXCEPT !.pc = "waiting"])
  /\ sender' = [sender EXCEPT ![x] = 0]
  /\ UNCHANGED <<server, hub, sessions, active, pollKnown, ended, poll, submitted, orphaned>>

(* onclose, of a connection that failed or was lost: a retry is scheduled. *)
OnClose(x, n) ==
  /\ \/ socket[x][n].pc = "connecting" /\ ~server.up
     \/ socket[x][n].pc = "open" /\ socket[x][n].cut
  /\ socket' = Updated(x, n, [NoSocket EXCEPT !.pc = "waiting"])
  /\ UNCHANGED <<server, hub, ui, poll, submitted, orphaned>>

(* Mutant: the retry leaves the sender of the lost socket. *)
RetryKeepsSender(x, n) ==
  /\ socket[x][n].pc = "waiting"
  /\ Opened(sessions, active, sender, Updated(x, n, NoSocket))
  /\ UNCHANGED <<server, hub, pollKnown, ended, poll, submitted, orphaned>>

(* The retry forgets the session's sender, whichever it is by now, and     *)
(* bumps reconnect_tick; not for a session that ended.                     *)
Retry(x, n) ==
  /\ socket[x][n].pc = "waiting"
  /\ IF x \in ended
     THEN socket' = Updated(x, n, NoSocket) /\ UNCHANGED <<sessions, active, sender>>
     ELSE Opened(sessions, active, [sender EXCEPT ![x] = 0], Updated(x, n, NoSocket))
  /\ UNCHANGED <<server, hub, pollKnown, ended, poll, submitted, orphaned>>

-----------------------------------------------------------------------------
(* The polling loop: GET /sessions is answered, ... *)

PollAnswer ==
  /\ server.up /\ poll = None
  /\ poll' = [ids |-> server.listed]
  /\ UNCHANGED <<server, hub, ui, socket, submitted, orphaned>>

(* auto-switch, "not the initial discovery" *)
Switched(ids) ==
  LET new == ids \ pollKnown
  IN IF new # {} /\ pollKnown # {} THEN new ELSE {active}

(* Bound: a handshake takes less time than there is between two polls. *)
NoHandshake == server.up => \A x \in Ids, n \in Copies : socket[x][n].pc # "connecting"

(* Mutant: the active session stays when it is pruned. *)
SurvivorAny(current, gone, ids) == {current}

(* The active session, or one of those listed when it is pruned. *)
Survivor(current, gone, ids) ==
  IF current \notin gone THEN {current} ELSE IF ids = {} THEN {None} ELSE ids

(* Mutant: what is remembered of a pruned session stays. *)
PrunedNot(set, gone) == set

Pruned(set, gone) == set \ gone

(* ... and the answer taken: new sessions are added, the newest of them    *)
(* made active, and the sessions it does not list pruned, which closes no  *)
(* socket.                                                                 *)
PollTake ==
  /\ poll # None /\ NoHandshake
  /\ LET gone == sessions \ poll.ids
     IN /\ \E newest \in Switched(poll.ids) : \E current \in Survivor(newest, gone, poll.ids) :
             Opened(poll.ids, current, [x \in Ids |-> IF x \in gone THEN 0 ELSE sender[x]], socket)
        /\ pollKnown' = Pruned(pollKnown \cup poll.ids, gone)
        /\ ended' = Pruned(ended, gone)
        /\ orphaned' = orphaned \cup {x \in gone : \E n \in Copies : socket[x][n].pc # "none"}
  /\ poll' = None
  /\ UNCHANGED <<server, hub, submitted>>

-----------------------------------------------------------------------------
(* The user: the launch dialog's answer arrives, a session is selected *)

Submitted ==
  /\ \E x \in submitted :
       /\ Opened(sessions \cup {x}, x, sender, socket)
       /\ submitted' = submitted \ {x}
  /\ UNCHANGED <<server, hub, pollKnown, ended, poll, orphaned>>

Select ==
  /\ "select" \in server.limit.user
  /\ active' \in sessions
  /\ UNCHANGED <<server, hub, sessions, sender, pollKnown, ended, socket, poll, submitted, orphaned>>

Callback(x, n) == OnOpen(x, n) \/ OnMessage(x, n) \/ OnClose(x, n) \/ Retry(x, n)

Next ==
  \/ Start \/ Announce \/ End \/ Remove \/ Crash \/ Boot
  \/ \E x \in Ids, n \in Copies : Callback(x, n)
  \/ PollAnswer \/ PollTake
  \/ Submitted \/ Select

Spec == Init /\ [][Next]_vars

(* The browser's callbacks, timers and polls happen.  Nothing is assumed   *)
(* of the server or of the user.                                           *)
Fairness ==
  /\ \A x \in Ids, n \in Copies : WF_vars(Callback(x, n))
  /\ WF_vars(PollAnswer) /\ WF_vars(PollTake) /\ WF_vars(Submitted)

FairSpec == Spec /\ Fairness

-----------------------------------------------------------------------------
(* Properties *)

Live(x) == {n \in Copies : socket[x][n].pc # "none"}

TypeOK ==
  /\ server.listed \subseteq Ids /\ server.pending \subseteq Ids
  /\ hub \in [Ids -> Seq(Frames)]
  /\ sessions \subseteq Ids /\ pollKnown \subseteq sessions /\ ended \subseteq sessions
  /\ active \in Ids \cup {None}
  /\ sender \in [Ids -> {0} \cup Copies] /\ sessions = {x \in Ids : sender[x] # 0}
  /\ socket \in [Ids -> [Copies ->
       [pc : {"none", "connecting", "open", "waiting"}, inbox : Seq(Frames), cut : BOOLEAN]]]
  /\ poll # None => poll.ids \subseteq Ids
  /\ submitted \subseteq Ids /\ orphaned \subseteq Ids

(* The UI shows one of its sessions whenever it has any, and none          *)
(* otherwise, whatever is pruned, launched, replayed or selected when      *)
(* (lib.rs 465-486, 761-763, 1098-1100, 1562-1565).                        *)
ActiveListed == IF sessions = {} THEN active = None ELSE active \in sessions

(* "Open a WS per session as they appear" (lib.rs 506): two sockets would  *)
(* handle each frame twice.  A session that was pruned and came back may   *)
(* have two: the answer to a poll is older than the announcement, or a     *)
(* restarted server uses the name again while the old socket's retry is    *)
(* due.                                                                    *)
OneSocket == \A x \in Ids \ orphaned : Cardinality(Live(x)) <= 1

(* A session that the server goes on listing gets, and keeps, an open      *)
(* socket that its commands are sent on, after whatever outage; a session  *)
(* that was seen to end need not.                                          *)
Connected ==
  \A x \in Ids :
    <>[](server.up /\ x \in server.listed /\ x \notin ended) =>
      <>[](x \in sessions /\ sender[x] # 0 /\ socket[x][sender[x]].pc = "open" /\ ~socket[x][sender[x]].cut)
=============================================================================
