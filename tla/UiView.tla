-------------------------------- MODULE UiView --------------------------------
(***************************************************************************)
(* What a browser tab shows of one session (SessionState and               *)
(* handle_envelope of debugium-ui/src/lib.rs): its status, timeline and    *)
(* breakpoints, as the server's event dispatcher and tools change them.    *)
(*                                                                         *)
(* The tab learns of them in two ways that are not ordered with each       *)
(* other: the frames of the hub (Hub), of which a new web socket gets the  *)
(* cached ones first, and the answers to the GET requests that onopen      *)
(* sends.  Sockets are opened one after the other, as connections are      *)
(* lost.  A frame is handled as soon as it is relayed: the time it takes   *)
(* on the way is time that it waits in the hub's channel.                  *)
(***************************************************************************)
EXTENDS Hub, SequencesExt

CONSTANTS
  ViewCap,     \* entries of the timeline shown (500, max_timeline)
  FetchLimit,  \* entries that GET /timeline answers with (100)
  MaxChanges,  \* bound: changes of the breakpoints
  Mixes        \* bound: what changes in one behaviour, "timeline" (and status), "breakpoints"

Kinds == {"timeline", "breakpoints"}

(* The list shown has room for an answer and the replayed frames that      *)
(* repeat it, as with the code's numbers; the URL's max_timeline may set   *)
(* it lower (lib.rs 283-297), and repetitions may then push an entry out.  *)
ASSUME UiViewAssumption ==
  /\ FetchLimit \in Nat \ {0} /\ ViewCap \in Nat /\ ViewCap >= 2 * FetchLimit
  /\ MaxChanges \in Nat
  /\ Mixes \subseteq SUBSET Kinds

VARIABLES
  session,   \* server: the dispatcher's pc, the number of timeline entries, the breakpoints
             \* (of one file, as the number of the change, 0: none) and the tool's pc
  log,       \* what the frames say
  dialed,    \* the sockets that the tab opened
  fetch,     \* the requests sent when each socket opened: "none", "asked", "answered" or "done"
  view,      \* what is shown
  overtaken, \* history: a change was announced between an answer and its use, or the
             \* subscription of the socket that asked
  mix        \* what changes in this behaviour, fixed

tab == <<dialed, fetch, view, overtaken>>
allVars == <<vars, session, log, tab, mix>>

Frame(kind, n) == [kind |-> kind, n |-> n]

NoFetch == [pc |-> "none", found |-> <<>>]
Asked == [kind \in Kinds |-> IF kind \in mix THEN [NoFetch EXCEPT !.pc = "asked"] ELSE NoFetch]

ViewInit ==
  /\ Init
  /\ session = [pc |-> "running", entries |-> 0, bps |-> 0, changes |-> 0, tool |-> "idle"]
  /\ log = <<>>
  /\ dialed = {}
  /\ fetch = [s \in Sockets |-> [kind \in Kinds |-> NoFetch]]
  /\ view = [status |-> "running", timeline |-> <<>>, bps |-> 0]
  /\ overtaken = FALSE
  /\ mix \in Mixes

-----------------------------------------------------------------------------
(* The server *)

Announced(frame) == Broadcast /\ log' = Append(log, frame)

(* An answer that is on its way, or came before its socket subscribed. *)
InFlight(kind) == \E s \in Sockets :
  \/ fetch[s][kind].pc = "answered"
  \/ fetch[s][kind].pc = "done" /\ socket[s].pc = "none"

RegisterSession == Register /\ UNCHANGED <<session, log, tab>>

(* The dispatcher broadcasts an event, and then what enrich_stopped adds. *)
Stopped ==
  /\ session.pc = "running"
  /\ Announced(Frame("stopped", 0))
  /\ session' = [session EXCEPT !.pc = "enrich"]
  /\ UNCHANGED tab

PushEntry ==
  /\ session.pc = "enrich"
  /\ session' = [session EXCEPT !.pc = "pushed", !.entries = @ + 1]
  /\ UNCHANGED <<vars, log, tab>>

AnnounceEntry ==
  /\ session.pc = "pushed"
  /\ Announced(Frame("timeline_entry", session.entries))
  /\ session' = [session EXCEPT !.pc = "stopped"]
  /\ overtaken' = (overtaken \/ InFlight("timeline"))
  /\ UNCHANGED <<dialed, fetch, view>>

Continued ==
  /\ session.pc = "stopped"
  /\ Announced(Frame("continued", 0))
  /\ session' = [session EXCEPT !.pc = "running"]
  /\ UNCHANGED tab

Ended ==
  /\ session.pc \in {"running", "stopped"}
  /\ Announced(Frame("terminated", 0))
  /\ session' = [session EXCEPT !.pc = "ended"]
  /\ UNCHANGED tab

(* A breakpoint tool changes the list, or clears it, ... *)
ChangeBreakpoints ==
  /\ registered /\ session.tool = "idle" /\ session.changes < MaxChanges /\ frames < MaxFrames
  /\ \E bps \in {0, session.changes + 1} \ {session.bps} :
       session' = [session EXCEPT !.tool = "announce", !.bps = bps, !.changes = @ + 1]
  /\ UNCHANGED <<vars, log, tab>>

(* ... and broadcasts breakpoints_changed. *)
AnnounceBreakpoints ==
  /\ session.tool = "announce"
  /\ Announced(Frame("breakpoints_changed", session.bps))
  /\ session' = [session EXCEPT !.tool = "idle"]
  /\ overtaken' = (overtaken \/ InFlight("breakpoints"))
  /\ UNCHANGED <<dialed, fetch, view>>

-----------------------------------------------------------------------------
(* handle_envelope, for each kind of frame *)

Paused(shown, frame) == [shown EXCEPT !.status = "paused"]
Running(shown, frame) == [shown EXCEPT !.status = "running"]
SessionEnded(shown, frame) == [shown EXCEPT !.status = "ended"]

(* Mutant: the list is trimmed one entry late. *)
TimelineEntryOneMore(shown, frame) ==
  [shown EXCEPT !.timeline = IF Len(@) <= ViewCap THEN Append(@, frame.n) ELSE Append(Tail(@), frame.n)]

TimelineEntry(shown, frame) ==
  [shown EXCEPT !.timeline = IF Len(@) < ViewCap THEN Append(@, frame.n) ELSE Append(Tail(@), frame.n)]

BreakpointsChanged(shown, frame) == [shown EXCEPT !.bps = frame.n]

(* The responses to the tab's commands are about what is not modelled. *)
HandleEnvelope(shown, frame) ==
  CASE frame.kind = "stopped" -> Paused(shown, frame)
    [] frame.kind = "continued" -> Running(shown, frame)
    [] frame.kind = "terminated" -> SessionEnded(shown, frame)
    [] frame.kind = "timeline_entry" -> TimelineEntry(shown, frame)
    [] frame.kind = "breakpoints_changed" -> BreakpointsChanged(shown, frame)
    [] frame.kind = "response" -> shown

-----------------------------------------------------------------------------
(* The tab's web socket *)

(* The first socket, or the retry when the one before is lost, unless the  *)
(* session was seen to end.                                                *)
MayDial(s) ==
  /\ s \notin dialed
  /\ \/ dialed = {}
     \/ view.status # "ended" /\ \A o \in dialed : socket[o].pc = "closed"

(* Mutant: what is shown is forgotten as a new socket opens. *)
DialAgain(s) ==
  /\ MayDial(s)
  /\ dialed' = dialed \cup {s}
  /\ fetch' = [fetch EXCEPT ![s] = Asked]
  /\ view' = [status |-> "running", timeline |-> <<>>, bps |-> 0]
  /\ UNCHANGED <<vars, session, log, overtaken>>

(* The handshake ends: onopen sends its requests, which are answered       *)
(* before or after the server's side subscribes.                           *)
Dial(s) ==
  /\ MayDial(s)
  /\ dialed' = dialed \cup {s}
  /\ fetch' = [fetch EXCEPT ![s] = Asked]
  /\ UNCHANGED <<vars, session, log, view, overtaken>>

Subscribe(s) == s \in dialed /\ Connect(s) /\ UNCHANGED <<session, log, tab>>

(* A cached or a new frame is sent, and handled. *)
Deliver(s) ==
  /\ Bootstrap(s) \/ Relay(s)
  /\ view' = IF Len(socket'[s].got) > Len(socket[s].got)
             THEN HandleEnvelope(view, log[Last(socket'[s].got)]) ELSE view
  /\ UNCHANGED <<session, log, dialed, fetch, overtaken>>

FallBehind(s) == Lag(s) /\ UNCHANGED <<session, log, tab>>

SendCommand(s) == Command(s) /\ UNCHANGED <<session, log, tab>>

Respond(s) ==
  /\ CommandDone(s)
  /\ log' = IF frames' > frames THEN Append(log, Frame("response", 0)) ELSE log
  /\ UNCHANGED <<session, tab>>

Disconnect(s) == Close(s) /\ UNCHANGED <<session, log, tab>>

-----------------------------------------------------------------------------
(* The tab's requests: timeline_handler and breakpoints_handler answer, *)

Newest(n) == From(IF n < FetchLimit THEN 1 ELSE n - FetchLimit + 1, n)

Answer(s) ==
  /\ \E kind \in Kinds :
       /\ fetch[s][kind].pc = "asked"
       /\ fetch' = [fetch EXCEPT ![s][kind] =
            [pc |-> "answered",
             found |-> CASE kind = "timeline" -> Newest(session.entries)
                         [] kind = "breakpoints" -> IF session.bps = 0 THEN <<>> ELSE <<session.bps>>]]
  /\ UNCHANGED <<vars, session, log, dialed, view, overtaken>>

(* Mutant: the answer is read by another name than the server gives it. *)
FetchedNothing(shown, kind, found) == shown

(* and an answer that is not empty replaces what is shown.  The answer to  *)
(* GET /breakpoints names no file that has none.                           *)
Fetched(shown, kind, found) ==
  CASE found = <<>> -> shown
    [] found # <<>> /\ kind = "timeline" -> [shown EXCEPT !.timeline = found]
    [] found # <<>> /\ kind = "breakpoints" -> [shown EXCEPT !.bps = found[1]]

Apply(s) ==
  /\ \E kind \in Kinds :
       /\ fetch[s][kind].pc = "answered"
       /\ fetch' = [fetch EXCEPT ![s][kind] = [NoFetch EXCEPT !.pc = "done"]]
       /\ view' = Fetched(view, kind, fetch[s][kind].found)
  /\ UNCHANGED <<vars, session, log, dialed, overtaken>>

Server ==
  \/ RegisterSession
  \/ "timeline" \in mix /\ (Stopped \/ PushEntry \/ AnnounceEntry \/ Continued \/ Ended)
  \/ "breakpoints" \in mix /\ (ChangeBreakpoints \/ AnnounceBreakpoints)

Tab(s) ==
  \/ Dial(s) \/ Subscribe(s) \/ Deliver(s) \/ FallBehind(s) \/ SendCommand(s) \/ Respond(s)
  \/ Disconnect(s) \/ Answer(s) \/ Apply(s)

ViewNext == (Server \/ \E s \in Sockets : Tab(s)) /\ UNCHANGED mix

ViewSpec == ViewInit /\ [][ViewNext]_allVars

-----------------------------------------------------------------------------
(* Properties *)

ViewTypeOK ==
  /\ TypeOK
  /\ Len(log) = frames
  /\ session.pc \in {"running", "enrich", "pushed", "stopped", "ended"}
  /\ session.tool \in {"idle", "announce"} /\ session.bps \in 0..session.changes
  /\ dialed \subseteq Sockets
  /\ \A s \in Sockets, kind \in Kinds : fetch[s][kind].pc \in {"none", "asked", "answered", "done"}
  /\ view.status \in {"running", "paused", "ended"}
  /\ view.timeline \in Seq(1..session.entries) /\ Len(view.timeline) <= ViewCap
  /\ view.bps \in 0..session.changes

(* A socket has everything that was broadcast, and nothing is half done. *)
Drained(s) ==
  /\ socket[s].pc = "select" /\ socket[s].next = frames + 1
  /\ \A o \in Sockets, kind \in Kinds : fetch[o][kind].pc \in {"none", "done"}
  /\ session.pc \notin {"enrich", "pushed"} /\ session.tool = "idle"

LastOf(kinds) == {n \in DOMAIN log : /\ log[n].kind \in kinds
                                     /\ \A m \in DOMAIN log : log[m].kind \in kinds => m <= n}
Handled(n) == \E s \in Sockets : \E i \in DOMAIN socket[s].got : socket[s].got[i] = n

(* No connection was lost while cached frames were still to be sent. *)
Uninterrupted == \A s \in Sockets : socket[s].pc = "closed" => socket[s].boot = <<>>

StatusKinds == {"stopped", "continued", "terminated"}
StatusAfter(kind) ==
  CASE kind = "stopped" -> "paused" [] kind = "continued" -> "running" [] kind = "terminated" -> "ended"

(* However often the tab reconnects and has old frames replayed, what it   *)
(* then shows is the status that the session's last status event says, as  *)
(* long as that event ever reached it (lib.rs 1120-1143) and no connection *)
(* was lost in the middle of a replay.  A tab that joins when the event    *)
(* has left the cache of 30 frames does not get it, and a replay that ends *)
(* early leaves an older status: that of /state (lib.rs 552-589) comes to  *)
(* nothing.                                                                *)
StatusFollows ==
  \A s \in Sockets : Drained(s) /\ Uninterrupted =>
    \A n \in LastOf(StatusKinds) : Handled(n) => view.status = StatusAfter(log[n].kind)

(* However an outage, the replayed frames and the answer to /timeline meet *)
(* (lib.rs 639-670, 1297-1315), the newest entries are then all shown, if  *)
(* none was announced after an answer and before its use (or before the    *)
(* socket had subscribed) and the socket did not fall behind.  Entries may *)
(* be shown twice.                                                         *)
TimelineWhole ==
  \A s \in Sockets : Drained(s) /\ ~socket[s].lagged /\ ~overtaken =>
    ToSet(Newest(session.entries)) \subseteq ToSet(view.timeline)

(* The same of the breakpoints (lib.rs 672-708, 1180-1210), for which the  *)
(* last change must have reached the tab, and no replay have ended early,  *)
(* if it cleared them.                                                     *)
BreakpointsShown ==
  \A s \in Sockets :
    /\ Drained(s) /\ ~socket[s].lagged /\ ~overtaken
    /\ \/ session.bps # 0
       \/ Uninterrupted /\ \A n \in LastOf({"breakpoints_changed"}) : Handled(n)
    => view.bps = session.bps

(* Both: what is fetched and what is pushed add up to the session's lists. *)
ListsShown == TimelineWhole /\ BreakpointsShown
=============================================================================
