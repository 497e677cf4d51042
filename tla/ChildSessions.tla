--------------------------- MODULE ChildSessions ---------------------------
(***************************************************************************)
(* One session, several debuggees (dap/session.rs).                        *)
(*                                                                         *)
(* The launched process is the Parent.  While it runs its adapter may ask  *)
(* for child sessions: js-debug with the reverse request startDebugging,   *)
(* debugpy with the event debugpyAttach.  Each child gets a connection, a  *)
(* handshake and a dispatcher of its own, but shares with the parent the   *)
(* table of breakpoints, last_stopped, stopped_tx and the timeline; and    *)
(* the last child that finished its handshake is where set_breakpoints     *)
(* and all other tools send their requests (active_client).                *)
(*                                                                         *)
(* Breakpoints are those of one file.  Requests and responses are the      *)
(* business of DapClient: here a request takes effect in one step.         *)
(***************************************************************************)
EXTENDS Integers, Sequences, SequencesExt, FiniteSets

CONSTANTS
  Parent, Children,  \* the launched process, and those it may lead to
  Debugpy,           \* the children announced with debugpyAttach
  Lines,             \* where a breakpoint may be
  Initial,           \* the breakpoints the launch was given
  Nobody,            \* nobody
  Lists,             \* bound: what set_breakpoints may be asked for
  Leaving,           \* bound: the children that may exit
  MaxActs            \* bound: stops, and calls of set_breakpoints, together

ASSUME ChildAssumption ==
  /\ Parent \notin Children /\ Nobody \notin Children \cup {Parent}
  /\ Debugpy \subseteq Children
  /\ Initial \subseteq Lines /\ Initial # {}
  /\ Lists \subseteq SUBSET Lines
  /\ Leaving \subseteq Children
  /\ MaxActs \in Nat

Targets == {Parent} \cup Children

VARIABLES
  phase,        \* adapter: what each debuggee is doing
  bound,        \* adapter: the breakpoints each debuggee has
  configs,      \* configurationDone on its way to each debuggee
  queue,        \* the event channel of each connection
  setup,        \* where each handshake is, and the breakpoints it forwards
  disp,         \* where each dispatcher is
  ready,        \* the parent's `initialized` oneshot has fired
  sd,           \* children the supervisor is to attach
  active,       \* child_client, or the Parent while there is none
  store,        \* session.breakpoints
  lastStopped,  \* last_stopped: whose stop, or Nobody
  version,      \* stopped_tx
  counter,      \* timeline_counter
  timeline,     \* the ids in the timeline
  entry,        \* the id each dispatcher has taken for its entry
  tool,         \* a call of set_breakpoints
  sets,         \* how many there were
  stops,        \* history: stops of each debuggee
  unsynced      \* history: debuggees that set_breakpoints may have passed by

adapterVars == <<phase, bound>>
sharedVars  == <<lastStopped, version, counter, timeline, entry>>
toolVars    == <<store, tool, sets, unsynced>>
childVars == <<phase, bound, configs, queue, setup, disp, ready, sd, active, sharedVars, toolVars, stops>>

(* What the channels carry; the number of a stop is history. *)
Event(name)    == [name |-> name, child |-> Nobody, stop |-> 0]
SpawnEvent(c)  == [name |-> "spawn", child |-> c, stop |-> 0]
StopEvent(n)   == [name |-> "stopped", child |-> Nobody, stop |-> n]
StoppedBy(T)   == UNION {{t} \X (1..stops[t]) : t \in T}
At(t)          == setup[t].at
Acts           == sets + Cardinality(StoppedBy(Targets))
NoCall         == [pc |-> "idle", target |-> Nobody, lines |-> {}, late |-> FALSE]

(* The three handshakes.  The parent's and a js child's breakpoints come   *)
(* before configurationDone; debugpy's requests are pipelined, without     *)
(* breakpoints, before `initialized`.                                      *)
Stages(t) ==
  CASE t = Parent    -> <<"await", "breakpoints", "configure", "confirm", "attached">>
    [] t \in Debugpy -> <<"configure", "await", "publish", "attached">>
    [] OTHER         -> <<"initialize", "await", "forward", "configure", "publish", "attached">>

Begun(t)     == At(t) \in Range(Stages(t))
Connected(t) == phase[t] # "closed" /\ (Begun(t) \/ t = Parent)
InWindow     == {t \in Targets : Begun(t) /\ (At(t) # "attached" \/ phase[t] = "announced")}

Advance(t) ==
  LET i == CHOOSE i \in 1..Len(Stages(t)) : Stages(t)[i] = At(t)
  IN  setup' = [setup EXCEPT ![t].at = Stages(t)[i + 1]]

ChildInit ==
  /\ phase = [t \in Targets |-> "created"]
  /\ bound = [t \in Targets |-> {}]
  /\ configs = [t \in Targets |-> 0]
  /\ queue = [t \in Targets |-> <<>>]
  /\ setup = [t \in Targets |-> [at |-> IF t = Parent THEN "await" ELSE "none", snap |-> {}]]
  /\ disp = [t \in Targets |-> IF t = Parent THEN "recv" ELSE "off"]
  /\ ready = FALSE
  /\ sd = <<>>
  /\ active = Parent
  /\ store = {}
  /\ lastStopped = Nobody
  /\ version = 0 /\ counter = 0 /\ timeline = <<>>
  /\ entry = [t \in Targets |-> 0]
  /\ tool = NoCall
  /\ sets = 0
  /\ stops = [t \in Targets |-> 0]
  /\ unsynced = {}

-----------------------------------------------------------------------------
(* The handshakes *)

(* The supervisor takes the next child and copies the table of breakpoints *)
(* for it; without a port to connect to it ignores the child.              *)
Supervise ==
  /\ sd # <<>>
  /\ LET c == Head(sd) IN
       /\ \E at \in {Stages(c)[1], "ignored"} : setup' = [setup EXCEPT ![c] = [at |-> at, snap |-> store]]
       /\ unsynced' = IF tool.pc # "idle" THEN unsynced \cup {c} ELSE unsynced
  /\ sd' = Tail(sd)
  /\ UNCHANGED <<adapterVars, configs, queue, disp, ready, active, sharedVars, store, tool, sets, stops>>

(* A js child's `initialize` is awaited. *)
Initialize(t) ==
  /\ At(t) = "initialize" /\ Connected(t)
  /\ Advance(t)
  /\ UNCHANGED <<adapterVars, configs, queue, disp, ready, sd, active, sharedVars, toolVars, stops>>

(* The parent waits for the oneshot its dispatcher fires; a child reads    *)
(* its own channel, and drops what comes before `initialized`.             *)
AwaitInitialized(t) ==
  /\ At(t) = "await"
  /\ IF t = Parent
     THEN ready /\ Advance(t) /\ UNCHANGED queue
     ELSE /\ queue[t] # <<>>
          /\ queue' = [queue EXCEPT ![t] = Tail(@)]
          /\ IF Head(queue[t]).name = "initialized" THEN Advance(t) ELSE UNCHANGED setup
  /\ UNCHANGED <<adapterVars, configs, disp, ready, sd, active, sharedVars, toolVars, stops>>

(* Mutant: nobody watches the clock. *)
NoTimeOut(t) == FALSE /\ UNCHANGED childVars

(* The deadline passes or the connection is closed: the handshake gives    *)
(* up, and a child's channel goes with it.                                 *)
TimeOut(t) ==
  /\ At(t) = "await"
  /\ setup' = [setup EXCEPT ![t].at = "failed"]
  /\ queue' = IF t = Parent THEN queue ELSE [queue EXCEPT ![t] = <<>>]
  /\ UNCHANGED <<adapterVars, configs, disp, ready, sd, active, sharedVars, toolVars, stops>>

(* The launch's breakpoints go the way of set_breakpoints. *)
LaunchBreakpoints ==
  /\ At(Parent) = "breakpoints" /\ Connected(active)
  /\ bound' = [bound EXCEPT ![active] = Initial]
  /\ store' = Initial
  /\ unsynced' = IF tool.pc # "idle" THEN unsynced \cup {Parent} ELSE unsynced
  /\ Advance(Parent)
  /\ UNCHANGED <<phase, configs, queue, disp, ready, sd, active, sharedVars, tool, sets, stops>>

(* A js child gets the copied breakpoints; an empty table has no file to   *)
(* ask for.                                                                *)
Forward(t) ==
  /\ At(t) = "forward"
  /\ setup[t].snap # {} => Connected(t)
  /\ bound' = [bound EXCEPT ![t] = setup[t].snap]
  /\ Advance(t)
  /\ UNCHANGED <<phase, configs, queue, disp, ready, sd, active, sharedVars, toolVars, stops>>

Configure(t) ==
  /\ At(t) = "configure"
  /\ configs' = [configs EXCEPT ![t] = @ + 1]
  /\ Advance(t)
  /\ UNCHANGED <<adapterVars, queue, disp, ready, sd, active, sharedVars, toolVars, stops>>

(* The parent awaits the response to its configurationDone. *)
Confirm ==
  /\ At(Parent) = "confirm" /\ phase[Parent] \notin {"created", "announced"}
  /\ Advance(Parent)
  /\ UNCHANGED <<adapterVars, configs, queue, disp, ready, sd, active, sharedVars, toolVars, stops>>

(* Mutant: the dispatcher is forgotten. *)
PublishSilently(t) ==
  /\ At(t) = "publish"
  /\ active' = t
  /\ Advance(t)
  /\ UNCHANGED <<adapterVars, configs, queue, disp, ready, sd, sharedVars, toolVars, stops>>

(* The child becomes the one the tools talk to; its dispatcher starts. *)
Publish(t) ==
  /\ At(t) = "publish"
  /\ active' = t
  /\ disp' = [disp EXCEPT ![t] = "recv"]
  /\ Advance(t)
  /\ UNCHANGED <<adapterVars, configs, queue, ready, sd, sharedVars, toolVars, stops>>

Handshake(t) ==
  \/ Initialize(t)
  \/ AwaitInitialized(t)
  \/ TimeOut(t)
  \/ t = Parent /\ LaunchBreakpoints
  \/ Forward(t)
  \/ Configure(t)
  \/ t = Parent /\ Confirm
  \/ Publish(t)

-----------------------------------------------------------------------------
(* The dispatchers *)

Receives(t, name) ==
  /\ disp[t] = "recv"
  /\ queue[t] # <<>> /\ Head(queue[t]).name = name
  /\ queue' = [queue EXCEPT ![t] = Tail(@)]

(* Mutant: a child's dispatcher treats `initialized` as its parent does. *)
OnInitializedOnce(t) ==
  /\ Receives(t, "initialized")
  /\ ready' = (ready \/ t = Parent)
  /\ UNCHANGED <<adapterVars, configs, setup, disp, sd, active, sharedVars, toolVars, stops>>

(* The parent's fires the oneshot; a js child's is the real target, which  *)
(* wants a configurationDone of its own.                                   *)
OnInitialized(t) ==
  /\ Receives(t, "initialized")
  /\ ready' = (ready \/ t = Parent)
  /\ configs' = IF t \in Children \ Debugpy THEN [configs EXCEPT ![t] = @ + 1] ELSE configs
  /\ UNCHANGED <<adapterVars, setup, disp, sd, active, sharedVars, toolVars, stops>>

(* startDebugging goes to the supervisor from the parent and from js       *)
(* children; debugpyAttach, which carries a port, starts a handshake from  *)
(* the parent only.                                                        *)
OnSpawn(t) ==
  /\ Receives(t, "spawn")
  /\ LET c == Head(queue[t]).child
         taken == IF c \in Debugpy THEN t = Parent ELSE t \notin Debugpy
     IN  /\ sd' = IF taken /\ c \notin Debugpy THEN Append(sd, c) ELSE sd
         /\ setup' = [setup EXCEPT ![c].at = IF ~taken THEN "ignored"
                                             ELSE IF c \in Debugpy THEN Stages(c)[1] ELSE "queued"]
         /\ unsynced' = IF taken /\ c \in Debugpy THEN unsynced \cup {c} ELSE unsynced
  /\ UNCHANGED <<adapterVars, configs, disp, ready, active, sharedVars, store, tool, sets, stops>>

OnStopped(t) ==
  /\ Receives(t, "stopped")
  /\ lastStopped' = t
  /\ version' = version + 1
  /\ disp' = [disp EXCEPT ![t] = "chain"]
  /\ UNCHANGED <<adapterVars, configs, setup, ready, sd, active, counter, timeline, entry, toolVars, stops>>

OnContinued(t) ==
  /\ Receives(t, "continued")
  /\ lastStopped' = Nobody
  /\ UNCHANGED <<adapterVars, configs, setup, disp, ready, sd, active, version, counter, timeline, entry, toolVars, stops>>

(* enrich_stopped asks the debuggee that stopped; if the connection has    *)
(* gone the chain is given up, or waits for ever (see DapClient).          *)
Chain(t) ==
  /\ disp[t] = "chain" /\ Connected(t)
  /\ disp' = [disp EXCEPT ![t] = "number"]
  /\ UNCHANGED <<adapterVars, configs, queue, setup, ready, sd, active, sharedVars, toolVars, stops>>

ChainFails(t) ==
  /\ disp[t] = "chain" /\ ~Connected(t)
  /\ disp' = [disp EXCEPT ![t] = "recv"]
  /\ UNCHANGED <<adapterVars, configs, queue, setup, ready, sd, active, sharedVars, toolVars, stops>>

(* Mutant: the number is the length of the timeline. *)
NumberByLength(t) ==
  /\ disp[t] = "number"
  /\ entry' = [entry EXCEPT ![t] = Len(timeline)]
  /\ counter' = counter + 1
  /\ disp' = [disp EXCEPT ![t] = "append"]
  /\ UNCHANGED <<adapterVars, configs, queue, setup, ready, sd, active, lastStopped, version, timeline, toolVars, stops>>

(* The entry is numbered before the lock on the timeline is taken. *)
Number(t) ==
  /\ disp[t] = "number"
  /\ entry' = [entry EXCEPT ![t] = counter]
  /\ counter' = counter + 1
  /\ disp' = [disp EXCEPT ![t] = "append"]
  /\ UNCHANGED <<adapterVars, configs, queue, setup, ready, sd, active, lastStopped, version, timeline, toolVars, stops>>

AppendEntry(t) ==
  /\ disp[t] = "append"
  /\ timeline' = Append(timeline, entry[t])
  /\ disp' = [disp EXCEPT ![t] = "recv"]
  /\ UNCHANGED <<adapterVars, configs, queue, setup, ready, sd, active, lastStopped, version, counter, entry, toolVars, stops>>

(* The channel of a closed connection ends, and with it the loop; nothing  *)
(* else is undone.                                                         *)
Ends(t) ==
  /\ disp[t] = "recv" /\ queue[t] = <<>> /\ phase[t] = "closed"
  /\ disp' = [disp EXCEPT ![t] = "ended"]
  /\ UNCHANGED <<adapterVars, configs, queue, setup, ready, sd, active, sharedVars, toolVars, stops>>

Dispatch(t) ==
  \/ OnInitialized(t) \/ OnSpawn(t) \/ OnStopped(t) \/ OnContinued(t)
  \/ Chain(t) \/ Number(t) \/ AppendEntry(t)
  \/ Ends(t)

-----------------------------------------------------------------------------
(* set_breakpoints, one call at a time *)

(* The client is chosen when the call begins; `late` is history, the       *)
(* handshake with it was over by then.                                     *)
BeginSet(lines) ==
  /\ tool.pc = "idle" /\ Acts < MaxActs /\ phase[Parent] # "created"
  /\ tool' = [pc |-> "asking", target |-> active, lines |-> lines, late |-> At(active) = "attached"]
  /\ sets' = sets + 1
  /\ unsynced' = unsynced \cup InWindow
  /\ UNCHANGED <<adapterVars, configs, queue, setup, disp, ready, sd, active, sharedVars, store, stops>>

(* Mutant: the request goes to the launched process. *)
InstallInParent ==
  /\ tool.pc = "asking" /\ Connected(Parent)
  /\ bound' = [bound EXCEPT ![Parent] = tool.lines]
  /\ tool' = [tool EXCEPT !.pc = "storing"]
  /\ unsynced' = unsynced \cup InWindow
  /\ UNCHANGED <<phase, configs, queue, setup, disp, ready, sd, active, sharedVars, store, sets, stops>>

Install ==
  /\ tool.pc = "asking" /\ Connected(tool.target)
  /\ bound' = [bound EXCEPT ![tool.target] = tool.lines]
  /\ tool' = [tool EXCEPT !.pc = "storing"]
  /\ unsynced' = unsynced \cup InWindow
  /\ UNCHANGED <<phase, configs, queue, setup, disp, ready, sd, active, sharedVars, store, sets, stops>>

(* The table is written when the response is there. *)
Store ==
  /\ tool.pc = "storing"
  /\ store' = tool.lines
  /\ tool' = NoCall
  /\ unsynced' = (unsynced \cup InWindow) \ (IF tool.late THEN {tool.target} ELSE {})
  /\ UNCHANGED <<adapterVars, configs, queue, setup, disp, ready, sd, active, sharedVars, sets, stops>>

(* A failing request leaves the table alone. *)
SetFails ==
  /\ tool.pc = "asking" /\ ~Connected(tool.target)
  /\ tool' = NoCall
  /\ UNCHANGED <<adapterVars, configs, queue, setup, disp, ready, sd, active, sharedVars, store, sets, stops, unsynced>>

Tool == (\E lines \in Lists : BeginSet(lines)) \/ Install \/ Store \/ SetFails

-----------------------------------------------------------------------------
(* The adapter *)

Emits(t, e) == queue' = [queue EXCEPT ![t] = Append(@, e)]

Announce(t) ==
  /\ Connected(t) /\ phase[t] = "created" /\ At(t) = "await"
  /\ phase' = [phase EXCEPT ![t] = "announced"]
  /\ Emits(t, Event("initialized"))
  /\ UNCHANGED <<bound, configs, setup, disp, ready, sd, active, sharedVars, toolVars, stops>>

Start(t) ==
  /\ Connected(t) /\ phase[t] \in {"announced", "reannounced"} /\ configs[t] > 0
  /\ phase' = [phase EXCEPT ![t] = "running"]
  /\ configs' = [configs EXCEPT ![t] = @ - 1]
  /\ UNCHANGED <<bound, queue, setup, disp, ready, sd, active, sharedVars, toolVars, stops>>

(* js-debug: the real target of a child, before its first stop. *)
Reannounce(t) ==
  /\ Connected(t) /\ phase[t] = "running" /\ t \in Children \ Debugpy /\ stops[t] = 0
  /\ phase' = [phase EXCEPT ![t] = "reannounced"]
  /\ Emits(t, Event("initialized"))
  /\ UNCHANGED <<bound, configs, setup, disp, ready, sd, active, sharedVars, toolVars, stops>>

Spawn(t, c) ==
  /\ Connected(t) /\ phase[t] = "running" /\ At(c) = "none"
  /\ setup' = [setup EXCEPT ![c].at = "asked"]
  /\ Emits(t, SpawnEvent(c))
  /\ UNCHANGED <<adapterVars, configs, disp, ready, sd, active, sharedVars, toolVars, stops>>

Pause(t) ==
  /\ Connected(t) /\ phase[t] = "running"
  /\ Acts < MaxActs
  /\ phase' = [phase EXCEPT ![t] = "suspended"]
  /\ stops' = [stops EXCEPT ![t] = @ + 1]
  /\ Emits(t, StopEvent(stops[t] + 1))
  /\ UNCHANGED <<bound, configs, setup, disp, ready, sd, active, sharedVars, toolVars>>

Resume(t) ==
  /\ Connected(t) /\ phase[t] = "suspended"
  /\ phase' = [phase EXCEPT ![t] = "running"]
  /\ Emits(t, Event("continued"))
  /\ UNCHANGED <<bound, configs, setup, disp, ready, sd, active, sharedVars, toolVars, stops>>

(* A child exits. *)
Close(c) ==
  /\ Connected(c)
  /\ phase' = [phase EXCEPT ![c] = "closed"]
  /\ UNCHANGED <<bound, configs, queue, setup, disp, ready, sd, active, sharedVars, toolVars, stops>>

Adapter ==
  \/ \E t \in Targets : Announce(t) \/ Start(t) \/ Reannounce(t) \/ Pause(t) \/ Resume(t)
  \/ \E t \in Targets, c \in Children : Spawn(t, c)
  \/ \E c \in Leaving : Close(c)

ChildNext ==
  \/ Supervise
  \/ \E t \in Targets : Handshake(t) \/ Dispatch(t) \/ ChainFails(t)
  \/ Tool
  \/ Adapter

ChildSpec == ChildInit /\ [][ChildNext]_childVars

(* Tasks run; the deadline of a handshake passes; the adapter takes the    *)
(* configurationDone it is sent.  It need not announce anything.           *)
ChildFairness ==
  /\ WF_childVars(Supervise)
  /\ \A t \in Targets :
       WF_childVars(Handshake(t)) /\ WF_childVars(Dispatch(t)) /\ WF_childVars(Start(t))

FairChildSpec == ChildSpec /\ ChildFairness

-----------------------------------------------------------------------------
(* Properties *)

Names  == {"initialized", "spawn", "stopped", "continued"}
Places == {"none", "asked", "queued", "ignored", "initialize", "await", "breakpoints", "forward",
           "configure", "confirm", "publish", "attached", "failed"}

ChildTypeOK ==
  /\ phase \in [Targets -> {"created", "announced", "reannounced", "running", "suspended", "closed"}]
  /\ bound \in [Targets -> SUBSET Lines]
  /\ configs \in [Targets -> 0..1]
  /\ queue \in [Targets -> Seq([name : Names, child : Children \cup {Nobody}, stop : Nat])]
  /\ setup \in [Targets -> [at : Places, snap : SUBSET Lines]]
  /\ \A t \in Targets :
       /\ At(t) \in Range(Stages(t)) \cup {"none", "asked", "queued", "ignored", "failed"}
       /\ disp[t] = "off" <=> t # Parent /\ At(t) # "attached"
  /\ disp \in [Targets -> {"off", "recv", "chain", "number", "append", "ended"}]
  /\ entry \in [Targets -> Nat]
  /\ ready \in BOOLEAN
  /\ sd \in Seq(Children) /\ \A c \in Range(sd) : At(c) = "queued"
  /\ active \in Targets /\ store \subseteq Lines
  /\ lastStopped \in Targets \cup {Nobody}
  /\ version \in Nat /\ counter \in Nat /\ timeline \in Seq(Nat)
  /\ tool \in [pc : {"idle", "asking", "storing"}, target : Targets \cup {Nobody},
               lines : SUBSET Lines, late : BOOLEAN]
  /\ sets \in Nat /\ stops \in [Targets -> Nat] /\ Acts <= MaxActs /\ unsynced \subseteq Targets

(* "Forward parent breakpoints to the child session so they bind in the    *)
(* child process" (session.rs 814): a debuggee runs its first instruction  *)
(* with the session's breakpoints, unless set_breakpoints was called while *)
(* its handshake was under way, or it is a debugpy child, which gets none. *)
StartsWithBreakpoints ==
  \A t \in Targets :
    phase[t] = "announced" /\ phase'[t] = "running" => t \in unsynced \/ bound[t] = store

(* While no call is in progress, the debuggee the tools talk to has the    *)
(* breakpoints of the session's table, with the same exceptions, which end *)
(* with the next call that reaches it (session.rs 136-152, 730, 747-752).  *)
ActiveInSync ==
  tool.pc = "idle" /\ At(active) = "attached" /\ active \notin unsynced => bound[active] = store

(* Both: breakpoints follow the session to every debuggee; initially none  *)
(* is attached.                                                            *)
InSync == [][StartsWithBreakpoints /\ ActiveInSync']_childVars

(* No stop is lost between a debuggee and stopped_tx, also not one that    *)
(* comes before its dispatcher is there; only a handshake that gave up     *)
(* takes its channel with it (session.rs 802-808, 862-880, 968-991).       *)
Heard == {t \in Targets : t = Parent \/ At(t) # "failed"}
Waiting ==
  UNION {{<<t, queue[t][i].stop>> : i \in {j \in DOMAIN queue[t] : queue[t][j].name = "stopped"}} : t \in Heard}
NoStopLost == version = Cardinality(StoppedBy(Heard) \ Waiting)

(* When every event has been handled, a session that shows a pause is      *)
(* paused there, and one with a single debuggee that ever stopped shows    *)
(* its pause (session.rs 365, 377, 877, 885, 998, 1006).                   *)
Settled == \A t \in Heard : queue[t] = <<>> /\ disp[t] \in {"recv", "off"} /\ phase[t] # "closed"

ViewSound ==
  Settled =>
    /\ \A t \in Targets : lastStopped = t => phase[t] = "suspended"
    /\ \A t \in Heard :
         phase[t] = "suspended" /\ (\A u \in Heard \ {t} : stops[u] = 0) => lastStopped = t

(* Dispatchers that stop at the same time never give two entries of the    *)
(* timeline one number, and every stop that could be examined has its      *)
(* entry (session.rs 1131-1145).                                           *)
TimelineNumbered ==
  /\ IsInjective(timeline)
  /\ Settled /\ (\A t \in Targets : phase[t] # "closed") => Len(timeline) = version

(* Together: the stops of several debuggees on one session are all counted *)
(* and recorded, and the pause that is shown is one.                       *)
StopsShown == NoStopLost /\ ViewSound /\ TimelineNumbered

(* A js child's real target is always told to go on (session.rs 858-875).  *)
ReinitAnswered ==
  \A t \in Children \ Debugpy : phase[t] = "reannounced" ~> phase[t] # "reannounced"

(* A child that was asked for is attached, or given up by the deadline, or *)
(* was announced where nobody listens; only if a child exits or is given   *)
(* up may another one be left behind (session.rs 250-277, 802-848).        *)
Pending == {c \in Children : At(c) \notin {"none", "attached", "ignored", "failed"}}
EveryChildSettles ==
  Pending # {} ~> Pending = {} \/ \E c \in Children : At(c) = "failed" \/ phase[c] = "closed"
=============================================================================
