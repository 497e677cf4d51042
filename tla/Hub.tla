-------------------------------- MODULE Hub --------------------------------
(***************************************************************************)
(* The broadcast hub (server/hub.rs) and the web socket loop that reads    *)
(* from it (handle_socket of server/routes.rs), for one session id.        *)
(*                                                                         *)
(* A frame is broadcast under the hub's lock: it is pushed on the cache    *)
(* and sent on a tokio broadcast channel, a ring of the last ChannelCap    *)
(* frames.  A socket takes a copy of the cache and a receiver under one    *)
(* acquisition of the same lock, sends the cache to its browser and then   *)
(* relays.  A receiver whose next frame has left the ring gets an error    *)
(* and is moved to the oldest frame still there.  handle_socket's select!  *)
(* has no branch for that error, so it then waits for the browser alone.   *)
(*                                                                         *)
(* A frame is its position in the sequence of frames.  The file events of  *)
(* the session are also appended to is not modelled.                       *)
(***************************************************************************)
EXTENDS Naturals, Sequences

CONSTANTS
  Sockets,      \* the web socket connections
  CacheCap,     \* frames kept for clients that join late (30)
  ChannelCap,   \* frames in the channel's ring (1024)
  MaxFrames,    \* bound: frames broadcast
  MaxCommands   \* bound: commands a browser sends

ASSUME HubAssumption ==
  /\ CacheCap \in Nat \ {0}
  /\ ChannelCap \in Nat \ {0}
  /\ MaxFrames \in Nat
  /\ MaxCommands \in Nat

VARIABLES
  registered, \* the session has an entry in the map
  frames,     \* how many frames were sent on the channel
  cache,      \* the cached frames
  socket      \* each connection

vars == <<registered, frames, cache, socket>>

(* pc: "none", "boot" while the cache is sent, "select" in the loop,       *)
(* "deaf" in the loop with the relaying branch disabled, "busy" in         *)
(* handle_ui_command, "closed".  boot: cached frames to send; next: where  *)
(* the receiver is; commands: commands received.  History: joined: the     *)
(* frames sent when it subscribed; got: what the browser was sent; lagged: *)
(* the receiver was ever moved.                                            *)
NoSocket == [pc |-> "none", boot |-> <<>>, next |-> 1, commands |-> 0, joined |-> 0,
             got |-> <<>>, lagged |-> FALSE]

Init ==
  /\ registered = FALSE
  /\ frames = 0
  /\ cache = <<>>
  /\ socket = [s \in Sockets |-> NoSocket]

-----------------------------------------------------------------------------
(* The hub *)

Register ==
  /\ ~registered
  /\ registered' = TRUE
  /\ UNCHANGED <<frames, cache, socket>>

Push(q, m) == IF Len(q) < CacheCap THEN Append(q, m) ELSE Append(Tail(q), m)

(* Nothing happens to a frame of a session nobody registered. *)
Send ==
  /\ frames < MaxFrames
  /\ registered
  /\ frames' = frames + 1
  /\ cache' = Push(cache, frames')
  /\ UNCHANGED registered

Broadcast == Send /\ UNCHANGED socket

(* Mutant: the copy of the cache is used as it was before the last frame.  *)
ConnectStale(s) ==
  /\ socket[s].pc = "none"
  /\ registered' = TRUE
  /\ socket' = [socket EXCEPT ![s] =
       [NoSocket EXCEPT !.pc = "boot",
                        !.boot = IF cache = <<>> THEN <<>> ELSE SubSeq(cache, 1, Len(cache) - 1),
                        !.next = frames + 1, !.joined = frames]]
  /\ UNCHANGED <<frames, cache>>

(* subscribe creates the entry when there is none. *)
Connect(s) ==
  /\ socket[s].pc = "none"
  /\ registered' = TRUE
  /\ socket' = [socket EXCEPT ![s] =
       [NoSocket EXCEPT !.pc = "boot", !.boot = cache, !.next = frames + 1, !.joined = frames]]
  /\ UNCHANGED <<frames, cache>>

-----------------------------------------------------------------------------
(* handle_socket *)

(* Mutant: the last cached frame, not the end of the cache, starts the loop. *)
BootstrapNonempty(s) ==
  /\ socket[s].pc = "boot"
  /\ socket[s].boot # <<>>
  /\ socket' = [socket EXCEPT ![s].got = Append(@, Head(socket[s].boot)), ![s].boot = Tail(@),
       ![s].pc = IF Len(socket[s].boot) = 1 THEN "select" ELSE "boot"]
  /\ UNCHANGED <<registered, frames, cache>>

Bootstrap(s) ==
  /\ socket[s].pc = "boot"
  /\ \/ /\ socket[s].boot = <<>>
        /\ socket' = [socket EXCEPT ![s].pc = "select"]
     \/ /\ socket[s].boot # <<>>
        /\ socket' = [socket EXCEPT ![s].got = Append(@, Head(socket[s].boot)),
                                    ![s].boot = Tail(@)]
  /\ UNCHANGED <<registered, frames, cache>>

Overtaken(s) == socket[s].next + ChannelCap <= frames

Relay(s) ==
  /\ socket[s].pc = "select"
  /\ socket[s].next <= frames
  /\ ~Overtaken(s)
  /\ socket' = [socket EXCEPT ![s].got = Append(@, socket[s].next), ![s].next = @ + 1]
  /\ UNCHANGED <<registered, frames, cache>>

Lag(s) ==
  /\ socket[s].pc = "select"
  /\ Overtaken(s)
  /\ socket' = [socket EXCEPT ![s].pc = "deaf", ![s].lagged = TRUE,
                              ![s].next = frames - ChannelCap + 1]
  /\ UNCHANGED <<registered, frames, cache>>

(* A command is handled in the loop, which relays nothing meanwhile.       *)
Command(s) ==
  /\ socket[s].pc \in {"select", "deaf"}
  /\ socket[s].commands < MaxCommands
  /\ socket' = [socket EXCEPT ![s].pc = "busy", ![s].commands = @ + 1]
  /\ UNCHANGED <<registered, frames, cache>>

(* The response, if the command has one, is broadcast. *)
CommandDone(s) ==
  /\ socket[s].pc = "busy"
  /\ socket' = [socket EXCEPT ![s].pc = "select"]
  /\ Send \/ UNCHANGED <<registered, frames, cache>>

(* The browser goes away, at any await of the loop. *)
Close(s) ==
  /\ socket[s].pc \notin {"none", "closed"}
  /\ socket' = [socket EXCEPT ![s].pc = "closed"]
  /\ UNCHANGED <<registered, frames, cache>>

Loop(s) == Bootstrap(s) \/ Relay(s) \/ Lag(s) \/ CommandDone(s)

Next ==
  \/ Register
  \/ Broadcast
  \/ \E s \in Sockets : Connect(s) \/ Loop(s) \/ Command(s) \/ Close(s)

Spec == Init /\ [][Next]_vars

(* The socket's task runs, and the commands it handles come to an end. *)
Fairness == \A s \in Sockets : WF_vars(Loop(s))

FairSpec == Spec /\ Fairness

-----------------------------------------------------------------------------
(* Properties *)

TypeOK ==
  /\ registered \in BOOLEAN
  /\ frames \in 0..MaxFrames
  /\ cache \in Seq(1..frames) /\ Len(cache) <= CacheCap
  /\ socket \in [Sockets ->
       [pc : {"none", "boot", "select", "deaf", "busy", "closed"}, boot : Seq(1..frames),
        next : 1..(frames + 1), commands : 0..MaxCommands, joined : 0..frames,
        got : Seq(1..frames), lagged : BOOLEAN]]

From(first, last) == [i \in 1..(last + 1 - first) |-> first + i - 1]

FirstCached(n) == IF n < CacheCap THEN 1 ELSE n - CacheCap + 1

(* A browser sees an uninterrupted run of the session's frames, beginning  *)
(* with the CacheCap frames before it joined: none is missing or repeated  *)
(* where the cache ends and the channel begins, whatever is broadcast      *)
(* meanwhile (hub.rs 35-47, routes.rs 42-62).  A receiver that fell        *)
(* ChannelCap frames behind is the exception.                              *)
NoGap ==
  \A s \in Sockets :
    socket[s].pc # "none" /\ ~socket[s].lagged =>
      socket[s].got \o socket[s].boot = From(FirstCached(socket[s].joined), socket[s].next - 1)

(* Even then no frame is shown twice or after a later one. *)
InOrder ==
  \A s \in Sockets : \A i, j \in 1..Len(socket[s].got) :
    i < j => socket[s].got[i] < socket[s].got[j]

(* Both: what a browser has got is a run of the session's frames. *)
Relayed == NoGap /\ InOrder

(* A connected browser gets to see every frame or falls behind by a whole  *)
(* ring; in that case, unless it sends a command, it may see no frame any  *)
(* more, although frames keep coming.                                      *)
CatchesUp ==
  \A s \in Sockets : \A n \in 1..MaxFrames :
    frames >= n /\ socket[s].pc \notin {"none", "closed"} ~>
      socket[s].next > n \/ socket[s].pc \in {"deaf", "closed"}
=============================================================================
