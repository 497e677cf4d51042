---------------------------- MODULE PortDiscovery ----------------------------
(***************************************************************************)
(* How `debugium` commands find a running server (home.rs, the launch and  *)
(* attach branches of main.rs, server/mod.rs, ctl.rs): several server      *)
(* processes and several commands share one file, ~/.debugium/port.        *)
(*                                                                         *)
(* A server binds its listener, writes port and pid to port.tmp and renames *)
(* that to port.  The name port.tmp is the same for every server, so the   *)
(* two names and the inodes behind them are told apart.  A command reads   *)
(* the file, asks whether the pid is alive, removes the file if not, and   *)
(* otherwise sends its tool calls to the port one after the other.         *)
(***************************************************************************)
EXTENDS Naturals, Sequences

CONSTANTS
  Servers,  \* server processes; a process stands for its pid
  Readers,  \* command-line processes
  Ports,    \* TCP ports
  Scripts,  \* the commands that are run, see Commands
  None

(* Every command there is, as the tool calls each makes in turn.  vars and *)
(* eval look the top frame up first when none is given; `bp set` makes one *)
(* call per file.                                                          *)
Lists       == {<<"list_sessions">>, <<"get_threads">>, <<"get_stack_trace">>}
BpSet       == {<<"set_breakpoints">>, <<"set_breakpoints", "set_breakpoints">>}
BpListClear == {<<"list_breakpoints">>, <<"clear_breakpoints">>}
Resume      == {<<"continue_execution">>, <<"step_in">>, <<"step_out">>, <<"step_over">>}
Vars        == {<<"get_stack_trace", "get_scopes", "get_variables">>,
                <<"get_scopes", "get_variables">>}
Eval        == {<<"get_stack_trace", "evaluate">>, <<"evaluate">>}
View        == {<<"get_source">>, <<"get_debug_context">>}
Note        == {<<"annotate">>, <<"add_finding">>}
Commands    == Lists \cup BpSet \cup BpListClear \cup Resume \cup Vars \cup Eval \cup View \cup Note

ASSUME PortAssumption ==
  /\ None \notin Servers \cup Ports
  /\ Scripts \subseteq Commands

VARIABLES
  server,   \* each server process
  reader,   \* each command
  names,    \* the directory: "port" and "tmp" -> an inode, named by its creator
  content,  \* inode -> whose port and pid it holds, None while it is empty
  recycled, \* dead servers whose pid belongs to some other process by now
  disturbed \* history: servers whose file somebody else may have taken away

files == <<names, content>>
vars == <<server, reader, files, recycled, disturbed>>

(* kind: "launch" removes the file at the end, "mcp" (launch --mcp) does   *)
(* not, "attach" writes none.  file: the inode write_port has open.        *)
Kinds == {"launch", "mcp", "attach"}

NewServer(kind) == [pc |-> "off", kind |-> kind, port |-> None, file |-> None]

(* seen: the owner the file named; port: where the calls go; call: "none", *)
(* "sent", "ok", "error", or "late" when the command no longer waits.      *)
(* History: acked, calls that succeeded; applied, calls a server executed  *)
(* successfully; by, those servers.                                        *)
NoReader == [pc |-> "idle", script |-> <<>>, seen |-> None, port |-> None, call |-> "none",
             acked |-> 0, applied |-> 0, by |-> {}]

Init ==
  /\ server \in [Servers -> {NewServer(kind) : kind \in Kinds}]
  /\ reader = [r \in Readers |-> NoReader]
  /\ names = [port |-> None, tmp |-> None]
  /\ content = [s \in Servers |-> None]
  /\ recycled = {}
  /\ disturbed = {}

Running(s) == server[s].pc \notin {"off", "dead"}
Alive(s) == Running(s) \/ s \in recycled
Writing(s) == server[s].pc \in {"opened", "written"}

(* What the port file says. *)
Owner == IF names.port = None THEN None ELSE content[names.port]

(* Two servers write at the same time; t takes the place of those up. *)
Overlaps(t) == LET others == {s \in Servers \ {t} : Writing(s)}
               IN disturbed \cup others \cup (IF others = {} THEN {} ELSE {t})
Displaces(t) == disturbed \cup {s \in Servers \ {t} : server[s].pc = "up"}

-----------------------------------------------------------------------------
(* Servers *)

(* Mutant: the listener is opened with SO_REUSEPORT. *)
BindShared(s) ==
  /\ server[s].pc = "off"
  /\ \E p \in Ports : server' = [server EXCEPT ![s].port = p,
       ![s].pc = IF server[s].kind = "attach" THEN "up" ELSE "bound"]
  /\ UNCHANGED <<reader, files, recycled, disturbed>>

(* start_background and start; when the port is taken the process ends.    *)
Bind(s) ==
  /\ server[s].pc = "off"
  /\ \E p \in Ports :
       LET taken == \E t \in Servers \ {s} : Running(t) /\ server[t].port = p
       IN server' = [server EXCEPT ![s].port = p,
            ![s].pc = CASE taken -> "dead"
                        [] ~taken /\ server[s].kind = "attach" -> "up"
                        [] OTHER -> "bound"]
  /\ UNCHANGED <<reader, files, recycled, disturbed>>

(* Opens a name of the directory, creating or truncating what is there. *)
Open(s, name) ==
  LET inode == IF names[name] = None THEN s ELSE names[name]
  IN /\ server' = [server EXCEPT ![s].pc = "opened", ![s].file = inode]
     /\ names' = [names EXCEPT ![name] = inode]
     /\ content' = [content EXCEPT ![inode] = None]

(* Mutant: the port file is written in place. *)
OpenInPlace(s) ==
  /\ server[s].pc = "bound"
  /\ Open(s, "port")
  /\ disturbed' = Overlaps(s)
  /\ UNCHANGED <<reader, recycled>>

(* write_port: port.tmp is opened, ... *)
OpenTmp(s) ==
  /\ server[s].pc = "bound"
  /\ Open(s, "tmp")
  /\ disturbed' = Overlaps(s)
  /\ UNCHANGED <<reader, recycled>>

(* ... written, under whatever name the inode has by then, ... *)
WriteTmp(s) ==
  /\ server[s].pc = "opened"
  /\ content' = [content EXCEPT ![server[s].file] = s]
  /\ server' = [server EXCEPT ![s].pc = "written"]
  /\ UNCHANGED <<reader, names, recycled, disturbed>>

(* ... and renamed, which fails when another server's rename came first.   *)
Rename(s) ==
  /\ server[s].pc = "written"
  /\ server' = [server EXCEPT ![s].pc = "up"]
  /\ names' = IF names.tmp = None THEN names ELSE [port |-> names.tmp, tmp |-> None]
  /\ disturbed' = Displaces(s)
  /\ UNCHANGED <<reader, content, recycled>>

(* Ctrl-C or SIGTERM: launch removes the file, whoever it names. *)
Shutdown(s) ==
  /\ server[s].pc = "up" /\ server[s].kind = "launch"
  /\ server' = [server EXCEPT ![s].pc = "dead"]
  /\ names' = [names EXCEPT !.port = None]
  /\ disturbed' = Displaces(s)
  /\ UNCHANGED <<reader, content, recycled>>

(* The end of launch --mcp and attach, and a crash of any: the file stays. *)
Die(s) ==
  /\ Running(s)
  /\ server' = [server EXCEPT ![s].pc = "dead"]
  /\ UNCHANGED <<reader, files, recycled, disturbed>>

(* The system gives the pid of a dead server to another process. *)
Recycle(s) ==
  /\ server[s].pc = "dead" /\ s \notin recycled
  /\ recycled' = recycled \cup {s}
  /\ UNCHANGED <<server, reader, files, disturbed>>

-----------------------------------------------------------------------------
(* read_port *)

(* A file that is missing or empty is no answer. *)
ReadFile(r) ==
  /\ reader[r].pc = "idle"
  /\ \E script \in Scripts : reader' = [reader EXCEPT ![r] =
       [@ EXCEPT !.script = script, !.seen = Owner,
                 !.pc = IF Owner = None THEN "failed" ELSE "check"]]
  /\ UNCHANGED <<server, files, recycled, disturbed>>

(* kill(pid, 0) *)
CheckPid(r) ==
  LET owner == reader[r].seen
  IN /\ reader[r].pc = "check"
     /\ reader' = [reader EXCEPT
          ![r] = IF Alive(owner) THEN [@ EXCEPT !.pc = "send", !.port = server[owner].port]
                 ELSE [@ EXCEPT !.pc = "remove"]]
     /\ UNCHANGED <<server, files, recycled, disturbed>>

(* The stale file is removed, or the one that has replaced it meanwhile.   *)
RemoveStale(r) ==
  /\ reader[r].pc = "remove"
  /\ names' = [names EXCEPT !.port = None]
  /\ disturbed' = disturbed \cup ({Owner} \ {None, reader[r].seen})
  /\ reader' = [reader EXCEPT ![r].pc = "failed"]
  /\ UNCHANGED <<server, content, recycled>>

-----------------------------------------------------------------------------
(* ctl::call, once per tool of the script, and mcp_proxy_handler *)

Listeners(p) == {s \in Servers : Running(s) /\ server[s].port = p}

(* The request is sent; without a listener the connection is refused. *)
SendCall(r) ==
  /\ reader[r].pc = "send"
  /\ reader' = [reader EXCEPT ![r] =
       IF Listeners(@.port) = {} THEN [@ EXCEPT !.pc = "failed"]
       ELSE [@ EXCEPT !.pc = "wait", !.call = "sent"]]
  /\ UNCHANGED <<server, files, recycled, disturbed>>

(* dispatch_tool succeeds or fails at whoever listens there. *)
Execute(r) ==
  /\ reader[r].call \in {"sent", "late"}
  /\ \E s \in Listeners(reader[r].port), ok \in BOOLEAN :
       reader' = [reader EXCEPT
         ![r].call = IF @ = "late" THEN "none" ELSE IF ok THEN "ok" ELSE "error",
         ![r].applied = IF ok THEN @ + 1 ELSE @,
         ![r].by = IF ok THEN @ \cup {s} ELSE @]
  /\ UNCHANGED <<server, files, recycled, disturbed>>

(* The response; vars stops after get_scopes when there is no scope. *)
Receive(r) ==
  /\ reader[r].pc = "wait"
  /\ \/ /\ reader[r].call = "ok"
        /\ LET n == reader[r].acked + 1
               ends == {n = Len(reader[r].script)} \cup
                       (IF reader[r].script[n] = "get_scopes" THEN {TRUE} ELSE {})
           IN \E end \in ends : reader' = [reader EXCEPT ![r] =
                [@ EXCEPT !.acked = n, !.call = "none", !.pc = IF end THEN "done" ELSE "send"]]
     \/ /\ reader[r].call = "error"
        /\ reader' = [reader EXCEPT ![r].pc = "failed", ![r].call = "none"]
  /\ UNCHANGED <<server, files, recycled, disturbed>>

(* Mutant: a call that timed out is sent once more. *)
Resend(r) ==
  /\ reader[r].pc = "wait"
  /\ reader' = [reader EXCEPT ![r].pc = "send", ![r].call = "none"]
  /\ UNCHANGED <<server, files, recycled, disturbed>>

(* Ten seconds are over or the connection is lost: the command ends, and   *)
(* what it had sent may be executed all the same.                          *)
GiveUp(r) ==
  /\ reader[r].pc = "wait"
  /\ reader' = [reader EXCEPT ![r].pc = "failed",
                              ![r].call = IF @ = "sent" THEN "late" ELSE "none"]
  /\ UNCHANGED <<server, files, recycled, disturbed>>

ServerStep(s) ==
  Bind(s) \/ OpenTmp(s) \/ WriteTmp(s) \/ Rename(s) \/ Shutdown(s) \/ Die(s) \/ Recycle(s)

ReaderStep(r) ==
  \/ ReadFile(r) \/ CheckPid(r) \/ RemoveStale(r)
  \/ SendCall(r) \/ Execute(r) \/ Receive(r) \/ GiveUp(r)

Next == (\E s \in Servers : ServerStep(s)) \/ (\E r \in Readers : ReaderStep(r))

Spec == Init /\ [][Next]_vars

-----------------------------------------------------------------------------
(* Properties *)

(* Types; no two servers listen on one port. *)
TypeOK ==
  /\ server \in [Servers ->
       [pc : {"off", "bound", "opened", "written", "up", "dead"}, kind : Kinds,
        port : Ports \cup {None}, file : Servers \cup {None}]]
  /\ \A r \in Readers :
       /\ reader[r].pc \in {"idle", "check", "remove", "send", "wait", "done", "failed"}
       /\ reader[r].script \in Scripts \cup {<<>>}
       /\ reader[r].seen \in Servers \cup {None} /\ reader[r].port \in Ports \cup {None}
       /\ reader[r].call \in {"none", "sent", "ok", "error", "late"}
       /\ reader[r].acked \in 0..3 /\ reader[r].applied \in 0..4
       /\ reader[r].by \subseteq Servers
  /\ names \in [{"port", "tmp"} -> Servers \cup {None}]
  /\ content \in [Servers -> Servers \cup {None}]
  /\ recycled \subseteq Servers /\ disturbed \subseteq Servers
  /\ \A s, t \in Servers :
       Running(s) /\ Running(t) /\ server[s].port = server[t].port /\ server[s].port # None => s = t

(* A server that is up can be found: the port file names it, whole, while  *)
(* other servers start and commands come and go ("Write the server port +  *)
(* PID to `~/.debugium/port` atomically", home.rs 19; "validating the PID  *)
(* is still alive", home.rs 39).  What takes it away is another server that gets up or is   *)
(* shut down after it, two servers that write at the same time, or a       *)
(* command that read the name of a dead one before.                        *)
PortKept ==
  \A s \in Servers :
    server[s].pc = "up" /\ server[s].kind # "attach" /\ s \notin disturbed => Owner = s

(* What a command says is so: each of its calls was executed at most once, *)
(* those it saw succeed were, and when it ends at most one more than it    *)
(* reports, the one it stopped waiting for (ctl.rs 26-53).  All of them    *)
(* went to the server the file named, as long as that one is alive.        *)
CallsOnce ==
  \A r \in Readers :
    LET c == reader[r]
    IN /\ c.acked <= c.applied /\ c.applied <= c.acked + 1
       /\ c.pc = "done" => c.applied = c.acked
       /\ c.seen # None /\ Running(c.seen) => c.by \subseteq {c.seen}
=============================================================================
