------------------------ MODULE PortDiscoveryProofs ------------------------
(***************************************************************************)
(* The port file names the server that is up, and a command's calls reach  *)
(* one server at most once each, for any number of servers, commands and   *)
(* ports.                                                                  *)
(***************************************************************************)
EXTENDS PortDiscovery, TLAPS

Process ==
  [pc : {"off", "bound", "opened", "written", "up", "dead"}, kind : Kinds,
   port : Ports \cup {None}, file : Servers \cup {None}]

(* A server that has started has a port, which no other running server has. *)
ServersOK ==
  /\ server \in [Servers -> Process]
  /\ \A s \in Servers :
       /\ server[s].pc # "off" => server[s].port \in Ports
       /\ Writing(s) => server[s].file \in Servers
  /\ \A s, t \in Servers : Running(s) /\ Running(t) /\ server[s].port = server[t].port => s = t

(* A server that has not opened port.tmp yet has no inode; two that write  *)
(* at the same time are disturbed; the file of one that writes alone is    *)
(* port.tmp, and nobody has the file of one that is up open.               *)
FilesOK ==
  /\ names \in [{"port", "tmp"} -> Servers \cup {None}]
  /\ content \in [Servers -> Servers \cup {None}]
  /\ \A i \in Servers : content[i] # None => server[content[i]].pc # "off"
  /\ names.tmp # None => names.tmp # names.port
  /\ \A s \in Servers : server[s].pc \in {"off", "bound"} =>
       names.port # s /\ names.tmp # s /\ \A t \in Servers : Writing(t) => server[t].file # s
  /\ \A s, t \in Servers : s # t /\ Writing(s) /\ Writing(t) => s \in disturbed
  /\ \A s \in Servers : Writing(s) /\ s \notin disturbed =>
       /\ names.tmp = server[s].file
       /\ server[s].pc = "written" => content[server[s].file] = s
  /\ \A s \in Servers : server[s].pc = "up" /\ server[s].kind # "attach" /\ s \notin disturbed =>
       /\ names.port \in Servers /\ content[names.port] = s
       /\ \A t \in Servers : Writing(t) => server[t].file # names.port

Reader ==
  [pc : {"idle", "check", "remove", "send", "wait", "done", "failed"},
   script : Scripts \cup {<<>>}, seen : Servers \cup {None}, port : Ports \cup {None},
   call : {"none", "sent", "ok", "error", "late"}, acked : Nat, applied : Nat, by : SUBSET Servers]

(* A call that was executed and not acknowledged yet is the last one.      *)
Counted(c) ==
  /\ c.pc \notin {"wait", "failed"} => c.call = "none" /\ c.applied = c.acked
  /\ c.pc = "wait" => /\ c.call \in {"sent", "ok", "error"}
                      /\ c.call = "ok" => c.applied = c.acked + 1
                      /\ c.call # "ok" => c.applied = c.acked
  /\ c.pc = "failed" => /\ c.call \in {"none", "late"}
                        /\ c.call = "late" => c.applied = c.acked
                        /\ c.acked <= c.applied /\ c.applied <= c.acked + 1

(* The server the file named: a stale one is dead, a running one has the   *)
(* port the calls go to.                                                   *)
Directed(c) ==
  /\ c.pc = "idle" => c.by = {} /\ c.port = None
  /\ c.pc \in {"check", "remove"} => c.seen # None
  /\ c.pc = "remove" => server[c.seen].pc = "dead"
  /\ c.seen # None => server[c.seen].pc # "off"
  /\ c.seen # None /\ Running(c.seen) =>
       /\ c.by \subseteq {c.seen}
       /\ c.port # None => c.port = server[c.seen].port

ReadersOK ==
  /\ reader \in [Readers -> Reader]
  /\ \A r \in Readers : Counted(reader[r]) /\ Directed(reader[r])

IInv == ServersOK /\ FilesOK /\ ReadersOK

-----------------------------------------------------------------------------
(* What no step of a server does *)

(* A server never starts again and never changes its port. *)
Evolves ==
  \A s \in Servers : server[s].pc # "off" =>
    /\ server'[s].pc # "off" /\ server'[s].port = server[s].port
    /\ Running(s)' => Running(s)
    /\ server[s].pc = "dead" => server'[s].pc = "dead"

(* So what a command knows of its server stays true. *)
LEMMA ReadersKept ==
  ASSUME ReadersOK, Evolves, UNCHANGED reader
  PROVE  ReadersOK'
<1>1. ASSUME NEW r \in Readers  PROVE Counted(reader'[r]) /\ Directed(reader[r])'
  <2>1. Counted(reader[r]) /\ Directed(reader[r]) /\ reader'[r] = reader[r] /\ reader[r] \in Reader
    BY DEF ReadersOK
  <2>2. reader[r].seen # None => reader[r].seen \in Servers
    BY <2>1 DEF Reader
  <2>3. Directed(reader[r])'
    BY <2>1, <2>2 DEF Directed, Evolves
  <2>. QED  BY <2>1, <2>3
<1>. QED
  BY <1>1 DEF ReadersOK, Counted

(* A server that binds a port, or finds it taken. *)
LEMMA BindIInv ==
  ASSUME IInv, NEW s \in Servers, Bind(s)
  PROVE  IInv'
<1>. USE PortAssumption
<1>1. PICK p \in Ports :
        server' = [server EXCEPT ![s].port = p,
          ![s].pc = CASE \E t \in Servers \ {s} : Running(t) /\ server[t].port = p -> "dead"
                      [] ~(\E t \in Servers \ {s} : Running(t) /\ server[t].port = p)
                           /\ server[s].kind = "attach" -> "up"
                      [] OTHER -> "bound"]
  BY DEF Bind
<1>2. server[s].pc = "off" /\ UNCHANGED <<reader, names, content, recycled, disturbed>>
  BY DEF Bind, files
<1>3. /\ server'[s].port = p /\ server'[s].kind = server[s].kind /\ server'[s].file = server[s].file
      /\ server'[s].pc \in {"dead", "up", "bound"}
      /\ server'[s].pc = "up" => server[s].kind = "attach"
      /\ server'[s].pc # "dead" => ~\E t \in Servers \ {s} : Running(t) /\ server[t].port = p
  BY <1>1 DEF IInv, ServersOK, Process
<1>4. \A t \in Servers : t # s => server'[t] = server[t]
  BY <1>1 DEF IInv, ServersOK
<1>5. server' \in [Servers -> Process]
  <2>1. DOMAIN server' = Servers /\ server' = [t \in Servers |-> server'[t]]
    BY <1>1 DEF IInv, ServersOK
  <2>2. server'[s] \in Process
    <3>. DEFINE q == CASE \E t \in Servers \ {s} : Running(t) /\ server[t].port = p -> "dead"
                       [] ~(\E t \in Servers \ {s} : Running(t) /\ server[t].port = p)
                            /\ server[s].kind = "attach" -> "up"
                       [] OTHER -> "bound"
    <3>1. q \in {"dead", "up", "bound"}
      OBVIOUS
    <3>2. server' = [server EXCEPT ![s].port = p, ![s].pc = q]
      BY <1>1
    <3>. HIDE DEF q
    <3>. QED  BY <3>1, <3>2, ZenonT(60) DEF IInv, ServersOK, Process
  <2>3. \A t \in Servers : server'[t] \in Process
    BY <1>4, <2>2 DEF IInv, ServersOK
  <2>. QED  BY <2>1, <2>3
<1>6. ServersOK'
  BY <1>2, <1>3, <1>4, <1>5 DEF IInv, ServersOK, Running, Writing
<1>7. \A t \in Servers : Writing(t)' <=> Writing(t)
  BY <1>2, <1>3, <1>4 DEF Writing
<1>8. FilesOK'
  BY <1>2, <1>3, <1>4, <1>7 DEF IInv, FilesOK, Writing
<1>9. Evolves
  BY <1>2, <1>4 DEF Evolves, Running
<1>. QED
  BY <1>2, <1>6, <1>8, <1>9, ReadersKept DEF IInv

(* A server whose place alone changes, and maybe the file it has open. *)
LEMMA Advance ==
  ASSUME IInv, NEW s \in Servers, server[s].pc # "off",
         server' \in [Servers -> Process],
         \A t \in Servers : t # s => server'[t] = server[t],
         server'[s].port = server[s].port, server'[s].pc # "off",
         Running(s)' => Running(s), server[s].pc = "dead" => server'[s].pc = "dead",
         Writing(s)' => server'[s].file \in Servers,
         UNCHANGED reader
  PROVE  ServersOK' /\ ReadersOK'
<1>1. \A t \in Servers : Running(t)' => Running(t)
  BY DEF Running
<1>2. \A t \in Servers : server'[t].port = server[t].port
  OBVIOUS
<1>3. ServersOK'
  BY <1>1, <1>2 DEF IInv, ServersOK, Writing
<1>4. Evolves
  BY <1>1 DEF Evolves
<1>. QED
  BY <1>3, <1>4, ReadersKept DEF IInv

(* port.tmp is opened: nobody's file is touched but that of others who     *)
(* write too.                                                              *)
LEMMA OpenTmpIInv ==
  ASSUME IInv, NEW s \in Servers, OpenTmp(s)
  PROVE  IInv'
<1>. USE PortAssumption
<1>. DEFINE inode == IF names.tmp = None THEN s ELSE names.tmp
            others == {t \in Servers \ {s} : Writing(t)}
<1>1. /\ server' = [server EXCEPT ![s].pc = "opened", ![s].file = inode]
      /\ names' = [names EXCEPT !["tmp"] = inode]
      /\ content' = [content EXCEPT ![inode] = None]
      /\ server[s].pc = "bound" /\ UNCHANGED reader
  BY DEF OpenTmp, Open
<1>2. disturbed' = disturbed \cup others \cup (IF others = {} THEN {} ELSE {s})
  BY DEF OpenTmp, Overlaps
<1>3. inode \in Servers /\ inode # names.port
  BY <1>1 DEF IInv, FilesOK
<1>4. \A t \in Servers : t # s /\ server[t].pc \in {"off", "bound"} => inode # t
  BY <1>1 DEF IInv, FilesOK
<1>. HIDE DEF inode
<1>5. /\ server'[s].pc = "opened" /\ server'[s].file = inode /\ server'[s].port = server[s].port
      /\ \A t \in Servers : t # s => server'[t] = server[t]
      /\ server' \in [Servers -> Process]
  BY <1>1, <1>3, ZenonT(60) DEF IInv, ServersOK, Process
<1>6. /\ names'.tmp = inode /\ names'.port = names.port
      /\ names' \in [{"port", "tmp"} -> Servers \cup {None}]
  BY <1>1, <1>3 DEF IInv, FilesOK
<1>7. /\ content' \in [Servers -> Servers \cup {None}] /\ content'[inode] = None
      /\ \A i \in Servers : i # inode => content'[i] = content[i]
  BY <1>1, <1>3 DEF IInv, FilesOK
<1>8. ServersOK' /\ ReadersOK'
  BY <1>1, <1>3, <1>5, Advance DEF Running
<1>9. \A t \in Servers : t # s => (Writing(t)' <=> Writing(t)) /\ (Writing(t) => t \in disturbed')
  BY <1>2, <1>5 DEF Writing
<1>10. ~Writing(s) /\ Writing(s)'
  BY <1>1, <1>5 DEF Writing
<1>11. \A t, u \in Servers : t # u /\ Writing(t)' /\ Writing(u)' => t \in disturbed'
  BY <1>2, <1>9, <1>10
<1>12. \A t \in Servers : server'[t].pc \in {"off", "bound"} =>
         /\ names'.port # t /\ names'.tmp # t
         /\ \A u \in Servers : Writing(u)' => server'[u].file # t
  BY <1>4, <1>5, <1>6, <1>9 DEF IInv, FilesOK
<1>13. \A t \in Servers : Writing(t)' /\ t \notin disturbed' =>
         /\ names'.tmp = server'[t].file
         /\ server'[t].pc = "written" => content'[server'[t].file] = t
  BY <1>5, <1>6, <1>9
<1>14. ASSUME NEW t \in Servers, server'[t].pc = "up", server'[t].kind # "attach", t \notin disturbed'
       PROVE  /\ names'.port \in Servers /\ content'[names'.port] = t
              /\ \A u \in Servers : Writing(u)' => server'[u].file # names'.port
  <2>1. t # s /\ t \notin disturbed /\ server'[t] = server[t]
    BY <1>2, <1>5, <1>14
  <2>2. /\ names.port \in Servers /\ content[names.port] = t
        /\ \A u \in Servers : Writing(u) => server[u].file # names.port
    BY <1>14, <2>1 DEF IInv, FilesOK
  <2>. QED  BY <1>3, <1>5, <1>6, <1>7, <1>9, <2>2
<1>15. \A i \in Servers : content'[i] # None => server'[content'[i]].pc # "off"
  BY <1>5, <1>7 DEF IInv, FilesOK
<1>16. FilesOK'
  BY <1>3, <1>6, <1>7, <1>11, <1>12, <1>13, <1>14, <1>15 DEF FilesOK
<1>. QED
  BY <1>8, <1>16 DEF IInv

(* The file is written: a server that is up does not have it any more. *)
LEMMA WriteTmpIInv ==
  ASSUME IInv, NEW s \in Servers, WriteTmp(s)
  PROVE  IInv'
<1>. USE PortAssumption
<1>. DEFINE f == server[s].file
<1>1. /\ content' = [content EXCEPT ![f] = s] /\ server' = [server EXCEPT ![s].pc = "written"]
      /\ server[s].pc = "opened" /\ UNCHANGED <<reader, names, disturbed>>
  BY DEF WriteTmp
<1>2. f \in Servers /\ Writing(s)
  BY <1>1 DEF IInv, ServersOK, Writing
<1>. HIDE DEF f
<1>3. /\ server'[s].pc = "written" /\ server'[s].file = f /\ server'[s].port = server[s].port
      /\ \A t \in Servers : t # s => server'[t] = server[t]
      /\ server' \in [Servers -> Process]
  BY <1>1 DEF IInv, ServersOK, Process, f
<1>4. /\ content' \in [Servers -> Servers \cup {None}] /\ content'[f] = s
      /\ \A i \in Servers : i # f => content'[i] = content[i]
  BY <1>1, <1>2 DEF IInv, FilesOK
<1>5. ServersOK' /\ ReadersOK'
  BY <1>1, <1>2, <1>3, Advance DEF Running
<1>6. \A t \in Servers : (Writing(t)' <=> Writing(t)) /\ server'[t].file = server[t].file
  BY <1>1, <1>2, <1>3 DEF Writing, f
<1>7. \A i \in Servers : content'[i] # None => server'[content'[i]].pc # "off"
  BY <1>3, <1>4 DEF IInv, FilesOK
<1>8. \A t, u \in Servers : t # u /\ Writing(t)' /\ Writing(u)' => t \in disturbed'
  BY <1>1, <1>6 DEF IInv, FilesOK
<1>9. \A t \in Servers : server'[t].pc \in {"off", "bound"} =>
        /\ names'.port # t /\ names'.tmp # t
        /\ \A u \in Servers : Writing(u)' => server'[u].file # t
  BY <1>1, <1>3, <1>6 DEF IInv, FilesOK
<1>10. ASSUME NEW t \in Servers, Writing(t)', t \notin disturbed'
       PROVE  /\ names'.tmp = server'[t].file
              /\ server'[t].pc = "written" => content'[server'[t].file] = t
  <2>1. t = s
    BY <1>1, <1>2, <1>6, <1>10 DEF IInv, FilesOK
  <2>. QED  BY <1>1, <1>2, <1>3, <1>4, <1>10, <2>1 DEF IInv, FilesOK, f
<1>11. ASSUME NEW t \in Servers, server'[t].pc = "up", server'[t].kind # "attach", t \notin disturbed'
       PROVE  /\ names'.port \in Servers /\ content'[names'.port] = t
              /\ \A u \in Servers : Writing(u)' => server'[u].file # names'.port
  <2>1. t # s /\ server'[t] = server[t] /\ t \notin disturbed
    BY <1>1, <1>3, <1>11
  <2>2. /\ names.port \in Servers /\ content[names.port] = t
        /\ \A u \in Servers : Writing(u) => server[u].file # names.port
    BY <1>11, <2>1 DEF IInv, FilesOK
  <2>. QED  BY <1>1, <1>2, <1>4, <1>6, <2>2 DEF f
<1>12. FilesOK'
  BY <1>1, <1>4, <1>7, <1>8, <1>9, <1>10, <1>11 DEF IInv, FilesOK
<1>. QED
  BY <1>5, <1>12 DEF IInv

(* port.tmp becomes the port file: that of a server which wrote it alone   *)
(* names that server.                                                      *)
LEMMA RenameIInv ==
  ASSUME IInv, NEW s \in Servers, Rename(s)
  PROVE  IInv'
<1>. USE PortAssumption
<1>1. /\ server' = [server EXCEPT ![s].pc = "up"] /\ server[s].pc = "written"
      /\ names' = IF names.tmp = None THEN names ELSE [port |-> names.tmp, tmp |-> None]
      /\ disturbed' = disturbed \cup {t \in Servers \ {s} : server[t].pc = "up"}
      /\ UNCHANGED <<reader, content>>
  BY DEF Rename, Displaces
<1>2. /\ server'[s].pc = "up" /\ server'[s].file = server[s].file /\ server'[s].port = server[s].port
      /\ \A t \in Servers : t # s => server'[t] = server[t]
      /\ server' \in [Servers -> Process]
  BY <1>1 DEF IInv, ServersOK, Process
<1>3. ServersOK' /\ ReadersOK'
  BY <1>1, <1>2, Advance DEF Running, Writing
<1>4. Writing(s) /\ server[s].file \in Servers
  BY <1>1 DEF Writing, IInv, ServersOK
<1>5. \A t \in Servers : Writing(t)' => Writing(t) /\ t # s /\ t \in disturbed /\ s \in disturbed
  BY <1>1, <1>2, <1>4 DEF Writing, IInv, FilesOK
<1>6. /\ names' \in [{"port", "tmp"} -> Servers \cup {None}]
      /\ names'.tmp = None
      /\ names'.port = IF names.tmp = None THEN names.port ELSE names.tmp
  BY <1>1 DEF IInv, FilesOK
<1>7. \A i \in Servers : content'[i] # None => server'[content'[i]].pc # "off"
  BY <1>1, <1>2 DEF IInv, FilesOK
<1>8. \A t \in Servers : server'[t].pc \in {"off", "bound"} =>
        /\ names'.port # t /\ names'.tmp # t
        /\ \A u \in Servers : Writing(u)' => server'[u].file # t
  BY <1>2, <1>5, <1>6 DEF IInv, FilesOK
<1>9. ASSUME NEW t \in Servers, server'[t].pc = "up", t \notin disturbed'
      PROVE  /\ names'.port \in Servers /\ content'[names'.port] = t
             /\ \A u \in Servers : Writing(u)' => server'[u].file # names'.port
  <2>1. t = s /\ s \notin disturbed
    BY <1>1, <1>2, <1>9
  <2>2. names.tmp = server[s].file /\ content[server[s].file] = s
    BY <1>1, <1>4, <2>1 DEF IInv, FilesOK
  <2>. QED  BY <1>1, <1>4, <1>5, <1>6, <2>1, <2>2
<1>10. FilesOK'
  BY <1>1, <1>2, <1>5, <1>6, <1>7, <1>8, <1>9 DEF IInv, FilesOK
<1>. QED
  BY <1>3, <1>10 DEF IInv

(* The end of a server. *)
LEMMA EndIInv ==
  ASSUME IInv, NEW s \in Servers, Shutdown(s) \/ Die(s)
  PROVE  IInv'
<1>. USE PortAssumption
<1>1. /\ server' = [server EXCEPT ![s].pc = "dead"] /\ Running(s) /\ UNCHANGED <<reader, content>>
      /\ \/ UNCHANGED <<names, disturbed>>
         \/ /\ names' = [names EXCEPT !.port = None]
            /\ disturbed' = disturbed \cup {t \in Servers \ {s} : server[t].pc = "up"}
  BY DEF Shutdown, Die, Displaces, Running, files
<1>2. /\ server'[s].pc = "dead" /\ server'[s].port = server[s].port
      /\ \A t \in Servers : t # s => server'[t] = server[t]
      /\ server' \in [Servers -> Process]
  BY <1>1 DEF IInv, ServersOK, Process
<1>3. ServersOK' /\ ReadersOK'
  BY <1>1, <1>2, Advance DEF Running, Writing
<1>4. \A t \in Servers : Writing(t)' => Writing(t) /\ t # s
  BY <1>2 DEF Writing
<1>5. \A t \in Servers : server'[t].pc \in {"off", "bound", "up"} => t # s
  BY <1>2
<1>6. CASE UNCHANGED <<names, disturbed>>
  BY <1>1, <1>2, <1>3, <1>4, <1>5, <1>6 DEF IInv, FilesOK
<1>7. CASE /\ names' = [names EXCEPT !.port = None]
           /\ disturbed' = disturbed \cup {t \in Servers \ {s} : server[t].pc = "up"}
  <2>1. /\ names' \in [{"port", "tmp"} -> Servers \cup {None}]
        /\ names'.tmp = names.tmp /\ names'.port = None
    BY <1>7 DEF IInv, FilesOK
  <2>2. \A t \in Servers : server'[t].pc = "up" => t \in disturbed'
    BY <1>2, <1>5, <1>7
  <2>3. \A t \in Servers : Writing(t)' /\ t \notin disturbed' => Writing(t) /\ t \notin disturbed
    BY <1>4, <1>7
  <2>4. FilesOK'
    BY <1>1, <1>2, <1>4, <1>5, <1>7, <2>1, <2>2, <2>3 DEF IInv, FilesOK
  <2>. QED  BY <1>3, <2>4 DEF IInv
<1>. QED
  BY <1>1, <1>6, <1>7

-----------------------------------------------------------------------------
(* The steps of a command *)

(* A step of one command that leaves servers and files alone. *)
LEMMA OneReader ==
  ASSUME IInv, NEW r \in Readers, NEW c \in Reader, Counted(c), Directed(c),
         reader' = [reader EXCEPT ![r] = c],
         UNCHANGED <<server, files, disturbed>>
  PROVE  IInv'
<1>1. ServersOK'
  BY DEF IInv, ServersOK, Running, Writing
<1>2. FilesOK'
  BY DEF IInv, FilesOK, Writing, files
<1>3. \A q \in Readers : Counted(reader'[q]) /\ Directed(reader'[q])
  BY DEF IInv, ReadersOK
<1>4. ReadersOK'
  BY <1>3 DEF IInv, ReadersOK, Directed, Running
<1>. QED
  BY <1>1, <1>2, <1>4 DEF IInv

(* What the port file says is a server that has started. *)
LEMMA OwnerStarted ==
  ASSUME IInv
  PROVE  Owner \in Servers \cup {None} /\ (Owner # None => server[Owner].pc # "off")
BY PortAssumption DEF IInv, FilesOK, Owner

(* Reading the file, asking for the pid. *)
LEMMA ReadIInv ==
  ASSUME IInv, NEW r \in Readers, ReadFile(r) \/ CheckPid(r)
  PROVE  IInv'
<1>. USE PortAssumption
<1>. DEFINE o == reader[r]
<1>1. o \in Reader /\ Counted(o) /\ Directed(o)
  BY DEF IInv, ReadersOK
<1>2. CASE ReadFile(r)
  <2>1. PICK script \in Scripts : reader' = [reader EXCEPT ![r] =
          [o EXCEPT !.script = script, !.seen = Owner, !.pc = IF Owner = None THEN "failed" ELSE "check"]]
    BY <1>2 DEF ReadFile
  <2>. DEFINE c == [o EXCEPT !.script = script, !.seen = Owner,
                             !.pc = IF Owner = None THEN "failed" ELSE "check"]
  <2>2. Owner \in Servers \cup {None} /\ (Owner # None => server[Owner].pc # "off")
    BY OwnerStarted
  <2>3. o.pc = "idle" /\ o.call = "none" /\ o.applied = o.acked /\ o.acked \in Nat
        /\ o.by = {} /\ o.port = None
    BY <1>1, <1>2 DEF ReadFile, Counted, Directed, Reader
  <2>4. c \in Reader
    BY <1>1, <2>2 DEF Reader
  <2>5. /\ Owner = None => c.pc = "failed"
        /\ Owner # None => c.pc = "check"
        /\ c.seen = Owner /\ c.port = o.port
        /\ c.call = o.call /\ c.acked = o.acked /\ c.applied = o.applied /\ c.by = o.by
    BY <1>1 DEF Reader
  <2>. HIDE DEF c
  <2>6. Counted(c)
    BY <2>3, <2>5 DEF Counted
  <2>7. Directed(c)
    BY <2>2, <2>3, <2>5 DEF Directed
  <2>. QED  BY <1>2, <2>1, <2>4, <2>6, <2>7, OneReader DEF ReadFile, c
<1>3. CASE CheckPid(r)
  <2>. DEFINE c == IF Alive(o.seen) THEN [o EXCEPT !.pc = "send", !.port = server[o.seen].port]
                   ELSE [o EXCEPT !.pc = "remove"]
  <2>1. reader' = [reader EXCEPT ![r] = c] /\ UNCHANGED <<server, files, recycled, disturbed>>
        /\ o.pc = "check"
    BY <1>3 DEF CheckPid
  <2>2. o.seen \in Servers /\ server[o.seen].pc # "off" /\ o.call = "none" /\ o.applied = o.acked
    BY <1>1, <2>1 DEF Directed, Counted, Reader
  <2>3. server[o.seen].port \in Ports /\ server[o.seen] \in Process
    BY <2>2 DEF IInv, ServersOK
  <2>4. c \in Reader
    BY <1>1, <2>3 DEF Reader
  <2>5. /\ c.seen = o.seen /\ c.call = o.call /\ c.acked = o.acked /\ c.applied = o.applied
        /\ c.by = o.by
        /\ Alive(o.seen) => c.pc = "send" /\ c.port = server[o.seen].port
        /\ ~Alive(o.seen) => c.pc = "remove" /\ c.port = o.port
    BY <1>1 DEF Reader
  <2>. HIDE DEF c
  <2>6. Counted(c)
    BY <2>2, <2>5 DEF Counted
  <2>7. ~Alive(o.seen) => server[o.seen].pc = "dead"
    BY <2>2, <2>3 DEF Alive, Running, Process
  <2>8. c.pc \in {"send", "remove"} /\ (c.pc = "remove" => ~Alive(o.seen))
    BY <2>5
  <2>9. Running(o.seen) => c.by \subseteq {c.seen} /\ (c.port # None => c.port = server[c.seen].port)
    BY <1>1, <2>2, <2>5 DEF Directed, Alive
  <2>10. Directed(c)
    BY <2>2, <2>5, <2>7, <2>8, <2>9 DEF Directed
  <2>. QED  BY <2>1, <2>4, <2>6, <2>10, OneReader
<1>. QED
  BY <1>2, <1>3

(* Removing the file harms no server that the command did not find dead,   *)
(* unless it took the place of that one meanwhile.                         *)
LEMMA RemoveStaleIInv ==
  ASSUME IInv, NEW r \in Readers, RemoveStale(r)
  PROVE  IInv'
<1>. USE PortAssumption
<1>. DEFINE o == reader[r]
            c == [o EXCEPT !.pc = "failed"]
<1>1. o \in Reader /\ Counted(o) /\ Directed(o) /\ o.pc = "remove"
  BY DEF IInv, ReadersOK, RemoveStale
<1>2. /\ reader' = [reader EXCEPT ![r] = c] /\ names' = [names EXCEPT !.port = None]
      /\ disturbed' = disturbed \cup ({Owner} \ {None, o.seen}) /\ UNCHANGED <<server, content>>
  BY <1>1 DEF RemoveStale, IInv, ReadersOK, Reader
<1>3. /\ c \in Reader /\ c.pc = "failed" /\ c.seen = o.seen /\ c.port = o.port /\ c.call = o.call
      /\ c.acked = o.acked /\ c.applied = o.applied /\ c.by = o.by
  BY <1>1 DEF Reader
<1>4. o.seen \in Servers /\ server[o.seen].pc = "dead" /\ o.call = "none" /\ o.applied = o.acked
      /\ o.acked \in Nat
  BY <1>1 DEF Directed, Counted, Reader
<1>. HIDE DEF c
<1>5. Counted(c) /\ Directed(c)
  BY <1>1, <1>3, <1>4 DEF Counted, Directed
<1>6. ReadersOK'
  <2>1. \A q \in Readers : Counted(reader'[q]) /\ Directed(reader'[q])
    BY <1>2, <1>5 DEF IInv, ReadersOK
  <2>2. reader' \in [Readers -> Reader]
    BY <1>2, <1>3 DEF IInv, ReadersOK
  <2>. QED  BY <1>2, <2>1, <2>2 DEF ReadersOK, Directed, Running
<1>7. ServersOK'
  BY <1>2 DEF IInv, ServersOK, Running, Writing
<1>8. /\ names' \in [{"port", "tmp"} -> Servers \cup {None}]
      /\ names'.tmp = names.tmp /\ names'.port = None
  BY <1>2 DEF IInv, FilesOK
<1>9. ASSUME NEW t \in Servers, server[t].pc = "up", server[t].kind # "attach"
      PROVE  t \in disturbed'
  <2>1. CASE t \in disturbed
    BY <1>2, <2>1
  <2>2. CASE t \notin disturbed
    <3>1. names.port \in Servers /\ content[names.port] = t
      BY <1>9, <2>2 DEF IInv, FilesOK
    <3>2. Owner = t
      BY <3>1 DEF Owner
    <3>3. t # o.seen /\ t # None
      BY <1>4, <1>9
    <3>. QED  BY <1>2, <3>2, <3>3
  <2>. QED  BY <2>1, <2>2
<1>10. \A t \in Servers : Writing(t)' <=> Writing(t)
  BY <1>2 DEF Writing
<1>11. FilesOK'
  BY <1>2, <1>8, <1>9, <1>10 DEF IInv, FilesOK
<1>. QED
  BY <1>6, <1>7, <1>11 DEF IInv

(* Sending a call, its response, giving up. *)
LEMMA CallIInv ==
  ASSUME IInv, NEW r \in Readers, SendCall(r) \/ Receive(r) \/ GiveUp(r)
  PROVE  IInv'
<1>. USE PortAssumption
<1>. DEFINE o == reader[r]
<1>1. o \in Reader /\ Counted(o) /\ Directed(o)
  BY DEF IInv, ReadersOK
<1>2. ASSUME NEW c \in Reader, Counted(c), reader' = [reader EXCEPT ![r] = c],
             UNCHANGED <<server, files, recycled, disturbed>>,
             c.seen = o.seen, c.port = o.port, c.by = o.by, c.pc \notin {"idle", "check", "remove"}
      PROVE  IInv'
  <2>1. Directed(c)
    BY <1>1, <1>2 DEF Directed
  <2>. QED  BY <1>2, <2>1, OneReader
<1>3. CASE SendCall(r)
  <2>. DEFINE c == IF Listeners(o.port) = {} THEN [o EXCEPT !.pc = "failed"]
                   ELSE [o EXCEPT !.pc = "wait", !.call = "sent"]
  <2>1. reader' = [reader EXCEPT ![r] = c] /\ UNCHANGED <<server, files, recycled, disturbed>>
        /\ o.pc = "send"
    BY <1>3 DEF SendCall
  <2>2. /\ c \in Reader /\ c.seen = o.seen /\ c.port = o.port /\ c.by = o.by
        /\ c.acked = o.acked /\ c.applied = o.applied
        /\ \/ c.pc = "failed" /\ c.call = o.call
           \/ c.pc = "wait" /\ c.call = "sent"
    BY <1>1 DEF Reader
  <2>3. o.call = "none" /\ o.applied = o.acked /\ o.acked \in Nat
    BY <1>1, <2>1 DEF Counted, Reader
  <2>. HIDE DEF c
  <2>4. Counted(c)
    BY <2>2, <2>3 DEF Counted
  <2>. QED  BY <1>2, <2>1, <2>2, <2>4
<1>4. CASE Receive(r) /\ o.call = "ok"
  <2>1. PICK p \in {"done", "send"} :
          reader' = [reader EXCEPT ![r] = [o EXCEPT !.acked = o.acked + 1, !.call = "none", !.pc = p]]
    BY <1>4 DEF Receive
  <2>. DEFINE c == [o EXCEPT !.acked = o.acked + 1, !.call = "none", !.pc = p]
  <2>2. o.pc = "wait" /\ o.applied = o.acked + 1 /\ o.acked + 1 \in Nat
    BY <1>1, <1>4 DEF Receive, Counted, Reader
  <2>3. /\ c \in Reader /\ c.seen = o.seen /\ c.port = o.port /\ c.by = o.by
        /\ c.acked = o.acked + 1 /\ c.applied = o.applied /\ c.call = "none" /\ c.pc = p
    BY <1>1, <2>2 DEF Reader
  <2>4. UNCHANGED <<server, files, recycled, disturbed>> /\ reader' = [reader EXCEPT ![r] = c]
    BY <1>4, <2>1 DEF Receive
  <2>. HIDE DEF c
  <2>5. Counted(c)
    BY <2>2, <2>3 DEF Counted
  <2>. QED  BY <1>2, <2>3, <2>4, <2>5
<1>5. CASE Receive(r) /\ o.call = "error"
  <2>. DEFINE c == [o EXCEPT !.pc = "failed", !.call = "none"]
  <2>1. reader' = [reader EXCEPT ![r] = c] /\ UNCHANGED <<server, files, recycled, disturbed>>
        /\ o.pc = "wait"
    BY <1>1, <1>5 DEF Receive, IInv, ReadersOK, Reader
  <2>2. /\ c \in Reader /\ c.seen = o.seen /\ c.port = o.port /\ c.by = o.by
        /\ c.acked = o.acked /\ c.applied = o.applied /\ c.call = "none" /\ c.pc = "failed"
    BY <1>1 DEF Reader
  <2>3. o.applied = o.acked /\ o.acked \in Nat
    BY <1>1, <1>5, <2>1 DEF Counted, Reader
  <2>. HIDE DEF c
  <2>4. Counted(c)
    BY <2>2, <2>3 DEF Counted
  <2>. QED  BY <1>2, <2>1, <2>2, <2>4
<1>6. CASE GiveUp(r)
  <2>. DEFINE c == [o EXCEPT !.pc = "failed", !.call = IF o.call = "sent" THEN "late" ELSE "none"]
  <2>1. reader' = [reader EXCEPT ![r] = c] /\ UNCHANGED <<server, files, recycled, disturbed>>
        /\ o.pc = "wait"
    BY <1>1, <1>6 DEF GiveUp, IInv, ReadersOK, Reader
  <2>2. /\ c \in Reader /\ c.seen = o.seen /\ c.port = o.port /\ c.by = o.by
        /\ c.acked = o.acked /\ c.applied = o.applied /\ c.pc = "failed"
        /\ c.call = IF o.call = "sent" THEN "late" ELSE "none"
    BY <1>1 DEF Reader
  <2>. HIDE DEF c
  <2>3. o.acked \in Nat
    BY <1>1 DEF Reader
  <2>4. ASSUME o.call = "ok"  PROVE Counted(c)
    BY <1>1, <2>1, <2>2, <2>3, <2>4 DEF Counted
  <2>5. ASSUME o.call # "ok"  PROVE Counted(c)
    BY <1>1, <2>1, <2>2, <2>3, <2>5 DEF Counted
  <2>6. Counted(c)
    BY <2>4, <2>5
  <2>. QED  BY <1>2, <2>1, <2>2, <2>6
<1>7. Receive(r) => o.call \in {"ok", "error"}
  BY DEF Receive
<1>. QED
  BY <1>3, <1>4, <1>5, <1>6, <1>7

(* A call is executed by the server that listens on the port: the one the  *)
(* file named, while that one runs.                                        *)
LEMMA ExecuteIInv ==
  ASSUME IInv, NEW r \in Readers, Execute(r)
  PROVE  IInv'
<1>. USE PortAssumption
<1>. DEFINE o == reader[r]
<1>1. o \in Reader /\ Counted(o) /\ Directed(o) /\ o.call \in {"sent", "late"}
  BY DEF IInv, ReadersOK, Execute
<1>2. PICK s \in Listeners(o.port), ok \in BOOLEAN :
        reader' = [reader EXCEPT
          ![r].call = IF @ = "late" THEN "none" ELSE IF ok THEN "ok" ELSE "error",
          ![r].applied = IF ok THEN @ + 1 ELSE @,
          ![r].by = IF ok THEN @ \cup {s} ELSE @]
  BY DEF Execute
<1>. DEFINE c == [o EXCEPT !.call = IF o.call = "late" THEN "none" ELSE IF ok THEN "ok" ELSE "error",
                           !.applied = IF ok THEN o.applied + 1 ELSE o.applied,
                           !.by = IF ok THEN o.by \cup {s} ELSE o.by]
<1>3. reader' = [reader EXCEPT ![r] = c] /\ UNCHANGED <<server, files, recycled, disturbed>>
  BY <1>1, <1>2, ZenonT(60) DEF Execute, IInv, ReadersOK, Reader
<1>4. s \in Servers /\ Running(s) /\ server[s].port = o.port
  BY DEF Listeners
<1>5. o.applied \in Nat /\ o.applied + 1 \in Nat /\ o.by \cup {s} \subseteq Servers
  BY <1>1, <1>4 DEF Reader
<1>6. c \in Reader
  BY <1>1, <1>5 DEF Reader
<1>7. /\ c.pc = o.pc /\ c.seen = o.seen /\ c.port = o.port /\ c.acked = o.acked
      /\ c.call = IF o.call = "late" THEN "none" ELSE IF ok THEN "ok" ELSE "error"
      /\ c.applied = IF ok THEN o.applied + 1 ELSE o.applied
      /\ c.by = IF ok THEN o.by \cup {s} ELSE o.by
  BY <1>1 DEF Reader
<1>. HIDE DEF c
<1>8. /\ o.pc \in {"wait", "failed"} /\ o.applied = o.acked /\ o.acked \in Nat
      /\ o.pc = "wait" <=> o.call = "sent"
  BY <1>1 DEF Counted, Reader
<1>9. Counted(c)
  BY <1>1, <1>7, <1>8 DEF Counted
<1>10. o.seen # None /\ Running(o.seen) => s = o.seen
  <2>1. server[s].port \in Ports
    BY <1>4 DEF IInv, ServersOK, Running
  <2>2. o.seen # None /\ Running(o.seen) => server[o.seen].port = server[s].port /\ o.seen \in Servers
    BY <1>1, <1>4, <2>1 DEF Directed, Reader
  <2>. QED  BY <1>4, <2>2 DEF IInv, ServersOK
<1>11. Directed(c)
  BY <1>1, <1>7, <1>8, <1>10 DEF Directed
<1>. QED
  BY <1>3, <1>6, <1>9, <1>11, OneReader

-----------------------------------------------------------------------------
(* The whole *)

(* No server has started and no file is there. *)
LEMMA InitIInv == Init => IInv
<1>. SUFFICES ASSUME Init  PROVE IInv
  OBVIOUS
<1>. USE PortAssumption
<1>1. ServersOK /\ \A s \in Servers : server[s].pc = "off"
  <2>1. \A s \in Servers : \E kind \in Kinds : server[s] = NewServer(kind)
    BY DEF Init
  <2>2. ASSUME NEW s \in Servers  PROVE server[s] \in Process /\ server[s].pc = "off"
    <3>1. PICK kind \in Kinds : server[s] = NewServer(kind)
      BY <2>1
    <3>. QED  BY <3>1 DEF NewServer, Process
  <2>3. server \in [Servers -> Process]
    BY <2>2 DEF Init
  <2>. QED  BY <2>2, <2>3 DEF ServersOK, Running, Writing
<1>3. FilesOK
  BY <1>1 DEF Init, FilesOK, Writing
<1>4. NoReader \in Reader /\ Counted(NoReader) /\ Directed(NoReader)
  BY DEF NoReader, Reader, Counted, Directed
<1>5. ReadersOK
  BY <1>4 DEF Init, ReadersOK
<1>. QED
  BY <1>1, <1>3, <1>5 DEF IInv

(* Every step keeps the inductive invariant. *)
LEMMA NextIInv == IInv /\ [Next]_vars => IInv'
<1>. SUFFICES ASSUME IInv, [Next]_vars  PROVE IInv'
  OBVIOUS
<1>1. ASSUME NEW s \in Servers, ServerStep(s)  PROVE IInv'
  <2>1. CASE Bind(s)
    BY <2>1, BindIInv
  <2>2. CASE OpenTmp(s)
    BY <2>2, OpenTmpIInv
  <2>3. CASE WriteTmp(s)
    BY <2>3, WriteTmpIInv
  <2>4. CASE Rename(s)
    BY <2>4, RenameIInv
  <2>5. CASE Shutdown(s) \/ Die(s)
    BY <2>5, EndIInv
  <2>6. CASE Recycle(s)
    <3>1. UNCHANGED <<server, reader, names, content, disturbed>>
      BY <2>6 DEF Recycle, files
    <3>. QED  BY <3>1 DEF IInv, ServersOK, FilesOK, ReadersOK, Counted, Directed, Running, Writing
  <2>. QED  BY <1>1, <2>1, <2>2, <2>3, <2>4, <2>5, <2>6 DEF ServerStep
<1>2. ASSUME NEW r \in Readers, ReaderStep(r)  PROVE IInv'
  <2>1. CASE ReadFile(r) \/ CheckPid(r)
    BY <2>1, ReadIInv
  <2>2. CASE RemoveStale(r)
    BY <2>2, RemoveStaleIInv
  <2>3. CASE SendCall(r) \/ Receive(r) \/ GiveUp(r)
    BY <2>3, CallIInv
  <2>4. CASE Execute(r)
    BY <2>4, ExecuteIInv
  <2>. QED  BY <1>2, <2>1, <2>2, <2>3, <2>4 DEF ReaderStep
<1>3. CASE UNCHANGED vars
  BY <1>3 DEF vars, files, IInv, ServersOK, FilesOK, ReadersOK, Counted, Directed, Running, Writing
<1>. QED
  BY <1>1, <1>2, <1>3 DEF Next

(* A server that is up can be found ("Write the server port + PID to       *)
(* `~/.debugium/port` atomically", home.rs 19), unless another one got up  *)
(* or was shut down after it, wrote the file at the same time, or took the *)
(* place of a dead one while a command was about to remove the file.       *)
THEOREM ServerFound == Spec => []PortKept
<1>1. IInv => PortKept
  <2>. SUFFICES ASSUME IInv, NEW s \in Servers, server[s].pc = "up", server[s].kind # "attach",
                       s \notin disturbed
                PROVE  Owner = s
    BY DEF PortKept
  <2>1. names.port \in Servers /\ content[names.port] = s
    BY DEF IInv, FilesOK
  <2>. QED  BY <2>1, PortAssumption DEF Owner
<1>. QED
  BY <1>1, InitIInv, NextIInv, PTL DEF Spec

(* No call of a command is executed twice, one that it saw succeed was     *)
(* executed, and all go to the server the port file named while that one   *)
(* runs (ctl.rs 26-53).                                                    *)
THEOREM CommandCallsOnce == Spec => []CallsOnce
<1>1. IInv => CallsOnce
  <2>. SUFFICES ASSUME IInv, NEW r \in Readers
                PROVE  /\ reader[r].acked <= reader[r].applied
                       /\ reader[r].applied <= reader[r].acked + 1
                       /\ reader[r].pc = "done" => reader[r].applied = reader[r].acked
                       /\ reader[r].seen # None /\ Running(reader[r].seen) =>
                            reader[r].by \subseteq {reader[r].seen}
    BY DEF CallsOnce
  <2>1. reader[r] \in Reader /\ Counted(reader[r]) /\ Directed(reader[r])
    BY DEF IInv, ReadersOK
  <2>2. /\ reader[r].acked \in Nat
        /\ reader[r].applied = reader[r].acked \/ reader[r].applied = reader[r].acked + 1
           \/ (reader[r].acked <= reader[r].applied /\ reader[r].applied <= reader[r].acked + 1)
    BY <2>1 DEF Counted, Reader
  <2>3. reader[r].acked <= reader[r].applied /\ reader[r].applied <= reader[r].acked + 1
    BY <2>2
  <2>. QED  BY <2>1, <2>3 DEF Counted, Directed
<1>. QED
  BY <1>1, InitIInv, NextIInv, PTL DEF Spec

-----------------------------------------------------------------------------
(* The types *)

LEMMA ScriptLengths == \A script \in Scripts : Len(script) \in 1..3
<1>1. \A script \in Commands : Len(script) \in 1..3
  <2>1. \A a : Len(<<a>>) = 1
    OBVIOUS
  <2>2. \A a, b : Len(<<a, b>>) = 2
    OBVIOUS
  <2>3. \A a, b, c : Len(<<a, b, c>>) = 3
    OBVIOUS
  <2>4. \A script \in Commands : \/ \E a : script = <<a>>
                                 \/ \E a, b : script = <<a, b>>
                                 \/ \E a, b, c : script = <<a, b, c>>
    BY DEF Commands, Lists, BpSet, BpListClear, Resume, Vars, Eval, View, Note
  <2>. QED  BY <2>1, <2>2, <2>3, <2>4
<1>. QED
  BY <1>1, PortAssumption

(* A command that has not ended has calls of its script left. *)
InScript(c) ==
  /\ c.pc = "idle" => c.acked = 0
  /\ c.script = <<>> => c.acked = 0
  /\ c.script # <<>> => c.acked <= Len(c.script)
  /\ c.pc \in {"check", "send", "wait"} => c.script # <<>> /\ c.acked < Len(c.script)

InScripts == \A r \in Readers : InScript(reader[r])

Histories == recycled \subseteq Servers /\ disturbed \subseteq Servers

LEMMA HistoriesStep ==
  ASSUME IInv, Histories, [Next]_vars
  PROVE  Histories'
<1>1. Owner \in Servers \cup {None}
  BY DEF Owner, IInv, FilesOK
<1>. QED
  BY <1>1 DEF Histories, Next, vars, ServerStep, ReaderStep, Bind, OpenTmp, WriteTmp, Rename, Shutdown, Die,
     Recycle, Overlaps, Displaces, ReadFile, CheckPid, RemoveStale, SendCall, Execute, Receive, GiveUp

LEMMA InScriptsStep ==
  ASSUME IInv, InScripts, [Next]_vars
  PROVE  InScripts'
<1>1. DOMAIN reader = Readers /\ \A r \in Readers : reader[r] \in Reader
  BY DEF IInv, ReadersOK
<1>2. ASSUME UNCHANGED reader  PROVE InScripts'
  BY <1>2 DEF InScripts
<1>3. ASSUME NEW s \in Servers, ServerStep(s)  PROVE UNCHANGED reader
  BY <1>3 DEF ServerStep, Bind, OpenTmp, WriteTmp, Rename, Shutdown, Die, Recycle
<1>4. ASSUME NEW r \in Readers, ReaderStep(r)  PROVE InScripts'
  <2>. DEFINE o == reader[r]
  <2>1. o \in Reader /\ InScript(o) /\ o.acked \in Nat
    BY <1>1 DEF InScripts, Reader
  <2>2. o.script # <<>> => Len(o.script) \in 1..3
    BY <2>1, ScriptLengths DEF Reader
  <2>3. ASSUME NEW c, reader' = [reader EXCEPT ![r] = c], InScript(c)
        PROVE  InScripts'
    BY <1>1, <2>3 DEF InScripts
  <2>4. CASE ReadFile(r)
    <3>1. PICK script \in Scripts, pc \in {"failed", "check"} :
            reader' = [reader EXCEPT ![r] = [o EXCEPT !.script = script, !.seen = Owner, !.pc = pc]]
      BY <1>1, <2>4 DEF ReadFile
    <3>. DEFINE c == [o EXCEPT !.script = script, !.seen = Owner, !.pc = pc]
    <3>2. c.script = script /\ c.pc = pc /\ c.acked = 0
      BY <2>1, <2>4 DEF ReadFile, InScript, Reader
    <3>3. reader' = [reader EXCEPT ![r] = c]
      BY <3>1
    <3>. HIDE DEF c
    <3>4. Len(script) \in 1..3 /\ script # <<>>
      BY ScriptLengths
    <3>5. InScript(c)
      BY <3>2, <3>4 DEF InScript
    <3>. QED  BY <2>3, <3>3, <3>5
  <2>5. CASE ~ReadFile(r)
    <3>1. PICK c : /\ reader' = [reader EXCEPT ![r] = c]
                   /\ c.script = o.script /\ c.pc # "idle"
                   /\ \/ /\ c.acked = o.acked
                         /\ c.pc \in {"check", "send", "wait"} => o.pc \in {"check", "send", "wait"}
                      \/ /\ o.pc = "wait" /\ c.acked = o.acked + 1
                         /\ c.pc \in {"check", "send", "wait"} => c.acked # Len(o.script)
      <4>1. CASE CheckPid(r)
        <5>. DEFINE c == IF Alive(o.seen) THEN [o EXCEPT !.pc = "send", !.port = server[o.seen].port]
                         ELSE [o EXCEPT !.pc = "remove"]
        <5>1. reader' = [reader EXCEPT ![r] = c] /\ o.pc = "check"
          BY <4>1 DEF CheckPid
        <5>2. c.script = o.script /\ c.pc \in {"send", "remove"} /\ c.acked = o.acked
          BY <2>1 DEF Reader
        <5>. QED  BY <5>1, <5>2
      <4>4. CASE RemoveStale(r)
        <5>. DEFINE c == [o EXCEPT !.pc = "failed"]
        <5>1. reader' = [reader EXCEPT ![r] = c]
          BY <1>1, <4>4 DEF RemoveStale
        <5>2. c.script = o.script /\ c.pc = "failed" /\ c.acked = o.acked
          BY <2>1 DEF Reader
        <5>. QED  BY <5>1, <5>2
      <4>5. CASE SendCall(r)
        <5>. DEFINE c == IF Listeners(o.port) = {} THEN [o EXCEPT !.pc = "failed"]
                         ELSE [o EXCEPT !.pc = "wait", !.call = "sent"]
        <5>1. reader' = [reader EXCEPT ![r] = c] /\ o.pc = "send"
          BY <4>5 DEF SendCall
        <5>2. c.script = o.script /\ c.pc \in {"failed", "wait"} /\ c.acked = o.acked
          BY <2>1 DEF Reader
        <5>. QED  BY <5>1, <5>2
      <4>6. CASE GiveUp(r)
        <5>. DEFINE c == [o EXCEPT !.pc = "failed", !.call = IF o.call = "sent" THEN "late" ELSE "none"]
        <5>1. reader' = [reader EXCEPT ![r] = c]
          BY <1>1, <4>6 DEF GiveUp
        <5>2. c.script = o.script /\ c.pc = "failed" /\ c.acked = o.acked
          BY <2>1 DEF Reader
        <5>. QED  BY <5>1, <5>2
      <4>2. CASE Execute(r)
        <5>1. PICK call, applied, by :
                reader' = [reader EXCEPT ![r] = [o EXCEPT !.call = call, !.applied = applied, !.by = by]]
          <6>1. PICK s \in Listeners(o.port), ok \in BOOLEAN :
                  reader' = [reader EXCEPT
                    ![r].call = IF @ = "late" THEN "none" ELSE IF ok THEN "ok" ELSE "error",
                    ![r].applied = IF ok THEN @ + 1 ELSE @,
                    ![r].by = IF ok THEN @ \cup {s} ELSE @]
            BY <4>2 DEF Execute
          <6>. DEFINE call == IF o.call = "late" THEN "none" ELSE IF ok THEN "ok" ELSE "error"
                      applied == IF ok THEN o.applied + 1 ELSE o.applied
                      by == IF ok THEN o.by \cup {s} ELSE o.by
          <6>2. reader' = [reader EXCEPT ![r] = [o EXCEPT !.call = call, !.applied = applied, !.by = by]]
            BY <1>1, <2>1, <6>1, ZenonT(60) DEF Reader
          <6>. QED  BY <6>2
        <5>. DEFINE c == [o EXCEPT !.call = call, !.applied = applied, !.by = by]
        <5>2. c.script = o.script /\ c.pc = o.pc /\ c.acked = o.acked
          BY <2>1 DEF Reader
        <5>3. o.pc # "idle"
          BY <4>2 DEF Execute, IInv, ReadersOK, Counted
        <5>4. reader' = [reader EXCEPT ![r] = c]
          BY <5>1
        <5>. HIDE DEF c
        <5>. QED  BY <5>2, <5>3, <5>4
      <4>3. CASE Receive(r)
        <5>1. CASE o.call = "ok"
          <6>1. PICK pc \in {"done", "send"} :
                  /\ reader' = [reader EXCEPT ![r] =
                       [o EXCEPT !.acked = o.acked + 1, !.call = "none", !.pc = pc]]
                  /\ pc = "send" => o.acked + 1 # Len(o.script)
            BY <1>1, <4>3, <5>1 DEF Receive
          <6>. DEFINE c == [o EXCEPT !.acked = o.acked + 1, !.call = "none", !.pc = pc]
          <6>2. c.script = o.script /\ c.pc = pc /\ c.acked = o.acked + 1 /\ o.pc = "wait"
            BY <2>1, <4>3 DEF Reader, Receive
          <6>. QED  BY <6>1, <6>2
        <5>2. CASE o.call # "ok"
          <6>1. reader' = [reader EXCEPT ![r].pc = "failed", ![r].call = "none"]
            BY <4>3, <5>2 DEF Receive
          <6>. DEFINE c == [o EXCEPT !.pc = "failed", !.call = "none"]
          <6>2. reader' = [reader EXCEPT ![r] = c]
            BY <1>1, <6>1
          <6>3. c.script = o.script /\ c.pc = "failed" /\ c.acked = o.acked
            BY <2>1 DEF Reader
          <6>. QED  BY <6>2, <6>3
        <5>. QED  BY <5>1, <5>2
      <4>. QED  BY <1>4, <2>5, <4>1, <4>2, <4>3, <4>4, <4>5, <4>6 DEF ReaderStep
    <3>2. InScript(c)
      <4>1. CASE c.acked = o.acked
        BY <2>1, <3>1, <4>1 DEF InScript
      <4>2. CASE c.acked # o.acked
        <5>1. o.script # <<>> /\ o.acked < Len(o.script) /\ Len(o.script) \in Nat
          BY <2>1, <2>2, <3>1, <4>2 DEF InScript
        <5>2. c.acked <= Len(o.script) /\ (c.acked # Len(o.script) => c.acked < Len(o.script))
          BY <2>1, <3>1, <4>2, <5>1
        <5>. QED  BY <3>1, <4>2, <5>1, <5>2 DEF InScript
      <4>. QED  BY <4>1, <4>2
    <3>. QED  BY <2>3, <3>1, <3>2
  <2>. QED  BY <2>4, <2>5
<1>5. CASE UNCHANGED vars
  BY <1>2, <1>5 DEF vars
<1>. QED
  BY <1>2, <1>3, <1>4, <1>5 DEF Next

(* The types of servers, commands and files; a command never has more of   *)
(* its calls acknowledged than its script has; no two servers that run     *)
(* listen on one port (server/mod.rs, ctl.rs).                             *)
THEOREM PortTypes == Spec => []TypeOK
<1>1. Init => Histories /\ InScripts
  BY DEF Init, Histories, InScripts, InScript, NoReader
<1>2. IInv /\ Histories /\ InScripts => TypeOK
  <2>. SUFFICES ASSUME IInv, Histories, InScripts  PROVE TypeOK
    OBVIOUS
  <2>1. ASSUME NEW r \in Readers
        PROVE  /\ reader[r].pc \in {"idle", "check", "remove", "send", "wait", "done", "failed"}
               /\ reader[r].script \in Scripts \cup {<<>>}
               /\ reader[r].seen \in Servers \cup {None} /\ reader[r].port \in Ports \cup {None}
               /\ reader[r].call \in {"none", "sent", "ok", "error", "late"}
               /\ reader[r].acked \in 0..3 /\ reader[r].applied \in 0..4
               /\ reader[r].by \subseteq Servers
    <3>1. reader[r] \in Reader /\ Counted(reader[r]) /\ InScript(reader[r])
      BY DEF IInv, ReadersOK, InScripts
    <3>2. reader[r].acked \in Nat /\ reader[r].applied \in Nat
      BY <3>1 DEF Reader
    <3>3. reader[r].acked <= 3
      <4>1. CASE reader[r].script = <<>>
        BY <3>1, <4>1 DEF InScript
      <4>2. CASE reader[r].script # <<>>
        <5>1. PICK n \in 1..3 : n = Len(reader[r].script)
          BY <3>1, <4>2, ScriptLengths DEF Reader
        <5>2. reader[r].acked <= n
          BY <3>1, <4>2, <5>1 DEF InScript
        <5>. QED  BY <3>2, <5>2
      <4>. QED  BY <4>1, <4>2
    <3>4. reader[r].applied <= reader[r].acked + 1
      BY <3>1, <3>2 DEF Counted, Reader
    <3>. QED  BY <3>1, <3>2, <3>3, <3>4 DEF Reader
  <2>. QED  BY <2>1 DEF TypeOK, Histories, IInv, ServersOK, FilesOK, Process
<1>. QED
  BY <1>1, <1>2, InitIInv, NextIInv, HistoriesStep, InScriptsStep, PTL DEF Spec
=============================================================================
