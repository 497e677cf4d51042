------------------------------ MODULE Registry ------------------------------
(***************************************************************************)
(* The session registry (SessionRegistry of dap/session.rs) and the tasks  *)
(* that fill and empty it: launch_session, attach_session and the POST     *)
(* /sessions handler, the clean-up task each of them spawns, and           *)
(* stop_session.                                                           *)
(*                                                                         *)
(* A session is created with its dispatcher already running, then put in   *)
(* the registry under an id its creator chose, and only then is a clean-up *)
(* task subscribed to terminated_tx.  A tokio watch channel without        *)
(* receivers takes no value, and a new receiver has seen what is there.    *)
(* The clean-up task waits five seconds and removes whatever is registered *)
(* under the id.                                                           *)
(***************************************************************************)
EXTENDS Naturals

CONSTANTS
  Ids,          \* session ids
  MaxSessions,  \* bound: how many sessions are created
  MaxEnds,      \* `exited` and `terminated` events a session handles, at most
  None

ASSUME RegistryAssumption ==
  /\ MaxSessions \in Nat
  /\ MaxEnds \in Nat
  /\ None \notin Nat /\ None \notin Ids

VARIABLES
  created,   \* how many sessions were created; they are numbered from 1
  sess,      \* each session
  sessions   \* SessionRegistry.sessions: id -> session

vars == <<created, sess, sessions>>

Numbers == 1..MaxSessions

(* phase: "none", "created", "inserted", "watched" by its creator; told:   *)
(* the value of terminated_tx; watcher: the clean-up task; ends: `exited`  *)
(* and `terminated` events dispatched; stopper: a stop_session that holds  *)
(* the session.                                                            *)
NoSession == [id |-> None, phase |-> "none", told |-> FALSE, watcher |-> "none", ends |-> 0,
              stopper |-> "none"]

Init ==
  /\ created = 0
  /\ sess = [i \in Numbers |-> NoSession]
  /\ sessions = [id \in Ids |-> None]

-----------------------------------------------------------------------------
(* Session::new, then the creator *)

Create(id) ==
  /\ created < MaxSessions
  /\ created' = created + 1
  /\ sess' = [sess EXCEPT ![created'] = [NoSession EXCEPT !.id = id, !.phase = "created"]]
  /\ UNCHANGED sessions

(* Mutant: every session is registered under the default id. *)
InsertDefault(i) ==
  /\ sess[i].phase = "created"
  /\ sessions' = [sessions EXCEPT ![CHOOSE id \in Ids : TRUE] = i]
  /\ sess' = [sess EXCEPT ![i].phase = "inserted"]
  /\ UNCHANGED created

(* A session that is registered under the id already is replaced. *)
Insert(i) ==
  /\ sess[i].phase = "created"
  /\ sessions' = [sessions EXCEPT ![sess[i].id] = i]
  /\ sess' = [sess EXCEPT ![i].phase = "inserted"]
  /\ UNCHANGED created

(* Mutant: the clean-up task may be spawned before the session is inserted. *)
WatchEarly(i) ==
  /\ sess[i].phase \in {"created", "inserted"}
  /\ sess[i].watcher = "none"
  /\ sess' = [sess EXCEPT ![i].phase = IF @ = "inserted" THEN "watched" ELSE @,
                          ![i].watcher = "waiting"]
  /\ UNCHANGED <<created, sessions>>

(* terminated_tx is subscribed to and the clean-up task spawned. *)
Watch(i) ==
  /\ sess[i].phase = "inserted"
  /\ sess' = [sess EXCEPT ![i].phase = "watched", ![i].watcher = "waiting"]
  /\ UNCHANGED <<created, sessions>>

-----------------------------------------------------------------------------
(* The dispatcher handles `exited` or `terminated`: terminated_tx.send(true) *)
End(i) ==
  /\ sess[i].phase # "none"
  /\ sess[i].ends < MaxEnds
  /\ sess' = [sess EXCEPT ![i].ends = @ + 1, ![i].told = @ \/ sess[i].watcher = "waiting"]
  /\ UNCHANGED <<created, sessions>>

(* Mutant: the clean-up task waits for both events. *)
WakeOnBoth(i) ==
  /\ sess[i].watcher = "waiting"
  /\ sess[i].told /\ sess[i].ends = MaxEnds
  /\ sess' = [sess EXCEPT ![i].watcher = "sleeping"]
  /\ UNCHANGED <<created, sessions>>

(* The clean-up task. *)
Wake(i) ==
  /\ sess[i].watcher = "waiting"
  /\ sess[i].told
  /\ sess' = [sess EXCEPT ![i].watcher = "sleeping"]
  /\ UNCHANGED <<created, sessions>>

CleanUp(i) ==
  /\ sess[i].watcher = "sleeping"
  /\ sess' = [sess EXCEPT ![i].watcher = "done"]
  /\ sessions' = [sessions EXCEPT ![sess[i].id] = None]
  /\ UNCHANGED created

(* stop_session looks the session up, disconnects it, kills its adapter    *)
(* and removes what is registered under the id by then.                    *)
Stop(i) ==
  /\ sess[i].stopper = "none"
  /\ sess[i].id \in Ids
  /\ sessions[sess[i].id] = i
  /\ sess' = [sess EXCEPT ![i].stopper = "disconnecting"]
  /\ UNCHANGED <<created, sessions>>

StopRemove(i) ==
  /\ sess[i].stopper = "disconnecting"
  /\ sess' = [sess EXCEPT ![i].stopper = "done"]
  /\ sessions' = [sessions EXCEPT ![sess[i].id] = None]
  /\ UNCHANGED created

Next ==
  \/ \E id \in Ids : Create(id)
  \/ \E i \in Numbers :
       Insert(i) \/ Watch(i) \/ End(i) \/ Wake(i) \/ CleanUp(i) \/ Stop(i) \/ StopRemove(i)

Spec == Init /\ [][Next]_vars

(* The clean-up task runs when it can, and its sleep ends. *)
Fairness == \A i \in Numbers : WF_vars(Wake(i)) /\ WF_vars(CleanUp(i))

FairSpec == Spec /\ Fairness

-----------------------------------------------------------------------------
(* Properties *)

(* Types; what is registered under an id is an inserted session of that id. *)
TypeOK ==
  /\ created \in 0..MaxSessions
  /\ sess \in [Numbers ->
       [id : Ids \cup {None}, phase : {"none", "created", "inserted", "watched"},
        told : BOOLEAN, watcher : {"none", "waiting", "sleeping", "done"}, ends : 0..MaxEnds,
        stopper : {"none", "disconnecting", "done"}]]
  /\ sessions \in [Ids -> Numbers \cup {None}]
  /\ \A i \in Numbers : sess[i].phase = "none" <=> i > created
  /\ \A id \in Ids : sessions[id] # None =>
       sess[sessions[id]].id = id /\ sess[sessions[id]].phase \in {"inserted", "watched"}

Registered(i) == sess[i].phase # "none" /\ sessions[sess[i].id] = i

(* Nobody else was ever given i's id. *)
Unshared(i) == \A j \in Numbers \ {i} : sess[j].id # sess[i].id

(* "Auto-remove session from registry after termination" (tools.rs 1495,   *)
(* routes.rs 291) removes no other session: one that has not ended and was *)
(* not stopped can be found, provided its id was used once only.           *)
Reachable ==
  \A i \in Numbers :
    sess[i].phase \in {"inserted", "watched"} /\ sess[i].ends = 0 /\ sess[i].stopper # "done"
      /\ Unshared(i) => Registered(i)

(* A session that was cleaned up or stopped is never found again, whatever *)
(* its creator still does with it.                                         *)
StaysGone ==
  \A i \in Numbers : sess[i].watcher = "done" \/ sess[i].stopper = "done" => ~Registered(i)

(* Both: the registry has the sessions that are on and no others. *)
Kept == Reachable /\ StaysGone

(* A session whose last end was announced after the clean-up task          *)
(* subscribed is removed.                                                  *)
Collected == \A i \in Numbers : sess[i].told ~> sess[i].phase # "none" /\ ~Registered(i)
=============================================================================
