--------------------------- MODULE SessionsProofs ---------------------------
(***************************************************************************)
(* Two parts: the sessions of the server, and the debuggees of a session.  *)
(*                                                                         *)
(* First the registry has the sessions that are on and no others, for any  *)
(* number of ids, of sessions and of end events.                           *)
(*                                                                         *)
(* Then ChildSessions, for any children of either kind, any breakpoints    *)
(* and any number of stops and calls: every stop is counted, shown and     *)
(* recorded, and the breakpoints follow the session to every debuggee.     *)
(* The invariant CIInv has a part for each thing the debuggees share: the  *)
(* handshakes and the client (HandshakesOK), the supervisor's children     *)
(* (SpawnsOK), configurationDone (ConfigsOK), the stops on their way and   *)
(* the count of those that came (StopsOK), the pause that is shown         *)
(* (ViewOK), the timeline (TimelineOK) and the breakpoints (SyncOK).       *)
(***************************************************************************)
EXTENDS Registry, ChildSessions, FiniteSetTheorems, SequenceTheorems, TLAPS

-----------------------------------------------------------------------------
(* The registry *)

(* What a session is, before anything is said of the registry. *)
Session ==
  [id : Ids \cup {None}, phase : {"none", "created", "inserted", "watched"},
   told : BOOLEAN, watcher : {"none", "waiting", "sleeping", "done"}, ends : 0..MaxEnds,
   stopper : {"none", "disconnecting", "done"}]

(* A clean-up task is there once the creator spawned it and wakes up after *)
(* an end; only an inserted session is stopped.                            *)
Consistent(k) ==
  /\ k.phase = "none" <=> k.id = None
  /\ k.watcher # "none" => k.phase = "watched"
  /\ k.told \/ k.watcher \in {"sleeping", "done"} => k.ends > 0
  /\ k.stopper # "none" => k.phase \in {"inserted", "watched"}

IInv == TypeOK /\ Kept /\ \A i \in Numbers : Consistent(sess[i])

(* Initially there is no session. *)
LEMMA InitIInv == Init => IInv
<1>. SUFFICES ASSUME Init  PROVE IInv
  OBVIOUS
<1>. USE RegistryAssumption
<1>1. NoSession \in Session /\ Consistent(NoSession)
  BY DEF NoSession, Session, Consistent
<1>2. TypeOK
  BY <1>1 DEF Init, TypeOK, Session, NoSession, Numbers
<1>3. Kept
  BY DEF Init, Kept, Reachable, StaysGone, NoSession, Numbers
<1>. QED
  BY <1>1, <1>2, <1>3 DEF Init, IInv

(* The invariant's facts about one session. *)
LEMMA SessionFacts ==
  ASSUME IInv, NEW i \in Numbers
  PROVE  /\ sess[i] \in Session /\ Consistent(sess[i])
         /\ sess[i].phase # "none" => sess[i].id \in Ids
         /\ i \in Nat /\ i # None
<1>1. sess[i] \in Session /\ Consistent(sess[i]) /\ i \in Nat
  BY DEF IInv, TypeOK, Session, Numbers
<1>. QED
  BY <1>1, RegistryAssumption DEF Session, Consistent

(* A step that changes one session and not the registry. *)
LEMMA OneSession ==
  ASSUME IInv, NEW i \in Numbers, NEW k \in Session, Consistent(k),
         sess' = [sess EXCEPT ![i] = k], UNCHANGED <<created, sessions>>,
         sess[i].phase # "none", k.phase # "none", k.id = sess[i].id,
         sess[i].phase \in {"inserted", "watched"} <=> k.phase \in {"inserted", "watched"},
         k.ends = 0 => sess[i].ends = 0,
         k.watcher = "done" <=> sess[i].watcher = "done",
         k.stopper = "done" <=> sess[i].stopper = "done"
  PROVE  IInv'
<1>1. TypeOK'
  BY DEF IInv, TypeOK, Session
<1>2. \A j \in Numbers : sess'[j] = IF j = i THEN k ELSE sess[j]
  BY DEF IInv, TypeOK
<1>3. \A j \in Numbers : sess'[j].id = sess[j].id /\ (sess'[j].phase = "none" <=> sess[j].phase = "none")
  BY <1>2
<1>4. \A j \in Numbers : Unshared(j)' <=> Unshared(j)
  BY <1>3 DEF Unshared, Numbers
<1>5. \A j \in Numbers : Registered(j)' <=> Registered(j)
  BY <1>3 DEF Registered
<1>6. Reachable'
  BY <1>2, <1>4, <1>5 DEF IInv, Kept, Reachable, Numbers
<1>7. StaysGone'
  BY <1>2, <1>5 DEF IInv, Kept, StaysGone, Numbers
<1>8. \A j \in Numbers : Consistent(sess'[j])
  BY <1>2 DEF IInv
<1>. QED
  BY <1>1, <1>6, <1>7, <1>8 DEF IInv, Kept, Numbers

(* A step of one session that empties its id. *)
LEMMA Removal ==
  ASSUME IInv, NEW i \in Numbers, NEW k \in Session, Consistent(k),
         sess' = [sess EXCEPT ![i] = k], UNCHANGED created,
         sessions' = [sessions EXCEPT ![sess[i].id] = None],
         sess[i].phase # "none", k.phase = sess[i].phase, k.id = sess[i].id,
         k.ends = 0 => k.stopper = "done"
  PROVE  IInv'
<1>. USE RegistryAssumption
<1>1. \A j \in Numbers : sess'[j] = IF j = i THEN k ELSE sess[j]
  BY DEF IInv, TypeOK
<1>2. \A j \in Numbers : sess'[j].id = sess[j].id /\ sess'[j].phase = sess[j].phase
  BY <1>1
<1>3. sess[i].id \in Ids
  BY SessionFacts
<1>4. \A x \in Ids : sessions'[x] = IF x = sess[i].id THEN None ELSE sessions[x]
  BY DEF IInv, TypeOK
<1>5. TypeOK'
  <2>1. sess' \in [Numbers -> Session] /\ sessions' \in [Ids -> Numbers \cup {None}]
    BY DEF IInv, TypeOK, Session
  <2>2. \A x \in Ids : sessions'[x] # None =>
          sess'[sessions'[x]].id = x /\ sess'[sessions'[x]].phase \in {"inserted", "watched"}
    BY <1>2, <1>4 DEF IInv, TypeOK
  <2>. QED  BY <1>2, <2>1, <2>2 DEF IInv, TypeOK, Session
<1>6. ASSUME NEW j \in Numbers, Unshared(j)', j # i, Registered(j)
      PROVE  Registered(j)'
  <2>1. sess[j].id # sess[i].id
    BY <1>2, <1>6 DEF Unshared, Numbers
  <2>2. sess[j].id \in Ids
    BY <1>6, SessionFacts DEF Registered
  <2>. QED  BY <1>2, <1>4, <1>6, <2>1, <2>2 DEF Registered
<1>7. \A j \in Numbers : Unshared(j)' <=> Unshared(j)
  BY <1>2 DEF Unshared, Numbers
<1>8. Reachable'
  BY <1>1, <1>6, <1>7 DEF IInv, Kept, Reachable, Numbers
<1>9. ASSUME NEW j \in Numbers, Registered(j)'
      PROVE  Registered(j) /\ j # i
  <2>1. sess[j].id \in Ids /\ j # None
    BY <1>2, <1>9, SessionFacts DEF Registered
  <2>2. sessions'[sess[j].id] = j
    BY <1>2, <1>9 DEF Registered
  <2>3. sess[j].id # sess[i].id /\ sessions[sess[j].id] = j
    BY <1>4, <2>1, <2>2
  <2>. QED  BY <1>2, <1>9, <2>3 DEF Registered
<1>10. StaysGone'
  BY <1>1, <1>9 DEF IInv, Kept, StaysGone, Numbers
<1>11. \A j \in Numbers : Consistent(sess'[j])
  BY <1>1 DEF IInv
<1>. QED
  BY <1>5, <1>8, <1>10, <1>11 DEF IInv, Kept, Numbers

(* A new session takes a free number and touches no other. *)
LEMMA CreateIInv ==
  ASSUME IInv, NEW x \in Ids, Create(x)
  PROVE  IInv'
<1>. USE RegistryAssumption
<1>. DEFINE n == created + 1
            k == [NoSession EXCEPT !.id = x, !.phase = "created"]
<1>1. n \in Numbers /\ sess[n].phase = "none" /\ created \in Nat /\ created' = n
  BY DEF IInv, TypeOK, Create, Numbers
<1>2. \A j \in Numbers : sess'[j] = IF j = n THEN k ELSE sess[j]
  BY <1>1 DEF IInv, TypeOK, Create
<1>3. /\ k.id = x /\ k.phase = "created" /\ k.watcher = "none" /\ k.stopper = "none"
      /\ k.ends = 0 /\ ~k.told
  BY DEF NoSession
<1>4. 0 \in 0..MaxEnds
  BY DEF Numbers
<1>5. k \in Session
  BY <1>4 DEF NoSession, Session
<1>6. Consistent(k)
  BY <1>3 DEF Consistent
<1>. HIDE DEF k
<1>7. sess[n].id = None
  BY <1>1, SessionFacts DEF Consistent
<1>8. TypeOK'
  <2>1. sess' \in [Numbers -> Session]
    BY <1>1, <1>5 DEF IInv, TypeOK, Session, Create, k
  <2>2. \A j \in Numbers : sess'[j].phase = "none" <=> j > n
    BY <1>1, <1>2, <1>3 DEF IInv, TypeOK, Numbers
  <2>3. \A y \in Ids : sessions[y] # None => sessions[y] # n
    BY <1>1 DEF IInv, TypeOK
  <2>4. \A y \in Ids : sessions'[y] # None =>
          sess'[sessions'[y]].id = y /\ sess'[sessions'[y]].phase \in {"inserted", "watched"}
    BY <1>2, <2>3 DEF IInv, TypeOK, Create
  <2>. QED  BY <1>1, <2>1, <2>2, <2>4 DEF IInv, TypeOK, Create, Session, Numbers
<1>9. \A j \in Numbers : j # n => (Registered(j)' <=> Registered(j))
  BY <1>2 DEF Registered, Create
<1>10. ASSUME NEW j \in Numbers, j # n, sess[j].phase # "none", Unshared(j)'  PROVE Unshared(j)
  <2>1. sess[j].id # None
    BY <1>10, SessionFacts
  <2>. QED  BY <1>2, <1>7, <1>10, <2>1 DEF Unshared, Numbers
<1>11. Reachable'
  BY <1>2, <1>3, <1>9, <1>10 DEF IInv, Kept, Reachable, Numbers
<1>12. StaysGone'
  BY <1>2, <1>3, <1>9 DEF IInv, Kept, StaysGone, Numbers
<1>13. \A j \in Numbers : Consistent(sess'[j])
  BY <1>2, <1>6 DEF IInv
<1>. QED
  BY <1>8, <1>11, <1>12, <1>13 DEF IInv, Kept, Numbers

(* Inserting a session hides at most one of the same id. *)
LEMMA InsertIInv ==
  ASSUME IInv, NEW i \in Numbers, Insert(i)
  PROVE  IInv'
<1>. USE RegistryAssumption
<1>. DEFINE k == [sess[i] EXCEPT !.phase = "inserted"]
<1>1. /\ sess[i] \in Session /\ Consistent(sess[i]) /\ sess[i].phase = "created"
      /\ sess[i].id \in Ids /\ i \in Nat /\ i # None
  BY SessionFacts DEF Insert
<1>2. /\ k \in Session /\ k.id = sess[i].id /\ k.phase = "inserted" /\ k.watcher = sess[i].watcher
      /\ k.stopper = sess[i].stopper /\ k.told = sess[i].told /\ k.ends = sess[i].ends
  BY <1>1 DEF Session
<1>3. \A j \in Numbers : sess'[j] = IF j = i THEN k ELSE sess[j]
  BY <1>1 DEF IInv, TypeOK, Insert
<1>. HIDE DEF k
<1>4. k.watcher = "none" /\ k.stopper = "none"
  BY <1>1, <1>2 DEF Consistent
<1>5. Consistent(k)
  BY <1>1, <1>2, <1>4 DEF Consistent
<1>6. \A j \in Numbers : sess'[j].id = sess[j].id /\ (sess'[j].phase = "none" <=> sess[j].phase = "none")
  BY <1>1, <1>2, <1>3
<1>7. \A x \in Ids : sessions'[x] = IF x = sess[i].id THEN i ELSE sessions[x]
  BY DEF IInv, TypeOK, Insert
<1>8. TypeOK'
  <2>1. sess' \in [Numbers -> Session]
    BY <1>2 DEF IInv, TypeOK, Session, Insert, k
  <2>2. \A x \in Ids : sessions'[x] # None =>
          sess'[sessions'[x]].id = x /\ sess'[sessions'[x]].phase \in {"inserted", "watched"}
    BY <1>2, <1>3, <1>7 DEF IInv, TypeOK
  <2>3. sessions' \in [Ids -> Numbers \cup {None}]
    BY DEF IInv, TypeOK, Insert
  <2>. QED  BY <1>6, <2>1, <2>2, <2>3 DEF IInv, TypeOK, Insert, Session, Numbers
<1>9. Registered(i)'
  BY <1>1, <1>6, <1>7 DEF Registered
<1>10. \A j \in Numbers : j # i /\ Registered(j)' => Registered(j)
  <2>1. ASSUME NEW j \in Numbers, j # i, Registered(j)'  PROVE Registered(j)
    <3>1. sess[j].phase # "none" /\ sess[j].id \in Ids /\ sessions'[sess[j].id] = j
      BY <1>6, <2>1, SessionFacts DEF Registered
    <3>. QED  BY <1>7, <2>1, <3>1 DEF Registered
  <2>. QED  BY <2>1
<1>11. \A j \in Numbers : Unshared(j)' <=> Unshared(j)
  BY <1>6 DEF Unshared, Numbers
<1>12. ASSUME NEW j \in Numbers, j # i, Unshared(j), Registered(j)  PROVE Registered(j)'
  <2>1. sess[j].id # sess[i].id /\ sess[j].id \in Ids
    BY <1>12, SessionFacts DEF Unshared, Registered
  <2>. QED  BY <1>6, <1>7, <1>12, <2>1 DEF Registered
<1>13. Reachable'
  BY <1>3, <1>9, <1>11, <1>12 DEF IInv, Kept, Reachable, Numbers
<1>14. StaysGone'
  BY <1>3, <1>4, <1>10 DEF IInv, Kept, StaysGone, Numbers
<1>15. \A j \in Numbers : Consistent(sess'[j])
  BY <1>3, <1>5 DEF IInv
<1>. QED
  BY <1>8, <1>13, <1>14, <1>15 DEF IInv, Kept, Numbers

(* The steps that leave the registry as it is. *)
LEMMA QuietIInv ==
  ASSUME IInv, NEW i \in Numbers, Watch(i) \/ End(i) \/ Wake(i) \/ Stop(i)
  PROVE  IInv'
<1>. DEFINE o == sess[i]
<1>1. o \in Session /\ Consistent(o)
  BY SessionFacts
<1>2. CASE Watch(i)
  <2>. DEFINE k == [o EXCEPT !.phase = "watched", !.watcher = "waiting"]
  <2>1. sess' = [sess EXCEPT ![i] = k] /\ UNCHANGED <<created, sessions>> /\ o.phase = "inserted"
    BY <1>2, ZenonT(60) DEF Watch, IInv, TypeOK
  <2>2. /\ k \in Session /\ k.id = o.id /\ k.phase = "watched" /\ k.watcher = "waiting"
        /\ k.told = o.told /\ k.ends = o.ends /\ k.stopper = o.stopper
    BY <1>1 DEF Session
  <2>. HIDE DEF k
  <2>3. Consistent(k) /\ o.watcher = "none"
    BY <1>1, <2>1, <2>2 DEF Consistent
  <2>. QED  BY <1>1, <2>1, <2>2, <2>3, OneSession
<1>3. CASE End(i)
  <2>. DEFINE k == [o EXCEPT !.ends = o.ends + 1, !.told = o.told \/ o.watcher = "waiting"]
  <2>1. sess' = [sess EXCEPT ![i] = k] /\ UNCHANGED <<created, sessions>> /\ o.phase # "none"
    BY <1>3, ZenonT(60) DEF End, IInv, TypeOK
  <2>2. o.ends + 1 \in 0..MaxEnds /\ o.ends + 1 > 0 /\ (o.told \/ o.watcher = "waiting") \in BOOLEAN
    BY <1>1, <1>3, RegistryAssumption DEF End, Session
  <2>3. /\ k \in Session /\ k.id = o.id /\ k.phase = o.phase /\ k.watcher = o.watcher
        /\ k.ends = o.ends + 1 /\ k.stopper = o.stopper
    BY <1>1, <2>2 DEF Session
  <2>. HIDE DEF k
  <2>4. Consistent(k) /\ k.ends # 0
    BY <1>1, <2>2, <2>3 DEF Consistent
  <2>5. k.phase # "none"
    BY <2>1, <2>3
  <2>. QED  BY <2>1, <2>3, <2>4, <2>5, OneSession
<1>4. CASE Wake(i)
  <2>. DEFINE k == [o EXCEPT !.watcher = "sleeping"]
  <2>1. /\ sess' = [sess EXCEPT ![i] = k] /\ UNCHANGED <<created, sessions>>
        /\ o.watcher = "waiting" /\ o.told
    BY <1>4 DEF Wake, IInv, TypeOK
  <2>2. /\ k \in Session /\ k.id = o.id /\ k.phase = o.phase /\ k.watcher = "sleeping"
        /\ k.told = o.told /\ k.ends = o.ends /\ k.stopper = o.stopper
    BY <1>1 DEF Session
  <2>. HIDE DEF k
  <2>3. Consistent(k) /\ o.phase = "watched"
    BY <1>1, <2>1, <2>2 DEF Consistent
  <2>. QED  BY <1>1, <2>1, <2>2, <2>3, OneSession
<1>5. CASE Stop(i)
  <2>. DEFINE k == [o EXCEPT !.stopper = "disconnecting"]
  <2>1. /\ sess' = [sess EXCEPT ![i] = k] /\ UNCHANGED <<created, sessions>>
        /\ o.stopper = "none" /\ o.id \in Ids /\ sessions[o.id] = i
    BY <1>5 DEF Stop, IInv, TypeOK
  <2>2. /\ k \in Session /\ k.id = o.id /\ k.phase = o.phase /\ k.watcher = o.watcher
        /\ k.told = o.told /\ k.ends = o.ends /\ k.stopper = "disconnecting"
    BY <1>1 DEF Session
  <2>3. o.phase \in {"inserted", "watched"}
    BY <2>1, SessionFacts DEF IInv, TypeOK
  <2>. HIDE DEF k
  <2>4. Consistent(k)
    BY <1>1, <2>2, <2>3 DEF Consistent
  <2>. QED  BY <1>1, <2>1, <2>2, <2>3, <2>4, OneSession
<1>. QED
  BY <1>2, <1>3, <1>4, <1>5

(* The two ways a session leaves the registry. *)
LEMMA GoneIInv ==
  ASSUME IInv, NEW i \in Numbers, CleanUp(i) \/ StopRemove(i)
  PROVE  IInv'
<1>. DEFINE o == sess[i]
<1>1. o \in Session /\ Consistent(o)
  BY SessionFacts
<1>2. CASE CleanUp(i)
  <2>. DEFINE k == [o EXCEPT !.watcher = "done"]
  <2>1. /\ sess' = [sess EXCEPT ![i] = k] /\ UNCHANGED created /\ o.watcher = "sleeping"
        /\ sessions' = [sessions EXCEPT ![o.id] = None]
    BY <1>2 DEF CleanUp, IInv, TypeOK
  <2>2. /\ k \in Session /\ k.id = o.id /\ k.phase = o.phase /\ k.watcher = "done"
        /\ k.told = o.told /\ k.ends = o.ends /\ k.stopper = o.stopper
    BY <1>1 DEF Session
  <2>. HIDE DEF k
  <2>3. Consistent(k) /\ o.phase # "none"
    BY <1>1, <2>1, <2>2 DEF Consistent
  <2>4. o.ends # 0
    BY <1>1, <2>1 DEF Consistent, Session
  <2>. QED  BY <2>1, <2>2, <2>3, <2>4, Removal
<1>3. CASE StopRemove(i)
  <2>. DEFINE k == [o EXCEPT !.stopper = "done"]
  <2>1. /\ sess' = [sess EXCEPT ![i] = k] /\ UNCHANGED created /\ o.stopper = "disconnecting"
        /\ sessions' = [sessions EXCEPT ![o.id] = None]
    BY <1>3 DEF StopRemove, IInv, TypeOK
  <2>2. /\ k \in Session /\ k.id = o.id /\ k.phase = o.phase /\ k.watcher = o.watcher
        /\ k.told = o.told /\ k.ends = o.ends /\ k.stopper = "done"
    BY <1>1 DEF Session
  <2>. HIDE DEF k
  <2>3. Consistent(k) /\ o.phase # "none"
    BY <1>1, <2>1, <2>2 DEF Consistent
  <2>. QED  BY <1>1, <2>1, <2>2, <2>3, Removal
<1>. QED
  BY <1>2, <1>3

(* Every step keeps the inductive invariant. *)
LEMMA NextIInv == IInv /\ [Next]_vars => IInv'
<1>. SUFFICES ASSUME IInv, [Next]_vars  PROVE IInv'
  OBVIOUS
<1>1. ASSUME NEW x \in Ids, Create(x)  PROVE IInv'
  BY <1>1, CreateIInv
<1>2. ASSUME NEW i \in Numbers, Insert(i)  PROVE IInv'
  BY <1>2, InsertIInv
<1>3. ASSUME NEW i \in Numbers, Watch(i) \/ End(i) \/ Wake(i) \/ Stop(i)  PROVE IInv'
  BY <1>3, QuietIInv
<1>4. ASSUME NEW i \in Numbers, CleanUp(i) \/ StopRemove(i)  PROVE IInv'
  BY <1>4, GoneIInv
<1>5. CASE UNCHANGED vars
  BY <1>5 DEF vars, IInv, TypeOK, Kept, Reachable, StaysGone, Registered, Unshared, Numbers
<1>. QED
  BY <1>1, <1>2, <1>3, <1>4, <1>5 DEF Next

-----------------------------------------------------------------------------
(* What is registered under an id is an inserted session of that id, and   *)
(* each session keeps the shape of its creator, clean-up task and stopper. *)
THEOREM RegistryType == Spec => []TypeOK
<1>1. IInv => TypeOK
  BY DEF IInv
<1>. QED
  BY <1>1, InitIInv, NextIInv, PTL DEF Spec

(* A session that has not ended and was not stopped can be found, if its   *)
(* id was used once only; one that was cleaned up or stopped never can be  *)
(* ("Auto-remove session from registry after termination", tools.rs 1495). *)
THEOREM RegistryKept == Spec => []Kept
<1>1. IInv => Kept
  BY DEF IInv
<1>. QED
  BY <1>1, InitIInv, NextIInv, PTL DEF Spec

-----------------------------------------------------------------------------
(* The invariant of the child sessions *)

Dormant == {"none", "asked", "queued", "ignored"}
Has(t, i, name) == i \in 1..Len(queue[t]) /\ queue[t][i].name = name
EventType == [name : Names, child : Children \cup {Nobody}, stop : Nat]

(* Where a handshake may be, and the stage after each of the others. *)
Positions(t) ==
  Dormant \cup {"failed", "await", "configure", "attached"}
    \cup IF t = Parent THEN {"breakpoints", "confirm"}
         ELSE IF t \in Debugpy THEN {"publish"} ELSE {"initialize", "forward", "publish"}

Following(t) ==
  IF t = Parent
  THEN CASE At(t) = "await" -> "breakpoints" [] At(t) = "breakpoints" -> "configure"
         [] At(t) = "configure" -> "confirm" [] OTHER -> "attached"
  ELSE IF t \in Debugpy
  THEN CASE At(t) = "configure" -> "await" [] At(t) = "await" -> "publish" [] OTHER -> "attached"
  ELSE CASE At(t) = "initialize" -> "await" [] At(t) = "await" -> "forward"
         [] At(t) = "forward" -> "configure" [] At(t) = "configure" -> "publish" [] OTHER -> "attached"

(* The channel of a connection that is being set up. *)
Begins(t) ==
  /\ At(t) \in Dormant => phase[t] = "created"
  /\ phase[t] = "created" => queue[t] = <<>>
  /\ (t \in Children /\ At(t) \in {"initialize", "await"}) \/ (t \in Debugpy /\ At(t) = "configure") =>
       IF queue[t] = <<>> THEN phase[t] \in {"created", "closed"}
                          ELSE At(t) = "await" /\ queue[t][1].name = "initialized"

(* Before the launched process runs there is no other. *)
Early ==
  At(Parent) \in {"await", "breakpoints", "configure", "failed"} =>
    /\ phase[Parent] \in {"created", "announced"} /\ active = Parent
    /\ \A c \in Children : At(c) = "none"

HandshakesOK ==
  /\ At(Parent) \notin Dormant /\ phase[Parent] # "closed"
  /\ \A t \in Targets : Begins(t)
  /\ active = Parent \/ At(active) = "attached"
  /\ Early

(* Each child is asked for once, and queued once. *)
Asked ==
  \A t \in Targets, i \in Nat : Has(t, i, "spawn") =>
    /\ queue[t][i].child \in Children /\ At(queue[t][i].child) = "asked"
    /\ \A u \in Targets, j \in Nat :
         Has(u, j, "spawn") /\ queue[u][j].child = queue[t][i].child => u = t /\ j = i

Queued ==
  \A i \in 1..Len(sd) :
    /\ sd[i] \notin Debugpy /\ At(sd[i]) = "queued"
    /\ \A j \in 1..Len(sd) : sd[i] = sd[j] => i = j

SpawnsOK == Asked /\ Queued

(* A configurationDone waits only for a debuggee that has been announced,  *)
(* and a js child never has two.                                           *)
Configured(t) ==
  /\ At(t) \in Dormant \cup {"initialize", "breakpoints", "forward", "configure"} => configs[t] = 0
  /\ t \notin Debugpy /\ At(t) \in {"await", "failed"} => configs[t] = 0
  /\ t \in Children \ Debugpy =>
       /\ phase[t] \in {"running", "suspended"} => configs[t] = 0
       /\ At(t) \notin {"publish", "attached"} => phase[t] \in {"created", "announced", "closed"}
       /\ \A i \in Nat : Has(t, i, "initialized") =>
            /\ configs[t] = 0 /\ phase[t] \notin {"running", "suspended"}
            /\ At(t) \in {"await", "publish", "attached"} /\ (phase[t] = "announced" => At(t) = "await")
            /\ \A j \in Nat : Has(t, j, "initialized") => i = j

ConfigsOK == \A t \in Targets : Configured(t)

(* The stops on their way have different numbers, and while there is no    *)
(* dispatcher all of them are on their way.                                *)
Numbered(t) ==
  /\ \A i \in Nat : Has(t, i, "stopped") =>
       /\ queue[t][i].stop \in 1..stops[t]
       /\ \A j \in Nat : Has(t, j, "stopped") /\ queue[t][j].stop = queue[t][i].stop => i = j
  /\ t \in Heard /\ disp[t] = "off" =>
       \A n \in 1..stops[t] : \E i \in Nat : Has(t, i, "stopped") /\ queue[t][i].stop = n

HasPaused(t) == phase[t] = "suspended" \/ (\E i \in Nat : Has(t, i, "continued")) => stops[t] # 0

StopsOK ==
  /\ \A t \in Targets : Numbered(t) /\ HasPaused(t)
  /\ IsFiniteSet(StoppedBy(Targets))
  /\ NoStopLost

(* Stops and resumptions of a debuggee come in their order. *)
Ordered(t) ==
  /\ \A i \in Nat : Has(t, i, "stopped") =>
       phase[t] \in {"suspended", "closed"} \/ \E j \in Nat : j > i /\ Has(t, j, "continued")
  /\ \A i \in Nat : Has(t, i, "continued") =>
       phase[t] # "suspended" \/ \E j \in Nat : j > i /\ Has(t, j, "stopped")

(* The debuggee whose pause is shown is paused, or the news is on its way; *)
(* a pause is shown, or will be, or another debuggee has paused, too.      *)
Shown(t) ==
  lastStopped = t =>
    /\ disp[t] # "off"
    /\ phase[t] \in {"suspended", "closed"} \/ \E j \in Nat : Has(t, j, "continued")

Seen(t) ==
  t \in Heard /\ phase[t] = "suspended" =>
    \/ lastStopped = t \/ \E j \in Nat : Has(t, j, "stopped")
    \/ \E u \in Targets \ {t} : disp[u] # "off" /\ stops[u] # 0

ViewOK == \A t \in Targets : Ordered(t) /\ Shown(t) /\ Seen(t)

(* Entries and the numbers taken for more of them are all different, and   *)
(* behind the counter.                                                     *)
Entries ==
  /\ \A i \in 1..Len(timeline) :
       timeline[i] < counter /\ \A j \in 1..Len(timeline) : timeline[i] = timeline[j] => i = j
  /\ \A t \in Targets : disp[t] = "append" =>
       /\ entry[t] < counter
       /\ \A i \in 1..Len(timeline) : timeline[i] # entry[t]
       /\ \A u \in Targets : disp[u] = "append" /\ entry[u] = entry[t] => u = t

(* While nobody has exited, a stop that was taken has its entry or is      *)
(* being examined.                                                         *)
Busy == {t \in Targets : disp[t] \in {"chain", "number", "append"}}

Balanced ==
  /\ IsFiniteSet(Busy)
  /\ (\A t \in Targets : phase[t] # "closed") => version = Len(timeline) + Cardinality(Busy)

TimelineOK == Entries /\ Balanced

(* A call in progress has marked whoever it may pass by; the debuggee it   *)
(* asks has finished its handshake, or is marked as well.                  *)
Calling ==
  tool.pc # "idle" =>
    /\ InWindow \subseteq unsynced
    /\ tool.target \in Targets
    /\ active = tool.target \/ active \in unsynced
    /\ IF tool.late
       THEN At(tool.target) = "attached" /\ (tool.pc = "storing" => bound[tool.target] = tool.lines)
       ELSE tool.target = Parent /\ (Parent \in unsynced \/ At(Parent) = "failed")

(* What a handshake that is not marked carries with it. *)
Covered(t) ==
  t \notin unsynced =>
    /\ t \in Debugpy => At(t) \in Dormant \cup {"attached"}
    /\ t # Parent /\ At(t) \in {"initialize", "await", "forward"} => setup[t].snap = store
    /\ At(t) \in {"configure", "confirm", "publish"} \/ (At(t) = "attached" /\ phase[t] = "announced") =>
         bound[t] = store

Current ==
  tool.pc # "storing" /\ At(active) = "attached" /\ active \notin unsynced => bound[active] = store

SyncOK == Calling /\ (\A t \in Targets : Covered(t)) /\ Current

(* The invariant. *)
CIInv ==
  /\ ChildTypeOK /\ HandshakesOK /\ SpawnsOK /\ ConfigsOK
  /\ StopsOK /\ ViewOK /\ TimelineOK /\ SyncOK

(* The stages of each kind of handshake.                                   *)
LEMMA StagesOf ==
  ASSUME NEW t \in Targets
  PROVE  /\ t = Parent => Range(Stages(t)) = {"await", "breakpoints", "configure", "confirm", "attached"}
         /\ t \in Debugpy => Range(Stages(t)) = {"configure", "await", "publish", "attached"}
         /\ t \notin Debugpy \cup {Parent} =>
              Range(Stages(t)) = {"initialize", "await", "forward", "configure", "publish", "attached"}
         /\ t \in Debugpy => Stages(t)[1] = "configure"
         /\ t \notin Debugpy \cup {Parent} => Stages(t)[1] = "initialize"
<1>1. Parent \notin Debugpy
  BY ChildAssumption
<1>2. CASE t = Parent
  <2>1. Stages(t) = <<"await", "breakpoints", "configure", "confirm", "attached">>
    BY <1>1, <1>2 DEF Stages
  <2>. QED
    BY <1>1, <1>2, <2>1 DEF Range
<1>3. CASE t \in Debugpy
  <2>1. Stages(t) = <<"configure", "await", "publish", "attached">>
    BY <1>1, <1>3 DEF Stages
  <2>. QED
    BY <1>1, <1>3, <2>1 DEF Range
<1>4. CASE t \notin Debugpy \cup {Parent}
  <2>1. Stages(t) = <<"initialize", "await", "forward", "configure", "publish", "attached">>
    BY <1>1, <1>4 DEF Stages
  <2>. QED
    BY <1>1, <1>4, <2>1 DEF Range
<1>. QED
  BY <1>2, <1>3, <1>4

(* A handshake goes on to the stage that follows.                          *)
LEMMA AdvanceFacts ==
  ASSUME NEW t \in Targets, setup \in [Targets -> [at : Places, snap : SUBSET Lines]],
         At(t) \in Range(Stages(t)), At(t) # "attached", Advance(t)
  PROVE  setup' = [setup EXCEPT ![t].at = Following(t)]
<1>. DEFINE I == 1..Len(Stages(t))
            k == CHOOSE i \in I : Stages(t)[i] = At(t)
<1>1. Parent \notin Debugpy
  BY ChildAssumption
<1>2. setup' = [setup EXCEPT ![t].at = Stages(t)[k + 1]]
  BY DEF Advance
<1>3. SUFFICES Stages(t)[k + 1] = Following(t)
  BY <1>2
<1>4. CASE t = Parent
  <2>1. Stages(t) = <<"await", "breakpoints", "configure", "confirm", "attached">>
    BY <1>1, <1>4 DEF Stages
  <2>2. I = 1..5 /\ At(t) \in {"await", "breakpoints", "configure", "confirm"}
    BY <1>4, <2>1, StagesOf
  <2>3. \E i \in I : Stages(t)[i] = At(t)
    BY <2>1, <2>2
  <2>4. k \in I /\ Stages(t)[k] = At(t)
    BY <2>3
  <2>. HIDE DEF k, I
  <2>. QED
    BY <1>4, <2>1, <2>2, <2>4 DEF Following
<1>5. CASE t \in Debugpy
  <2>1. Stages(t) = <<"configure", "await", "publish", "attached">>
    BY <1>1, <1>5 DEF Stages
  <2>2. I = 1..4 /\ At(t) \in {"configure", "await", "publish"}
    BY <1>5, <2>1, StagesOf
  <2>3. \E i \in I : Stages(t)[i] = At(t)
    BY <2>1, <2>2
  <2>4. k \in I /\ Stages(t)[k] = At(t)
    BY <2>3
  <2>. HIDE DEF k, I
  <2>. QED
    BY <1>1, <1>5, <2>1, <2>2, <2>4 DEF Following
<1>6. CASE t \notin Debugpy \cup {Parent}
  <2>1. Stages(t) = <<"initialize", "await", "forward", "configure", "publish", "attached">>
    BY <1>1, <1>6 DEF Stages
  <2>2. I = 1..6 /\ At(t) \in {"initialize", "await", "forward", "configure", "publish"}
    BY <1>6, <2>1, StagesOf
  <2>3. \E i \in I : Stages(t)[i] = At(t)
    BY <2>1, <2>2
  <2>4. k \in I /\ Stages(t)[k] = At(t)
    BY <2>3
  <2>. HIDE DEF k, I
  <2>. QED
    BY <1>6, <2>1, <2>2, <2>4 DEF Following
<1>. QED
  BY <1>4, <1>5, <1>6

-----------------------------------------------------------------------------
(* Facts about states *)

(* What is known of the debuggees and their places in any state.           *)
LEMMA ChildFacts ==
  ASSUME ChildTypeOK, HandshakesOK
  PROVE  /\ Parent \notin Children /\ Parent \notin Debugpy /\ Nobody \notin Targets
         /\ Debugpy \subseteq Children /\ Children \subseteq Targets /\ Parent \in Targets
         /\ Targets = {Parent} \cup Children
         /\ setup \in [Targets -> [at : Places, snap : SUBSET Lines]]
         /\ queue \in [Targets -> Seq(EventType)]
         /\ \A t \in Targets : At(t) \in Positions(t) /\ (Begun(t) <=> At(t) \notin Dormant \cup {"failed"})
         /\ \A c \in Children \ Debugpy : Stages(c)[1] = "initialize"
         /\ \A c \in Debugpy : Stages(c)[1] = "configure"
<1>1. /\ Parent \notin Children /\ Parent \notin Debugpy /\ Nobody \notin Targets
      /\ Debugpy \subseteq Children /\ Children \subseteq Targets /\ Parent \in Targets
      /\ Targets = {Parent} \cup Children
  BY ChildAssumption DEF Targets
<1>2. /\ setup \in [Targets -> [at : Places, snap : SUBSET Lines]]
      /\ queue \in [Targets -> Seq(EventType)]
      /\ \A t \in Targets : At(t) \in Range(Stages(t)) \cup {"none", "asked", "queued", "ignored", "failed"}
  BY DEF ChildTypeOK, EventType
<1>3. ASSUME NEW t \in Targets
      PROVE  At(t) \in Positions(t) /\ (Begun(t) <=> At(t) \notin Dormant \cup {"failed"})
  <2>1. At(t) \in Range(Stages(t)) \cup Dormant \cup {"failed"}
    BY <1>2 DEF Dormant
  <2>2. CASE t = Parent
    BY <1>1, <2>1, <2>2, StagesOf DEF Positions, Begun, Dormant
  <2>3. CASE t \in Debugpy
    BY <1>1, <2>1, <2>3, StagesOf DEF Positions, Begun, Dormant
  <2>4. CASE t \notin Debugpy \cup {Parent}
    BY <1>1, <2>1, <2>4, StagesOf DEF Positions, Begun, Dormant
  <2>. QED
    BY <2>2, <2>3, <2>4
<1>4. \A c \in Children \ Debugpy : Stages(c)[1] = "initialize"
  BY <1>1, StagesOf
<1>5. \A c \in Debugpy : Stages(c)[1] = "configure"
  BY <1>1, StagesOf
<1>. QED
  BY <1>1, <1>2, <1>3, <1>4, <1>5

(* Where a step forward leads. *)
LEMMA Forwards ==
  ASSUME ChildTypeOK, HandshakesOK,
    NEW t \in Targets, At(t) \notin Dormant \cup {"failed", "attached"}, Advance(t)
  PROVE  /\ setup' = [setup EXCEPT ![t].at = Following(t)]
         /\ Following(t) \in Range(Stages(t)) /\ Following(t) \in Places
         /\ Following(t) \notin Dormant \cup {"failed"} /\ Following(t) # At(t)
         /\ Following(t) = "attached" => At(t) \in {"confirm", "publish"}
<1>1. At(t) \in Positions(t) /\ Begun(t) /\ setup \in [Targets -> [at : Places, snap : SUBSET Lines]]
  BY ChildFacts
<1>2. setup' = [setup EXCEPT ![t].at = Following(t)]
  BY <1>1, AdvanceFacts DEF Begun
<1>3. Following(t) \in Range(Stages(t))
  BY <1>1, StagesOf, ChildFacts DEF Following, Positions, Dormant
<1>4. Following(t) \in Places /\ Following(t) \notin Dormant \cup {"failed"}
  <2>1. Following(t) \in {"await", "breakpoints", "forward", "configure", "confirm", "publish", "attached"}
    <3>1. CASE t = Parent
      BY <3>1 DEF Following
    <3>2. CASE t # Parent /\ t \in Debugpy
      BY <3>2 DEF Following
    <3>3. CASE t # Parent /\ t \notin Debugpy
      BY <3>3 DEF Following
    <3>. QED
      BY <3>1, <3>2, <3>3
  <2>. QED
    BY <2>1 DEF Dormant, Places
<1>5. Following(t) # At(t) /\ (Following(t) = "attached" => At(t) \in {"confirm", "publish"})
  <2>1. t = Parent => At(t) \in {"await", "breakpoints", "configure", "confirm"}
    BY <1>1 DEF Positions, Dormant
  <2>2. t # Parent => At(t) \in {"initialize", "await", "forward", "configure", "publish"}
    BY <1>1 DEF Positions, Dormant
  <2>3. t \in Debugpy => t # Parent /\ At(t) \in {"await", "configure", "publish"}
    BY <1>1, ChildFacts DEF Positions, Dormant
  <2>. QED
    BY <2>1, <2>2, <2>3 DEF Following
<1>. QED
  BY <1>2, <1>3, <1>4, <1>5

(* The members of a set of stops.                                          *)
LEMMA StoppedBySet ==
  ASSUME NEW T, NEW x
  PROVE  x \in StoppedBy(T) <=> \E t \in T : \E n \in 1..stops[t] : x = <<t, n>>
  BY DEF StoppedBy

(* A pause makes the set of stops one larger. *)
LEMMA OneMoreStop ==
  ASSUME NEW T \in SUBSET Targets, NEW t \in T, stops \in [Targets -> Nat],
         stops' = [stops EXCEPT ![t] = @ + 1], IsFiniteSet(StoppedBy(T))
  PROVE  /\ StoppedBy(T)' = StoppedBy(T) \cup {<<t, stops[t] + 1>>}
         /\ <<t, stops[t] + 1>> \notin StoppedBy(T)
         /\ IsFiniteSet(StoppedBy(T)')
         /\ Cardinality(StoppedBy(T)') = Cardinality(StoppedBy(T)) + 1
         /\ Cardinality(StoppedBy(T)) \in Nat
<1>1. /\ stops'[t] = stops[t] + 1 /\ stops[t] \in Nat
      /\ \A u \in T \ {t} : stops'[u] = stops[u]
      /\ \A u \in T : stops[u] \in Nat
  OBVIOUS
<1>2. ASSUME NEW x  PROVE x \in StoppedBy(T)' <=> x \in StoppedBy(T) \/ x = <<t, stops[t] + 1>>
  <2>1. x \in StoppedBy(T)' <=> \E u \in T : \E n \in 1..stops'[u] : x = <<u, n>>
    BY DEF StoppedBy
  <2>. QED
    BY <1>1, <2>1, StoppedBySet
<1>3. StoppedBy(T)' = StoppedBy(T) \cup {<<t, stops[t] + 1>>}
  BY <1>2
<1>4. <<t, stops[t] + 1>> \notin StoppedBy(T)
  BY <1>1, StoppedBySet
<1>. QED
  BY <1>3, <1>4, FS_AddElement, FS_CardinalityType

-----------------------------------------------------------------------------
(* Facts about channels and handshakes *)

(* What the events of the channels are after one was taken, ... *)
LEMMA Taken ==
  ASSUME queue \in [Targets -> Seq(EventType)], NEW t \in Targets, queue[t] # <<>>,
         queue' = [queue EXCEPT ![t] = Tail(@)]
  PROVE  /\ queue' \in [Targets -> Seq(EventType)]
         /\ \A u \in Targets \ {t} : queue'[u] = queue[u]
         /\ Len(queue[t]) \in Nat /\ Len(queue[t]) >= 1 /\ Head(queue[t]) = queue[t][1]
         /\ queue[t][1] \in EventType
         /\ \A i \in Nat : \A n : Has(t, i, n)' <=> i >= 1 /\ Has(t, i + 1, n)
         /\ \A u \in Targets \ {t} : \A i \in Nat : \A n : Has(u, i, n)' <=> Has(u, i, n)
         /\ \A i \in Nat : \A n : Has(t, i, n)' => queue'[t][i] = queue[t][i + 1]
<1>1. PICK q \in Seq(EventType) : q = queue[t]
  OBVIOUS
<1>2. /\ Len(q) \in Nat /\ Len(q) >= 1 /\ Head(q) = q[1] /\ q[1] \in EventType
      /\ Tail(q) \in Seq(EventType) /\ Len(Tail(q)) = Len(q) - 1
      /\ \A i \in 1..(Len(q) - 1) : Tail(q)[i] = q[i + 1]
  BY <1>1
<1>3. queue'[t] = Tail(q) /\ \A u \in Targets \ {t} : queue'[u] = queue[u]
  BY <1>1
<1>4. queue' \in [Targets -> Seq(EventType)]
  BY <1>1, <1>2
<1>5. ASSUME NEW i \in Nat, NEW n
      PROVE  /\ Has(t, i, n)' <=> i >= 1 /\ Has(t, i + 1, n)
             /\ Has(t, i, n)' => queue'[t][i] = queue[t][i + 1]
  <2>1. Has(t, i, n)' <=> i \in 1..Len(Tail(q)) /\ Tail(q)[i].name = n
    BY <1>3 DEF Has
  <2>2. Has(t, i + 1, n) <=> i + 1 \in 1..Len(q) /\ q[i + 1].name = n
    BY <1>1 DEF Has
  <2>3. i \in 1..Len(Tail(q)) <=> i >= 1 /\ i + 1 \in 1..Len(q)
    BY <1>2
  <2>4. i \in 1..Len(Tail(q)) => Tail(q)[i] = q[i + 1]
    BY <1>2
  <2>. QED
    BY <1>1, <1>3, <2>1, <2>2, <2>3, <2>4
<1>6. \A u \in Targets \ {t} : \A i \in Nat : \A n : Has(u, i, n)' <=> Has(u, i, n)
  BY <1>3 DEF Has
<1>. QED
  BY <1>1, <1>2, <1>3, <1>4, <1>5, <1>6

(* ... after one came, ... *)
LEMMA Added ==
  ASSUME queue \in [Targets -> Seq(EventType)], NEW t \in Targets, NEW e \in EventType, Emits(t, e)
  PROVE  /\ queue' \in [Targets -> Seq(EventType)]
         /\ \A u \in Targets \ {t} : queue'[u] = queue[u]
         /\ queue'[t] # <<>> /\ Len(queue[t]) \in Nat
         /\ queue[t] = <<>> => queue'[t][1] = e
         /\ queue[t] # <<>> => queue'[t][1] = queue[t][1]
         /\ queue'[t][Len(queue[t]) + 1] = e
         /\ \A i \in Nat : \A n : Has(t, i, n)' <=> Has(t, i, n) \/ (i = Len(queue[t]) + 1 /\ e.name = n)
         /\ \A u \in Targets \ {t} : \A i \in Nat : \A n : Has(u, i, n)' <=> Has(u, i, n)
         /\ \A u \in Targets : \A i \in Nat : \A n : Has(u, i, n) => queue'[u][i] = queue[u][i]
         /\ \A i \in Nat : \A n : Has(t, i, n) => i < Len(queue[t]) + 1
<1>1. PICK q \in Seq(EventType) : q = queue[t]
  OBVIOUS
<1>2. PICK r : r = Append(q, e)
  OBVIOUS
<1>3. /\ r \in Seq(EventType) /\ Len(q) \in Nat /\ Len(r) = Len(q) + 1 /\ r[Len(q) + 1] = e
      /\ \A i \in 1..Len(q) : r[i] = q[i]
  BY <1>2
<1>4. queue'[t] = r /\ \A u \in Targets \ {t} : queue'[u] = queue[u]
  BY <1>1, <1>2 DEF Emits
<1>5. queue' \in [Targets -> Seq(EventType)]
  BY <1>1, <1>2, <1>3 DEF Emits
<1>6. r # <<>> /\ (q = <<>> => r[1] = e) /\ (q # <<>> => r[1] = q[1])
  <2>1. r # <<>>
    BY <1>3
  <2>2. q = <<>> => r[1] = e
    BY <1>3
  <2>3. q # <<>> => r[1] = q[1]
    BY <1>3, EmptySeq
  <2>. QED
    BY <2>1, <2>2, <2>3
<1>7. ASSUME NEW i \in Nat, NEW n
      PROVE  /\ Has(t, i, n)' <=> Has(t, i, n) \/ (i = Len(q) + 1 /\ e.name = n)
             /\ Has(t, i, n) => queue'[t][i] = queue[t][i] /\ i < Len(q) + 1
  <2>1. Has(t, i, n)' <=> i \in 1..Len(r) /\ r[i].name = n
    BY <1>4 DEF Has
  <2>2. Has(t, i, n) <=> i \in 1..Len(q) /\ q[i].name = n
    BY <1>1 DEF Has
  <2>3. i \in 1..Len(r) <=> i \in 1..Len(q) \/ i = Len(q) + 1
    BY <1>3
  <2>. QED
    BY <1>1, <1>3, <1>4, <2>1, <2>2, <2>3
<1>8. \A u \in Targets \ {t} : \A i \in Nat : \A n : (Has(u, i, n)' <=> Has(u, i, n))
        /\ queue'[u][i] = queue[u][i]
  BY <1>4 DEF Has
<1>. QED
  BY <1>1, <1>3, <1>4, <1>5, <1>6, <1>7, <1>8

(* ... or when a channel is dropped. *)
LEMMA Dropped ==
  ASSUME queue \in [Targets -> Seq(EventType)], NEW t \in Targets, queue' = [queue EXCEPT ![t] = <<>>]
  PROVE  /\ queue' \in [Targets -> Seq(EventType)]
         /\ queue'[t] = <<>> /\ \A u \in Targets \ {t} : queue'[u] = queue[u]
         /\ \A i \in Nat : \A n : ~Has(t, i, n)'
         /\ \A u \in Targets \ {t} : \A i \in Nat : \A n : Has(u, i, n)' <=> Has(u, i, n)
<1>1. queue' \in [Targets -> Seq(EventType)]
  BY EmptySeq
<1>2. queue'[t] = <<>> /\ \A u \in Targets \ {t} : queue'[u] = queue[u]
  OBVIOUS
<1>3. \A i \in Nat : \A n : ~Has(t, i, n)'
  BY <1>2 DEF Has
<1>4. \A u \in Targets \ {t} : \A i \in Nat : \A n : Has(u, i, n)' <=> Has(u, i, n)
  BY <1>2 DEF Has
<1>. QED
  BY <1>1, <1>2, <1>3, <1>4

(* The events the adapter sends.                                           *)
LEMMA EventTypes ==
  ASSUME Nobody \notin Targets
  PROVE  /\ Event("initialized") \in EventType /\ Event("continued") \in EventType
         /\ \A c \in Children : SpawnEvent(c) \in EventType
         /\ \A n \in Nat : StopEvent(n) \in EventType
  BY DEF Event, SpawnEvent, StopEvent, EventType, Names

(* A channel whose first event has a name. *)
LEMMA Heads ==
  ASSUME queue \in [Targets -> Seq(EventType)], NEW t \in Targets, queue[t] # <<>>
  PROVE  /\ Has(t, 1, Head(queue[t]).name) /\ Head(queue[t]) = queue[t][1]
         /\ \A n : Head(queue[t]).name = n => Has(t, 1, n)
<1>1. Len(queue[t]) \in Nat /\ Len(queue[t]) >= 1 /\ Head(queue[t]) = queue[t][1]
  BY EmptySeq
<1>. QED
  BY <1>1 DEF Has

(* A target that moves on. *)
LEMMA Moved ==
  ASSUME setup \in [Targets -> [at : Places, snap : SUBSET Lines]],
         NEW t \in Targets, NEW at \in Places, setup' = [setup EXCEPT ![t].at = at]
  PROVE  /\ setup' \in [Targets -> [at : Places, snap : SUBSET Lines]]
         /\ At(t)' = at /\ setup'[t].snap = setup[t].snap
         /\ \A u \in Targets \ {t} : setup'[u] = setup[u] /\ At(u)' = At(u)
  BY DEF At

(* What becomes of a child that was asked for. *)
LEMMA Spawned ==
  ASSUME CIInv, NEW t \in Targets, OnSpawn(t)
  PROVE  \E c \in Children, at \in {"ignored", "queued", "configure"} :
           /\ Has(t, 1, "spawn") /\ queue[t][1].child = c /\ At(c) = "asked"
           /\ setup' = [setup EXCEPT ![c].at = at]
           /\ sd' = IF at = "queued" THEN Append(sd, c) ELSE sd
           /\ unsynced' = IF at = "configure" THEN unsynced \cup {c} ELSE unsynced
           /\ (at = "configure" => c \in Debugpy) /\ (at = "queued" => c \notin Debugpy)
<1>1. ChildTypeOK /\ HandshakesOK /\ SpawnsOK /\ queue[t] # <<>> /\ Head(queue[t]).name = "spawn"
  BY DEF OnSpawn, Receives, CIInv
<1>2. Has(t, 1, "spawn") /\ Head(queue[t]) = queue[t][1]
  BY <1>1, ChildFacts, Heads
<1>3. PICK c : c = Head(queue[t]).child
  OBVIOUS
<1>4. c \in Children /\ queue[t][1].child = c /\ At(c) = "asked"
  BY <1>1, <1>2, <1>3 DEF SpawnsOK, Asked
<1>5. PICK taken \in BOOLEAN : taken = IF c \in Debugpy THEN t = Parent ELSE t \notin Debugpy
  OBVIOUS
<1>6. /\ sd' = IF taken /\ c \notin Debugpy THEN Append(sd, c) ELSE sd
      /\ setup' = [setup EXCEPT ![c].at = IF ~taken THEN "ignored"
                                          ELSE IF c \in Debugpy THEN Stages(c)[1] ELSE "queued"]
      /\ unsynced' = IF taken /\ c \in Debugpy THEN unsynced \cup {c} ELSE unsynced
  BY <1>3, <1>5 DEF OnSpawn
<1>7. CASE ~taken
  <2>1. setup' = [setup EXCEPT ![c].at = "ignored"]
    BY <1>6, <1>7
  <2>. QED
    BY <1>2, <1>4, <1>6, <1>7, <2>1
<1>8. CASE taken /\ c \in Debugpy
  <2>1. Stages(c)[1] = "configure"
    BY <1>1, <1>8, ChildFacts
  <2>. QED
    BY <1>2, <1>4, <1>6, <1>8, <2>1
<1>9. CASE taken /\ c \notin Debugpy
  BY <1>2, <1>4, <1>6, <1>9
<1>. QED
  BY <1>5, <1>7, <1>8, <1>9

(* What becomes of a child the supervisor takes. *)
LEMMA Supervised ==
  ASSUME CIInv, Supervise
  PROVE  \E c \in Children \ Debugpy, at \in {"ignored", "initialize"} :
           /\ At(c) = "queued" /\ sd # <<>> /\ c = sd[1]
           /\ setup' = [setup EXCEPT ![c] = [at |-> at, snap |-> store]]
           /\ unsynced' = IF tool.pc # "idle" THEN unsynced \cup {c} ELSE unsynced
           /\ sd' = Tail(sd)
<1>1. ChildTypeOK /\ HandshakesOK /\ sd # <<>> /\ sd \in Seq(Children)
  BY DEF Supervise, CIInv, ChildTypeOK
<1>2. PICK c : c = Head(sd)
  OBVIOUS
<1>3. c = sd[1] /\ c \in Children \ Debugpy /\ c \in Range(sd)
  BY <1>1, <1>2, EmptySeq DEF Range, CIInv, SpawnsOK, Queued
<1>4. At(c) = "queued"
  BY <1>3 DEF CIInv, ChildTypeOK
<1>5. PICK at \in {Stages(c)[1], "ignored"} : setup' = [setup EXCEPT ![c] = [at |-> at, snap |-> store]]
  BY <1>2 DEF Supervise
<1>6. unsynced' = (IF tool.pc # "idle" THEN unsynced \cup {c} ELSE unsynced) /\ sd' = Tail(sd)
  BY <1>2 DEF Supervise
<1>7. at \in {"ignored", "initialize"}
  BY <1>1, <1>3, ChildFacts
<1>. QED
  BY <1>1, <1>3, <1>4, <1>5, <1>6, <1>7

-----------------------------------------------------------------------------
(* Types *)

(* What each variable is. *)
Typed ==
  /\ phase \in [Targets -> {"created", "announced", "reannounced", "running", "suspended", "closed"}]
  /\ bound \in [Targets -> SUBSET Lines]
  /\ configs \in [Targets -> 0..1]
  /\ disp \in [Targets -> {"off", "recv", "chain", "number", "append", "ended"}]
  /\ entry \in [Targets -> Nat]
  /\ ready \in BOOLEAN
  /\ active \in Targets /\ store \subseteq Lines
  /\ lastStopped \in Targets \cup {Nobody}
  /\ version \in Nat /\ counter \in Nat /\ timeline \in Seq(Nat)
  /\ tool \in [pc : {"idle", "asking", "storing"}, target : Targets \cup {Nobody},
               lines : SUBSET Lines, late : BOOLEAN]
  /\ sets \in Nat /\ stops \in [Targets -> Nat] /\ unsynced \subseteq Targets

Channels ==
  /\ queue \in [Targets -> Seq(EventType)]
  /\ setup \in [Targets -> [at : Places, snap : SUBSET Lines]]
  /\ sd \in Seq(Children)

Placed(t) ==
  /\ At(t) \in Positions(t) /\ (t = Parent => At(t) \notin Dormant)
  /\ disp[t] = "off" <=> t # Parent /\ At(t) # "attached"

(* Steps keep the types ...                                                *)
LEMMA TypedStep ==
  ASSUME CIInv, [ChildNext]_childVars
  PROVE  Typed'
<1>. USE DEF childVars, adapterVars, sharedVars, toolVars
<1>a. /\ Parent \notin Children /\ Parent \notin Debugpy /\ Nobody \notin Targets
      /\ Debugpy \subseteq Children /\ Children \subseteq Targets /\ Parent \in Targets
      /\ Targets = {Parent} \cup Children /\ Initial \subseteq Lines
      /\ \A l \in Lists : l \subseteq Lines
  BY ChildFacts, ChildAssumption DEF CIInv
<1>b. Typed /\ Channels /\ ChildTypeOK /\ HandshakesOK
  BY DEF CIInv, Typed, Channels, ChildTypeOK, EventType
<1>1. CASE Supervise
  <2>1. Head(sd) \in Children
    BY <1>1, <1>b DEF Supervise, Channels
  <2>. QED
    BY <1>1, <1>a, <1>b, <2>1 DEF Supervise, Typed
<1>2. ASSUME NEW t \in Targets, Initialize(t)
      PROVE  Typed'
  BY <1>2, <1>a, <1>b DEF Initialize, Typed, NoCall, InWindow
<1>3. ASSUME NEW t \in Targets, AwaitInitialized(t)
      PROVE  Typed'
  BY <1>3, <1>a, <1>b DEF AwaitInitialized, Typed, NoCall, InWindow
<1>4. ASSUME NEW t \in Targets, TimeOut(t)
      PROVE  Typed'
  BY <1>4, <1>a, <1>b DEF TimeOut, Typed, NoCall, InWindow
<1>5. CASE LaunchBreakpoints
  BY <1>5, <1>a, <1>b DEF LaunchBreakpoints, Typed, NoCall, InWindow
<1>6. ASSUME NEW t \in Targets, Forward(t)
      PROVE  Typed'
  <2>1. setup[t].snap \subseteq Lines
    BY <1>b DEF Channels
  <2>. QED
    BY <1>6, <1>a, <1>b, <2>1 DEF Forward, Typed
<1>7. ASSUME NEW t \in Targets, Configure(t)
      PROVE  Typed'
  <2>1. configs[t] = 0
    BY <1>7 DEF Configure, CIInv, ConfigsOK, Configured
  <2>. QED
    BY <1>7, <1>a, <1>b, <2>1 DEF Configure, Typed
<1>8. CASE Confirm
  BY <1>8, <1>a, <1>b DEF Confirm, Typed, NoCall, InWindow
<1>9. ASSUME NEW t \in Targets, Publish(t)
      PROVE  Typed'
  BY <1>9, <1>a, <1>b DEF Publish, Typed, NoCall, InWindow
<1>10. ASSUME NEW t \in Targets, OnInitialized(t)
      PROVE  Typed'
  <2>1. ASSUME t \in Children \ Debugpy  PROVE configs[t] = 0
    <3>1. Has(t, 1, "initialized")
      BY <1>10, <1>b, Heads DEF OnInitialized, Receives, Channels
    <3>. QED
      BY <2>1, <3>1 DEF CIInv, ConfigsOK, Configured
  <2>. QED
    BY <1>10, <1>a, <1>b, <2>1 DEF OnInitialized, Typed
<1>11. ASSUME NEW t \in Targets, OnSpawn(t)
      PROVE  Typed'
  BY <1>11, <1>a, <1>b DEF OnSpawn, Typed, NoCall, InWindow
<1>12. ASSUME NEW t \in Targets, OnStopped(t)
      PROVE  Typed'
  BY <1>12, <1>a, <1>b DEF OnStopped, Typed, NoCall, InWindow
<1>13. ASSUME NEW t \in Targets, OnContinued(t)
      PROVE  Typed'
  BY <1>13, <1>a, <1>b DEF OnContinued, Typed, NoCall, InWindow
<1>14. ASSUME NEW t \in Targets, Chain(t)
      PROVE  Typed'
  BY <1>14, <1>a, <1>b DEF Chain, Typed, NoCall, InWindow
<1>15. ASSUME NEW t \in Targets, Number(t)
      PROVE  Typed'
  BY <1>15, <1>a, <1>b DEF Number, Typed, NoCall, InWindow
<1>16. ASSUME NEW t \in Targets, AppendEntry(t)
      PROVE  Typed'
  BY <1>16, <1>a, <1>b DEF AppendEntry, Typed, NoCall, InWindow
<1>17. ASSUME NEW t \in Targets, Ends(t)
      PROVE  Typed'
  BY <1>17, <1>a, <1>b DEF Ends, Typed, NoCall, InWindow
<1>18. ASSUME NEW t \in Targets, ChainFails(t)
      PROVE  Typed'
  BY <1>18, <1>a, <1>b DEF ChainFails, Typed, NoCall, InWindow
<1>19. ASSUME NEW lines \in Lists, BeginSet(lines)
      PROVE  Typed'
  BY <1>19, <1>a, <1>b DEF BeginSet, Typed, NoCall, InWindow
<1>20. CASE Install
  BY <1>20, <1>a, <1>b DEF Install, Typed, NoCall, InWindow
<1>21. CASE Store
  BY <1>21, <1>a, <1>b DEF Store, Typed, NoCall, InWindow
<1>22. CASE SetFails
  BY <1>22, <1>a, <1>b DEF SetFails, Typed, NoCall, InWindow
<1>23. ASSUME NEW t \in Targets, Announce(t)
      PROVE  Typed'
  BY <1>23, <1>a, <1>b DEF Announce, Typed, NoCall, InWindow
<1>24. ASSUME NEW t \in Targets, Start(t)
      PROVE  Typed'
  BY <1>24, <1>a, <1>b DEF Start, Typed, NoCall, InWindow
<1>25. ASSUME NEW t \in Targets, Reannounce(t)
      PROVE  Typed'
  BY <1>25, <1>a, <1>b DEF Reannounce, Typed, NoCall, InWindow
<1>26. ASSUME NEW t \in Targets, NEW c \in Children, Spawn(t, c)
      PROVE  Typed'
  BY <1>26, <1>a, <1>b DEF Spawn, Typed, NoCall, InWindow
<1>27. ASSUME NEW t \in Targets, Pause(t)
      PROVE  Typed'
  BY <1>27, <1>a, <1>b DEF Pause, Typed, NoCall, InWindow
<1>28. ASSUME NEW t \in Targets, Resume(t)
      PROVE  Typed'
  BY <1>28, <1>a, <1>b DEF Resume, Typed, NoCall, InWindow
<1>29. ASSUME NEW c \in Leaving, Close(c)
      PROVE  Typed'
  BY <1>29, <1>a, <1>b DEF Close, Typed, NoCall, InWindow
<1>30. CASE UNCHANGED childVars
  BY <1>30, <1>a, <1>b DEF Typed
<1>. QED
  BY <1>1, <1>2, <1>3, <1>4, <1>5, <1>6, <1>7, <1>8, <1>9, <1>10, <1>11, <1>12, <1>13, <1>14, <1>15, <1>16,
     <1>17, <1>18, <1>19, <1>20, <1>21, <1>22, <1>23, <1>24, <1>25, <1>26, <1>27, <1>28, <1>29, <1>30
  DEF ChildNext, Handshake, Dispatch, Tool, Adapter

(* ... and those of the channels and handshakes.                           *)
LEMMA ChannelsStep ==
  ASSUME CIInv, [ChildNext]_childVars
  PROVE  Channels'
<1>. USE DEF childVars, adapterVars, sharedVars, toolVars
<1>a. /\ Parent \notin Children /\ Parent \notin Debugpy /\ Nobody \notin Targets
      /\ Debugpy \subseteq Children /\ Children \subseteq Targets /\ Parent \in Targets
      /\ Targets = {Parent} \cup Children /\ Initial \subseteq Lines
      /\ \A l \in Lists : l \subseteq Lines
  BY ChildFacts, ChildAssumption DEF CIInv
<1>b. Typed /\ Channels /\ ChildTypeOK /\ HandshakesOK
  BY DEF CIInv, Typed, Channels, ChildTypeOK, EventType
<1>1. CASE Supervise
  <2>1. PICK c \in Children, at \in Places : setup' = [setup EXCEPT ![c] = [at |-> at, snap |-> store]]
    <3>1. Head(sd) \in Children
      BY <1>1, <1>b DEF Supervise, Channels
    <3>2. Stages(Head(sd))[1] \in Places
      BY <1>a, <1>b, <3>1, ChildFacts DEF Places
    <3>. QED
      BY <1>1, <3>1, <3>2 DEF Supervise, Places
  <2>2. sd' \in Seq(Children) /\ queue' = queue
    BY <1>1, <1>b DEF Supervise, Channels
  <2>3. store \subseteq Lines
    BY <1>b DEF Typed
  <2>. QED
    BY <1>a, <1>b, <2>1, <2>2, <2>3 DEF Channels
<1>2. ASSUME NEW t \in Targets, Initialize(t)
      PROVE  Channels'
  <2>1. setup' = [setup EXCEPT ![t].at = Following(t)] /\ Following(t) \in Places
    BY <1>2, <1>b, Forwards DEF Initialize, Dormant
  <2>2. queue' = queue /\ sd' = sd
    BY <1>2 DEF Initialize
  <2>. QED
    BY <1>b, <2>1, <2>2 DEF Channels
<1>3. ASSUME NEW t \in Targets, AwaitInitialized(t)
      PROVE  Channels'
  <2>1. /\ queue' \in [Targets -> Seq(EventType)] /\ sd' = sd
        /\ setup' = setup \/ Advance(t)
    BY <1>3, <1>a, <1>b, Taken DEF AwaitInitialized, Channels
  <2>2. ASSUME Advance(t)  PROVE setup' \in [Targets -> [at : Places, snap : SUBSET Lines]]
    <3>1. setup' = [setup EXCEPT ![t].at = Following(t)] /\ Following(t) \in Places
      BY <1>3, <1>b, <2>2, Forwards DEF AwaitInitialized, Dormant
    <3>. QED
      BY <1>b, <3>1 DEF Channels
  <2>. QED
    BY <1>b, <2>1, <2>2 DEF Channels
<1>4. ASSUME NEW t \in Targets, TimeOut(t)
      PROVE  Channels'
  <2>1. queue' \in [Targets -> Seq(EventType)] /\ sd' = sd
    BY <1>4, <1>a, <1>b, Dropped DEF TimeOut, Channels
  <2>. QED
    BY <1>4, <1>b, <2>1 DEF TimeOut, Channels, Places
<1>5. CASE LaunchBreakpoints
  <2>1. setup' = [setup EXCEPT ![Parent].at = Following(Parent)] /\ Following(Parent) \in Places
    BY <1>5, <1>a, <1>b, Forwards DEF LaunchBreakpoints, Dormant
  <2>2. queue' = queue /\ sd' = sd
    BY <1>5 DEF LaunchBreakpoints
  <2>. QED
    BY <1>b, <2>1, <2>2 DEF Channels
<1>6. ASSUME NEW t \in Targets, Forward(t)
      PROVE  Channels'
  <2>1. setup' = [setup EXCEPT ![t].at = Following(t)] /\ Following(t) \in Places
    BY <1>6, <1>b, Forwards DEF Forward, Dormant
  <2>2. queue' = queue /\ sd' = sd
    BY <1>6 DEF Forward
  <2>. QED
    BY <1>b, <2>1, <2>2 DEF Channels
<1>7. ASSUME NEW t \in Targets, Configure(t)
      PROVE  Channels'
  <2>1. setup' = [setup EXCEPT ![t].at = Following(t)] /\ Following(t) \in Places
    BY <1>7, <1>b, Forwards DEF Configure, Dormant
  <2>2. queue' = queue /\ sd' = sd
    BY <1>7 DEF Configure
  <2>. QED
    BY <1>b, <2>1, <2>2 DEF Channels
<1>8. CASE Confirm
  <2>1. setup' = [setup EXCEPT ![Parent].at = Following(Parent)] /\ Following(Parent) \in Places
    BY <1>8, <1>a, <1>b, Forwards DEF Confirm, Dormant
  <2>2. queue' = queue /\ sd' = sd
    BY <1>8 DEF Confirm
  <2>. QED
    BY <1>b, <2>1, <2>2 DEF Channels
<1>9. ASSUME NEW t \in Targets, Publish(t)
      PROVE  Channels'
  <2>1. setup' = [setup EXCEPT ![t].at = Following(t)] /\ Following(t) \in Places
    BY <1>9, <1>b, Forwards DEF Publish, Dormant
  <2>2. queue' = queue /\ sd' = sd
    BY <1>9 DEF Publish
  <2>. QED
    BY <1>b, <2>1, <2>2 DEF Channels
<1>10. ASSUME NEW t \in Targets, OnInitialized(t)
      PROVE  Channels'
  <2>1. queue' \in [Targets -> Seq(EventType)]
    BY <1>10, <1>b, Taken DEF OnInitialized, Receives, Channels
  <2>. QED
    BY <1>10, <1>a, <1>b, <2>1 DEF OnInitialized, Channels
<1>11. ASSUME NEW t \in Targets, OnSpawn(t)
      PROVE  Channels'
  <2>1. PICK c \in Children, at \in {"ignored", "queued", "configure"} :
               setup' = [setup EXCEPT ![c].at = at] /\ (sd' = sd \/ sd' = Append(sd, c))
    BY <1>11, Spawned
  <2>2. setup' \in [Targets -> [at : Places, snap : SUBSET Lines]]
    BY <1>a, <1>b, <2>1, Moved DEF Channels, Places
  <2>3. queue' \in [Targets -> Seq(EventType)]
    BY <1>11, <1>b, Taken DEF OnSpawn, Receives, Channels
  <2>4. sd' \in Seq(Children)
    <3>1. PICK s \in Seq(Children) : s = sd
      BY <1>b DEF Channels
    <3>2. Append(s, c) \in Seq(Children)
      OBVIOUS
    <3>. QED
      BY <2>1, <3>1, <3>2
  <2>. QED
    BY <2>2, <2>3, <2>4 DEF Channels
<1>12. ASSUME NEW t \in Targets, OnStopped(t)
      PROVE  Channels'
  <2>1. queue' \in [Targets -> Seq(EventType)]
    BY <1>12, <1>b, Taken DEF OnStopped, Receives, Channels
  <2>. QED
    BY <1>12, <1>a, <1>b, <2>1 DEF OnStopped, Channels
<1>13. ASSUME NEW t \in Targets, OnContinued(t)
      PROVE  Channels'
  <2>1. queue' \in [Targets -> Seq(EventType)]
    BY <1>13, <1>b, Taken DEF OnContinued, Receives, Channels
  <2>. QED
    BY <1>13, <1>a, <1>b, <2>1 DEF OnContinued, Channels
<1>14. ASSUME NEW t \in Targets, Chain(t)
      PROVE  Channels'
  BY <1>14, <1>a, <1>b DEF Chain, Channels
<1>15. ASSUME NEW t \in Targets, Number(t)
      PROVE  Channels'
  BY <1>15, <1>a, <1>b DEF Number, Channels
<1>16. ASSUME NEW t \in Targets, AppendEntry(t)
      PROVE  Channels'
  BY <1>16, <1>a, <1>b DEF AppendEntry, Channels
<1>17. ASSUME NEW t \in Targets, Ends(t)
      PROVE  Channels'
  BY <1>17, <1>a, <1>b DEF Ends, Channels
<1>18. ASSUME NEW t \in Targets, ChainFails(t)
      PROVE  Channels'
  BY <1>18, <1>a, <1>b DEF ChainFails, Channels
<1>19. ASSUME NEW lines \in Lists, BeginSet(lines)
      PROVE  Channels'
  BY <1>19, <1>a, <1>b DEF BeginSet, Channels
<1>20. CASE Install
  BY <1>20, <1>a, <1>b DEF Install, Channels
<1>21. CASE Store
  BY <1>21, <1>a, <1>b DEF Store, Channels
<1>22. CASE SetFails
  BY <1>22, <1>a, <1>b DEF SetFails, Channels
<1>23. ASSUME NEW t \in Targets, Announce(t)
      PROVE  Channels'
  <2>1. queue' \in [Targets -> Seq(EventType)]
    BY <1>23, <1>a, <1>b, Added, EventTypes DEF Announce, Channels
  <2>. QED
    BY <1>23, <1>b, <2>1 DEF Announce, Channels
<1>24. ASSUME NEW t \in Targets, Start(t)
      PROVE  Channels'
  BY <1>24, <1>a, <1>b DEF Start, Channels
<1>25. ASSUME NEW t \in Targets, Reannounce(t)
      PROVE  Channels'
  <2>1. queue' \in [Targets -> Seq(EventType)]
    BY <1>25, <1>a, <1>b, Added, EventTypes DEF Reannounce, Channels
  <2>. QED
    BY <1>25, <1>b, <2>1 DEF Reannounce, Channels
<1>26. ASSUME NEW t \in Targets, NEW c \in Children, Spawn(t, c)
      PROVE  Channels'
  <2>1. queue' \in [Targets -> Seq(EventType)]
    BY <1>26, <1>a, <1>b, Added, EventTypes DEF Spawn, Places, Channels
  <2>. QED
    BY <1>26, <1>b, <2>1 DEF Spawn, Places, Channels
<1>27. ASSUME NEW t \in Targets, Pause(t)
      PROVE  Channels'
  <2>1. stops[t] + 1 \in Nat
    BY <1>b DEF Typed
  <2>2. queue' \in [Targets -> Seq(EventType)]
    BY <1>27, <1>a, <1>b, <2>1, Added, EventTypes DEF Pause, Channels
  <2>. QED
    BY <1>27, <1>b, <2>2 DEF Pause, Channels
<1>28. ASSUME NEW t \in Targets, Resume(t)
      PROVE  Channels'
  <2>1. queue' \in [Targets -> Seq(EventType)]
    BY <1>28, <1>a, <1>b, Added, EventTypes DEF Resume, Channels
  <2>. QED
    BY <1>28, <1>b, <2>1 DEF Resume, Channels
<1>29. ASSUME NEW c \in Leaving, Close(c)
      PROVE  Channels'
  BY <1>29, <1>a, <1>b DEF Close, Channels
<1>30. CASE UNCHANGED childVars
  BY <1>30, <1>a, <1>b DEF Channels
<1>. QED
  BY <1>1, <1>2, <1>3, <1>4, <1>5, <1>6, <1>7, <1>8, <1>9, <1>10, <1>11, <1>12, <1>13, <1>14, <1>15, <1>16,
     <1>17, <1>18, <1>19, <1>20, <1>21, <1>22, <1>23, <1>24, <1>25, <1>26, <1>27, <1>28, <1>29, <1>30
  DEF ChildNext, Handshake, Dispatch, Tool, Adapter

-----------------------------------------------------------------------------
(* What a step does to handshakes and channels *)

(* What a step does to the handshakes and to the channels. *)
MovedTo(t, at) ==
  /\ At(t)' = at /\ setup'[t].snap = setup[t].snap
  /\ \A u \in Targets \ {t} : setup'[u] = setup[u] /\ At(u)' = At(u)
Stayed ==
  \A u \in Targets : setup'[u] = setup[u] /\ At(u)' = At(u)

TakenFrom(t, name) ==
  /\ Has(t, 1, name) /\ queue[t] # <<>>
  /\ \A u \in Targets \ {t} : queue'[u] = queue[u]
  /\ \A i \in Nat : \A n : Has(t, i, n)' <=> i >= 1 /\ Has(t, i + 1, n)
  /\ \A u \in Targets \ {t} : \A i \in Nat : \A n : Has(u, i, n)' <=> Has(u, i, n)
  /\ \A i \in Nat : \A n : Has(t, i, n)' => queue'[t][i] = queue[t][i + 1]
AddedTo(t, e, k) ==
  /\ e \in EventType /\ k \in Nat /\ k >= 1
  /\ \A u \in Targets \ {t} : queue'[u] = queue[u]
  /\ queue'[t] # <<>>
  /\ queue[t] = <<>> => queue'[t][1] = e
  /\ queue[t] # <<>> => queue'[t][1] = queue[t][1]
  /\ queue'[t][k] = e
  /\ \A i \in Nat : \A n : Has(t, i, n)' <=> Has(t, i, n) \/ (i = k /\ e.name = n)
  /\ \A u \in Targets \ {t} : \A i \in Nat : \A n : Has(u, i, n)' <=> Has(u, i, n)
  /\ \A u \in Targets : \A i \in Nat : \A n : Has(u, i, n) => queue'[u][i] = queue[u][i]
  /\ \A i \in Nat : \A n : Has(t, i, n) => i < k
DroppedAt(t) ==
  /\ queue'[t] = <<>> /\ \A u \in Targets \ {t} : queue'[u] = queue[u]
  /\ \A i \in Nat : \A n : ~Has(t, i, n)'
  /\ \A u \in Targets \ {t} : \A i \in Nat : \A n : Has(u, i, n)' <=> Has(u, i, n)
Quiet ==
  /\ \A u \in Targets : queue'[u] = queue[u]
  /\ \A u \in Targets : \A i \in Nat : \A n : Has(u, i, n)' <=> Has(u, i, n)

(* The types, from the invariant.                                          *)
LEMMA CIFacts ==
  ASSUME CIInv
  PROVE  Typed /\ Channels /\ ChildTypeOK /\ HandshakesOK
  BY DEF CIInv, Typed, Channels, ChildTypeOK, EventType

(* Steps that leave all handshakes, ...                                    *)
LEMMA SameSetup == ASSUME setup' = setup  PROVE Stayed
  BY DEF Stayed, At

(* ... or all channels, alone.                                             *)
LEMMA SameQueue == ASSUME queue' = queue  PROVE Quiet
  BY DEF Quiet, Has

(* A handshake that advances, ...                                          *)
LEMMA MoveOf ==
  ASSUME CIInv, NEW t \in Targets, At(t) \notin Dormant \cup {"failed", "attached"}, Advance(t)
  PROVE  MovedTo(t, Following(t))
<1>1. setup' = [setup EXCEPT ![t].at = Following(t)] /\ Following(t) \in Places
  BY CIFacts, Forwards
<1>. QED
  BY <1>1, CIFacts, Moved DEF Channels, MovedTo

(* ... a channel an event is taken from, ...                               *)
LEMMA TakeOf ==
  ASSUME CIInv, NEW t \in Targets, queue[t] # <<>>, queue' = [queue EXCEPT ![t] = Tail(@)]
  PROVE  TakenFrom(t, Head(queue[t]).name)
<1>1. queue \in [Targets -> Seq(EventType)]
  BY CIFacts DEF Channels
<1>. QED
  BY <1>1, Taken, Heads DEF TakenFrom

(* ... one that gets an event, ...                                         *)
LEMMA AddOf ==
  ASSUME CIInv, NEW t \in Targets, NEW e \in EventType, Emits(t, e)
  PROVE  \E k \in Nat : AddedTo(t, e, k) /\ k = Len(queue[t]) + 1
<1>1. queue \in [Targets -> Seq(EventType)]
  BY CIFacts DEF Channels
<1>2. Len(queue[t]) \in Nat
  BY <1>1
<1>. QED
  BY <1>1, <1>2, Added DEF AddedTo

(* ... and one that is dropped.                                            *)
LEMMA DropOf ==
  ASSUME CIInv, NEW t \in Targets, queue' = [queue EXCEPT ![t] = <<>>]
  PROVE  DroppedAt(t)
<1>1. queue \in [Targets -> Seq(EventType)]
  BY CIFacts DEF Channels
<1>. QED
  BY <1>1, Dropped DEF DroppedAt

(* The steps of a handshake. *)
LEMMA Steps ==
  ASSUME CIInv, NEW t \in Targets
  PROVE  /\ Initialize(t) => t \in Children \ Debugpy /\ MovedTo(t, "await")
         /\ Forward(t) => t \in Children \ Debugpy /\ MovedTo(t, "configure")
         /\ LaunchBreakpoints => MovedTo(Parent, "configure")
         /\ Configure(t) => MovedTo(t, IF t = Parent THEN "confirm" ELSE IF t \in Debugpy THEN "await"
              ELSE "publish")
         /\ Confirm => MovedTo(Parent, "attached")
         /\ Publish(t) => t \in Children /\ MovedTo(t, "attached")
         /\ AwaitInitialized(t) => MovedTo(t, IF t = Parent THEN "breakpoints"
              ELSE IF t \in Debugpy THEN "publish" ELSE "forward")
         /\ TimeOut(t) => MovedTo(t, "failed")
<1>a. /\ Parent \notin Children /\ Parent \notin Debugpy /\ Parent \in Targets
      /\ Debugpy \subseteq Children /\ Targets = {Parent} \cup Children
      /\ \A u \in Targets : At(u) \in Positions(u)
  BY CIFacts, ChildFacts
<1>b. Channels /\ HandshakesOK
  BY CIFacts
<1>1. ASSUME Initialize(t)  PROVE t \in Children \ Debugpy /\ MovedTo(t, "await")
  <2>1. t \in Children \ Debugpy /\ At(t) = "initialize"
    BY <1>1, <1>a DEF Initialize, Positions, Dormant
  <2>. QED
    BY <1>1, <1>a, <2>1, MoveOf DEF Initialize, Following, Dormant
<1>2. ASSUME Forward(t)  PROVE t \in Children \ Debugpy /\ MovedTo(t, "configure")
  <2>1. t \in Children \ Debugpy /\ At(t) = "forward"
    BY <1>2, <1>a DEF Forward, Positions, Dormant
  <2>. QED
    BY <1>2, <1>a, <2>1, MoveOf DEF Forward, Following, Dormant
<1>3. ASSUME LaunchBreakpoints  PROVE MovedTo(Parent, "configure")
  BY <1>3, <1>a, MoveOf DEF LaunchBreakpoints, Following, Dormant
<1>4. ASSUME Configure(t)
      PROVE  MovedTo(t, IF t = Parent THEN "confirm" ELSE IF t \in Debugpy THEN "await" ELSE "publish")
  <2>1. MovedTo(t, Following(t)) /\ At(t) = "configure"
    BY <1>4, MoveOf DEF Configure, Dormant
  <2>2. Following(t) = IF t = Parent THEN "confirm" ELSE IF t \in Debugpy THEN "await" ELSE "publish"
    BY <2>1 DEF Following
  <2>. QED
    BY <2>1, <2>2
<1>5. ASSUME Confirm  PROVE MovedTo(Parent, "attached")
  BY <1>5, <1>a, MoveOf DEF Confirm, Following, Dormant
<1>6. ASSUME Publish(t)  PROVE t \in Children /\ MovedTo(t, "attached")
  <2>1. t \in Children /\ At(t) = "publish"
    BY <1>6, <1>a DEF Publish, Positions, Dormant
  <2>2. Following(t) = "attached"
    BY <1>a, <2>1 DEF Following
  <2>3. MovedTo(t, Following(t))
    BY <1>6, <2>1, MoveOf DEF Publish, Dormant
  <2>. QED
    BY <2>1, <2>2, <2>3
<1>7. ASSUME AwaitInitialized(t)
      PROVE  MovedTo(t, IF t = Parent THEN "breakpoints" ELSE IF t \in Debugpy THEN "publish"
        ELSE "forward")
  <2>1. At(t) = "await" /\ Advance(t)
    <3>1. CASE t = Parent
      BY <1>7, <3>1 DEF AwaitInitialized
    <3>2. CASE t # Parent
      <4>1. At(t) = "await" /\ queue[t] # <<>>
        BY <1>7, <3>2 DEF AwaitInitialized
      <4>2. queue[t][1].name = "initialized"
        BY <1>a, <1>b, <3>2, <4>1 DEF HandshakesOK, Begins
      <4>3. Head(queue[t]) = queue[t][1]
        BY <1>b, <4>1, Heads DEF Channels
      <4>. QED
        BY <1>7, <3>2, <4>1, <4>2, <4>3 DEF AwaitInitialized
    <3>. QED
      BY <3>1, <3>2
  <2>2. MovedTo(t, Following(t))
    BY <2>1, MoveOf DEF Dormant
  <2>3. Following(t) = IF t = Parent THEN "breakpoints" ELSE IF t \in Debugpy THEN "publish" ELSE "forward"
    BY <2>1 DEF Following
  <2>. QED
    BY <2>2, <2>3
<1>8. ASSUME TimeOut(t)  PROVE MovedTo(t, "failed")
  BY <1>8, <1>b, Moved DEF TimeOut, Channels, MovedTo, Places
<1>. QED
  BY <1>1, <1>2, <1>3, <1>4, <1>5, <1>6, <1>7, <1>8

(* What comes into the channels and what is taken from them. *)
LEMMA Receptions ==
  ASSUME CIInv, NEW t \in Targets
  PROVE  /\ AwaitInitialized(t) => IF t = Parent THEN Quiet ELSE TakenFrom(t, "initialized")
         /\ TimeOut(t) => IF t = Parent THEN Quiet ELSE DroppedAt(t)
         /\ OnInitialized(t) => TakenFrom(t, "initialized")
         /\ OnSpawn(t) => TakenFrom(t, "spawn")
         /\ OnStopped(t) => TakenFrom(t, "stopped")
         /\ OnContinued(t) => TakenFrom(t, "continued")
<1>1. ASSUME AwaitInitialized(t), t # Parent  PROVE TakenFrom(t, "initialized")
  <2>1. t \in Children /\ At(t) = "await" /\ queue[t] # <<>> /\ HandshakesOK /\ Channels
    BY <1>1, CIFacts, ChildFacts DEF AwaitInitialized
  <2>2. queue[t][1].name = "initialized"
    BY <2>1 DEF HandshakesOK, Begins
  <2>3. Head(queue[t]) = queue[t][1]
    BY <2>1, Heads DEF Channels
  <2>. QED
    BY <1>1, <2>1, <2>2, <2>3, TakeOf DEF AwaitInitialized
<1>2. AwaitInitialized(t) /\ t = Parent => Quiet
  BY SameQueue DEF AwaitInitialized
<1>3. TimeOut(t) => IF t = Parent THEN Quiet ELSE DroppedAt(t)
  BY SameQueue, DropOf DEF TimeOut
<1>4. ASSUME NEW n, Receives(t, n)  PROVE TakenFrom(t, n)
  BY <1>4, TakeOf DEF Receives
<1>. QED
  BY <1>1, <1>2, <1>3, <1>4 DEF OnInitialized, OnSpawn, OnStopped, OnContinued

(* The events the adapter adds.                                            *)
LEMMA Emissions ==
  ASSUME CIInv, NEW t \in Targets
  PROVE  /\ Announce(t) => \E k \in Nat : AddedTo(t, Event("initialized"), k)
         /\ Reannounce(t) => \E k \in Nat : AddedTo(t, Event("initialized"), k)
         /\ Resume(t) => \E k \in Nat : AddedTo(t, Event("continued"), k)
         /\ Pause(t) => \E k \in Nat : AddedTo(t, StopEvent(stops[t] + 1), k)
         /\ \A c \in Children : Spawn(t, c) => \E k \in Nat : AddedTo(t, SpawnEvent(c), k)
<1>a. ChildTypeOK /\ HandshakesOK /\ stops \in [Targets -> Nat]
  BY CIFacts DEF Typed
<1>1. Nobody \notin Targets
  BY <1>a, ChildFacts
<1>. stops[t] + 1 \in Nat
  BY <1>a
<1>2. /\ Event("initialized") \in EventType /\ Event("continued") \in EventType
      /\ StopEvent(stops[t] + 1) \in EventType
      /\ \A c \in Children : SpawnEvent(c) \in EventType
  BY <1>1, EventTypes
<1>3. ASSUME NEW e \in EventType, Emits(t, e)  PROVE \E k \in Nat : AddedTo(t, e, k)
  BY <1>3, AddOf
<1>. QED
  BY <1>2, <1>3 DEF Announce, Reannounce, Resume, Pause, Spawn

-----------------------------------------------------------------------------
(* Handshakes *)

(* A handshake is at one of its places; a dispatcher comes with the last.  *)
LEMMA PlacedStep ==
  ASSUME CIInv, [ChildNext]_childVars
  PROVE  \A u \in Targets : Placed(u)'
<1>. USE DEF childVars, adapterVars, sharedVars, toolVars
<1>a. /\ Parent \notin Children /\ Parent \notin Debugpy /\ Parent \in Targets
      /\ Debugpy \subseteq Children /\ Targets = {Parent} \cup Children /\ Leaving \subseteq Children
      /\ \A u \in Targets : At(u) \in Positions(u) /\ (Begun(u) <=> At(u) \notin Dormant \cup {"failed"})
  BY CIFacts, ChildFacts, ChildAssumption
<1>b. Typed /\ Channels /\ ChildTypeOK /\ HandshakesOK
  BY CIFacts
<1>c. \A u \in Targets : Placed(u)
  BY <1>a, <1>b DEF Placed, ChildTypeOK, HandshakesOK
<1>d. Stayed /\ disp' = disp => \A u \in Targets : Placed(u)'
  BY <1>c DEF Stayed, Placed, Positions
<1>1. CASE Supervise
  <2>1. PICK c \in Children \ Debugpy, at \in {"ignored", "initialize"} :
               At(c) = "queued" /\ setup' = [setup EXCEPT ![c] = [at |-> at, snap |-> store]]
    BY <1>1, Supervised
  <2>2. At(c)' = at /\ \A u \in Targets \ {c} : At(u)' = At(u)
    BY <1>a, <1>b, <2>1 DEF Channels, At
  <2>3. disp' = disp
    BY <1>1 DEF Supervise
  <2>. QED
    BY <1>a, <1>c, <2>1, <2>2, <2>3 DEF Placed, Positions, Dormant
<1>2. ASSUME NEW t \in Targets, Initialize(t)
      PROVE  \A u \in Targets : Placed(u)'
  <2>1. MovedTo(t, "await") /\ t \in Children \ Debugpy
    BY <1>2, <1>a, Steps
  <2>2. disp' = disp /\ At(t) \in {"initialize", "await", "breakpoints", "forward", "configure", "confirm"}
    BY <1>2 DEF Initialize
  <2>3. \A u \in Targets \ {t} : Placed(u)'
    BY <1>c, <2>1, <2>2 DEF MovedTo, Placed, Positions
  <2>4. Placed(t)'
    BY <1>a, <1>c, <2>1, <2>2 DEF MovedTo, Placed, Positions, Dormant
  <2>. QED
    BY <1>a, <2>3, <2>4
<1>3. ASSUME NEW t \in Targets, AwaitInitialized(t)
      PROVE  \A u \in Targets : Placed(u)'
  <2>1. MovedTo(t, IF t = Parent THEN "breakpoints" ELSE IF t \in Debugpy THEN "publish" ELSE "forward")
    BY <1>3, <1>a, Steps
  <2>2. disp' = disp /\ At(t) \in {"initialize", "await", "breakpoints", "forward", "configure", "confirm"}
    BY <1>3 DEF AwaitInitialized
  <2>3. \A u \in Targets \ {t} : Placed(u)'
    BY <1>c, <2>1, <2>2 DEF MovedTo, Placed, Positions
  <2>4. Placed(t)'
    BY <1>a, <1>c, <2>1, <2>2 DEF MovedTo, Placed, Positions, Dormant
  <2>. QED
    BY <1>a, <2>3, <2>4
<1>4. ASSUME NEW t \in Targets, TimeOut(t)
      PROVE  \A u \in Targets : Placed(u)'
  <2>1. MovedTo(t, "failed")
    BY <1>4, <1>a, Steps
  <2>2. disp' = disp /\ At(t) \in {"initialize", "await", "breakpoints", "forward", "configure", "confirm"}
    BY <1>4 DEF TimeOut
  <2>3. \A u \in Targets \ {t} : Placed(u)'
    BY <1>c, <2>1, <2>2 DEF MovedTo, Placed, Positions
  <2>4. Placed(t)'
    BY <1>a, <1>c, <2>1, <2>2 DEF MovedTo, Placed, Positions, Dormant
  <2>. QED
    BY <1>a, <2>3, <2>4
<1>5. CASE LaunchBreakpoints
  <2>1. MovedTo(Parent, "configure")
    BY <1>5, <1>a, Steps
  <2>2. disp' = disp /\ At(Parent) \in {"initialize", "await", "breakpoints", "forward", "configure",
          "confirm"}
    BY <1>5 DEF LaunchBreakpoints
  <2>3. \A u \in Targets \ {Parent} : Placed(u)'
    BY <1>c, <2>1, <2>2 DEF MovedTo, Placed, Positions
  <2>4. Placed(Parent)'
    BY <1>a, <1>c, <2>1, <2>2 DEF MovedTo, Placed, Positions, Dormant
  <2>. QED
    BY <1>a, <2>3, <2>4
<1>6. ASSUME NEW t \in Targets, Forward(t)
      PROVE  \A u \in Targets : Placed(u)'
  <2>1. MovedTo(t, "configure") /\ t \in Children \ Debugpy
    BY <1>6, <1>a, Steps
  <2>2. disp' = disp /\ At(t) \in {"initialize", "await", "breakpoints", "forward", "configure", "confirm"}
    BY <1>6 DEF Forward
  <2>3. \A u \in Targets \ {t} : Placed(u)'
    BY <1>c, <2>1, <2>2 DEF MovedTo, Placed, Positions
  <2>4. Placed(t)'
    BY <1>a, <1>c, <2>1, <2>2 DEF MovedTo, Placed, Positions, Dormant
  <2>. QED
    BY <1>a, <2>3, <2>4
<1>7. ASSUME NEW t \in Targets, Configure(t)
      PROVE  \A u \in Targets : Placed(u)'
  <2>1. MovedTo(t, IF t = Parent THEN "confirm" ELSE IF t \in Debugpy THEN "await" ELSE "publish")
    BY <1>7, <1>a, Steps
  <2>2. disp' = disp /\ At(t) \in {"initialize", "await", "breakpoints", "forward", "configure", "confirm"}
    BY <1>7 DEF Configure
  <2>3. \A u \in Targets \ {t} : Placed(u)'
    BY <1>c, <2>1, <2>2 DEF MovedTo, Placed, Positions
  <2>4. Placed(t)'
    BY <1>a, <1>c, <2>1, <2>2 DEF MovedTo, Placed, Positions, Dormant
  <2>. QED
    BY <1>a, <2>3, <2>4
<1>8. CASE Confirm
  <2>1. MovedTo(Parent, "attached")
    BY <1>8, <1>a, Steps
  <2>2. disp' = disp /\ At(Parent) \in {"initialize", "await", "breakpoints", "forward", "configure",
          "confirm"}
    BY <1>8 DEF Confirm
  <2>3. \A u \in Targets \ {Parent} : Placed(u)'
    BY <1>c, <2>1, <2>2 DEF MovedTo, Placed, Positions
  <2>4. Placed(Parent)'
    BY <1>a, <1>c, <2>1, <2>2 DEF MovedTo, Placed, Positions, Dormant
  <2>. QED
    BY <1>a, <2>3, <2>4
<1>9. ASSUME NEW t \in Targets, Publish(t)
      PROVE  \A u \in Targets : Placed(u)'
  <2>1. t \in Children /\ MovedTo(t, "attached") /\ disp' = [disp EXCEPT ![t] = "recv"]
    BY <1>9, Steps DEF Publish
  <2>. QED
    BY <1>a, <1>b, <1>c, <2>1 DEF Typed, MovedTo, Placed, Positions, Dormant
<1>10. ASSUME NEW t \in Targets, OnInitialized(t)
      PROVE  \A u \in Targets : Placed(u)'
  BY <1>10, <1>d, SameSetup DEF OnInitialized
<1>11. ASSUME NEW t \in Targets, OnSpawn(t)
      PROVE  \A u \in Targets : Placed(u)'
  <2>1. PICK c \in Children, at \in {"ignored", "queued", "configure"} :
               /\ At(c) = "asked" /\ setup' = [setup EXCEPT ![c].at = at]
               /\ (at = "configure" => c \in Debugpy) /\ (at = "queued" => c \notin Debugpy)
    BY <1>11, Spawned
  <2>2. At(c)' = at /\ \A u \in Targets \ {c} : At(u)' = At(u)
    BY <1>a, <1>b, <2>1, Moved DEF Channels, Places
  <2>3. disp' = disp
    BY <1>11 DEF OnSpawn
  <2>. QED
    BY <1>a, <1>c, <2>1, <2>2, <2>3 DEF Placed, Positions, Dormant
<1>12. ASSUME NEW t \in Targets, OnStopped(t)
      PROVE  \A u \in Targets : Placed(u)'
  <2>1. Stayed /\ disp[t] # "off"
          /\ \E d \in {"recv", "chain", "number", "append", "ended"} : disp' = [disp EXCEPT ![t] = d]
    BY <1>12, SameSetup DEF OnStopped, Receives
  <2>. QED
    BY <1>b, <1>c, <2>1 DEF Typed, Stayed, Placed, Positions
<1>13. ASSUME NEW t \in Targets, OnContinued(t)
      PROVE  \A u \in Targets : Placed(u)'
  BY <1>13, <1>d, SameSetup DEF OnContinued
<1>14. ASSUME NEW t \in Targets, Chain(t)
      PROVE  \A u \in Targets : Placed(u)'
  <2>1. Stayed /\ disp[t] # "off"
          /\ \E d \in {"recv", "chain", "number", "append", "ended"} : disp' = [disp EXCEPT ![t] = d]
    BY <1>14, SameSetup DEF Chain, Receives
  <2>. QED
    BY <1>b, <1>c, <2>1 DEF Typed, Stayed, Placed, Positions
<1>15. ASSUME NEW t \in Targets, Number(t)
      PROVE  \A u \in Targets : Placed(u)'
  <2>1. Stayed /\ disp[t] # "off"
          /\ \E d \in {"recv", "chain", "number", "append", "ended"} : disp' = [disp EXCEPT ![t] = d]
    BY <1>15, SameSetup DEF Number, Receives
  <2>. QED
    BY <1>b, <1>c, <2>1 DEF Typed, Stayed, Placed, Positions
<1>16. ASSUME NEW t \in Targets, AppendEntry(t)
      PROVE  \A u \in Targets : Placed(u)'
  <2>1. Stayed /\ disp[t] # "off"
          /\ \E d \in {"recv", "chain", "number", "append", "ended"} : disp' = [disp EXCEPT ![t] = d]
    BY <1>16, SameSetup DEF AppendEntry, Receives
  <2>. QED
    BY <1>b, <1>c, <2>1 DEF Typed, Stayed, Placed, Positions
<1>17. ASSUME NEW t \in Targets, Ends(t)
      PROVE  \A u \in Targets : Placed(u)'
  <2>1. Stayed /\ disp[t] # "off"
          /\ \E d \in {"recv", "chain", "number", "append", "ended"} : disp' = [disp EXCEPT ![t] = d]
    BY <1>17, SameSetup DEF Ends, Receives
  <2>. QED
    BY <1>b, <1>c, <2>1 DEF Typed, Stayed, Placed, Positions
<1>18. ASSUME NEW t \in Targets, ChainFails(t)
      PROVE  \A u \in Targets : Placed(u)'
  <2>1. Stayed /\ disp[t] # "off"
          /\ \E d \in {"recv", "chain", "number", "append", "ended"} : disp' = [disp EXCEPT ![t] = d]
    BY <1>18, SameSetup DEF ChainFails, Receives
  <2>. QED
    BY <1>b, <1>c, <2>1 DEF Typed, Stayed, Placed, Positions
<1>19. ASSUME NEW lines \in Lists, BeginSet(lines)
      PROVE  \A u \in Targets : Placed(u)'
  BY <1>19, <1>d, SameSetup DEF BeginSet
<1>20. CASE Install
  BY <1>20, <1>d, SameSetup DEF Install
<1>21. CASE Store
  BY <1>21, <1>d, SameSetup DEF Store
<1>22. CASE SetFails
  BY <1>22, <1>d, SameSetup DEF SetFails
<1>23. ASSUME NEW t \in Targets, Announce(t)
      PROVE  \A u \in Targets : Placed(u)'
  BY <1>23, <1>d, SameSetup DEF Announce
<1>24. ASSUME NEW t \in Targets, Start(t)
      PROVE  \A u \in Targets : Placed(u)'
  BY <1>24, <1>d, SameSetup DEF Start
<1>25. ASSUME NEW t \in Targets, Reannounce(t)
      PROVE  \A u \in Targets : Placed(u)'
  BY <1>25, <1>d, SameSetup DEF Reannounce
<1>26. ASSUME NEW t \in Targets, NEW c \in Children, Spawn(t, c)
      PROVE  \A u \in Targets : Placed(u)'
  <2>1. At(c) = "none" /\ At(c)' = "asked" /\ \A u \in Targets \ {c} : At(u)' = At(u)
    BY <1>26, <1>a, <1>b, Moved DEF Spawn, Channels, Places
  <2>2. disp' = disp
    BY <1>26 DEF Spawn
  <2>. QED
    BY <1>a, <1>c, <2>1, <2>2 DEF Placed, Positions, Dormant
<1>27. ASSUME NEW t \in Targets, Pause(t)
      PROVE  \A u \in Targets : Placed(u)'
  BY <1>27, <1>d, SameSetup DEF Pause
<1>28. ASSUME NEW t \in Targets, Resume(t)
      PROVE  \A u \in Targets : Placed(u)'
  BY <1>28, <1>d, SameSetup DEF Resume
<1>29. ASSUME NEW c \in Leaving, Close(c)
      PROVE  \A u \in Targets : Placed(u)'
  BY <1>29, <1>d, SameSetup DEF Close
<1>30. CASE UNCHANGED childVars
  BY <1>30, <1>d, SameSetup
<1>. QED
  BY <1>1, <1>2, <1>3, <1>4, <1>5, <1>6, <1>7, <1>8, <1>9, <1>10, <1>11, <1>12, <1>13, <1>14, <1>15, <1>16,
     <1>17, <1>18, <1>19, <1>20, <1>21, <1>22, <1>23, <1>24, <1>25, <1>26, <1>27, <1>28, <1>29, <1>30
  DEF ChildNext, Handshake, Dispatch, Tool, Adapter

(* What comes first in a channel announces the debuggee.                   *)
LEMMA BeginsStep ==
  ASSUME CIInv, [ChildNext]_childVars
  PROVE  \A u \in Targets : Begins(u)'
<1>. USE DEF childVars, adapterVars, sharedVars, toolVars
<1>a. /\ Parent \notin Children /\ Parent \notin Debugpy /\ Parent \in Targets
      /\ Debugpy \subseteq Children /\ Targets = {Parent} \cup Children /\ Leaving \subseteq Children
      /\ \A u \in Targets : At(u) \in Positions(u) /\ (Begun(u) <=> At(u) \notin Dormant \cup {"failed"})
  BY CIFacts, ChildFacts, ChildAssumption
<1>b. Typed /\ Channels /\ ChildTypeOK /\ HandshakesOK
  BY CIFacts
<1>c. \A u \in Targets : Begins(u)
  BY <1>b DEF HandshakesOK
<1>d. Stayed /\ Quiet /\ phase' = phase => \A u \in Targets : Begins(u)'
  BY <1>c DEF Stayed, Quiet, Begins
<1>e. \A u \in Targets : disp[u] # "off" => u = Parent \/ At(u) = "attached"
  BY <1>b DEF ChildTypeOK
<1>1. CASE Supervise
  <2>1. PICK c \in Children \ Debugpy, at \in {"ignored", "initialize"} :
               At(c) = "queued" /\ setup' = [setup EXCEPT ![c] = [at |-> at, snap |-> store]]
    BY <1>1, Supervised
  <2>2. At(c)' = at /\ \A u \in Targets \ {c} : At(u)' = At(u)
    BY <1>a, <1>b, <2>1 DEF Channels, At
  <2>3. phase' = phase /\ Quiet
    BY <1>1, SameQueue DEF Supervise
  <2>. QED
    BY <1>a, <1>c, <2>1, <2>2, <2>3 DEF Begins, Dormant, Quiet
<1>2. ASSUME NEW t \in Targets, Initialize(t)
      PROVE  \A u \in Targets : Begins(u)'
  <2>1. MovedTo(t, "await") /\ t \in Children \ Debugpy
    BY <1>2, <1>a, Steps
  <2>2. phase' = phase /\ Quiet
    BY <1>2, SameQueue DEF Initialize
  <2>3. \A u \in Targets \ {t} : Begins(u)'
    BY <1>c, <2>1, <2>2 DEF MovedTo, Begins, Quiet
  <2>4. Begins(t)'
    BY <1>2, <1>a, <1>c, <2>1, <2>2 DEF Initialize, MovedTo, Begins, Dormant, Quiet
  <2>. QED
    BY <1>a, <2>3, <2>4
<1>3. ASSUME NEW t \in Targets, AwaitInitialized(t)
      PROVE  \A u \in Targets : Begins(u)'
  <2>1. MovedTo(t, IF t = Parent THEN "breakpoints" ELSE IF t \in Debugpy THEN "publish" ELSE "forward")
    BY <1>3, Steps
  <2>2. phase' = phase /\ At(t) = "await" /\ IF t = Parent THEN Quiet ELSE TakenFrom(t, "initialized")
    BY <1>3, Receptions DEF AwaitInitialized
  <2>3. \A u \in Targets \ {t} : Begins(u)'
    BY <1>c, <2>1, <2>2 DEF MovedTo, Begins, Quiet, TakenFrom
  <2>4. Begins(t)'
    <3>1. CASE t = Parent
      BY <1>a, <1>c, <2>1, <2>2, <3>1 DEF MovedTo, Begins, Dormant, Quiet
    <3>2. CASE t # Parent
      BY <1>a, <1>c, <2>1, <2>2, <3>2 DEF MovedTo, Begins, Dormant, TakenFrom
    <3>. QED
      BY <3>1, <3>2
  <2>. QED
    BY <2>3, <2>4
<1>4. ASSUME NEW t \in Targets, TimeOut(t)
      PROVE  \A u \in Targets : Begins(u)'
  <2>1. MovedTo(t, "failed")
    BY <1>4, Steps
  <2>2. phase' = phase /\ At(t) = "await" /\ IF t = Parent THEN Quiet ELSE DroppedAt(t)
    BY <1>4, Receptions DEF TimeOut
  <2>3. \A u \in Targets \ {t} : Begins(u)'
    BY <1>c, <2>1, <2>2 DEF MovedTo, Begins, Quiet, DroppedAt
  <2>4. Begins(t)'
    <3>1. CASE t = Parent
      BY <1>a, <1>c, <2>1, <2>2, <3>1 DEF MovedTo, Begins, Dormant, Quiet
    <3>2. CASE t # Parent
      BY <1>a, <1>c, <2>1, <2>2, <3>2 DEF MovedTo, Begins, Dormant, DroppedAt
    <3>. QED
      BY <3>1, <3>2
  <2>. QED
    BY <2>3, <2>4
<1>5. CASE LaunchBreakpoints
  <2>1. MovedTo(Parent, "configure")
    BY <1>5, <1>a, Steps
  <2>2. phase' = phase /\ Quiet
    BY <1>5, SameQueue DEF LaunchBreakpoints
  <2>3. \A u \in Targets \ {Parent} : Begins(u)'
    BY <1>c, <2>1, <2>2 DEF MovedTo, Begins, Quiet
  <2>4. Begins(Parent)'
    BY <1>5, <1>a, <1>c, <2>1, <2>2 DEF LaunchBreakpoints, MovedTo, Begins, Dormant, Quiet
  <2>. QED
    BY <1>a, <2>3, <2>4
<1>6. ASSUME NEW t \in Targets, Forward(t)
      PROVE  \A u \in Targets : Begins(u)'
  <2>1. MovedTo(t, "configure") /\ t \in Children \ Debugpy
    BY <1>6, <1>a, Steps
  <2>2. phase' = phase /\ Quiet
    BY <1>6, SameQueue DEF Forward
  <2>3. \A u \in Targets \ {t} : Begins(u)'
    BY <1>c, <2>1, <2>2 DEF MovedTo, Begins, Quiet
  <2>4. Begins(t)'
    BY <1>6, <1>a, <1>c, <2>1, <2>2 DEF Forward, MovedTo, Begins, Dormant, Quiet
  <2>. QED
    BY <1>a, <2>3, <2>4
<1>7. ASSUME NEW t \in Targets, Configure(t)
      PROVE  \A u \in Targets : Begins(u)'
  <2>1. MovedTo(t, IF t = Parent THEN "confirm" ELSE IF t \in Debugpy THEN "await" ELSE "publish")
    BY <1>7, <1>a, Steps
  <2>2. phase' = phase /\ Quiet
    BY <1>7, SameQueue DEF Configure
  <2>3. \A u \in Targets \ {t} : Begins(u)'
    BY <1>c, <2>1, <2>2 DEF MovedTo, Begins, Quiet
  <2>4. Begins(t)'
    BY <1>7, <1>a, <1>c, <2>1, <2>2 DEF Configure, MovedTo, Begins, Dormant, Quiet
  <2>. QED
    BY <1>a, <2>3, <2>4
<1>8. CASE Confirm
  <2>1. MovedTo(Parent, "attached")
    BY <1>8, <1>a, Steps
  <2>2. phase' = phase /\ Quiet
    BY <1>8, SameQueue DEF Confirm
  <2>3. \A u \in Targets \ {Parent} : Begins(u)'
    BY <1>c, <2>1, <2>2 DEF MovedTo, Begins, Quiet
  <2>4. Begins(Parent)'
    BY <1>8, <1>a, <1>c, <2>1, <2>2 DEF Confirm, MovedTo, Begins, Dormant, Quiet
  <2>. QED
    BY <1>a, <2>3, <2>4
<1>9. ASSUME NEW t \in Targets, Publish(t)
      PROVE  \A u \in Targets : Begins(u)'
  <2>1. t \in Children /\ MovedTo(t, "attached") /\ phase' = phase /\ Quiet /\ At(t) = "publish"
    BY <1>9, Steps, SameQueue DEF Publish
  <2>. QED
    BY <1>a, <1>c, <2>1 DEF MovedTo, Begins, Dormant, Quiet
<1>10. ASSUME NEW t \in Targets, OnInitialized(t)
      PROVE  \A u \in Targets : Begins(u)'
  <2>1. Stayed /\ phase' = phase /\ TakenFrom(t, "initialized") /\ (t = Parent \/ At(t) = "attached")
    BY <1>10, <1>e, SameSetup, Receptions DEF OnInitialized, Receives
  <2>. QED
    BY <1>a, <1>c, <2>1 DEF Begins, Dormant, TakenFrom, Stayed
<1>11. ASSUME NEW t \in Targets, OnSpawn(t)
      PROVE  \A u \in Targets : Begins(u)'
  <2>1. PICK c \in Children, at \in {"ignored", "queued", "configure"} :
               /\ At(c) = "asked" /\ setup' = [setup EXCEPT ![c].at = at]
               /\ (at = "configure" => c \in Debugpy) /\ (at = "queued" => c \notin Debugpy)
    BY <1>11, Spawned
  <2>2. At(c)' = at /\ \A u \in Targets \ {c} : At(u)' = At(u)
    BY <1>a, <1>b, <2>1, Moved DEF Channels, Places
  <2>3. phase' = phase /\ TakenFrom(t, "spawn") /\ (t = Parent \/ At(t) = "attached")
    BY <1>11, <1>e, Receptions DEF OnSpawn, Receives
  <2>4. t # c
    BY <1>a, <2>1, <2>3
  <2>. QED
    BY <1>a, <1>c, <2>1, <2>2, <2>3, <2>4 DEF Begins, Dormant, TakenFrom
<1>12. ASSUME NEW t \in Targets, OnStopped(t)
      PROVE  \A u \in Targets : Begins(u)'
  <2>1. Stayed /\ phase' = phase /\ TakenFrom(t, "stopped") /\ (t = Parent \/ At(t) = "attached")
    BY <1>12, <1>e, SameSetup, Receptions DEF OnStopped, Receives
  <2>. QED
    BY <1>a, <1>c, <2>1 DEF Begins, Dormant, TakenFrom, Stayed
<1>13. ASSUME NEW t \in Targets, OnContinued(t)
      PROVE  \A u \in Targets : Begins(u)'
  <2>1. Stayed /\ phase' = phase /\ TakenFrom(t, "continued") /\ (t = Parent \/ At(t) = "attached")
    BY <1>13, <1>e, SameSetup, Receptions DEF OnContinued, Receives
  <2>. QED
    BY <1>a, <1>c, <2>1 DEF Begins, Dormant, TakenFrom, Stayed
<1>14. ASSUME NEW t \in Targets, Chain(t)
      PROVE  \A u \in Targets : Begins(u)'
  BY <1>14, <1>d, SameSetup, SameQueue DEF Chain
<1>15. ASSUME NEW t \in Targets, Number(t)
      PROVE  \A u \in Targets : Begins(u)'
  BY <1>15, <1>d, SameSetup, SameQueue DEF Number
<1>16. ASSUME NEW t \in Targets, AppendEntry(t)
      PROVE  \A u \in Targets : Begins(u)'
  BY <1>16, <1>d, SameSetup, SameQueue DEF AppendEntry
<1>17. ASSUME NEW t \in Targets, Ends(t)
      PROVE  \A u \in Targets : Begins(u)'
  BY <1>17, <1>d, SameSetup, SameQueue DEF Ends
<1>18. ASSUME NEW t \in Targets, ChainFails(t)
      PROVE  \A u \in Targets : Begins(u)'
  BY <1>18, <1>d, SameSetup, SameQueue DEF ChainFails
<1>19. ASSUME NEW lines \in Lists, BeginSet(lines)
      PROVE  \A u \in Targets : Begins(u)'
  BY <1>19, <1>d, SameSetup, SameQueue DEF BeginSet
<1>20. CASE Install
  BY <1>20, <1>d, SameSetup, SameQueue DEF Install
<1>21. CASE Store
  BY <1>21, <1>d, SameSetup, SameQueue DEF Store
<1>22. CASE SetFails
  BY <1>22, <1>d, SameSetup, SameQueue DEF SetFails
<1>23. ASSUME NEW t \in Targets, Announce(t)
      PROVE  \A u \in Targets : Begins(u)'
  <2>1. /\ Stayed /\ phase' = [phase EXCEPT ![t] = "announced"] /\ (t # Parent => At(t) \notin Dormant)
        /\ \E k \in Nat : AddedTo(t, Event("initialized"), k)
    BY <1>23, <1>a, SameSetup, Emissions DEF Announce, Connected
  <2>2. At(t) \notin Dormant
    BY <1>b, <2>1 DEF HandshakesOK
  <2>3. \A u \in Targets \ {t} : phase'[u] = phase[u] /\ queue'[u] = queue[u]
    BY <1>b, <2>1 DEF Typed, AddedTo
  <2>4. phase'[t] = "announced" /\ queue'[t] # <<>>
    BY <1>b, <2>1 DEF Typed, AddedTo
  <2>5. (t \in Children /\ At(t) \in {"initialize", "await"}) \/ (t \in Debugpy /\ At(t) = "configure") =>
          At(t) = "await" /\ queue'[t][1].name = "initialized"
    BY <1>23, <1>c, <2>1 DEF Announce, AddedTo, Event, Begins
  <2>. QED
    BY <1>c, <2>1, <2>2, <2>3, <2>4, <2>5 DEF Begins, Stayed
<1>24. ASSUME NEW t \in Targets, Start(t)
      PROVE  \A u \in Targets : Begins(u)'
  <2>1. /\ Stayed /\ Quiet /\ phase' = [phase EXCEPT ![t] = "running"]
        /\ phase[t] \in {"announced", "reannounced"}
    BY <1>24, SameSetup, SameQueue DEF Start
  <2>2. phase'[t] = "running" /\ \A u \in Targets \ {t} : phase'[u] = phase[u]
    BY <1>b, <2>1 DEF Typed
  <2>. QED
    BY <1>c, <2>1, <2>2 DEF Begins, Stayed, Quiet
<1>25. ASSUME NEW t \in Targets, Reannounce(t)
      PROVE  \A u \in Targets : Begins(u)'
  <2>1. /\ Stayed /\ phase' = [phase EXCEPT ![t] = "reannounced"] /\ (t # Parent => At(t) \notin Dormant)
        /\ \E k \in Nat : AddedTo(t, Event("initialized"), k)
    BY <1>25, <1>a, SameSetup, Emissions DEF Reannounce, Connected
  <2>2. At(t) \notin Dormant
    BY <1>b, <2>1 DEF HandshakesOK
  <2>3. \A u \in Targets \ {t} : phase'[u] = phase[u] /\ queue'[u] = queue[u]
    BY <1>b, <2>1 DEF Typed, AddedTo
  <2>4. phase'[t] = "reannounced" /\ queue'[t] # <<>>
    BY <1>b, <2>1 DEF Typed, AddedTo
  <2>5. (t \in Children /\ At(t) \in {"initialize", "await"}) \/ (t \in Debugpy /\ At(t) = "configure") =>
          At(t) = "await" /\ queue'[t][1].name = "initialized"
    BY <1>25, <1>c, <2>1 DEF Reannounce, AddedTo, Event, Begins
  <2>. QED
    BY <1>c, <2>1, <2>2, <2>3, <2>4, <2>5 DEF Begins, Stayed
<1>26. ASSUME NEW t \in Targets, NEW c \in Children, Spawn(t, c)
      PROVE  \A u \in Targets : Begins(u)'
  <2>1. At(c) = "none" /\ At(c)' = "asked" /\ \A u \in Targets \ {c} : At(u)' = At(u)
    BY <1>26, <1>a, <1>b, Moved DEF Spawn, Channels, Places
  <2>2. phase' = phase /\ phase[t] = "running" /\ \E k \in Nat : AddedTo(t, SpawnEvent(c), k)
    BY <1>26, Emissions DEF Spawn
  <2>3. t # c
    BY <1>a, <1>c, <2>1, <2>2 DEF Begins, Dormant
  <2>. QED
    BY <1>a, <1>c, <2>1, <2>2, <2>3 DEF Begins, Dormant, AddedTo
<1>27. ASSUME NEW t \in Targets, Pause(t)
      PROVE  \A u \in Targets : Begins(u)'
  <2>1. /\ Stayed /\ phase' = [phase EXCEPT ![t] = "suspended"] /\ (t # Parent => At(t) \notin Dormant)
        /\ \E k \in Nat : AddedTo(t, StopEvent(stops[t] + 1), k)
    BY <1>27, <1>a, SameSetup, Emissions DEF Pause, Connected
  <2>2. At(t) \notin Dormant
    BY <1>b, <2>1 DEF HandshakesOK
  <2>3. \A u \in Targets \ {t} : phase'[u] = phase[u] /\ queue'[u] = queue[u]
    BY <1>b, <2>1 DEF Typed, AddedTo
  <2>4. phase'[t] = "suspended" /\ queue'[t] # <<>>
    BY <1>b, <2>1 DEF Typed, AddedTo
  <2>5. (t \in Children /\ At(t) \in {"initialize", "await"}) \/ (t \in Debugpy /\ At(t) = "configure") =>
          At(t) = "await" /\ queue'[t][1].name = "initialized"
    BY <1>27, <1>c, <2>1 DEF Pause, AddedTo, Event, Begins
  <2>. QED
    BY <1>c, <2>1, <2>2, <2>3, <2>4, <2>5 DEF Begins, Stayed
<1>28. ASSUME NEW t \in Targets, Resume(t)
      PROVE  \A u \in Targets : Begins(u)'
  <2>1. /\ Stayed /\ phase' = [phase EXCEPT ![t] = "running"] /\ (t # Parent => At(t) \notin Dormant)
        /\ \E k \in Nat : AddedTo(t, Event("continued"), k)
    BY <1>28, <1>a, SameSetup, Emissions DEF Resume, Connected
  <2>2. At(t) \notin Dormant
    BY <1>b, <2>1 DEF HandshakesOK
  <2>3. \A u \in Targets \ {t} : phase'[u] = phase[u] /\ queue'[u] = queue[u]
    BY <1>b, <2>1 DEF Typed, AddedTo
  <2>4. phase'[t] = "running" /\ queue'[t] # <<>>
    BY <1>b, <2>1 DEF Typed, AddedTo
  <2>5. (t \in Children /\ At(t) \in {"initialize", "await"}) \/ (t \in Debugpy /\ At(t) = "configure") =>
          At(t) = "await" /\ queue'[t][1].name = "initialized"
    BY <1>28, <1>c, <2>1 DEF Resume, AddedTo, Event, Begins
  <2>. QED
    BY <1>c, <2>1, <2>2, <2>3, <2>4, <2>5 DEF Begins, Stayed
<1>29. ASSUME NEW c \in Leaving, Close(c)
      PROVE  \A u \in Targets : Begins(u)'
  <2>1. /\ Stayed /\ Quiet /\ phase' = [phase EXCEPT ![c] = "closed"]
        /\ c \in Children /\ At(c) \notin Dormant
    BY <1>29, <1>a, SameSetup, SameQueue DEF Close, Connected
  <2>2. phase'[c] = "closed" /\ \A u \in Targets \ {c} : phase'[u] = phase[u]
    BY <1>a, <1>b, <2>1 DEF Typed
  <2>. QED
    BY <1>c, <2>1, <2>2 DEF Begins, Stayed, Quiet
<1>30. CASE UNCHANGED childVars
  BY <1>30, <1>d, SameSetup, SameQueue
<1>. QED
  BY <1>1, <1>2, <1>3, <1>4, <1>5, <1>6, <1>7, <1>8, <1>9, <1>10, <1>11, <1>12, <1>13, <1>14, <1>15, <1>16,
     <1>17, <1>18, <1>19, <1>20, <1>21, <1>22, <1>23, <1>24, <1>25, <1>26, <1>27, <1>28, <1>29, <1>30
  DEF ChildNext, Handshake, Dispatch, Tool, Adapter

Leads ==
  /\ phase[Parent] # "closed"
  /\ active = Parent \/ At(active) = "attached"
  /\ Early

(* The tools talk to the parent or to an attached child.                   *)
LEMMA LeadsStep ==
  ASSUME CIInv, [ChildNext]_childVars
  PROVE  Leads'
<1>. USE DEF childVars, adapterVars, sharedVars, toolVars
<1>a. /\ Parent \notin Children /\ Parent \notin Debugpy /\ Parent \in Targets
      /\ Debugpy \subseteq Children /\ Targets = {Parent} \cup Children /\ Leaving \subseteq Children
      /\ \A u \in Targets : At(u) \in Positions(u) /\ (Begun(u) <=> At(u) \notin Dormant \cup {"failed"})
  BY CIFacts, ChildFacts, ChildAssumption
<1>b. Typed /\ Channels /\ ChildTypeOK /\ HandshakesOK
  BY CIFacts
<1>c. Leads /\ active \in Targets
  BY <1>b DEF HandshakesOK, Leads, Typed
<1>d. Stayed /\ phase' = phase /\ active' = active => Leads'
  BY <1>a, <1>c DEF Stayed, Leads, Early, At
<1>1. CASE Supervise
  <2>1. PICK c \in Children \ Debugpy, at \in {"ignored", "initialize"} :
               At(c) = "queued" /\ setup' = [setup EXCEPT ![c] = [at |-> at, snap |-> store]]
    BY <1>1, Supervised
  <2>2. At(c)' = at /\ \A u \in Targets \ {c} : At(u)' = At(u)
    BY <1>a, <1>b, <2>1 DEF Channels, At
  <2>3. phase' = phase /\ active' = active
    BY <1>1 DEF Supervise
  <2>. QED
    BY <1>a, <1>c, <2>1, <2>2, <2>3 DEF Leads, Early
<1>2. ASSUME NEW t \in Targets, Initialize(t)
      PROVE  Leads'
  <2>1. MovedTo(t, "await") /\ t \in Children \ Debugpy
    BY <1>2, <1>a, Steps
  <2>2. phase' = phase /\ active' = active
    BY <1>2 DEF Initialize
  <2>3. At(t) = "initialize"
    BY <1>2 DEF Initialize
  <2>4. active' = Parent \/ At(active)' = "attached"
    BY <1>c, <2>1, <2>2, <2>3 DEF MovedTo, Leads, At
  <2>5. Early'
    BY <1>a, <1>c, <2>1, <2>2, <2>3 DEF MovedTo, Leads, Early
  <2>. QED
    BY <1>c, <2>2, <2>4, <2>5 DEF Leads
<1>3. ASSUME NEW t \in Targets, AwaitInitialized(t)
      PROVE  Leads'
  <2>1. MovedTo(t, IF t = Parent THEN "breakpoints" ELSE IF t \in Debugpy THEN "publish" ELSE "forward")
    BY <1>3, <1>a, Steps
  <2>2. phase' = phase /\ active' = active
    BY <1>3 DEF AwaitInitialized
  <2>3. At(t) = "await"
    BY <1>3 DEF AwaitInitialized
  <2>4. active' = Parent \/ At(active)' = "attached"
    BY <1>c, <2>1, <2>2, <2>3 DEF MovedTo, Leads, At
  <2>5. Early'
    BY <1>a, <1>c, <2>1, <2>2, <2>3 DEF MovedTo, Leads, Early
  <2>. QED
    BY <1>c, <2>2, <2>4, <2>5 DEF Leads
<1>4. ASSUME NEW t \in Targets, TimeOut(t)
      PROVE  Leads'
  <2>1. MovedTo(t, "failed")
    BY <1>4, <1>a, Steps
  <2>2. phase' = phase /\ active' = active
    BY <1>4 DEF TimeOut
  <2>3. At(t) = "await"
    BY <1>4 DEF TimeOut
  <2>4. active' = Parent \/ At(active)' = "attached"
    BY <1>c, <2>1, <2>2, <2>3 DEF MovedTo, Leads, At
  <2>5. Early'
    BY <1>a, <1>c, <2>1, <2>2, <2>3 DEF MovedTo, Leads, Early
  <2>. QED
    BY <1>c, <2>2, <2>4, <2>5 DEF Leads
<1>5. CASE LaunchBreakpoints
  <2>1. MovedTo(Parent, "configure")
    BY <1>5, <1>a, Steps
  <2>2. phase' = phase /\ active' = active
    BY <1>5 DEF LaunchBreakpoints
  <2>3. At(Parent) = "breakpoints"
    BY <1>5 DEF LaunchBreakpoints
  <2>4. active' = Parent \/ At(active)' = "attached"
    BY <1>c, <2>1, <2>2, <2>3 DEF MovedTo, Leads, At
  <2>5. Early'
    BY <1>a, <1>c, <2>1, <2>2, <2>3 DEF MovedTo, Leads, Early
  <2>. QED
    BY <1>c, <2>2, <2>4, <2>5 DEF Leads
<1>6. ASSUME NEW t \in Targets, Forward(t)
      PROVE  Leads'
  <2>1. MovedTo(t, "configure") /\ t \in Children \ Debugpy
    BY <1>6, <1>a, Steps
  <2>2. phase' = phase /\ active' = active
    BY <1>6 DEF Forward
  <2>3. At(t) = "forward"
    BY <1>6 DEF Forward
  <2>4. active' = Parent \/ At(active)' = "attached"
    BY <1>c, <2>1, <2>2, <2>3 DEF MovedTo, Leads, At
  <2>5. Early'
    BY <1>a, <1>c, <2>1, <2>2, <2>3 DEF MovedTo, Leads, Early
  <2>. QED
    BY <1>c, <2>2, <2>4, <2>5 DEF Leads
<1>7. ASSUME NEW t \in Targets, Configure(t)
      PROVE  Leads'
  <2>1. MovedTo(t, IF t = Parent THEN "confirm" ELSE IF t \in Debugpy THEN "await" ELSE "publish")
    BY <1>7, <1>a, Steps
  <2>2. phase' = phase /\ active' = active
    BY <1>7 DEF Configure
  <2>3. At(t) = "configure"
    BY <1>7 DEF Configure
  <2>4. active' = Parent \/ At(active)' = "attached"
    BY <1>c, <2>1, <2>2, <2>3 DEF MovedTo, Leads, At
  <2>5. Early'
    BY <1>a, <1>c, <2>1, <2>2, <2>3 DEF MovedTo, Leads, Early
  <2>. QED
    BY <1>c, <2>2, <2>4, <2>5 DEF Leads
<1>8. CASE Confirm
  <2>1. MovedTo(Parent, "attached") /\ phase' = phase /\ active' = active
    BY <1>8, Steps, <1>a DEF Confirm
  <2>. QED
    BY <1>a, <1>c, <2>1 DEF MovedTo, Leads, Early, At
<1>9. ASSUME NEW t \in Targets, Publish(t)
      PROVE  Leads'
  <2>1. t \in Children /\ MovedTo(t, "attached") /\ phase' = phase /\ active' = t /\ At(t) = "publish"
    BY <1>9, Steps DEF Publish
  <2>2. At(active)' = "attached" /\ At(Parent)' = At(Parent)
    BY <1>a, <2>1 DEF MovedTo, At
  <2>. QED
    BY <1>a, <1>c, <2>1, <2>2 DEF Leads, Early
<1>10. ASSUME NEW t \in Targets, OnInitialized(t)
      PROVE  Leads'
  BY <1>10, <1>d, SameSetup DEF OnInitialized
<1>11. ASSUME NEW t \in Targets, OnSpawn(t)
      PROVE  Leads'
  <2>1. PICK c \in Children, at \in {"ignored", "queued", "configure"} :
               /\ At(c) = "asked" /\ setup' = [setup EXCEPT ![c].at = at]
    BY <1>11, Spawned
  <2>2. At(c)' = at /\ \A u \in Targets \ {c} : At(u)' = At(u)
    BY <1>a, <1>b, <2>1, Moved DEF Channels, Places
  <2>3. phase' = phase /\ active' = active
    BY <1>11 DEF OnSpawn
  <2>. QED
    BY <1>a, <1>c, <2>1, <2>2, <2>3 DEF Leads, Early
<1>12. ASSUME NEW t \in Targets, OnStopped(t)
      PROVE  Leads'
  BY <1>12, <1>d, SameSetup DEF OnStopped
<1>13. ASSUME NEW t \in Targets, OnContinued(t)
      PROVE  Leads'
  BY <1>13, <1>d, SameSetup DEF OnContinued
<1>14. ASSUME NEW t \in Targets, Chain(t)
      PROVE  Leads'
  BY <1>14, <1>d, SameSetup DEF Chain
<1>15. ASSUME NEW t \in Targets, Number(t)
      PROVE  Leads'
  BY <1>15, <1>d, SameSetup DEF Number
<1>16. ASSUME NEW t \in Targets, AppendEntry(t)
      PROVE  Leads'
  BY <1>16, <1>d, SameSetup DEF AppendEntry
<1>17. ASSUME NEW t \in Targets, Ends(t)
      PROVE  Leads'
  BY <1>17, <1>d, SameSetup DEF Ends
<1>18. ASSUME NEW t \in Targets, ChainFails(t)
      PROVE  Leads'
  BY <1>18, <1>d, SameSetup DEF ChainFails
<1>19. ASSUME NEW lines \in Lists, BeginSet(lines)
      PROVE  Leads'
  BY <1>19, <1>d, SameSetup DEF BeginSet
<1>20. CASE Install
  BY <1>20, <1>d, SameSetup DEF Install
<1>21. CASE Store
  BY <1>21, <1>d, SameSetup DEF Store
<1>22. CASE SetFails
  BY <1>22, <1>d, SameSetup DEF SetFails
<1>23. ASSUME NEW t \in Targets, Announce(t)
      PROVE  Leads'
  <2>1. Stayed /\ active' = active /\ phase' = [phase EXCEPT ![t] = "announced"]
    BY <1>23, <1>a, SameSetup DEF Announce
  <2>2. phase'[t] = "announced" /\ \A u \in Targets \ {t} : phase'[u] = phase[u]
    BY <1>b, <2>1 DEF Typed
  <2>. QED
    BY <1>a, <1>c, <2>1, <2>2 DEF Leads, Early, Stayed, At
<1>24. ASSUME NEW t \in Targets, Start(t)
      PROVE  Leads'
  <2>1. /\ Stayed /\ active' = active /\ phase' = [phase EXCEPT ![t] = "running"] /\ configs[t] # 0
    BY <1>24, <1>b, SameSetup DEF Start, Typed
  <2>2. phase'[t] = "running" /\ \A u \in Targets \ {t} : phase'[u] = phase[u]
    BY <1>b, <2>1 DEF Typed
  <2>3. t = Parent => At(t) \notin {"await", "breakpoints", "configure", "failed"}
    BY <1>a, <2>1 DEF CIInv, ConfigsOK, Configured
  <2>. QED
    BY <1>a, <1>c, <2>1, <2>2, <2>3 DEF Leads, Early, Stayed, At
<1>25. ASSUME NEW t \in Targets, Reannounce(t)
      PROVE  Leads'
  <2>1. Stayed /\ active' = active /\ phase' = [phase EXCEPT ![t] = "reannounced"] /\ t # Parent
    BY <1>25, <1>a, SameSetup DEF Reannounce
  <2>2. phase'[t] = "reannounced" /\ \A u \in Targets \ {t} : phase'[u] = phase[u]
    BY <1>b, <2>1 DEF Typed
  <2>. QED
    BY <1>a, <1>c, <2>1, <2>2 DEF Leads, Early, Stayed, At
<1>26. ASSUME NEW t \in Targets, NEW c \in Children, Spawn(t, c)
      PROVE  Leads'
  <2>1. At(c) = "none" /\ At(c)' = "asked" /\ \A u \in Targets \ {c} : At(u)' = At(u)
    BY <1>26, <1>a, <1>b, Moved DEF Spawn, Channels, Places
  <2>2. phase' = phase /\ phase[t] = "running" /\ active' = active
    BY <1>26 DEF Spawn
  <2>3. At(Parent) \notin {"await", "breakpoints", "configure", "failed"}
    <3>1. CASE t = Parent
      BY <1>c, <2>2, <3>1 DEF Leads, Early
    <3>2. CASE t # Parent
      <4>1. At(t) # "none"
        BY <1>a, <1>b, <2>2, <3>2 DEF HandshakesOK, Begins, Dormant
      <4>. QED
        BY <1>a, <1>c, <3>2, <4>1 DEF Leads, Early
    <3>. QED
      BY <3>1, <3>2
  <2>. QED
    BY <1>a, <1>c, <2>1, <2>2, <2>3 DEF Leads, Early
<1>27. ASSUME NEW t \in Targets, Pause(t)
      PROVE  Leads'
  <2>1. Stayed /\ active' = active /\ phase' = [phase EXCEPT ![t] = "suspended"] /\ phase[t] = "running"
    BY <1>27, <1>a, SameSetup DEF Pause
  <2>2. phase'[t] = "suspended" /\ \A u \in Targets \ {t} : phase'[u] = phase[u]
    BY <1>b, <2>1 DEF Typed
  <2>. QED
    BY <1>a, <1>c, <2>1, <2>2 DEF Leads, Early, Stayed, At
<1>28. ASSUME NEW t \in Targets, Resume(t)
      PROVE  Leads'
  <2>1. Stayed /\ active' = active /\ phase' = [phase EXCEPT ![t] = "running"] /\ phase[t] = "suspended"
    BY <1>28, <1>a, SameSetup DEF Resume
  <2>2. phase'[t] = "running" /\ \A u \in Targets \ {t} : phase'[u] = phase[u]
    BY <1>b, <2>1 DEF Typed
  <2>. QED
    BY <1>a, <1>c, <2>1, <2>2 DEF Leads, Early, Stayed, At
<1>29. ASSUME NEW c \in Leaving, Close(c)
      PROVE  Leads'
  <2>1. Stayed /\ active' = active /\ phase' = [phase EXCEPT ![c] = "closed"] /\ c \in Children
    BY <1>29, <1>a, SameSetup DEF Close
  <2>2. \A u \in Targets \ {c} : phase'[u] = phase[u]
    BY <1>a, <1>b, <2>1 DEF Typed
  <2>. QED
    BY <1>a, <1>c, <2>1, <2>2 DEF Leads, Early, Stayed, At
<1>30. CASE UNCHANGED childVars
  BY <1>30, <1>d, SameSetup
<1>. QED
  BY <1>1, <1>2, <1>3, <1>4, <1>5, <1>6, <1>7, <1>8, <1>9, <1>10, <1>11, <1>12, <1>13, <1>14, <1>15, <1>16,
     <1>17, <1>18, <1>19, <1>20, <1>21, <1>22, <1>23, <1>24, <1>25, <1>26, <1>27, <1>28, <1>29, <1>30
  DEF ChildNext, Handshake, Dispatch, Tool, Adapter

(* Together.                                                               *)
LEMMA HandshakesStep ==
  ASSUME CIInv, [ChildNext]_childVars
  PROVE  HandshakesOK'
<1>1. (\A u \in Targets : Placed(u)') /\ (\A u \in Targets : Begins(u)') /\ Leads'
  BY PlacedStep, BeginsStep, LeadsStep
<1>2. Parent \in Targets
  BY DEF Targets
<1>. QED
  BY <1>1, <1>2 DEF HandshakesOK, Leads, Placed

-----------------------------------------------------------------------------
(* The children on their way *)

(* Every event that is there was there before. *)
Fewer ==
  \E d \in [Targets -> 0..1] :
    \A u \in Targets, i \in Nat : \A n :
      Has(u, i, n)' => Has(u, i + d[u], n) /\ queue'[u][i] = queue[u][i + d[u]]

(* Steps that add no event.                                                *)
LEMMA FewerIf ==
  ASSUME NEW t \in Targets, Quiet \/ (\E n : TakenFrom(t, n)) \/ DroppedAt(t)
  PROVE  Fewer
<1>1. CASE Quiet
  <2>1. PICK d \in [Targets -> 0..1] : \A u \in Targets : d[u] = 0
    <3>1. [u \in Targets |-> 0] \in [Targets -> 0..1]
      OBVIOUS
    <3>. QED
      BY <3>1
  <2>2. ASSUME NEW u \in Targets, NEW i \in Nat, NEW n, Has(u, i, n)'
        PROVE  Has(u, i + d[u], n) /\ queue'[u][i] = queue[u][i + d[u]]
    <3>1. i + d[u] = i
      BY <2>1
    <3>. QED
      BY <1>1, <2>2, <3>1 DEF Quiet
  <2>. QED
    BY <2>2 DEF Fewer
<1>2. CASE \E n : TakenFrom(t, n)
  <2>1. PICK d \in [Targets -> 0..1] : \A u \in Targets : d[u] = IF u = t THEN 1 ELSE 0
    <3>1. [u \in Targets |-> IF u = t THEN 1 ELSE 0] \in [Targets -> 0..1]
      OBVIOUS
    <3>. QED
      BY <3>1
  <2>2. ASSUME NEW u \in Targets, NEW i \in Nat, NEW n, Has(u, i, n)'
        PROVE  Has(u, i + d[u], n) /\ queue'[u][i] = queue[u][i + d[u]]
    <3>1. i + d[u] = IF u = t THEN i + 1 ELSE i
      BY <2>1
    <3>. QED
      BY <1>2, <2>2, <3>1 DEF TakenFrom
  <2>. QED
    BY <2>2 DEF Fewer
<1>3. CASE DroppedAt(t)
  <2>1. PICK d \in [Targets -> 0..1] : \A u \in Targets : d[u] = 0
    <3>1. [u \in Targets |-> 0] \in [Targets -> 0..1]
      OBVIOUS
    <3>. QED
      BY <3>1
  <2>2. ASSUME NEW u \in Targets, NEW i \in Nat, NEW n, Has(u, i, n)'
        PROVE  Has(u, i + d[u], n) /\ queue'[u][i] = queue[u][i + d[u]]
    <3>1. i + d[u] = i
      BY <2>1
    <3>. QED
      BY <1>3, <2>2, <3>1 DEF DroppedAt
  <2>. QED
    BY <2>2 DEF Fewer
<1>. QED
  BY <1>1, <1>2, <1>3

(* Children that are still asked for after such a step ...                 *)
LEMMA FewerAsked ==
  ASSUME Asked, Fewer, \A u \in Targets, i \in Nat : Has(u, i, "spawn")'
    => setup'[queue'[u][i].child].at = "asked"
  PROVE  Asked'
<1>1. PICK d \in [Targets -> 0..1] :
        \A u \in Targets, i \in Nat : \A n :
          Has(u, i, n)' => Has(u, i + d[u], n) /\ queue'[u][i] = queue[u][i + d[u]]
  BY DEF Fewer
<1>2. SUFFICES ASSUME NEW t \in Targets, NEW i \in Nat, Has(t, i, "spawn")'
               PROVE  /\ queue'[t][i].child \in Children /\ setup'[queue'[t][i].child].at = "asked"
                      /\ \A u \in Targets, j \in Nat :
                           Has(u, j, "spawn")' /\ queue'[u][j].child = queue'[t][i].child => u = t /\ j = i
  BY DEF Asked, At
<1>3. Has(t, i + d[t], "spawn") /\ queue'[t][i] = queue[t][i + d[t]] /\ i + d[t] \in Nat
  BY <1>1, <1>2
<1>4. queue'[t][i].child \in Children
  BY <1>3 DEF Asked
<1>5. ASSUME NEW u \in Targets, NEW j \in Nat, Has(u, j, "spawn")', queue'[u][j].child = queue'[t][i].child
      PROVE  u = t /\ j = i
  <2>1. Has(u, j + d[u], "spawn") /\ queue'[u][j] = queue[u][j + d[u]] /\ j + d[u] \in Nat
    BY <1>1, <1>5
  <2>2. u = t /\ j + d[u] = i + d[t]
    BY <1>3, <1>5, <2>1 DEF Asked
  <2>. QED
    BY <2>2
<1>. QED
  BY <1>2, <1>4, <1>5

(* ... if their places are the same.                                       *)
LEMMA StillAsked ==
  ASSUME CIInv, Fewer, \A c \in Children : At(c) = "asked" => At(c)' = "asked"
  PROVE  Asked'
<1>1. Asked
  BY DEF CIInv, SpawnsOK
<1>2. PICK d \in [Targets -> 0..1] :
        \A u \in Targets, i \in Nat : \A n :
          Has(u, i, n)' => Has(u, i + d[u], n) /\ queue'[u][i] = queue[u][i + d[u]]
  BY DEF Fewer
<1>3. ASSUME NEW u \in Targets, NEW i \in Nat, Has(u, i, "spawn")'
      PROVE setup'[queue'[u][i].child].at = "asked"
  <2>1. Has(u, i + d[u], "spawn") /\ queue'[u][i] = queue[u][i + d[u]] /\ i + d[u] \in Nat
    BY <1>2, <1>3
  <2>2. queue[u][i + d[u]].child \in Children /\ At(queue[u][i + d[u]].child) = "asked"
    BY <1>1, <2>1 DEF Asked
  <2>. QED
    BY <2>1, <2>2 DEF At
<1>. QED
  BY <1>1, <1>3, FewerAsked

(* Another event does not ask for a child.                                 *)
LEMMA MoreAsked ==
  ASSUME CIInv, NEW t \in Targets, NEW k \in Nat, NEW e \in EventType, AddedTo(t, e, k),
         e.name # "spawn", \A c \in Children : At(c)' = At(c)
  PROVE  Asked'
<1>1. Asked
  BY DEF CIInv, SpawnsOK
<1>2. ASSUME NEW u \in Targets, NEW i \in Nat, Has(u, i, "spawn")'
      PROVE  Has(u, i, "spawn") /\ queue'[u][i] = queue[u][i]
  BY <1>2 DEF AddedTo
<1>3. ASSUME NEW u \in Targets, NEW i \in Nat, Has(u, i, "spawn")'
      PROVE  /\ queue'[u][i].child \in Children /\ setup'[queue'[u][i].child].at = "asked"
  <2>1. queue[u][i].child \in Children /\ At(queue[u][i].child) = "asked" /\ queue'[u][i] = queue[u][i]
    BY <1>1, <1>2, <1>3 DEF Asked
  <2>. QED
    BY <2>1 DEF At
<1>. QED
  BY <1>1, <1>2, <1>3 DEF Asked, At

(* A child is asked for once.                                              *)
LEMMA AskedStep ==
  ASSUME CIInv, [ChildNext]_childVars
  PROVE  Asked'
<1>. USE DEF childVars, adapterVars, sharedVars, toolVars
<1>a. /\ Parent \notin Children /\ Parent \notin Debugpy /\ Parent \in Targets
      /\ Debugpy \subseteq Children /\ Targets = {Parent} \cup Children /\ Leaving \subseteq Children
      /\ \A u \in Targets : At(u) \in Positions(u) /\ (Begun(u) <=> At(u) \notin Dormant \cup {"failed"})
  BY CIFacts, ChildFacts, ChildAssumption
<1>b. Typed /\ Channels /\ ChildTypeOK /\ HandshakesOK
  BY CIFacts
<1>c. Quiet => Fewer
  BY <1>a, FewerIf
<1>d. Stayed /\ Quiet => Asked'
  BY <1>a, <1>c, StillAsked DEF Stayed
<1>1. CASE Supervise
  <2>1. PICK c \in Children \ Debugpy, at \in {"ignored", "initialize"} :
               At(c) = "queued" /\ setup' = [setup EXCEPT ![c] = [at |-> at, snap |-> store]]
    BY <1>1, Supervised
  <2>2. At(c)' = at /\ \A u \in Targets \ {c} : At(u)' = At(u)
    BY <1>a, <1>b, <2>1 DEF Channels, At
  <2>3. Fewer
    BY <1>1, <1>c, SameQueue DEF Supervise
  <2>4. \A u \in Children : At(u) = "asked" => At(u)' = "asked"
    BY <1>a, <2>1, <2>2
  <2>. QED
    BY <2>3, <2>4, StillAsked
<1>2. ASSUME NEW t \in Targets, Initialize(t)
      PROVE  Asked'
  <2>1. MovedTo(t, "await") /\ At(t) = "initialize"
    BY <1>2, <1>a, Steps DEF Initialize
  <2>2. Fewer
    BY <1>2, <1>c, FewerIf, SameQueue DEF Initialize
  <2>3. \A c \in Children : At(c) = "asked" => At(c)' = "asked"
    BY <1>a, <2>1 DEF MovedTo
  <2>. QED
    BY <2>2, <2>3, StillAsked
<1>3. ASSUME NEW t \in Targets, AwaitInitialized(t)
      PROVE  Asked'
  <2>1. MovedTo(t, IF t = Parent THEN "breakpoints" ELSE IF t \in Debugpy THEN "publish" ELSE "forward")
          /\ At(t) = "await"
    BY <1>3, <1>a, Steps DEF AwaitInitialized
  <2>2. Fewer
    BY <1>3, <1>c, FewerIf, Receptions DEF AwaitInitialized
  <2>3. \A c \in Children : At(c) = "asked" => At(c)' = "asked"
    BY <1>a, <2>1 DEF MovedTo
  <2>. QED
    BY <2>2, <2>3, StillAsked
<1>4. ASSUME NEW t \in Targets, TimeOut(t)
      PROVE  Asked'
  <2>1. MovedTo(t, "failed") /\ At(t) = "await"
    BY <1>4, <1>a, Steps DEF TimeOut
  <2>2. Fewer
    BY <1>4, <1>c, FewerIf, Receptions DEF TimeOut
  <2>3. \A c \in Children : At(c) = "asked" => At(c)' = "asked"
    BY <1>a, <2>1 DEF MovedTo
  <2>. QED
    BY <2>2, <2>3, StillAsked
<1>5. CASE LaunchBreakpoints
  <2>1. MovedTo(Parent, "configure") /\ At(Parent) = "breakpoints"
    BY <1>5, <1>a, Steps DEF LaunchBreakpoints
  <2>2. Fewer
    BY <1>5, <1>c, FewerIf, SameQueue DEF LaunchBreakpoints
  <2>3. \A c \in Children : At(c) = "asked" => At(c)' = "asked"
    BY <1>a, <2>1 DEF MovedTo
  <2>. QED
    BY <2>2, <2>3, StillAsked
<1>6. ASSUME NEW t \in Targets, Forward(t)
      PROVE  Asked'
  <2>1. MovedTo(t, "configure") /\ At(t) = "forward"
    BY <1>6, <1>a, Steps DEF Forward
  <2>2. Fewer
    BY <1>6, <1>c, FewerIf, SameQueue DEF Forward
  <2>3. \A c \in Children : At(c) = "asked" => At(c)' = "asked"
    BY <1>a, <2>1 DEF MovedTo
  <2>. QED
    BY <2>2, <2>3, StillAsked
<1>7. ASSUME NEW t \in Targets, Configure(t)
      PROVE  Asked'
  <2>1. MovedTo(t, IF t = Parent THEN "confirm" ELSE IF t \in Debugpy THEN "await" ELSE "publish")
          /\ At(t) = "configure"
    BY <1>7, <1>a, Steps DEF Configure
  <2>2. Fewer
    BY <1>7, <1>c, FewerIf, SameQueue DEF Configure
  <2>3. \A c \in Children : At(c) = "asked" => At(c)' = "asked"
    BY <1>a, <2>1 DEF MovedTo
  <2>. QED
    BY <2>2, <2>3, StillAsked
<1>8. CASE Confirm
  <2>1. MovedTo(Parent, "attached") /\ At(Parent) = "confirm"
    BY <1>8, <1>a, Steps DEF Confirm
  <2>2. Fewer
    BY <1>8, <1>c, FewerIf, SameQueue DEF Confirm
  <2>3. \A c \in Children : At(c) = "asked" => At(c)' = "asked"
    BY <1>a, <2>1 DEF MovedTo
  <2>. QED
    BY <2>2, <2>3, StillAsked
<1>9. ASSUME NEW t \in Targets, Publish(t)
      PROVE  Asked'
  <2>1. MovedTo(t, "attached") /\ At(t) = "publish"
    BY <1>9, <1>a, Steps DEF Publish
  <2>2. Fewer
    BY <1>9, <1>c, FewerIf, SameQueue DEF Publish
  <2>3. \A c \in Children : At(c) = "asked" => At(c)' = "asked"
    BY <1>a, <2>1 DEF MovedTo
  <2>. QED
    BY <2>2, <2>3, StillAsked
<1>10. ASSUME NEW t \in Targets, OnInitialized(t)
      PROVE  Asked'
  <2>1. Stayed /\ Fewer
    BY <1>10, FewerIf, SameSetup, Receptions DEF OnInitialized
  <2>. QED
    BY <1>a, <2>1, StillAsked DEF Stayed
<1>11. ASSUME NEW t \in Targets, OnSpawn(t)
      PROVE  Asked'
  <2>1. PICK c \in Children, at \in {"ignored", "queued", "configure"} :
               /\ Has(t, 1, "spawn") /\ queue[t][1].child = c /\ setup' = [setup EXCEPT ![c].at = at]
    BY <1>11, Spawned
  <2>2. At(c)' = at /\ \A u \in Targets \ {c} : At(u)' = At(u)
    <3>1. c \in Targets /\ at \in Places /\ setup \in [Targets -> [at : Places, snap : SUBSET Lines]]
      BY <1>a, <1>b DEF Channels, Places
    <3>. QED
      BY <2>1, <3>1, Moved
  <2>3. TakenFrom(t, "spawn") /\ Asked
    BY <1>11, Receptions DEF CIInv, SpawnsOK
  <2>4. ASSUME NEW u \in Targets, NEW i \in Nat, Has(u, i, "spawn")'
        PROVE  setup'[queue'[u][i].child].at = "asked"
    <3>1. PICK j \in Nat : Has(u, j, "spawn") /\ queue'[u][i] = queue[u][j] /\ (u = t => j # 1)
      <4>1. CASE u = t
        <5>1. i >= 1 /\ Has(t, i + 1, "spawn") /\ queue'[t][i] = queue[t][i + 1] /\ i + 1 \in Nat
                /\ i + 1 # 1
          BY <2>3, <2>4, <4>1 DEF TakenFrom
        <5>. QED
          BY <4>1, <5>1
      <4>2. CASE u # t
        BY <2>3, <2>4, <4>2 DEF TakenFrom
      <4>. QED
        BY <4>1, <4>2
    <3>2. queue[u][j].child # c
      BY <2>1, <2>3, <3>1 DEF Asked
    <3>3. queue[u][j].child \in Children /\ At(queue[u][j].child) = "asked"
      BY <2>3, <3>1 DEF Asked
    <3>4. PICK b \in Children : b = queue[u][j].child
      BY <3>3
    <3>. QED
      BY <1>a, <2>2, <3>1, <3>2, <3>3, <3>4 DEF At
  <2>5. Fewer
    BY <2>3, FewerIf
  <2>. QED
    BY <2>3, <2>4, <2>5, FewerAsked
<1>12. ASSUME NEW t \in Targets, OnStopped(t)
      PROVE  Asked'
  <2>1. Stayed /\ Fewer
    BY <1>12, FewerIf, SameSetup, Receptions DEF OnStopped
  <2>. QED
    BY <1>a, <2>1, StillAsked DEF Stayed
<1>13. ASSUME NEW t \in Targets, OnContinued(t)
      PROVE  Asked'
  <2>1. Stayed /\ Fewer
    BY <1>13, FewerIf, SameSetup, Receptions DEF OnContinued
  <2>. QED
    BY <1>a, <2>1, StillAsked DEF Stayed
<1>14. ASSUME NEW t \in Targets, Chain(t)
      PROVE  Asked'
  BY <1>14, <1>d, SameSetup, SameQueue DEF Chain
<1>15. ASSUME NEW t \in Targets, Number(t)
      PROVE  Asked'
  BY <1>15, <1>d, SameSetup, SameQueue DEF Number
<1>16. ASSUME NEW t \in Targets, AppendEntry(t)
      PROVE  Asked'
  BY <1>16, <1>d, SameSetup, SameQueue DEF AppendEntry
<1>17. ASSUME NEW t \in Targets, Ends(t)
      PROVE  Asked'
  BY <1>17, <1>d, SameSetup, SameQueue DEF Ends
<1>18. ASSUME NEW t \in Targets, ChainFails(t)
      PROVE  Asked'
  BY <1>18, <1>d, SameSetup, SameQueue DEF ChainFails
<1>19. ASSUME NEW lines \in Lists, BeginSet(lines)
      PROVE  Asked'
  BY <1>19, <1>d, SameSetup, SameQueue DEF BeginSet
<1>20. CASE Install
  BY <1>20, <1>d, SameSetup, SameQueue DEF Install
<1>21. CASE Store
  BY <1>21, <1>d, SameSetup, SameQueue DEF Store
<1>22. CASE SetFails
  BY <1>22, <1>d, SameSetup, SameQueue DEF SetFails
<1>23. ASSUME NEW t \in Targets, Announce(t)
      PROVE  Asked'
  <2>1. PICK k \in Nat : AddedTo(t, Event("initialized"), k)
    BY <1>23, Emissions
  <2>2. Event("initialized") \in EventType /\ Event("initialized").name # "spawn"
    BY <2>1 DEF AddedTo, Event, StopEvent
  <2>3. Stayed
    BY <1>23, SameSetup DEF Announce
  <2>. QED
    BY <1>a, <2>1, <2>2, <2>3, MoreAsked DEF Stayed
<1>24. ASSUME NEW t \in Targets, Start(t)
      PROVE  Asked'
  BY <1>24, <1>d, SameSetup, SameQueue DEF Start
<1>25. ASSUME NEW t \in Targets, Reannounce(t)
      PROVE  Asked'
  <2>1. PICK k \in Nat : AddedTo(t, Event("initialized"), k)
    BY <1>25, Emissions
  <2>2. Event("initialized") \in EventType /\ Event("initialized").name # "spawn"
    BY <2>1 DEF AddedTo, Event, StopEvent
  <2>3. Stayed
    BY <1>25, SameSetup DEF Reannounce
  <2>. QED
    BY <1>a, <2>1, <2>2, <2>3, MoreAsked DEF Stayed
<1>26. ASSUME NEW t \in Targets, NEW c \in Children, Spawn(t, c)
      PROVE  Asked'
  <2>1. At(c) = "none" /\ At(c)' = "asked" /\ \A u \in Targets \ {c} : At(u)' = At(u)
    BY <1>26, <1>a, <1>b, Moved DEF Spawn, Channels, Places
  <2>2. PICK k \in Nat : AddedTo(t, SpawnEvent(c), k)
    BY <1>26, Emissions
  <2>3. Asked
    BY DEF CIInv, SpawnsOK
  <2>4. ASSUME NEW u \in Targets, NEW i \in Nat, Has(u, i, "spawn")'
        PROVE  \/ u = t /\ i = k /\ queue'[u][i].child = c
               \/ /\ Has(u, i, "spawn") /\ queue'[u][i] = queue[u][i] /\ queue[u][i].child \in Children
                  /\ At(queue[u][i].child) = "asked" /\ queue[u][i].child # c
    <3>1. CASE u = t /\ i = k
      BY <2>2, <3>1 DEF AddedTo, SpawnEvent
    <3>2. CASE ~(u = t /\ i = k)
      <4>1. Has(u, i, "spawn") /\ queue'[u][i] = queue[u][i]
        BY <2>2, <2>4, <3>2 DEF AddedTo
      <4>. QED
        BY <2>1, <2>3, <4>1 DEF Asked
    <3>. QED
      BY <3>1, <3>2
  <2>5. ASSUME NEW u \in Targets, NEW i \in Nat, Has(u, i, "spawn")'
        PROVE  queue'[u][i].child \in Children /\ setup'[queue'[u][i].child].at = "asked"
    <3>1. PICK b : b = queue'[u][i].child
      OBVIOUS
    <3>2. b \in Children /\ (b = c \/ At(b) = "asked")
      BY <2>4, <2>5, <3>1
    <3>. QED
      BY <1>a, <2>1, <3>1, <3>2 DEF At
  <2>6. ASSUME NEW u \in Targets, NEW i \in Nat, Has(u, i, "spawn")',
               NEW v \in Targets, NEW j \in Nat, Has(v, j, "spawn")',
                 queue'[v][j].child = queue'[u][i].child
        PROVE  v = u /\ j = i
    BY <2>3, <2>4, <2>6 DEF Asked
  <2>. QED
    BY <2>5, <2>6 DEF Asked, At
<1>27. ASSUME NEW t \in Targets, Pause(t)
      PROVE  Asked'
  <2>1. PICK k \in Nat : AddedTo(t, StopEvent(stops[t] + 1), k)
    BY <1>27, Emissions
  <2>2. StopEvent(stops[t] + 1) \in EventType /\ StopEvent(stops[t] + 1).name # "spawn"
    BY <2>1 DEF AddedTo, Event, StopEvent
  <2>3. Stayed
    BY <1>27, SameSetup DEF Pause
  <2>. QED
    BY <1>a, <2>1, <2>2, <2>3, MoreAsked DEF Stayed
<1>28. ASSUME NEW t \in Targets, Resume(t)
      PROVE  Asked'
  <2>1. PICK k \in Nat : AddedTo(t, Event("continued"), k)
    BY <1>28, Emissions
  <2>2. Event("continued") \in EventType /\ Event("continued").name # "spawn"
    BY <2>1 DEF AddedTo, Event, StopEvent
  <2>3. Stayed
    BY <1>28, SameSetup DEF Resume
  <2>. QED
    BY <1>a, <2>1, <2>2, <2>3, MoreAsked DEF Stayed
<1>29. ASSUME NEW c \in Leaving, Close(c)
      PROVE  Asked'
  BY <1>29, <1>d, SameSetup, SameQueue DEF Close
<1>30. CASE UNCHANGED childVars
  BY <1>30, <1>d, SameSetup, SameQueue
<1>. QED
  BY <1>1, <1>2, <1>3, <1>4, <1>5, <1>6, <1>7, <1>8, <1>9, <1>10, <1>11, <1>12, <1>13, <1>14, <1>15, <1>16,
     <1>17, <1>18, <1>19, <1>20, <1>21, <1>22, <1>23, <1>24, <1>25, <1>26, <1>27, <1>28, <1>29, <1>30
  DEF ChildNext, Handshake, Dispatch, Tool, Adapter

(* A child is in the supervisor's channel once.                            *)
LEMMA QueuedStep ==
  ASSUME CIInv, [ChildNext]_childVars
  PROVE  Queued'
<1>. USE DEF childVars, adapterVars, sharedVars, toolVars
<1>a. /\ Parent \notin Children /\ Parent \notin Debugpy /\ Parent \in Targets
      /\ Debugpy \subseteq Children /\ Targets = {Parent} \cup Children /\ Leaving \subseteq Children
      /\ \A u \in Targets : At(u) \in Positions(u) /\ (Begun(u) <=> At(u) \notin Dormant \cup {"failed"})
  BY CIFacts, ChildFacts, ChildAssumption
<1>b. Typed /\ Channels /\ ChildTypeOK /\ HandshakesOK
  BY CIFacts
<1>c. Queued /\ \A i \in 1..Len(sd) : sd[i] \in Children
  BY <1>b DEF CIInv, SpawnsOK, Channels
<1>d. sd' = sd /\ (\A c \in Children : At(c) = "queued" => At(c)' = "queued") => Queued'
  BY <1>c DEF Queued, At
<1>e. sd' = sd /\ Stayed => Queued'
  BY <1>a, <1>d DEF Stayed
<1>1. CASE Supervise
  <2>1. PICK c \in Children \ Debugpy, at \in {"ignored", "initialize"} :
               /\ sd # <<>> /\ c = sd[1] /\ sd' = Tail(sd)
               /\ setup' = [setup EXCEPT ![c] = [at |-> at, snap |-> store]]
    BY <1>1, Supervised
  <2>2. \A u \in Targets \ {c} : At(u)' = At(u)
    BY <1>a, <1>b, <2>1 DEF Channels, At
  <2>3. PICK s \in Seq(Children) : s = sd
    BY <1>b DEF Channels
  <2>4. PICK r : r = Tail(s)
    OBVIOUS
  <2>5. Len(s) \in Nat /\ Len(s) >= 1 /\ Len(r) = Len(s) - 1 /\ \A i \in 1..(Len(s) - 1) : r[i] = s[i + 1]
    BY <2>1, <2>3, <2>4
  <2>6. sd' = r /\ c = s[1]
    BY <2>1, <2>3, <2>4
  <2>7. ASSUME NEW i \in 1..Len(r)
        PROVE  r[i] = s[i + 1] /\ i + 1 \in 1..Len(s) /\ i + 1 # 1
    BY <2>5
  <2>8. \A i \in 1..Len(s) :
          s[i] \in Children \ Debugpy /\ At(s[i]) = "queued" /\ \A j \in 1..Len(s) : s[i] = s[j] => i = j
    BY <1>c, <2>3 DEF Queued
  <2>9. ASSUME NEW i \in 1..Len(r)
        PROVE  r[i] \notin Debugpy /\ setup'[r[i]].at = "queued"
    <3>1. PICK b \in Children : b = s[i + 1]
      BY <2>7, <2>8
    <3>2. b # c /\ b \notin Debugpy /\ At(b) = "queued"
      BY <2>5, <2>6, <2>7, <2>8, <3>1
    <3>. QED
      BY <1>a, <2>2, <2>7, <3>1, <3>2 DEF At
  <2>10. ASSUME NEW i \in 1..Len(r), NEW j \in 1..Len(r), r[i] = r[j]
         PROVE  i = j
    <3>1. i + 1 = j + 1
      BY <2>7, <2>8, <2>10
    <3>. QED
      BY <2>5, <3>1
  <2>. QED
    BY <2>6, <2>9, <2>10 DEF Queued, At
<1>2. ASSUME NEW t \in Targets, Initialize(t)
      PROVE  Queued'
  <2>1. MovedTo(t, "await") /\ At(t) = "initialize"
    BY <1>2, <1>a, Steps DEF Initialize
  <2>2. sd' = sd
    BY <1>2 DEF Initialize
  <2>3. \A c \in Children : At(c) = "queued" => At(c)' = "queued"
    BY <1>a, <2>1 DEF MovedTo
  <2>. QED
    BY <1>d, <2>2, <2>3
<1>3. ASSUME NEW t \in Targets, AwaitInitialized(t)
      PROVE  Queued'
  <2>1. MovedTo(t, IF t = Parent THEN "breakpoints" ELSE IF t \in Debugpy THEN "publish" ELSE "forward")
          /\ At(t) = "await"
    BY <1>3, <1>a, Steps DEF AwaitInitialized
  <2>2. sd' = sd
    BY <1>3 DEF AwaitInitialized
  <2>3. \A c \in Children : At(c) = "queued" => At(c)' = "queued"
    BY <1>a, <2>1 DEF MovedTo
  <2>. QED
    BY <1>d, <2>2, <2>3
<1>4. ASSUME NEW t \in Targets, TimeOut(t)
      PROVE  Queued'
  <2>1. MovedTo(t, "failed") /\ At(t) = "await"
    BY <1>4, <1>a, Steps DEF TimeOut
  <2>2. sd' = sd
    BY <1>4 DEF TimeOut
  <2>3. \A c \in Children : At(c) = "queued" => At(c)' = "queued"
    BY <1>a, <2>1 DEF MovedTo
  <2>. QED
    BY <1>d, <2>2, <2>3
<1>5. CASE LaunchBreakpoints
  <2>1. MovedTo(Parent, "configure") /\ At(Parent) = "breakpoints"
    BY <1>5, <1>a, Steps DEF LaunchBreakpoints
  <2>2. sd' = sd
    BY <1>5 DEF LaunchBreakpoints
  <2>3. \A c \in Children : At(c) = "queued" => At(c)' = "queued"
    BY <1>a, <2>1 DEF MovedTo
  <2>. QED
    BY <1>d, <2>2, <2>3
<1>6. ASSUME NEW t \in Targets, Forward(t)
      PROVE  Queued'
  <2>1. MovedTo(t, "configure") /\ At(t) = "forward"
    BY <1>6, <1>a, Steps DEF Forward
  <2>2. sd' = sd
    BY <1>6 DEF Forward
  <2>3. \A c \in Children : At(c) = "queued" => At(c)' = "queued"
    BY <1>a, <2>1 DEF MovedTo
  <2>. QED
    BY <1>d, <2>2, <2>3
<1>7. ASSUME NEW t \in Targets, Configure(t)
      PROVE  Queued'
  <2>1. MovedTo(t, IF t = Parent THEN "confirm" ELSE IF t \in Debugpy THEN "await" ELSE "publish")
          /\ At(t) = "configure"
    BY <1>7, <1>a, Steps DEF Configure
  <2>2. sd' = sd
    BY <1>7 DEF Configure
  <2>3. \A c \in Children : At(c) = "queued" => At(c)' = "queued"
    BY <1>a, <2>1 DEF MovedTo
  <2>. QED
    BY <1>d, <2>2, <2>3
<1>8. CASE Confirm
  <2>1. MovedTo(Parent, "attached") /\ At(Parent) = "confirm"
    BY <1>8, <1>a, Steps DEF Confirm
  <2>2. sd' = sd
    BY <1>8 DEF Confirm
  <2>3. \A c \in Children : At(c) = "queued" => At(c)' = "queued"
    BY <1>a, <2>1 DEF MovedTo
  <2>. QED
    BY <1>d, <2>2, <2>3
<1>9. ASSUME NEW t \in Targets, Publish(t)
      PROVE  Queued'
  <2>1. MovedTo(t, "attached") /\ At(t) = "publish"
    BY <1>9, <1>a, Steps DEF Publish
  <2>2. sd' = sd
    BY <1>9 DEF Publish
  <2>3. \A c \in Children : At(c) = "queued" => At(c)' = "queued"
    BY <1>a, <2>1 DEF MovedTo
  <2>. QED
    BY <1>d, <2>2, <2>3
<1>10. ASSUME NEW t \in Targets, OnInitialized(t)
      PROVE  Queued'
  BY <1>10, <1>e, SameSetup DEF OnInitialized
<1>11. ASSUME NEW t \in Targets, OnSpawn(t)
      PROVE  Queued'
  <2>1. PICK c \in Children, at \in {"ignored", "queued", "configure"} :
               /\ At(c) = "asked" /\ setup' = [setup EXCEPT ![c].at = at]
               /\ sd' = IF at = "queued" THEN Append(sd, c) ELSE sd
               /\ (at = "queued" => c \notin Debugpy)
    BY <1>11, Spawned
  <2>2. At(c)' = at /\ \A u \in Targets \ {c} : At(u)' = At(u)
    BY <1>a, <1>b, <2>1, Moved DEF Channels, Places
  <2>3. CASE at # "queued"
    BY <1>a, <1>d, <2>1, <2>2, <2>3
  <2>4. CASE at = "queued"
    <3>1. PICK s \in Seq(Children) : s = sd
      BY <1>b DEF Channels
    <3>2. PICK r : r = Append(s, c)
      OBVIOUS
    <3>3. Len(s) \in Nat /\ Len(r) = Len(s) + 1 /\ r[Len(s) + 1] = c /\ \A i \in 1..Len(s) : r[i] = s[i]
      BY <3>1, <3>2
    <3>4. sd' = r
      BY <2>1, <2>4, <3>1, <3>2
    <3>5. ASSUME NEW i \in 1..Len(s)
          PROVE  r[i] \notin Debugpy /\ setup'[r[i]].at = "queued" /\ r[i] # c /\ r[i] = sd[i]
      <4>1. PICK b \in Children : b = sd[i]
        BY <1>c, <3>1
      <4>2. b # c /\ b \notin Debugpy /\ At(b) = "queued"
        BY <1>c, <2>1, <3>1, <4>1 DEF Queued
      <4>. QED
        BY <1>a, <2>2, <3>1, <3>3, <4>1, <4>2 DEF At
    <3>6. \A i \in 1..Len(r) : i \in 1..Len(s) \/ i = Len(s) + 1
      BY <3>3
    <3>7. r[Len(s) + 1] \notin Debugpy /\ setup'[r[Len(s) + 1]].at = "queued"
      BY <2>1, <2>2, <2>4, <3>3 DEF At
    <3>8. \A i, j \in 1..Len(s) : r[i] = r[j] => i = j
      BY <1>c, <3>1, <3>5 DEF Queued
    <3>9. \A i \in 1..Len(r) : r[i] \notin Debugpy /\ setup'[r[i]].at = "queued"
      BY <3>5, <3>6, <3>7
    <3>10. \A i, j \in 1..Len(r) : r[i] = r[j] => i = j
      BY <3>3, <3>5, <3>6, <3>8
    <3>. QED
      BY <3>4, <3>9, <3>10 DEF Queued, At
  <2>. QED
    BY <2>3, <2>4
<1>12. ASSUME NEW t \in Targets, OnStopped(t)
      PROVE  Queued'
  BY <1>12, <1>e, SameSetup DEF OnStopped
<1>13. ASSUME NEW t \in Targets, OnContinued(t)
      PROVE  Queued'
  BY <1>13, <1>e, SameSetup DEF OnContinued
<1>14. ASSUME NEW t \in Targets, Chain(t)
      PROVE  Queued'
  BY <1>14, <1>e, SameSetup DEF Chain
<1>15. ASSUME NEW t \in Targets, Number(t)
      PROVE  Queued'
  BY <1>15, <1>e, SameSetup DEF Number
<1>16. ASSUME NEW t \in Targets, AppendEntry(t)
      PROVE  Queued'
  BY <1>16, <1>e, SameSetup DEF AppendEntry
<1>17. ASSUME NEW t \in Targets, Ends(t)
      PROVE  Queued'
  BY <1>17, <1>e, SameSetup DEF Ends
<1>18. ASSUME NEW t \in Targets, ChainFails(t)
      PROVE  Queued'
  BY <1>18, <1>e, SameSetup DEF ChainFails
<1>19. ASSUME NEW lines \in Lists, BeginSet(lines)
      PROVE  Queued'
  BY <1>19, <1>e, SameSetup DEF BeginSet
<1>20. CASE Install
  BY <1>20, <1>e, SameSetup DEF Install
<1>21. CASE Store
  BY <1>21, <1>e, SameSetup DEF Store
<1>22. CASE SetFails
  BY <1>22, <1>e, SameSetup DEF SetFails
<1>23. ASSUME NEW t \in Targets, Announce(t)
      PROVE  Queued'
  BY <1>23, <1>e, SameSetup DEF Announce
<1>24. ASSUME NEW t \in Targets, Start(t)
      PROVE  Queued'
  BY <1>24, <1>e, SameSetup DEF Start
<1>25. ASSUME NEW t \in Targets, Reannounce(t)
      PROVE  Queued'
  BY <1>25, <1>e, SameSetup DEF Reannounce
<1>26. ASSUME NEW t \in Targets, NEW c \in Children, Spawn(t, c)
      PROVE  Queued'
  <2>1. At(c) = "none" /\ At(c)' = "asked" /\ \A u \in Targets \ {c} : At(u)' = At(u)
    BY <1>26, <1>a, <1>b, Moved DEF Spawn, Channels, Places
  <2>2. sd' = sd
    BY <1>26 DEF Spawn
  <2>. QED
    BY <1>a, <1>d, <2>1, <2>2
<1>27. ASSUME NEW t \in Targets, Pause(t)
      PROVE  Queued'
  BY <1>27, <1>e, SameSetup DEF Pause
<1>28. ASSUME NEW t \in Targets, Resume(t)
      PROVE  Queued'
  BY <1>28, <1>e, SameSetup DEF Resume
<1>29. ASSUME NEW c \in Leaving, Close(c)
      PROVE  Queued'
  BY <1>29, <1>e, SameSetup DEF Close
<1>30. CASE UNCHANGED childVars
  BY <1>30, <1>e, SameSetup
<1>. QED
  BY <1>1, <1>2, <1>3, <1>4, <1>5, <1>6, <1>7, <1>8, <1>9, <1>10, <1>11, <1>12, <1>13, <1>14, <1>15, <1>16,
     <1>17, <1>18, <1>19, <1>20, <1>21, <1>22, <1>23, <1>24, <1>25, <1>26, <1>27, <1>28, <1>29, <1>30
  DEF ChildNext, Handshake, Dispatch, Tool, Adapter

-----------------------------------------------------------------------------
(* Counts and configurationDone *)

(* The bound on stops and calls holds.                                     *)
LEMMA CountStep ==
  ASSUME CIInv, [ChildNext]_childVars
  PROVE  (Acts <= MaxActs)' /\ IsFiniteSet(StoppedBy(Targets))'
<1>a. /\ Acts <= MaxActs /\ IsFiniteSet(StoppedBy(Targets)) /\ sets \in Nat
      /\ stops \in [Targets -> Nat] /\ MaxActs \in Nat
  BY ChildAssumption DEF CIInv, ChildTypeOK, StopsOK
<1>1. CASE stops' = stops /\ sets' = sets
  BY <1>a, <1>1 DEF Acts, StoppedBy
<1>2. ASSUME NEW t \in Targets, Pause(t)
      PROVE  (Acts <= MaxActs)' /\ IsFiniteSet(StoppedBy(Targets))'
  <2>1. /\ stops' = [stops EXCEPT ![t] = @ + 1] /\ sets' = sets /\ Acts < MaxActs
    BY <1>2 DEF Pause, toolVars
  <2>2. PICK S : S = StoppedBy(Targets)'
    OBVIOUS
  <2>3. IsFiniteSet(S) /\ Cardinality(S) = Cardinality(StoppedBy(Targets)) + 1
          /\ Cardinality(StoppedBy(Targets)) \in Nat
    BY <1>a, <2>1, <2>2, OneMoreStop
  <2>4. Acts' = sets + Cardinality(S)
    BY <2>1, <2>2 DEF Acts
  <2>. QED
    BY <1>a, <2>1, <2>2, <2>3, <2>4 DEF Acts
<1>3. ASSUME NEW lines \in Lists, BeginSet(lines)
      PROVE  (Acts <= MaxActs)' /\ IsFiniteSet(StoppedBy(Targets))'
  <2>1. stops' = stops /\ sets' = sets + 1 /\ Acts < MaxActs
    BY <1>3 DEF BeginSet
  <2>2. StoppedBy(Targets)' = StoppedBy(Targets)
    BY <2>1 DEF StoppedBy
  <2>3. Cardinality(StoppedBy(Targets)) \in Nat
    BY <1>a, FS_CardinalityType
  <2>. QED
    BY <1>a, <2>1, <2>2, <2>3 DEF Acts
<1>4. UNCHANGED childVars => stops' = stops /\ sets' = sets
  BY DEF childVars, toolVars
<1>5. Supervise \/ Install \/ Store \/ SetFails => stops' = stops /\ sets' = sets
  BY DEF Supervise, Install, Store, SetFails
<1>6. ASSUME NEW t \in Targets, Handshake(t)  PROVE stops' = stops /\ sets' = sets
  BY <1>6 DEF Handshake, Initialize, AwaitInitialized, TimeOut, LaunchBreakpoints, Forward, Configure,
    Confirm, Publish, toolVars
<1>7. ASSUME NEW t \in Targets, Dispatch(t) \/ ChainFails(t)  PROVE stops' = stops /\ sets' = sets
  BY <1>7 DEF Dispatch, ChainFails, OnInitialized, OnSpawn, OnStopped, OnContinued, Chain, Number,
    AppendEntry, Ends, toolVars
<1>8. ASSUME NEW t \in Targets, Announce(t) \/ Start(t) \/ Reannounce(t) \/ Resume(t) \/ Close(t)
        \/ \E c \in Children : Spawn(t, c)
      PROVE  stops' = stops /\ sets' = sets
  BY <1>8 DEF Announce, Start, Reannounce, Resume, Close, Spawn, toolVars
<1>9. Leaving \subseteq Targets
  BY ChildAssumption DEF Targets
<1>. QED
  BY <1>1, <1>2, <1>3, <1>4, <1>5, <1>6, <1>7, <1>8, <1>9 DEF ChildNext, Tool, Adapter

(* The type invariant is kept.                                             *)
LEMMA ChildTypeStep ==
  ASSUME CIInv, [ChildNext]_childVars
  PROVE  ChildTypeOK'
<1>1. Typed' /\ Channels' /\ (\A u \in Targets : Placed(u)') /\ Queued' /\ (Acts <= MaxActs)'
  BY TypedStep, ChannelsStep, PlacedStep, QueuedStep, CountStep
<1>2. \A t \in Targets : At(t)' \in Range(Stages(t)) \cup {"none", "asked", "queued", "ignored", "failed"}
  <2>1. SUFFICES ASSUME NEW t \in Targets
                 PROVE  At(t)' \in Range(Stages(t)) \cup {"none", "asked", "queued", "ignored", "failed"}
    OBVIOUS
  <2>2. At(t)' \in Positions(t)
    BY <1>1 DEF Placed, Positions
  <2>3. Parent \notin Debugpy
    BY ChildAssumption
  <2>. QED
    BY <2>2, <2>3, StagesOf DEF Positions, Dormant
<1>3. \A c \in Range(sd') : At(c)' = "queued"
  <2>1. ASSUME NEW c \in Range(sd')  PROVE setup'[c].at = "queued"
    <3>1. PICK i \in DOMAIN sd' : sd'[i] = c
      BY DEF Range
    <3>2. DOMAIN sd' = 1..Len(sd')
      BY <1>1 DEF Channels
    <3>. QED
      BY <1>1, <3>1, <3>2 DEF Queued, At
  <2>. QED
    BY <2>1 DEF At
<1>4. \A t \in Targets : (disp[t] = "off" <=> t # Parent /\ At(t) # "attached")'
  BY <1>1 DEF Placed
<1>. QED
  BY <1>1, <1>2, <1>3, <1>4 DEF ChildTypeOK, Typed, Channels, EventType

(* A configurationDone waits only for an announced debuggee.               *)
LEMMA ConfigsStep ==
  ASSUME CIInv, [ChildNext]_childVars
  PROVE  \A u \in Targets : Configured(u)'
<1>. USE DEF childVars, adapterVars, sharedVars, toolVars
<1>a. /\ Parent \notin Children /\ Parent \notin Debugpy /\ Parent \in Targets
      /\ Debugpy \subseteq Children /\ Targets = {Parent} \cup Children /\ Leaving \subseteq Children
      /\ \A u \in Targets : At(u) \in Positions(u) /\ (Begun(u) <=> At(u) \notin Dormant \cup {"failed"})
  BY CIFacts, ChildFacts, ChildAssumption
<1>b. Typed /\ Channels /\ ChildTypeOK /\ HandshakesOK
  BY CIFacts
<1>c. \A u \in Targets : Configured(u) /\ Begins(u)
  BY <1>b DEF CIInv, ConfigsOK, HandshakesOK
<1>d. Stayed /\ Quiet /\ phase' = phase /\ configs' = configs => \A u \in Targets : Configured(u)'
  BY <1>c DEF Stayed, Quiet, Configured
<1>e. \A u \in Targets : disp[u] # "off" => u = Parent \/ At(u) = "attached"
  BY <1>b DEF ChildTypeOK
<1>f. \A u \in Targets : queue[u] = <<>> => \A i \in Nat : \A n : ~Has(u, i, n)
  BY DEF Has
<1>1. CASE Supervise
  <2>1. PICK c \in Children \ Debugpy, at \in {"ignored", "initialize"} :
               At(c) = "queued" /\ setup' = [setup EXCEPT ![c] = [at |-> at, snap |-> store]]
    BY <1>1, Supervised
  <2>2. At(c)' = at /\ \A u \in Targets \ {c} : At(u)' = At(u)
    BY <1>a, <1>b, <2>1 DEF Channels, At
  <2>3. phase' = phase /\ configs' = configs /\ Quiet
    BY <1>1, SameQueue DEF Supervise
  <2>4. phase[c] = "created" /\ queue[c] = <<>> /\ configs[c] = 0
    BY <1>a, <1>c, <2>1 DEF Begins, Dormant, Configured
  <2>5. Configured(c)'
    BY <1>a, <1>f, <2>1, <2>2, <2>3, <2>4 DEF Configured, Quiet
  <2>. QED
    BY <1>c, <2>2, <2>3, <2>5 DEF Configured, Quiet
<1>2. ASSUME NEW t \in Targets, Initialize(t)
      PROVE  \A u \in Targets : Configured(u)'
  <2>1. MovedTo(t, "await") /\ t \in Children \ Debugpy /\ At(t) = "initialize"
    BY <1>2, <1>a, Steps DEF Initialize
  <2>2. phase' = phase /\ configs' = configs /\ Quiet
    BY <1>2, SameQueue DEF Initialize
  <2>3. \A u \in Targets \ {t} : Configured(u)'
    BY <1>c, <2>1, <2>2 DEF MovedTo, Configured, Quiet
  <2>4. Configured(t)'
    BY <1>a, <1>c, <2>1, <2>2 DEF MovedTo, Configured, Dormant, Quiet
  <2>. QED
    BY <1>a, <2>3, <2>4
<1>3. ASSUME NEW t \in Targets, AwaitInitialized(t)
      PROVE  \A u \in Targets : Configured(u)'
  <2>1. MovedTo(t, IF t = Parent THEN "breakpoints" ELSE IF t \in Debugpy THEN "publish" ELSE "forward")
    BY <1>3, Steps
  <2>2. phase' = phase /\ configs' = configs /\ At(t) = "await"
          /\ IF t = Parent THEN Quiet ELSE TakenFrom(t, "initialized")
    BY <1>3, Receptions DEF AwaitInitialized
  <2>3. \A u \in Targets \ {t} : Configured(u)'
    BY <1>c, <2>1, <2>2 DEF MovedTo, Configured, Quiet, TakenFrom
  <2>4. Configured(t)'
    <3>1. CASE t = Parent
      BY <1>a, <1>c, <2>1, <2>2, <3>1 DEF MovedTo, Configured, Dormant, Quiet
    <3>2. CASE t \in Debugpy
      BY <1>a, <1>c, <2>1, <2>2, <3>2 DEF MovedTo, Configured, Dormant
    <3>3. CASE t \in Children \ Debugpy
      <4>1. \A i \in Nat : ~Has(t, i, "initialized")'
        BY <1>a, <1>c, <2>1, <2>2, <3>3 DEF Configured, TakenFrom
      <4>2. configs[t] = 0 /\ phase[t] \in {"created", "announced", "closed"}
        BY <1>a, <1>c, <2>1, <2>2, <3>3 DEF Configured
      <4>. QED
        BY <1>a, <2>1, <2>2, <3>3, <4>1, <4>2 DEF MovedTo, Configured
    <3>. QED
      BY <1>a, <3>1, <3>2, <3>3
  <2>. QED
    BY <2>3, <2>4
<1>4. ASSUME NEW t \in Targets, TimeOut(t)
      PROVE  \A u \in Targets : Configured(u)'
  <2>1. MovedTo(t, "failed")
    BY <1>4, Steps
  <2>2. phase' = phase /\ configs' = configs /\ At(t) = "await"
          /\ IF t = Parent THEN Quiet ELSE DroppedAt(t)
    BY <1>4, Receptions DEF TimeOut
  <2>3. \A u \in Targets \ {t} : Configured(u)'
    BY <1>c, <2>1, <2>2 DEF MovedTo, Configured, Quiet, DroppedAt
  <2>4. Configured(t)'
    <3>1. CASE t = Parent
      BY <1>a, <1>c, <2>1, <2>2, <3>1 DEF MovedTo, Configured, Dormant, Quiet
    <3>2. CASE t \in Debugpy
      BY <1>a, <1>c, <2>1, <2>2, <3>2 DEF MovedTo, Configured, Dormant
    <3>3. CASE t \in Children \ Debugpy
      <4>1. \A i \in Nat : ~Has(t, i, "initialized")'
        BY <1>a, <1>c, <2>1, <2>2, <3>3 DEF Configured, DroppedAt
      <4>2. configs[t] = 0 /\ phase[t] \in {"created", "announced", "closed"}
        BY <1>a, <1>c, <2>1, <2>2, <3>3 DEF Configured
      <4>. QED
        BY <1>a, <2>1, <2>2, <3>3, <4>1, <4>2 DEF MovedTo, Configured
    <3>. QED
      BY <1>a, <3>1, <3>2, <3>3
  <2>. QED
    BY <2>3, <2>4
<1>5. CASE LaunchBreakpoints
  <2>1. MovedTo(Parent, "configure") /\ At(Parent) = "breakpoints"
    BY <1>5, <1>a, Steps DEF LaunchBreakpoints
  <2>2. phase' = phase /\ configs' = configs /\ Quiet
    BY <1>5, SameQueue DEF LaunchBreakpoints
  <2>3. \A u \in Targets \ {Parent} : Configured(u)'
    BY <1>c, <2>1, <2>2 DEF MovedTo, Configured, Quiet
  <2>4. Configured(Parent)'
    BY <1>a, <1>c, <2>1, <2>2 DEF MovedTo, Configured, Dormant, Quiet
  <2>. QED
    BY <1>a, <2>3, <2>4
<1>6. ASSUME NEW t \in Targets, Forward(t)
      PROVE  \A u \in Targets : Configured(u)'
  <2>1. MovedTo(t, "configure") /\ t \in Children \ Debugpy /\ At(t) = "forward"
    BY <1>6, <1>a, Steps DEF Forward
  <2>2. phase' = phase /\ configs' = configs /\ Quiet
    BY <1>6, SameQueue DEF Forward
  <2>3. \A u \in Targets \ {t} : Configured(u)'
    BY <1>c, <2>1, <2>2 DEF MovedTo, Configured, Quiet
  <2>4. Configured(t)'
    BY <1>a, <1>c, <2>1, <2>2 DEF MovedTo, Configured, Dormant, Quiet
  <2>. QED
    BY <1>a, <2>3, <2>4
<1>7. ASSUME NEW t \in Targets, Configure(t)
      PROVE  \A u \in Targets : Configured(u)'
  <2>1. MovedTo(t, IF t = Parent THEN "confirm" ELSE IF t \in Debugpy THEN "await" ELSE "publish")
          /\ At(t) = "configure"
    BY <1>7, Steps DEF Configure
  <2>2. phase' = phase /\ configs' = [configs EXCEPT ![t] = @ + 1] /\ Quiet
    BY <1>7, SameQueue DEF Configure
  <2>3. \A u \in Targets \ {t} : configs'[u] = configs[u]
    BY <1>b, <2>2 DEF Typed
  <2>4. \A u \in Targets \ {t} : Configured(u)'
    BY <1>c, <2>1, <2>2, <2>3 DEF MovedTo, Configured, Quiet
  <2>5. Configured(t)'
    BY <1>a, <1>c, <2>1, <2>2 DEF MovedTo, Configured, Dormant, Quiet
  <2>. QED
    BY <2>4, <2>5
<1>8. CASE Confirm
  <2>1. MovedTo(Parent, "attached") /\ At(Parent) = "confirm"
    BY <1>8, <1>a, Steps DEF Confirm
  <2>2. phase' = phase /\ configs' = configs /\ Quiet
    BY <1>8, SameQueue DEF Confirm
  <2>3. \A u \in Targets \ {Parent} : Configured(u)'
    BY <1>c, <2>1, <2>2 DEF MovedTo, Configured, Quiet
  <2>4. Configured(Parent)'
    BY <1>a, <1>c, <2>1, <2>2 DEF MovedTo, Configured, Dormant, Quiet
  <2>. QED
    BY <1>a, <2>3, <2>4
<1>9. ASSUME NEW t \in Targets, Publish(t)
      PROVE  \A u \in Targets : Configured(u)'
  <2>1. MovedTo(t, "attached") /\ At(t) = "publish"
    BY <1>9, <1>a, Steps DEF Publish
  <2>2. phase' = phase /\ configs' = configs /\ Quiet
    BY <1>9, SameQueue DEF Publish
  <2>3. \A u \in Targets \ {t} : Configured(u)'
    BY <1>c, <2>1, <2>2 DEF MovedTo, Configured, Quiet
  <2>4. Configured(t)'
    BY <1>a, <1>c, <2>1, <2>2 DEF MovedTo, Configured, Dormant, Quiet
  <2>. QED
    BY <1>a, <2>3, <2>4
<1>10. ASSUME NEW t \in Targets, OnInitialized(t)
      PROVE  \A u \in Targets : Configured(u)'
  <2>1. Stayed /\ phase' = phase /\ TakenFrom(t, "initialized") /\ (t = Parent \/ At(t) = "attached")
    BY <1>10, <1>e, SameSetup, Receptions DEF OnInitialized, Receives
  <2>2. /\ \A u \in Targets \ {t} : configs'[u] = configs[u]
        /\ t \notin Children \ Debugpy => configs'[t] = configs[t]
    BY <1>10, <1>b DEF OnInitialized, Typed
  <2>3. t \in Children \ Debugpy => \A i \in Nat : ~Has(t, i, "initialized")'
    BY <1>c, <2>1 DEF Configured, TakenFrom
  <2>4. t \in Children \ Debugpy => phase[t] \notin {"running", "suspended"}
    BY <1>c, <2>1 DEF Configured, TakenFrom
  <2>5. Configured(t)'
    <3>1. CASE t \in Children \ Debugpy
      BY <1>a, <2>1, <2>3, <2>4, <3>1 DEF Configured, Stayed, Dormant
    <3>2. CASE t \notin Children \ Debugpy
      BY <1>c, <2>1, <2>2, <3>2 DEF Configured, Stayed
    <3>. QED
      BY <3>1, <3>2
  <2>. QED
    BY <1>c, <2>1, <2>2, <2>5 DEF Configured, Stayed, TakenFrom
<1>11. ASSUME NEW t \in Targets, OnSpawn(t)
      PROVE  \A u \in Targets : Configured(u)'
  <2>1. PICK c \in Children, at \in {"ignored", "queued", "configure"} :
               At(c) = "asked" /\ setup' = [setup EXCEPT ![c].at = at]
    BY <1>11, Spawned
  <2>2. At(c)' = at /\ \A u \in Targets \ {c} : At(u)' = At(u)
    BY <1>a, <1>b, <2>1, Moved DEF Channels, Places
  <2>3. phase' = phase /\ configs' = configs /\ TakenFrom(t, "spawn")
    BY <1>11, Receptions DEF OnSpawn
  <2>4. phase[c] = "created" /\ queue[c] = <<>> /\ configs[c] = 0
    BY <1>a, <1>c, <2>1 DEF Begins, Dormant, Configured
  <2>5. t # c
    BY <2>3, <2>4 DEF TakenFrom
  <2>6. Configured(c)'
    BY <1>a, <1>f, <2>1, <2>2, <2>3, <2>4, <2>5 DEF Configured, TakenFrom
  <2>7. \A i \in Nat : Has(t, i, "initialized")' => Has(t, i + 1, "initialized")
    BY <2>3 DEF TakenFrom
  <2>8. Configured(t)'
    BY <1>c, <2>2, <2>3, <2>5, <2>7 DEF Configured
  <2>. QED
    BY <1>c, <2>2, <2>3, <2>6, <2>8 DEF Configured, TakenFrom
<1>12. ASSUME NEW t \in Targets, OnStopped(t)
      PROVE  \A u \in Targets : Configured(u)'
  <2>1. Stayed /\ phase' = phase /\ configs' = configs /\ TakenFrom(t, "stopped")
    BY <1>12, SameSetup, Receptions DEF OnStopped
  <2>2. \A i \in Nat : Has(t, i, "initialized")' => Has(t, i + 1, "initialized")
    BY <2>1 DEF TakenFrom
  <2>3. Configured(t)'
    BY <1>c, <2>1, <2>2 DEF Configured, Stayed
  <2>. QED
    BY <1>c, <2>1, <2>3 DEF Configured, Stayed, TakenFrom
<1>13. ASSUME NEW t \in Targets, OnContinued(t)
      PROVE  \A u \in Targets : Configured(u)'
  <2>1. Stayed /\ phase' = phase /\ configs' = configs /\ TakenFrom(t, "continued")
    BY <1>13, SameSetup, Receptions DEF OnContinued
  <2>2. \A i \in Nat : Has(t, i, "initialized")' => Has(t, i + 1, "initialized")
    BY <2>1 DEF TakenFrom
  <2>3. Configured(t)'
    BY <1>c, <2>1, <2>2 DEF Configured, Stayed
  <2>. QED
    BY <1>c, <2>1, <2>3 DEF Configured, Stayed, TakenFrom
<1>14. ASSUME NEW t \in Targets, Chain(t)
      PROVE  \A u \in Targets : Configured(u)'
  BY <1>14, <1>d, SameSetup, SameQueue DEF Chain
<1>15. ASSUME NEW t \in Targets, Number(t)
      PROVE  \A u \in Targets : Configured(u)'
  BY <1>15, <1>d, SameSetup, SameQueue DEF Number
<1>16. ASSUME NEW t \in Targets, AppendEntry(t)
      PROVE  \A u \in Targets : Configured(u)'
  BY <1>16, <1>d, SameSetup, SameQueue DEF AppendEntry
<1>17. ASSUME NEW t \in Targets, Ends(t)
      PROVE  \A u \in Targets : Configured(u)'
  BY <1>17, <1>d, SameSetup, SameQueue DEF Ends
<1>18. ASSUME NEW t \in Targets, ChainFails(t)
      PROVE  \A u \in Targets : Configured(u)'
  BY <1>18, <1>d, SameSetup, SameQueue DEF ChainFails
<1>19. ASSUME NEW lines \in Lists, BeginSet(lines)
      PROVE  \A u \in Targets : Configured(u)'
  BY <1>19, <1>d, SameSetup, SameQueue DEF BeginSet
<1>20. CASE Install
  BY <1>20, <1>d, SameSetup, SameQueue DEF Install
<1>21. CASE Store
  BY <1>21, <1>d, SameSetup, SameQueue DEF Store
<1>22. CASE SetFails
  BY <1>22, <1>d, SameSetup, SameQueue DEF SetFails
<1>23. ASSUME NEW t \in Targets, Announce(t)
      PROVE  \A u \in Targets : Configured(u)'
  <2>1. /\ Stayed /\ configs' = configs /\ At(t) = "await" /\ queue[t] = <<>>
    BY <1>23, <1>c, SameSetup DEF Announce, Begins
  <2>2. phase'[t] = "announced" /\ \A u \in Targets \ {t} : phase'[u] = phase[u]
    BY <1>23, <1>b DEF Announce, Typed
  <2>3. PICK k \in Nat : AddedTo(t, Event("initialized"), k)
    BY <1>23, Emissions
  <2>4. \A i \in Nat : Has(t, i, "initialized")' => i = k
    BY <1>f, <2>1, <2>3 DEF AddedTo
  <2>5. Configured(t)'
    BY <1>a, <1>c, <2>1, <2>2, <2>4 DEF Configured, Stayed, Dormant
  <2>. QED
    BY <1>c, <2>1, <2>2, <2>3, <2>5 DEF Configured, Stayed, AddedTo
<1>24. ASSUME NEW t \in Targets, Start(t)
      PROVE  \A u \in Targets : Configured(u)'
  <2>1. Stayed /\ Quiet /\ phase[t] \in {"announced", "reannounced"} /\ configs[t] = 1
    BY <1>24, <1>b, SameSetup, SameQueue DEF Start, Typed
  <2>2. phase'[t] = "running" /\ \A u \in Targets \ {t} : phase'[u] = phase[u]
    BY <1>24, <1>b DEF Start, Typed
  <2>3. configs'[t] = 0 /\ \A u \in Targets \ {t} : configs'[u] = configs[u]
    BY <1>24, <1>b, <2>1 DEF Start, Typed
  <2>4. t \in Children \ Debugpy
          => At(t) \in {"publish", "attached"} /\ \A i \in Nat : ~Has(t, i, "initialized")
    <3>1. ASSUME t \in Children \ Debugpy  PROVE At(t) \in {"publish", "attached"}
      <4>1. At(t) \in Positions(t)
              /\ At(t) \notin Dormant \cup {"initialize", "forward", "configure", "await", "failed"}
        BY <1>a, <1>c, <2>1, <3>1 DEF Configured
      <4>. QED
        BY <1>a, <3>1, <4>1 DEF Positions
    <3>. QED
      BY <1>c, <2>1, <3>1 DEF Configured
  <2>5. Configured(t)'
    BY <2>1, <2>2, <2>3, <2>4 DEF Configured, Stayed, Quiet
  <2>. QED
    BY <1>c, <2>1, <2>2, <2>3, <2>5 DEF Configured, Stayed, Quiet
<1>25. ASSUME NEW t \in Targets, Reannounce(t)
      PROVE  \A u \in Targets : Configured(u)'
  <2>1. Stayed /\ configs' = configs /\ phase[t] = "running" /\ t \in Children \ Debugpy
    BY <1>25, SameSetup DEF Reannounce
  <2>2. phase'[t] = "reannounced" /\ \A u \in Targets \ {t} : phase'[u] = phase[u]
    BY <1>25, <1>b DEF Reannounce, Typed
  <2>3. PICK k \in Nat : AddedTo(t, Event("initialized"), k)
    BY <1>25, Emissions
  <2>4. \A i \in Nat : Has(t, i, "initialized")' => i = k
    BY <1>c, <2>1, <2>3 DEF AddedTo, Configured
  <2>5. Configured(t)'
    BY <1>a, <1>c, <2>1, <2>2, <2>4 DEF Configured, Stayed, Dormant
  <2>. QED
    BY <1>c, <2>1, <2>2, <2>3, <2>5 DEF Configured, Stayed, AddedTo
<1>26. ASSUME NEW t \in Targets, NEW c \in Children, Spawn(t, c)
      PROVE  \A u \in Targets : Configured(u)'
  <2>1. At(c) = "none" /\ At(c)' = "asked" /\ \A u \in Targets \ {c} : At(u)' = At(u)
    BY <1>26, <1>a, <1>b, Moved DEF Spawn, Channels, Places
  <2>2. phase' = phase /\ configs' = configs /\ phase[t] = "running"
          /\ \E k \in Nat : AddedTo(t, SpawnEvent(c), k)
    BY <1>26, Emissions DEF Spawn
  <2>3. \A u \in Targets, i \in Nat : Has(u, i, "initialized")' <=> Has(u, i, "initialized")
    BY <2>2 DEF AddedTo, SpawnEvent
  <2>4. phase[c] = "created" /\ queue[c] = <<>> /\ configs[c] = 0
    BY <1>a, <1>c, <2>1 DEF Begins, Dormant, Configured
  <2>5. Configured(c)'
    BY <1>a, <1>f, <2>1, <2>2, <2>3, <2>4 DEF Configured
  <2>. QED
    BY <1>c, <2>1, <2>2, <2>3, <2>5 DEF Configured
<1>27. ASSUME NEW t \in Targets, Pause(t)
      PROVE  \A u \in Targets : Configured(u)'
  <2>1. Stayed /\ configs' = configs /\ phase[t] = "running"
    BY <1>27, SameSetup DEF Pause
  <2>2. phase'[t] = "suspended" /\ \A u \in Targets \ {t} : phase'[u] = phase[u]
    BY <1>27, <1>b DEF Pause, Typed
  <2>3. PICK k \in Nat : AddedTo(t, StopEvent(stops[t] + 1), k)
    BY <1>27, Emissions
  <2>4. \A u \in Targets, i \in Nat : Has(u, i, "initialized")' <=> Has(u, i, "initialized")
    BY <2>3 DEF AddedTo, StopEvent
  <2>. QED
    BY <1>c, <2>1, <2>2, <2>4 DEF Configured, Stayed
<1>28. ASSUME NEW t \in Targets, Resume(t)
      PROVE  \A u \in Targets : Configured(u)'
  <2>1. Stayed /\ configs' = configs /\ phase[t] = "suspended"
    BY <1>28, SameSetup DEF Resume
  <2>2. phase'[t] = "running" /\ \A u \in Targets \ {t} : phase'[u] = phase[u]
    BY <1>28, <1>b DEF Resume, Typed
  <2>3. PICK k \in Nat : AddedTo(t, Event("continued"), k)
    BY <1>28, Emissions
  <2>4. \A u \in Targets, i \in Nat : Has(u, i, "initialized")' <=> Has(u, i, "initialized")
    BY <2>3 DEF AddedTo, Event
  <2>. QED
    BY <1>c, <2>1, <2>2, <2>4 DEF Configured, Stayed
<1>29. ASSUME NEW c \in Leaving, Close(c)
      PROVE  \A u \in Targets : Configured(u)'
  <2>1. Stayed /\ Quiet /\ configs' = configs /\ c \in Targets
    BY <1>29, <1>a, SameSetup, SameQueue DEF Close
  <2>2. phase'[c] = "closed" /\ \A u \in Targets \ {c} : phase'[u] = phase[u]
    BY <1>29, <1>b, <2>1 DEF Close, Typed
  <2>. QED
    BY <1>c, <2>1, <2>2 DEF Configured, Stayed, Quiet
<1>30. CASE UNCHANGED childVars
  BY <1>30, <1>d, SameSetup, SameQueue
<1>. QED
  BY <1>1, <1>2, <1>3, <1>4, <1>5, <1>6, <1>7, <1>8, <1>9, <1>10, <1>11, <1>12, <1>13, <1>14, <1>15, <1>16,
     <1>17, <1>18, <1>19, <1>20, <1>21, <1>22, <1>23, <1>24, <1>25, <1>26, <1>27, <1>28, <1>29, <1>30
  DEF ChildNext, Handshake, Dispatch, Tool, Adapter

-----------------------------------------------------------------------------
(* Stops *)

(* The events of one name are as before, moved up by at most one. *)
Keeps(name) ==
  \E d \in [Targets -> 0..1] : \A u \in Targets :
    /\ d[u] = 1 => ~Has(u, 1, name)
    /\ \A i \in Nat : Has(u, i, name)' <=> i >= 1 /\ Has(u, i + d[u], name)
    /\ \A i \in Nat : Has(u, i, name)' => queue'[u][i] = queue[u][i + d[u]]

(* Events are numbered from one.                                           *)
LEMMA HasIndex == \A u, n : \A i \in Nat : Has(u, i, n) => i >= 1
  BY DEF Has

(* Steps that concern events of other names.                               *)
LEMMA KeepsIf ==
  ASSUME NEW t \in Targets, NEW name,
         Quiet \/ (\E n : TakenFrom(t, n) /\ n # name)
           \/ (\E e \in EventType, k \in Nat : AddedTo(t, e, k) /\ e.name # name)
  PROVE  Keeps(name)
<1>1. CASE Quiet \/ (\E e \in EventType, k \in Nat : AddedTo(t, e, k) /\ e.name # name)
  <2>1. PICK d \in [Targets -> 0..1] : \A u \in Targets : d[u] = 0
    <3>1. [u \in Targets |-> 0] \in [Targets -> 0..1]
      OBVIOUS
    <3>. QED
      BY <3>1
  <2>2. ASSUME NEW u \in Targets, NEW i \in Nat
        PROVE  (Has(u, i, name)' <=> Has(u, i, name)) /\ (Has(u, i, name)' => queue'[u][i] = queue[u][i])
    BY <1>1 DEF Quiet, AddedTo
  <2>3. ASSUME NEW u \in Targets
        PROVE  /\ d[u] = 1 => ~Has(u, 1, name)
               /\ \A i \in Nat : Has(u, i, name)' <=> i >= 1 /\ Has(u, i + d[u], name)
               /\ \A i \in Nat : Has(u, i, name)' => queue'[u][i] = queue[u][i + d[u]]
    <3>1. d[u] = 0 /\ \A i \in Nat : i + d[u] = i
      BY <2>1
    <3>. QED
      BY <2>2, <3>1, HasIndex
  <2>. QED
    BY <2>3 DEF Keeps
<1>2. CASE \E n : TakenFrom(t, n) /\ n # name
  <2>1. PICK d \in [Targets -> 0..1] : \A u \in Targets : d[u] = IF u = t THEN 1 ELSE 0
    <3>1. [u \in Targets |-> IF u = t THEN 1 ELSE 0] \in [Targets -> 0..1]
      OBVIOUS
    <3>. QED
      BY <3>1
  <2>2. PICK n : TakenFrom(t, n) /\ n # name
    BY <1>2
  <2>3. ~Has(t, 1, name)
    BY <2>2 DEF TakenFrom, Has
  <2>4. ASSUME NEW u \in Targets
        PROVE  /\ d[u] = 1 => ~Has(u, 1, name)
               /\ \A i \in Nat : Has(u, i, name)' <=> i >= 1 /\ Has(u, i + d[u], name)
               /\ \A i \in Nat : Has(u, i, name)' => queue'[u][i] = queue[u][i + d[u]]
    <3>1. CASE u = t
      <4>1. d[u] = 1
        BY <2>1, <3>1
      <4>. QED
        BY <2>2, <2>3, <3>1, <4>1 DEF TakenFrom
    <3>2. CASE u # t
      <4>1. d[u] = 0 /\ \A i \in Nat : i + d[u] = i
        BY <2>1, <3>2
      <4>. QED
        BY <2>2, <3>2, <4>1, HasIndex DEF TakenFrom
    <3>. QED
      BY <3>1, <3>2
  <2>. QED
    BY <2>4 DEF Keeps
<1>. QED
  BY <1>1, <1>2

(* The same events before and after such a step.                           *)
LEMMA KeptEvents ==
  ASSUME NEW name, Keeps(name)
  PROVE  \A u \in Targets :
           /\ \A i \in Nat : Has(u, i, name)'
                => \E j \in Nat : Has(u, j, name) /\ queue'[u][i] = queue[u][j]
           /\ \A j \in Nat : Has(u, j, name)
                => \E i \in Nat : Has(u, i, name)' /\ queue'[u][i] = queue[u][j]
<1>1. PICK d \in [Targets -> 0..1] : \A u \in Targets :
        /\ d[u] = 1 => ~Has(u, 1, name)
        /\ \A i \in Nat : Has(u, i, name)' <=> i >= 1 /\ Has(u, i + d[u], name)
        /\ \A i \in Nat : Has(u, i, name)' => queue'[u][i] = queue[u][i + d[u]]
  BY DEF Keeps
<1>2. ASSUME NEW u \in Targets, NEW i \in Nat, Has(u, i, name)'
      PROVE  \E j \in Nat : Has(u, j, name) /\ queue'[u][i] = queue[u][j]
  <2>1. i + d[u] \in Nat
    OBVIOUS
  <2>. QED
    BY <1>1, <1>2, <2>1
<1>3. ASSUME NEW u \in Targets, NEW j \in Nat, Has(u, j, name)
      PROVE  \E i \in Nat : Has(u, i, name)' /\ queue'[u][i] = queue[u][j]
  <2>1. j >= 1
    BY <1>3, HasIndex
  <2>2. j - d[u] \in Nat /\ j - d[u] >= 1 /\ (j - d[u]) + d[u] = j
    BY <1>1, <1>3, <2>1
  <2>. QED
    BY <1>1, <1>3, <2>2
<1>. QED
  BY <1>2, <1>3

(* The stops that wait, before ...                                         *)
LEMMA WaitingSet ==
  ASSUME queue \in [Targets -> Seq(EventType)], NEW x
  PROVE  x \in Waiting <=> \E t \in Heard, i \in Nat : Has(t, i, "stopped") /\ x = <<t, queue[t][i].stop>>
<1>1. \A t \in Heard : t \in Targets /\ DOMAIN queue[t] = 1..Len(queue[t]) /\ Len(queue[t]) \in Nat
  BY DEF Heard
<1>2. x \in Waiting <=> \E t \in Heard : \E i \in DOMAIN queue[t] : queue[t][i].name = "stopped"
        /\ x = <<t, queue[t][i].stop>>
  BY DEF Waiting
<1>. QED
  BY <1>1, <1>2 DEF Has

(* ... and after a step.                                                   *)
LEMMA WaitingNext ==
  ASSUME queue' \in [Targets -> Seq(EventType)], NEW x
  PROVE  x \in Waiting'
    <=> \E t \in Heard', i \in Nat : Has(t, i, "stopped")' /\ x = <<t, queue'[t][i].stop>>
<1>1. PICK H : H = Heard'
  OBVIOUS
<1>2. \A t \in H : t \in Targets /\ DOMAIN queue'[t] = 1..Len(queue'[t]) /\ Len(queue'[t]) \in Nat
  BY <1>1 DEF Heard
<1>3. x \in Waiting' <=> \E t \in H : \E i \in DOMAIN queue'[t] : queue'[t][i].name = "stopped"
        /\ x = <<t, queue'[t][i].stop>>
  BY <1>1 DEF Waiting
<1>. QED
  BY <1>1, <1>2, <1>3 DEF Has

(* Nobody gives up.                                                        *)
LEMMA HeardSame ==
  ASSUME \A u \in Targets \ {Parent} : At(u)' = "failed" <=> At(u) = "failed"
  PROVE  Heard' = Heard
  BY DEF Heard

(* Nothing that concerns stops has changed. *)
LEMMA StopsSame ==
  ASSUME CIInv, Channels', Keeps("stopped"), stops' = stops, version' = version, Heard' = Heard,
         \A u \in Targets : disp'[u] = "off" => disp[u] = "off"
  PROVE  (\A u \in Targets : Numbered(u)') /\ NoStopLost'
<1>1. (\A u \in Targets : Numbered(u)) /\ NoStopLost /\ Channels
  BY CIFacts DEF CIInv, StopsOK
<1>2. PICK d \in [Targets -> 0..1] : \A u \in Targets :
        /\ \A i \in Nat : Has(u, i, "stopped")' => Has(u, i + d[u], "stopped")
        /\ \A i \in Nat : Has(u, i, "stopped")' => queue'[u][i] = queue[u][i + d[u]]
  BY DEF Keeps
<1>3. ASSUME NEW u \in Targets  PROVE Numbered(u)'
  <2>1. ASSUME NEW i \in Nat, Has(u, i, "stopped")'
        PROVE  queue'[u][i].stop \in 1..stops[u] /\ i + d[u] \in Nat
    <3>1. i + d[u] \in Nat
      OBVIOUS
    <3>. QED
      BY <1>1, <1>2, <2>1, <3>1 DEF Numbered
  <2>2. ASSUME NEW i \in Nat, Has(u, i, "stopped")',
          NEW j \in Nat, Has(u, j, "stopped")', queue'[u][j].stop = queue'[u][i].stop
        PROVE  i = j
    <3>1. i + d[u] \in Nat /\ j + d[u] \in Nat
      OBVIOUS
    <3>2. i + d[u] = j + d[u]
      BY <1>1, <1>2, <2>2, <3>1 DEF Numbered
    <3>. QED
      BY <3>2
  <2>3. ASSUME u \in Heard, disp'[u] = "off", NEW n \in 1..stops[u]
        PROVE  \E i \in Nat : Has(u, i, "stopped")' /\ queue'[u][i].stop = n
    <3>1. PICK j \in Nat : Has(u, j, "stopped") /\ queue[u][j].stop = n
      BY <1>1, <2>3 DEF Numbered
    <3>. QED
      BY <3>1, KeptEvents
  <2>. QED
    BY <2>1, <2>2, <2>3 DEF Numbered
<1>4. StoppedBy(Heard)' = StoppedBy(Heard)
  BY DEF StoppedBy
<1>5. ASSUME NEW x  PROVE x \in Waiting' <=> x \in Waiting
  <2>1. x \in Waiting' <=> \E t \in Heard, i \in Nat : Has(t, i, "stopped")' /\ x = <<t, queue'[t][i].stop>>
    BY WaitingNext DEF Channels
  <2>2. x \in Waiting <=> \E t \in Heard, i \in Nat : Has(t, i, "stopped") /\ x = <<t, queue[t][i].stop>>
    BY <1>1, WaitingSet DEF Channels
  <2>3. Heard \subseteq Targets
    BY DEF Heard
  <2>. QED
    BY <2>1, <2>2, <2>3, KeptEvents
<1>6. Waiting' = Waiting
  BY <1>5
<1>. QED
  BY <1>1, <1>3, <1>4, <1>6 DEF NoStopLost

(* The sets of stops, all and waiting, are finite. *)
LEMMA StopSets ==
  ASSUME CIInv
  PROVE  /\ StoppedBy(Heard) \subseteq StoppedBy(Targets)
         /\ IsFiniteSet(StoppedBy(Heard)) /\ IsFiniteSet(StoppedBy(Heard) \ Waiting)
         /\ version = Cardinality(StoppedBy(Heard) \ Waiting)
<1>1. StoppedBy(Heard) \subseteq StoppedBy(Targets)
  BY DEF StoppedBy, Heard
<1>2. IsFiniteSet(StoppedBy(Targets)) /\ version = Cardinality(StoppedBy(Heard) \ Waiting)
  BY DEF CIInv, StopsOK, NoStopLost
<1>3. IsFiniteSet(StoppedBy(Heard)) /\ IsFiniteSet(StoppedBy(Heard) \ Waiting)
  BY <1>1, <1>2, FS_Subset
<1>. QED
  BY <1>1, <1>2, <1>3

(* A dispatcher counts the stop it takes. *)
LEMMA CountedStop ==
  ASSUME CIInv, Channels', NEW t \in Targets, OnStopped(t)
  PROVE  (\A u \in Targets : Numbered(u)') /\ NoStopLost'
<1>1. /\ TakenFrom(t, "stopped") /\ stops' = stops /\ setup' = setup /\ version' = version + 1
      /\ disp' = [disp EXCEPT ![t] = "chain"] /\ disp[t] = "recv"
  BY Receptions DEF OnStopped, Receives
<1>2. Typed /\ Channels /\ ChildTypeOK /\ \A u \in Targets : Numbered(u)
  BY CIFacts DEF CIInv, StopsOK
<1>3. Heard' = Heard /\ Heard \subseteq Targets
  BY <1>1 DEF Heard, At
<1>4. t \in Heard
  BY <1>1, <1>2 DEF ChildTypeOK, Heard
<1>5. disp'[t] = "chain" /\ \A u \in Targets \ {t} : disp'[u] = disp[u]
  BY <1>1, <1>2 DEF Typed
<1>6. ASSUME NEW u \in Targets  PROVE Numbered(u)'
  <2>1. CASE u # t
    <3>1. queue'[u] = queue[u] /\ disp'[u] = disp[u]
      BY <1>1, <1>5, <2>1 DEF TakenFrom
    <3>2. \A i \in Nat : Has(u, i, "stopped")' <=> Has(u, i, "stopped")
      BY <3>1 DEF Has
    <3>. QED
      BY <1>1, <1>2, <1>3, <3>1, <3>2 DEF Numbered
  <2>2. CASE u = t
    <3>1. ASSUME NEW i \in Nat, Has(t, i, "stopped")'
          PROVE  Has(t, i + 1, "stopped") /\ i + 1 \in Nat /\ queue'[t][i] = queue[t][i + 1]
      BY <1>1, <3>1 DEF TakenFrom
    <3>2. ASSUME NEW i \in Nat, Has(t, i, "stopped")',
            NEW j \in Nat, Has(t, j, "stopped")', queue'[t][j].stop = queue'[t][i].stop
          PROVE  i = j
      <4>1. i + 1 = j + 1
        BY <1>2, <3>1, <3>2 DEF Numbered
      <4>. QED
        BY <4>1
    <3>3. \A i \in Nat : Has(t, i, "stopped")' => queue'[t][i].stop \in 1..stops[t]
      BY <1>2, <3>1 DEF Numbered
    <3>. QED
      BY <1>1, <1>5, <2>2, <3>2, <3>3 DEF Numbered
  <2>. QED
    BY <2>1, <2>2
<1>7. PICK e : e = <<t, queue[t][1].stop>>
  OBVIOUS
<1>8. e \in StoppedBy(Heard) /\ e \in Waiting
  <2>1. Has(t, 1, "stopped")
    BY <1>1 DEF TakenFrom
  <2>2. queue[t][1].stop \in 1..stops[t]
    BY <1>2, <2>1 DEF Numbered
  <2>. QED
    BY <1>2, <1>4, <1>7, <2>1, <2>2, StoppedBySet, WaitingSet DEF Channels
<1>9. StoppedBy(Heard)' = StoppedBy(Heard)
  BY <1>1, <1>3 DEF StoppedBy
<1>10. ASSUME NEW x  PROVE x \in Waiting' <=> x \in Waiting /\ x # e
  <2>1. x \in Waiting' <=> \E u \in Heard, i \in Nat : Has(u, i, "stopped")' /\ x = <<u, queue'[u][i].stop>>
    BY <1>3, WaitingNext DEF Channels
  <2>2. x \in Waiting <=> \E u \in Heard, i \in Nat : Has(u, i, "stopped") /\ x = <<u, queue[u][i].stop>>
    BY <1>2, WaitingSet DEF Channels
  <2>3. ASSUME NEW u \in Heard, NEW i \in Nat, Has(u, i, "stopped")', x = <<u, queue'[u][i].stop>>
        PROVE  x \in Waiting /\ x # e
    <3>1. CASE u # t
      <4>1. Has(u, i, "stopped") /\ queue'[u][i] = queue[u][i]
        BY <1>1, <1>3, <2>3, <3>1 DEF TakenFrom
      <4>. QED
        BY <1>7, <2>2, <2>3, <3>1, <4>1
    <3>2. CASE u = t
      <4>1. Has(t, i + 1, "stopped") /\ queue'[t][i] = queue[t][i + 1] /\ i >= 1 /\ i + 1 \in Nat
              /\ i + 1 # 1
        BY <1>1, <2>3, <3>2 DEF TakenFrom
      <4>2. Has(t, 1, "stopped")
        BY <1>1 DEF TakenFrom
      <4>3. queue[t][i + 1].stop # queue[t][1].stop
        BY <1>2, <4>1, <4>2 DEF Numbered
      <4>. QED
        BY <1>7, <2>2, <2>3, <3>2, <4>1, <4>3
    <3>. QED
      BY <3>1, <3>2
  <2>4. ASSUME NEW u \in Heard, NEW i \in Nat, Has(u, i, "stopped"), x = <<u, queue[u][i].stop>>, x # e
        PROVE  x \in Waiting'
    <3>1. CASE u # t
      <4>1. Has(u, i, "stopped")' /\ queue'[u][i] = queue[u][i]
        BY <1>1, <1>3, <2>4, <3>1 DEF TakenFrom
      <4>. QED
        BY <2>1, <2>4, <4>1
    <3>2. CASE u = t
      <4>1. i # 1 /\ i >= 1
        BY <1>7, <2>4, <3>2, HasIndex
      <4>2. i - 1 \in Nat /\ i - 1 >= 1 /\ (i - 1) + 1 = i
        BY <4>1
      <4>3. Has(t, i - 1, "stopped")' /\ queue'[t][i - 1] = queue[t][i]
        BY <1>1, <2>4, <3>2, <4>2 DEF TakenFrom
      <4>. QED
        BY <2>1, <2>4, <3>2, <4>2, <4>3
    <3>. QED
      BY <3>1, <3>2
  <2>. QED
    BY <2>1, <2>2, <2>3, <2>4
<1>11. PICK D : D = StoppedBy(Heard) \ Waiting
  OBVIOUS
<1>12. (StoppedBy(Heard) \ Waiting)' = D \cup {e} /\ e \notin D
  BY <1>8, <1>9, <1>10, <1>11
<1>13. Cardinality(D \cup {e}) = Cardinality(D) + 1
  BY <1>11, <1>12, StopSets, FS_AddElement
<1>. QED
  BY <1>1, <1>6, <1>11, <1>12, <1>13, StopSets DEF NoStopLost

(* A new stop is on its way. *)
LEMMA NewStop ==
  ASSUME CIInv, Channels', NEW t \in Targets, Pause(t)
  PROVE  (\A u \in Targets : Numbered(u)') /\ NoStopLost'
<1>1. PICK k \in Nat : AddedTo(t, StopEvent(stops[t] + 1), k)
  BY Emissions
<1>2. stops' = [stops EXCEPT ![t] = @ + 1] /\ setup' = setup /\ version' = version /\ disp' = disp
        /\ Connected(t)
  BY DEF Pause, sharedVars
<1>3. Typed /\ Channels /\ ChildTypeOK /\ \A u \in Targets : Numbered(u)
  BY CIFacts DEF CIInv, StopsOK
<1>4. Heard' = Heard /\ Heard \subseteq Targets
  BY <1>2 DEF Heard, At
<1>5. t \in Heard
  BY <1>2, CIFacts, ChildFacts DEF Connected, Heard
<1>6. PICK n \in Nat : n = stops[t]
  BY <1>3 DEF Typed
<1>7. /\ stops'[t] = n + 1 /\ \A u \in Targets \ {t} : stops'[u] = stops[u]
      /\ \A u \in Targets : stops[u] \in Nat
  BY <1>2, <1>3, <1>6 DEF Typed
<1>8. /\ queue'[t][k].name = "stopped" /\ queue'[t][k].stop = n + 1
      /\ \A i \in Nat : Has(t, i, "stopped")' <=> Has(t, i, "stopped") \/ i = k
      /\ \A i \in Nat : Has(t, i, "stopped") => i < k /\ queue'[t][i] = queue[t][i]
  <2>1. PICK e \in EventType : e = StopEvent(n + 1)
    BY <1>1, <1>6 DEF AddedTo
  <2>2. AddedTo(t, e, k) /\ e.name = "stopped" /\ e.stop = n + 1
    BY <1>1, <1>6, <2>1 DEF StopEvent
  <2>3. queue'[t][k] = e
    BY <2>2 DEF AddedTo
  <2>4. \A i \in Nat : \A m : Has(t, i, m)' <=> Has(t, i, m) \/ (i = k /\ e.name = m)
    BY <2>2 DEF AddedTo
  <2>5. \A i \in Nat : \A m : Has(t, i, m) => i < k /\ queue'[t][i] = queue[t][i]
    BY <2>2 DEF AddedTo
  <2>. QED
    BY <2>2, <2>3, <2>4, <2>5
<1>9. \A u \in Targets \ {t}, i \in Nat : Has(u, i, "stopped")' <=> Has(u, i, "stopped")
  BY <1>1 DEF AddedTo
<1>10. \A u \in Targets \ {t} : queue'[u] = queue[u]
  BY <1>1 DEF AddedTo
<1>11. ASSUME NEW u \in Targets  PROVE Numbered(u)'
  <2>1. CASE u # t
    BY <1>2, <1>3, <1>4, <1>7, <1>9, <1>10, <2>1 DEF Numbered
  <2>2. CASE u = t
    <3>1. ASSUME NEW i \in Nat, Has(t, i, "stopped")'
          PROVE  IF i = k THEN queue'[t][i].stop = n + 1 ELSE Has(t, i, "stopped")
            /\ queue'[t][i] = queue[t][i] /\ queue'[t][i].stop \in 1..n
      BY <1>3, <1>6, <1>8, <3>1 DEF Numbered
    <3>2. ASSUME NEW i \in Nat, Has(t, i, "stopped")',
            NEW j \in Nat, Has(t, j, "stopped")', queue'[t][j].stop = queue'[t][i].stop
          PROVE  i = j
      <4>1. CASE i = k \/ j = k
        <5>1. n + 1 \notin 1..n
          OBVIOUS
        <5>. QED
          BY <3>1, <3>2, <4>1, <5>1
      <4>2. CASE i # k /\ j # k
        BY <1>3, <3>1, <3>2, <4>2 DEF Numbered
      <4>. QED
        BY <4>1, <4>2
    <3>3. \A i \in Nat : Has(t, i, "stopped")' => queue'[t][i].stop \in 1..(n + 1)
      BY <3>1
    <3>4. ASSUME disp[t] = "off", NEW m \in 1..(n + 1)
          PROVE  \E i \in Nat : Has(t, i, "stopped")' /\ queue'[t][i].stop = m
      <4>1. CASE m = n + 1
        BY <1>8, <4>1
      <4>2. CASE m \in 1..n
        <5>1. PICK i \in Nat : Has(t, i, "stopped") /\ queue[t][i].stop = m
          BY <1>3, <1>5, <1>6, <3>4, <4>2 DEF Numbered
        <5>. QED
          BY <1>8, <5>1
      <4>. QED
        BY <4>1, <4>2
    <3>. QED
      BY <1>2, <1>7, <2>2, <3>2, <3>3, <3>4 DEF Numbered
  <2>. QED
    BY <2>1, <2>2
<1>12. PICK e : e = <<t, n + 1>>
  OBVIOUS
<1>13. StoppedBy(Heard)' = StoppedBy(Heard) \cup {e}
  <2>1. StoppedBy(Heard)' = UNION {{u} \X (1..stops'[u]) : u \in Heard}
    BY <1>4 DEF StoppedBy
  <2>2. ASSUME NEW x  PROVE x \in StoppedBy(Heard)' <=> x \in StoppedBy(Heard) \/ x = e
    <3>1. x \in StoppedBy(Heard)' <=> \E u \in Heard : \E m \in 1..stops'[u] : x = <<u, m>>
      BY <2>1
    <3>2. x \in StoppedBy(Heard) <=> \E u \in Heard : \E m \in 1..stops[u] : x = <<u, m>>
      BY StoppedBySet
    <3>. QED
      BY <1>4, <1>5, <1>6, <1>7, <1>12, <3>1, <3>2
  <2>. QED
    BY <2>2
<1>14. ASSUME NEW x  PROVE x \in Waiting' <=> x \in Waiting \/ x = e
  <2>1. x \in Waiting' <=> \E u \in Heard, i \in Nat : Has(u, i, "stopped")' /\ x = <<u, queue'[u][i].stop>>
    BY <1>4, WaitingNext DEF Channels
  <2>2. x \in Waiting <=> \E u \in Heard, i \in Nat : Has(u, i, "stopped") /\ x = <<u, queue[u][i].stop>>
    BY <1>3, WaitingSet DEF Channels
  <2>. QED
    BY <1>4, <1>5, <1>8, <1>9, <1>10, <1>12, <2>1, <2>2
<1>15. e \notin StoppedBy(Heard)
  <2>1. n + 1 \notin 1..n
    OBVIOUS
  <2>. QED
    BY <1>6, <1>12, <2>1, StoppedBySet
<1>16. (StoppedBy(Heard) \ Waiting)' = StoppedBy(Heard) \ Waiting
  BY <1>13, <1>14, <1>15
<1>. QED
  BY <1>2, <1>11, <1>16, StopSets DEF NoStopLost

(* A handshake that gives up takes all stops of its debuggee with it. *)
LEMMA ForgottenStops ==
  ASSUME CIInv, Channels', NEW t \in Children, TimeOut(t)
  PROVE  (\A u \in Targets : Numbered(u)') /\ NoStopLost'
<1>1. t \in Targets /\ t # Parent
  BY ChildAssumption DEF Targets
<1>2. /\ DroppedAt(t) /\ MovedTo(t, "failed") /\ At(t) = "await" /\ stops' = stops /\ version' = version
      /\ disp' = disp
  BY <1>1, Receptions, Steps DEF TimeOut, toolVars, sharedVars
<1>3. Typed /\ Channels /\ ChildTypeOK /\ \A u \in Targets : Numbered(u)
  BY CIFacts DEF CIInv, StopsOK
<1>4. Heard' = Heard \ {t} /\ Heard \subseteq Targets /\ t \in Heard
  BY <1>1, <1>2 DEF Heard, MovedTo
<1>5. disp[t] = "off"
  BY <1>1, <1>2, <1>3 DEF ChildTypeOK
<1>6. ASSUME NEW u \in Targets  PROVE Numbered(u)'
  <2>1. CASE u # t
    <3>1. queue'[u] = queue[u] /\ \A i \in Nat : Has(u, i, "stopped")' <=> Has(u, i, "stopped")
      BY <2>1, <1>2 DEF DroppedAt
    <3>2. Numbered(u) /\ (u \in Heard' => u \in Heard) /\ stops' = stops /\ disp' = disp
      BY <1>2, <1>3, <1>4 DEF TimeOut, sharedVars, toolVars
    <3>. QED
      BY <3>1, <3>2 DEF Numbered
  <2>2. CASE u = t
    BY <1>2, <1>4, <2>2 DEF Numbered, DroppedAt
  <2>. QED
    BY <2>1, <2>2
<1>7. ASSUME NEW x  PROVE x \in StoppedBy(Heard)'
        <=> \E u \in Heard \ {t} : \E m \in 1..stops[u] : x = <<u, m>>
  <2>1. StoppedBy(Heard)' = UNION {{u} \X (1..stops[u]) : u \in Heard \ {t}}
    BY <1>2, <1>4 DEF StoppedBy
  <2>. QED
    BY <2>1
<1>8. ASSUME NEW x  PROVE x \in Waiting'
        <=> \E u \in Heard \ {t}, i \in Nat : Has(u, i, "stopped") /\ x = <<u, queue[u][i].stop>>
  <2>1. x \in Waiting' <=> \E u \in Heard \ {t}, i \in Nat : Has(u, i, "stopped")'
          /\ x = <<u, queue'[u][i].stop>>
    BY <1>4, WaitingNext DEF Channels
  <2>. QED
    BY <1>2, <1>4, <2>1 DEF DroppedAt
<1>9. ASSUME NEW x  PROVE x \in (StoppedBy(Heard) \ Waiting)' <=> x \in StoppedBy(Heard) \ Waiting
  <2>1. x \in StoppedBy(Heard) <=> \E u \in Heard : \E m \in 1..stops[u] : x = <<u, m>>
    BY StoppedBySet
  <2>2. x \in Waiting <=> \E u \in Heard, i \in Nat : Has(u, i, "stopped") /\ x = <<u, queue[u][i].stop>>
    BY <1>3, WaitingSet DEF Channels
  <2>3. ASSUME NEW m \in 1..stops[t], x = <<t, m>>  PROVE x \in Waiting
    BY <1>1, <1>3, <1>4, <1>5, <2>2, <2>3 DEF Numbered
  <2>4. x \in StoppedBy(Heard)' <=> x \in StoppedBy(Heard) /\ ~(\E m \in 1..stops[t] : x = <<t, m>>)
    BY <1>4, <1>7, <2>1
  <2>5. ASSUME ~(\E m \in 1..stops[t] : x = <<t, m>>), x \in StoppedBy(Heard)
        PROVE x \in Waiting' <=> x \in Waiting
    BY <1>4, <1>8, <2>1, <2>2, <2>5
  <2>. QED
    BY <2>3, <2>4, <2>5
<1>10. (StoppedBy(Heard) \ Waiting)' = StoppedBy(Heard) \ Waiting
  BY <1>9
<1>. QED
  BY <1>2, <1>6, <1>10, StopSets DEF NoStopLost

Counted == (\A u \in Targets : Numbered(u)) /\ NoStopLost

(* The stops are numbered, and counted when they are taken.                *)
LEMMA CountedStep ==
  ASSUME CIInv, [ChildNext]_childVars
  PROVE  Counted'
<1>. USE DEF childVars, adapterVars, sharedVars, toolVars
<1>a. /\ Parent \notin Children /\ Parent \notin Debugpy /\ Parent \in Targets
      /\ Debugpy \subseteq Children /\ Targets = {Parent} \cup Children /\ Leaving \subseteq Children
      /\ \A u \in Targets : At(u) \in Positions(u) /\ (Begun(u) <=> At(u) \notin Dormant \cup {"failed"})
  BY CIFacts, ChildFacts, ChildAssumption
<1>b. Typed /\ Channels /\ ChildTypeOK /\ HandshakesOK
  BY CIFacts
<1>c. Channels'
  BY ChannelsStep
<1>d. ASSUME Keeps("stopped"), stops' = stops, version' = version, Heard' = Heard,
             \A u \in Targets : disp'[u] = "off" => disp[u] = "off"
      PROVE  Counted'
  BY <1>c, <1>d, StopsSame DEF Counted
<1>e. Quiet => Keeps("stopped")
  BY <1>a, KeepsIf
<1>f. Stayed => Heard' = Heard
  BY HeardSame DEF Stayed
<1>g. Stayed /\ Quiet /\ stops' = stops /\ version' = version /\ disp' = disp => Counted'
  BY <1>d, <1>e, <1>f
<1>1. CASE Supervise
  <2>1. PICK c \in Children \ Debugpy, at \in {"ignored", "initialize"} :
               At(c) = "queued" /\ setup' = [setup EXCEPT ![c] = [at |-> at, snap |-> store]]
    BY <1>1, Supervised
  <2>2. At(c)' = at /\ \A u \in Targets \ {c} : At(u)' = At(u)
    BY <1>a, <1>b, <2>1 DEF Channels, At
  <2>3. Quiet /\ stops' = stops /\ version' = version /\ disp' = disp
    BY <1>1, SameQueue DEF Supervise
  <2>4. Heard' = Heard
    BY <2>1, <2>2, HeardSame
  <2>. QED
    BY <1>d, <1>e, <2>3, <2>4
<1>2. ASSUME NEW t \in Targets, Initialize(t)
      PROVE  Counted'
  <2>1. MovedTo(t, "await") /\ At(t) = "initialize"
    BY <1>2, <1>a, Steps DEF Initialize
  <2>2. stops' = stops /\ version' = version
    BY <1>2 DEF Initialize
  <2>3. \A u \in Targets : disp'[u] = "off" => disp[u] = "off"
    BY <1>2, <1>b DEF Initialize, Typed
  <2>4. Keeps("stopped")
    BY <1>2, <1>e, SameQueue DEF Initialize
  <2>5. Heard' = Heard
    BY <2>1, HeardSame DEF MovedTo
  <2>. QED
    BY <1>d, <2>2, <2>3, <2>4, <2>5
<1>3. ASSUME NEW t \in Targets, AwaitInitialized(t)
      PROVE  Counted'
  <2>1. MovedTo(t, IF t = Parent THEN "breakpoints" ELSE IF t \in Debugpy THEN "publish" ELSE "forward")
          /\ At(t) = "await"
    BY <1>3, <1>a, Steps DEF AwaitInitialized
  <2>2. stops' = stops /\ version' = version
    BY <1>3 DEF AwaitInitialized
  <2>3. \A u \in Targets : disp'[u] = "off" => disp[u] = "off"
    BY <1>3, <1>b DEF AwaitInitialized, Typed
  <2>4. Keeps("stopped")
    BY <1>3, <1>e, Receptions, KeepsIf DEF AwaitInitialized
  <2>5. Heard' = Heard
    BY <2>1, HeardSame DEF MovedTo
  <2>. QED
    BY <1>d, <2>2, <2>3, <2>4, <2>5
<1>4. ASSUME NEW t \in Targets, TimeOut(t)
      PROVE  Counted'
  <2>1. CASE t # Parent
    BY <1>4, <1>a, <1>c, <2>1, ForgottenStops DEF Counted
  <2>2. CASE t = Parent
    <3>1. stops' = stops /\ version' = version /\ disp' = disp /\ Quiet
      BY <1>4, <2>2, SameQueue DEF TimeOut
    <3>2. Heard' = Heard
      BY <1>4, <2>2, Steps, HeardSame DEF MovedTo
    <3>. QED
      BY <1>d, <1>e, <3>1, <3>2
  <2>. QED
    BY <2>1, <2>2
<1>5. CASE LaunchBreakpoints
  <2>1. MovedTo(Parent, "configure") /\ At(Parent) = "breakpoints"
    BY <1>5, <1>a, Steps DEF LaunchBreakpoints
  <2>2. stops' = stops /\ version' = version
    BY <1>5 DEF LaunchBreakpoints
  <2>3. \A u \in Targets : disp'[u] = "off" => disp[u] = "off"
    BY <1>5, <1>b DEF LaunchBreakpoints, Typed
  <2>4. Keeps("stopped")
    BY <1>5, <1>e, SameQueue DEF LaunchBreakpoints
  <2>5. Heard' = Heard
    BY <2>1, HeardSame DEF MovedTo
  <2>. QED
    BY <1>d, <2>2, <2>3, <2>4, <2>5
<1>6. ASSUME NEW t \in Targets, Forward(t)
      PROVE  Counted'
  <2>1. MovedTo(t, "configure") /\ At(t) = "forward"
    BY <1>6, <1>a, Steps DEF Forward
  <2>2. stops' = stops /\ version' = version
    BY <1>6 DEF Forward
  <2>3. \A u \in Targets : disp'[u] = "off" => disp[u] = "off"
    BY <1>6, <1>b DEF Forward, Typed
  <2>4. Keeps("stopped")
    BY <1>6, <1>e, SameQueue DEF Forward
  <2>5. Heard' = Heard
    BY <2>1, HeardSame DEF MovedTo
  <2>. QED
    BY <1>d, <2>2, <2>3, <2>4, <2>5
<1>7. ASSUME NEW t \in Targets, Configure(t)
      PROVE  Counted'
  <2>1. MovedTo(t, IF t = Parent THEN "confirm" ELSE IF t \in Debugpy THEN "await" ELSE "publish")
          /\ At(t) = "configure"
    BY <1>7, <1>a, Steps DEF Configure
  <2>2. stops' = stops /\ version' = version
    BY <1>7 DEF Configure
  <2>3. \A u \in Targets : disp'[u] = "off" => disp[u] = "off"
    BY <1>7, <1>b DEF Configure, Typed
  <2>4. Keeps("stopped")
    BY <1>7, <1>e, SameQueue DEF Configure
  <2>5. Heard' = Heard
    BY <2>1, HeardSame DEF MovedTo
  <2>. QED
    BY <1>d, <2>2, <2>3, <2>4, <2>5
<1>8. CASE Confirm
  <2>1. MovedTo(Parent, "attached") /\ At(Parent) = "confirm"
    BY <1>8, <1>a, Steps DEF Confirm
  <2>2. stops' = stops /\ version' = version
    BY <1>8 DEF Confirm
  <2>3. \A u \in Targets : disp'[u] = "off" => disp[u] = "off"
    BY <1>8, <1>b DEF Confirm, Typed
  <2>4. Keeps("stopped")
    BY <1>8, <1>e, SameQueue DEF Confirm
  <2>5. Heard' = Heard
    BY <2>1, HeardSame DEF MovedTo
  <2>. QED
    BY <1>d, <2>2, <2>3, <2>4, <2>5
<1>9. ASSUME NEW t \in Targets, Publish(t)
      PROVE  Counted'
  <2>1. MovedTo(t, "attached") /\ At(t) = "publish"
    BY <1>9, <1>a, Steps DEF Publish
  <2>2. stops' = stops /\ version' = version
    BY <1>9 DEF Publish
  <2>3. \A u \in Targets : disp'[u] = "off" => disp[u] = "off"
    BY <1>9, <1>b DEF Publish, Typed
  <2>4. Keeps("stopped")
    BY <1>9, <1>e, SameQueue DEF Publish
  <2>5. Heard' = Heard
    BY <2>1, HeardSame DEF MovedTo
  <2>. QED
    BY <1>d, <2>2, <2>3, <2>4, <2>5
<1>10. ASSUME NEW t \in Targets, OnInitialized(t)
      PROVE  Counted'
  <2>1. Stayed /\ Keeps("stopped") /\ stops' = stops /\ version' = version /\ disp' = disp
    BY <1>10, SameSetup, Receptions, KeepsIf DEF OnInitialized
  <2>. QED
    BY <1>d, <1>f, <2>1
<1>11. ASSUME NEW t \in Targets, OnSpawn(t)
      PROVE  Counted'
  <2>1. PICK c \in Children, at \in {"ignored", "queued", "configure"} :
               At(c) = "asked" /\ setup' = [setup EXCEPT ![c].at = at]
    BY <1>11, Spawned
  <2>2. At(c)' = at /\ \A u \in Targets \ {c} : At(u)' = At(u)
    BY <1>a, <1>b, <2>1, Moved DEF Channels, Places
  <2>3. TakenFrom(t, "spawn") /\ stops' = stops /\ version' = version /\ disp' = disp
    BY <1>11, Receptions DEF OnSpawn
  <2>4. Heard' = Heard
    BY <2>1, <2>2, HeardSame
  <2>5. Keeps("stopped")
    BY <2>3, KeepsIf
  <2>. QED
    BY <1>d, <2>3, <2>4, <2>5
<1>12. ASSUME NEW t \in Targets, OnStopped(t)
      PROVE  Counted'
  BY <1>12, <1>c, CountedStop DEF Counted
<1>13. ASSUME NEW t \in Targets, OnContinued(t)
      PROVE  Counted'
  <2>1. Stayed /\ Keeps("stopped") /\ stops' = stops /\ version' = version /\ disp' = disp
    BY <1>13, SameSetup, Receptions, KeepsIf DEF OnContinued
  <2>. QED
    BY <1>d, <1>f, <2>1
<1>14. ASSUME NEW t \in Targets, Chain(t)
      PROVE  Counted'
  <2>1. Stayed /\ Quiet /\ stops' = stops /\ version' = version
    BY <1>14, SameSetup, SameQueue DEF Chain
  <2>2. \A u \in Targets : disp'[u] = "off" => disp[u] = "off"
    BY <1>14, <1>b DEF Chain, Typed
  <2>. QED
    BY <1>d, <1>e, <1>f, <2>1, <2>2
<1>15. ASSUME NEW t \in Targets, Number(t)
      PROVE  Counted'
  <2>1. Stayed /\ Quiet /\ stops' = stops /\ version' = version
    BY <1>15, SameSetup, SameQueue DEF Number
  <2>2. \A u \in Targets : disp'[u] = "off" => disp[u] = "off"
    BY <1>15, <1>b DEF Number, Typed
  <2>. QED
    BY <1>d, <1>e, <1>f, <2>1, <2>2
<1>16. ASSUME NEW t \in Targets, AppendEntry(t)
      PROVE  Counted'
  <2>1. Stayed /\ Quiet /\ stops' = stops /\ version' = version
    BY <1>16, SameSetup, SameQueue DEF AppendEntry
  <2>2. \A u \in Targets : disp'[u] = "off" => disp[u] = "off"
    BY <1>16, <1>b DEF AppendEntry, Typed
  <2>. QED
    BY <1>d, <1>e, <1>f, <2>1, <2>2
<1>17. ASSUME NEW t \in Targets, Ends(t)
      PROVE  Counted'
  <2>1. Stayed /\ Quiet /\ stops' = stops /\ version' = version
    BY <1>17, SameSetup, SameQueue DEF Ends
  <2>2. \A u \in Targets : disp'[u] = "off" => disp[u] = "off"
    BY <1>17, <1>b DEF Ends, Typed
  <2>. QED
    BY <1>d, <1>e, <1>f, <2>1, <2>2
<1>18. ASSUME NEW t \in Targets, ChainFails(t)
      PROVE  Counted'
  <2>1. Stayed /\ Quiet /\ stops' = stops /\ version' = version
    BY <1>18, SameSetup, SameQueue DEF ChainFails
  <2>2. \A u \in Targets : disp'[u] = "off" => disp[u] = "off"
    BY <1>18, <1>b DEF ChainFails, Typed
  <2>. QED
    BY <1>d, <1>e, <1>f, <2>1, <2>2
<1>19. ASSUME NEW lines \in Lists, BeginSet(lines)
      PROVE  Counted'
  BY <1>19, <1>g, SameSetup, SameQueue DEF BeginSet
<1>20. CASE Install
  BY <1>20, <1>g, SameSetup, SameQueue DEF Install
<1>21. CASE Store
  BY <1>21, <1>g, SameSetup, SameQueue DEF Store
<1>22. CASE SetFails
  BY <1>22, <1>g, SameSetup, SameQueue DEF SetFails
<1>23. ASSUME NEW t \in Targets, Announce(t)
      PROVE  Counted'
  <2>1. PICK k \in Nat : AddedTo(t, Event("initialized"), k)
    BY <1>23, Emissions
  <2>2. Event("initialized") \in EventType /\ Event("initialized").name # "stopped"
    BY <2>1 DEF AddedTo, Event
  <2>3. Stayed /\ stops' = stops /\ version' = version /\ disp' = disp
    BY <1>23, SameSetup DEF Announce
  <2>4. Keeps("stopped")
    BY <2>1, <2>2, KeepsIf
  <2>. QED
    BY <1>d, <1>f, <2>3, <2>4
<1>24. ASSUME NEW t \in Targets, Start(t)
      PROVE  Counted'
  BY <1>24, <1>g, SameSetup, SameQueue DEF Start
<1>25. ASSUME NEW t \in Targets, Reannounce(t)
      PROVE  Counted'
  <2>1. PICK k \in Nat : AddedTo(t, Event("initialized"), k)
    BY <1>25, Emissions
  <2>2. Event("initialized") \in EventType /\ Event("initialized").name # "stopped"
    BY <2>1 DEF AddedTo, Event
  <2>3. Stayed /\ stops' = stops /\ version' = version /\ disp' = disp
    BY <1>25, SameSetup DEF Reannounce
  <2>4. Keeps("stopped")
    BY <2>1, <2>2, KeepsIf
  <2>. QED
    BY <1>d, <1>f, <2>3, <2>4
<1>26. ASSUME NEW t \in Targets, NEW c \in Children, Spawn(t, c)
      PROVE  Counted'
  <2>1. At(c) = "none" /\ At(c)' = "asked" /\ \A u \in Targets \ {c} : At(u)' = At(u)
    BY <1>26, <1>a, <1>b, Moved DEF Spawn, Channels, Places
  <2>2. PICK k \in Nat : AddedTo(t, SpawnEvent(c), k)
    BY <1>26, Emissions
  <2>3. SpawnEvent(c) \in EventType /\ SpawnEvent(c).name # "stopped"
    BY <2>2 DEF AddedTo, SpawnEvent
  <2>4. stops' = stops /\ version' = version /\ disp' = disp
    BY <1>26 DEF Spawn
  <2>5. Heard' = Heard
    BY <2>1, HeardSame
  <2>6. Keeps("stopped")
    BY <2>2, <2>3, KeepsIf
  <2>. QED
    BY <1>d, <2>4, <2>5, <2>6
<1>27. ASSUME NEW t \in Targets, Pause(t)
      PROVE  Counted'
  BY <1>27, <1>c, NewStop DEF Counted
<1>28. ASSUME NEW t \in Targets, Resume(t)
      PROVE  Counted'
  <2>1. PICK k \in Nat : AddedTo(t, Event("continued"), k)
    BY <1>28, Emissions
  <2>2. Event("continued") \in EventType /\ Event("continued").name # "stopped"
    BY <2>1 DEF AddedTo, Event
  <2>3. Stayed /\ stops' = stops /\ version' = version /\ disp' = disp
    BY <1>28, SameSetup DEF Resume
  <2>4. Keeps("stopped")
    BY <2>1, <2>2, KeepsIf
  <2>. QED
    BY <1>d, <1>f, <2>3, <2>4
<1>29. ASSUME NEW c \in Leaving, Close(c)
      PROVE  Counted'
  BY <1>29, <1>g, SameSetup, SameQueue DEF Close
<1>30. CASE UNCHANGED childVars
  BY <1>30, <1>g, SameSetup, SameQueue
<1>. QED
  BY <1>1, <1>2, <1>3, <1>4, <1>5, <1>6, <1>7, <1>8, <1>9, <1>10, <1>11, <1>12, <1>13, <1>14, <1>15, <1>16,
     <1>17, <1>18, <1>19, <1>20, <1>21, <1>22, <1>23, <1>24, <1>25, <1>26, <1>27, <1>28, <1>29, <1>30
  DEF ChildNext, Handshake, Dispatch, Tool, Adapter

(* Who is paused, or is said to go on, has stopped.                        *)
LEMMA HasPausedStep ==
  ASSUME CIInv, [ChildNext]_childVars
  PROVE  \A u \in Targets : HasPaused(u)'
<1>. USE DEF childVars, adapterVars, sharedVars, toolVars
<1>a. /\ Parent \notin Children /\ Parent \notin Debugpy /\ Parent \in Targets
      /\ Debugpy \subseteq Children /\ Targets = {Parent} \cup Children /\ Leaving \subseteq Children
      /\ \A u \in Targets : At(u) \in Positions(u) /\ (Begun(u) <=> At(u) \notin Dormant \cup {"failed"})
  BY CIFacts, ChildFacts, ChildAssumption
<1>b. Typed /\ Channels /\ ChildTypeOK /\ HandshakesOK
  BY CIFacts
<1>c. \A u \in Targets : HasPaused(u)
  BY DEF CIInv, StopsOK
<1>d. ASSUME stops' = stops, Fewer, \A u \in Targets : phase'[u] = "suspended" => phase[u] = "suspended"
      PROVE  \A u \in Targets : HasPaused(u)'
  <2>1. \A u \in Targets : (\E i \in Nat : Has(u, i, "continued")') => \E j \in Nat : Has(u, j, "continued")
    <3>1. PICK d \in [Targets -> 0..1] : \A u \in Targets, i \in Nat : \A n : Has(u, i, n)'
            => Has(u, i + d[u], n)
      BY <1>d DEF Fewer
    <3>2. \A u \in Targets : d[u] \in Nat
      OBVIOUS
    <3>3. \A u \in Targets, i \in Nat : i + d[u] \in Nat
      BY <3>2
    <3>. QED
      BY <3>1, <3>3
  <2>. QED
    BY <1>c, <1>d, <2>1 DEF HasPaused
<1>e. Quiet => Fewer
  BY <1>a, FewerIf
<1>f. stops' = stops /\ phase' = phase /\ Quiet => \A u \in Targets : HasPaused(u)'
  BY <1>d, <1>e
<1>g. ASSUME NEW t \in Targets, NEW e \in EventType, NEW k \in Nat, AddedTo(t, e, k), e.name # "continued",
             stops' = stops, \A u \in Targets : phase'[u] = "suspended" => phase[u] = "suspended"
      PROVE  \A u \in Targets : HasPaused(u)'
  <2>1. \A u \in Targets : (\E i \in Nat : Has(u, i, "continued")') => \E j \in Nat : Has(u, j, "continued")
    BY <1>g DEF AddedTo
  <2>. QED
    BY <1>c, <1>g, <2>1 DEF HasPaused
<1>1. CASE Supervise
  BY <1>1, <1>f, SameQueue DEF Supervise
<1>2. ASSUME NEW t \in Targets, Initialize(t)
      PROVE  \A u \in Targets : HasPaused(u)'
  BY <1>2, <1>f, SameQueue DEF Initialize
<1>3. ASSUME NEW t \in Targets, AwaitInitialized(t)
      PROVE  \A u \in Targets : HasPaused(u)'
  <2>1. Fewer /\ stops' = stops /\ phase' = phase
    BY <1>3, <1>e, Receptions, FewerIf DEF AwaitInitialized
  <2>. QED
    BY <1>d, <2>1
<1>4. ASSUME NEW t \in Targets, TimeOut(t)
      PROVE  \A u \in Targets : HasPaused(u)'
  <2>1. Fewer /\ stops' = stops /\ phase' = phase
    BY <1>4, <1>e, Receptions, FewerIf DEF TimeOut
  <2>. QED
    BY <1>d, <2>1
<1>5. CASE LaunchBreakpoints
  BY <1>5, <1>f, SameQueue DEF LaunchBreakpoints
<1>6. ASSUME NEW t \in Targets, Forward(t)
      PROVE  \A u \in Targets : HasPaused(u)'
  BY <1>6, <1>f, SameQueue DEF Forward
<1>7. ASSUME NEW t \in Targets, Configure(t)
      PROVE  \A u \in Targets : HasPaused(u)'
  BY <1>7, <1>f, SameQueue DEF Configure
<1>8. CASE Confirm
  BY <1>8, <1>f, SameQueue DEF Confirm
<1>9. ASSUME NEW t \in Targets, Publish(t)
      PROVE  \A u \in Targets : HasPaused(u)'
  BY <1>9, <1>f, SameQueue DEF Publish
<1>10. ASSUME NEW t \in Targets, OnInitialized(t)
      PROVE  \A u \in Targets : HasPaused(u)'
  <2>1. Fewer /\ stops' = stops /\ phase' = phase
    BY <1>10, Receptions, FewerIf DEF OnInitialized
  <2>. QED
    BY <1>d, <2>1
<1>11. ASSUME NEW t \in Targets, OnSpawn(t)
      PROVE  \A u \in Targets : HasPaused(u)'
  <2>1. Fewer /\ stops' = stops /\ phase' = phase
    BY <1>11, Receptions, FewerIf DEF OnSpawn
  <2>. QED
    BY <1>d, <2>1
<1>12. ASSUME NEW t \in Targets, OnStopped(t)
      PROVE  \A u \in Targets : HasPaused(u)'
  <2>1. Fewer /\ stops' = stops /\ phase' = phase
    BY <1>12, Receptions, FewerIf DEF OnStopped
  <2>. QED
    BY <1>d, <2>1
<1>13. ASSUME NEW t \in Targets, OnContinued(t)
      PROVE  \A u \in Targets : HasPaused(u)'
  <2>1. Fewer /\ stops' = stops /\ phase' = phase
    BY <1>13, Receptions, FewerIf DEF OnContinued
  <2>. QED
    BY <1>d, <2>1
<1>14. ASSUME NEW t \in Targets, Chain(t)
      PROVE  \A u \in Targets : HasPaused(u)'
  BY <1>14, <1>f, SameQueue DEF Chain
<1>15. ASSUME NEW t \in Targets, Number(t)
      PROVE  \A u \in Targets : HasPaused(u)'
  BY <1>15, <1>f, SameQueue DEF Number
<1>16. ASSUME NEW t \in Targets, AppendEntry(t)
      PROVE  \A u \in Targets : HasPaused(u)'
  BY <1>16, <1>f, SameQueue DEF AppendEntry
<1>17. ASSUME NEW t \in Targets, Ends(t)
      PROVE  \A u \in Targets : HasPaused(u)'
  BY <1>17, <1>f, SameQueue DEF Ends
<1>18. ASSUME NEW t \in Targets, ChainFails(t)
      PROVE  \A u \in Targets : HasPaused(u)'
  BY <1>18, <1>f, SameQueue DEF ChainFails
<1>19. ASSUME NEW lines \in Lists, BeginSet(lines)
      PROVE  \A u \in Targets : HasPaused(u)'
  BY <1>19, <1>f, SameQueue DEF BeginSet
<1>20. CASE Install
  BY <1>20, <1>f, SameQueue DEF Install
<1>21. CASE Store
  BY <1>21, <1>f, SameQueue DEF Store
<1>22. CASE SetFails
  BY <1>22, <1>f, SameQueue DEF SetFails
<1>23. ASSUME NEW t \in Targets, Announce(t)
      PROVE  \A u \in Targets : HasPaused(u)'
  <2>1. PICK k \in Nat : AddedTo(t, Event("initialized"), k)
    BY <1>23, Emissions
  <2>2. Event("initialized") \in EventType /\ Event("initialized").name # "continued"
    BY <2>1 DEF AddedTo, Event, SpawnEvent
  <2>3. stops' = stops /\ \A u \in Targets : phase'[u] = "suspended" => phase[u] = "suspended"
    BY <1>23, <1>b DEF Announce, Typed
  <2>. QED
    BY <1>g, <2>1, <2>2, <2>3
<1>24. ASSUME NEW t \in Targets, Start(t)
      PROVE  \A u \in Targets : HasPaused(u)'
  <2>1. Quiet /\ stops' = stops /\ \A u \in Targets : phase'[u] = "suspended" => phase[u] = "suspended"
    BY <1>24, <1>a, <1>b, SameQueue DEF Start, Typed
  <2>. QED
    BY <1>d, <1>e, <2>1
<1>25. ASSUME NEW t \in Targets, Reannounce(t)
      PROVE  \A u \in Targets : HasPaused(u)'
  <2>1. PICK k \in Nat : AddedTo(t, Event("initialized"), k)
    BY <1>25, Emissions
  <2>2. Event("initialized") \in EventType /\ Event("initialized").name # "continued"
    BY <2>1 DEF AddedTo, Event, SpawnEvent
  <2>3. stops' = stops /\ \A u \in Targets : phase'[u] = "suspended" => phase[u] = "suspended"
    BY <1>25, <1>b DEF Reannounce, Typed
  <2>. QED
    BY <1>g, <2>1, <2>2, <2>3
<1>26. ASSUME NEW t \in Targets, NEW c \in Children, Spawn(t, c)
      PROVE  \A u \in Targets : HasPaused(u)'
  <2>1. PICK k \in Nat : AddedTo(t, SpawnEvent(c), k)
    BY <1>26, Emissions
  <2>2. SpawnEvent(c) \in EventType /\ SpawnEvent(c).name # "continued"
    BY <2>1 DEF AddedTo, Event, SpawnEvent
  <2>3. stops' = stops /\ \A u \in Targets : phase'[u] = "suspended" => phase[u] = "suspended"
    BY <1>26 DEF Spawn
  <2>. QED
    BY <1>g, <2>1, <2>2, <2>3
<1>27. ASSUME NEW t \in Targets, Pause(t)
      PROVE  \A u \in Targets : HasPaused(u)'
  <2>1. PICK k \in Nat : AddedTo(t, StopEvent(stops[t] + 1), k)
    BY <1>27, Emissions
  <2>2. stops' = [stops EXCEPT ![t] = @ + 1] /\ \A u \in Targets \ {t} : phase'[u] = phase[u]
    BY <1>27, <1>b DEF Pause, Typed
  <2>3. stops'[t] # 0 /\ \A u \in Targets \ {t} : stops'[u] = stops[u]
    BY <1>b, <2>2 DEF Typed
  <2>4. \A u \in Targets \ {t} : (\E i \in Nat : Has(u, i, "continued")')
          => \E j \in Nat : Has(u, j, "continued")
    BY <2>1 DEF AddedTo
  <2>. QED
    BY <1>c, <2>2, <2>3, <2>4 DEF HasPaused
<1>28. ASSUME NEW t \in Targets, Resume(t)
      PROVE  \A u \in Targets : HasPaused(u)'
  <2>1. PICK k \in Nat : AddedTo(t, Event("continued"), k)
    BY <1>28, Emissions
  <2>2. stops' = stops /\ phase[t] = "suspended" /\ \A u \in Targets : phase'[u] = "suspended"
          => phase[u] = "suspended"
    BY <1>28, <1>b DEF Resume, Typed
  <2>3. \A u \in Targets \ {t} : (\E i \in Nat : Has(u, i, "continued")')
          => \E j \in Nat : Has(u, j, "continued")
    BY <2>1 DEF AddedTo
  <2>. QED
    BY <1>c, <2>2, <2>3 DEF HasPaused
<1>29. ASSUME NEW c \in Leaving, Close(c)
      PROVE  \A u \in Targets : HasPaused(u)'
  <2>1. Quiet /\ stops' = stops /\ \A u \in Targets : phase'[u] = "suspended" => phase[u] = "suspended"
    BY <1>29, <1>a, <1>b, SameQueue DEF Close, Typed
  <2>. QED
    BY <1>d, <1>e, <2>1
<1>30. CASE UNCHANGED childVars
  BY <1>30, <1>f, SameQueue
<1>. QED
  BY <1>1, <1>2, <1>3, <1>4, <1>5, <1>6, <1>7, <1>8, <1>9, <1>10, <1>11, <1>12, <1>13, <1>14, <1>15, <1>16,
     <1>17, <1>18, <1>19, <1>20, <1>21, <1>22, <1>23, <1>24, <1>25, <1>26, <1>27, <1>28, <1>29, <1>30
  DEF ChildNext, Handshake, Dispatch, Tool, Adapter

(* Together.                                                               *)
LEMMA StopsStep ==
  ASSUME CIInv, [ChildNext]_childVars
  PROVE  StopsOK'
  BY CountedStep, HasPausedStep, CountStep DEF StopsOK, Counted

-----------------------------------------------------------------------------
(* The timeline *)

(* The numbers of entries are different and behind the counter.            *)
LEMMA EntriesStep ==
  ASSUME CIInv, [ChildNext]_childVars
  PROVE  Entries'
<1>. USE DEF childVars, adapterVars, sharedVars, toolVars
<1>a. /\ Parent \notin Children /\ Parent \notin Debugpy /\ Parent \in Targets
      /\ Debugpy \subseteq Children /\ Targets = {Parent} \cup Children /\ Leaving \subseteq Children
      /\ \A u \in Targets : At(u) \in Positions(u) /\ (Begun(u) <=> At(u) \notin Dormant \cup {"failed"})
  BY CIFacts, ChildFacts, ChildAssumption
<1>b. Typed /\ Channels /\ ChildTypeOK /\ HandshakesOK
  BY CIFacts
<1>c. Entries
  BY DEF CIInv, TimelineOK
<1>d. ASSUME timeline' = timeline, counter' = counter, entry' = entry,
             \A u \in Targets : disp'[u] = "append" => disp[u] = "append"
      PROVE  Entries'
  BY <1>c, <1>d DEF Entries
<1>1. CASE Supervise
  BY <1>1, <1>d DEF Supervise
<1>2. ASSUME NEW t \in Targets, Initialize(t)
      PROVE  Entries'
  BY <1>2, <1>d DEF Initialize
<1>3. ASSUME NEW t \in Targets, AwaitInitialized(t)
      PROVE  Entries'
  BY <1>3, <1>d DEF AwaitInitialized
<1>4. ASSUME NEW t \in Targets, TimeOut(t)
      PROVE  Entries'
  BY <1>4, <1>d DEF TimeOut
<1>5. CASE LaunchBreakpoints
  BY <1>5, <1>d DEF LaunchBreakpoints
<1>6. ASSUME NEW t \in Targets, Forward(t)
      PROVE  Entries'
  BY <1>6, <1>d DEF Forward
<1>7. ASSUME NEW t \in Targets, Configure(t)
      PROVE  Entries'
  BY <1>7, <1>d DEF Configure
<1>8. CASE Confirm
  BY <1>8, <1>d DEF Confirm
<1>9. ASSUME NEW t \in Targets, Publish(t)
      PROVE  Entries'
  <2>1. timeline' = timeline /\ counter' = counter /\ entry' = entry
    BY <1>9 DEF Publish
  <2>2. \A u \in Targets : disp'[u] = "append" => disp[u] = "append"
    BY <1>9, <1>b DEF Publish, Typed
  <2>. QED
    BY <1>d, <2>1, <2>2
<1>10. ASSUME NEW t \in Targets, OnInitialized(t)
      PROVE  Entries'
  BY <1>10, <1>d DEF OnInitialized
<1>11. ASSUME NEW t \in Targets, OnSpawn(t)
      PROVE  Entries'
  BY <1>11, <1>d DEF OnSpawn
<1>12. ASSUME NEW t \in Targets, OnStopped(t)
      PROVE  Entries'
  <2>1. timeline' = timeline /\ counter' = counter /\ entry' = entry
    BY <1>12 DEF OnStopped
  <2>2. \A u \in Targets : disp'[u] = "append" => disp[u] = "append"
    BY <1>12, <1>b DEF OnStopped, Typed
  <2>. QED
    BY <1>d, <2>1, <2>2
<1>13. ASSUME NEW t \in Targets, OnContinued(t)
      PROVE  Entries'
  BY <1>13, <1>d DEF OnContinued
<1>14. ASSUME NEW t \in Targets, Chain(t)
      PROVE  Entries'
  <2>1. timeline' = timeline /\ counter' = counter /\ entry' = entry
    BY <1>14 DEF Chain
  <2>2. \A u \in Targets : disp'[u] = "append" => disp[u] = "append"
    BY <1>14, <1>b DEF Chain, Typed
  <2>. QED
    BY <1>d, <2>1, <2>2
<1>15. ASSUME NEW t \in Targets, Number(t)
      PROVE  Entries'
  <2>1. timeline' = timeline /\ counter' = counter + 1 /\ counter \in Nat /\ timeline \in Seq(Nat)
    BY <1>15, <1>b DEF Number, Typed
  <2>2. entry'[t] = counter /\ \A u \in Targets \ {t} : entry'[u] = entry[u] /\ entry[u] \in Nat
    BY <1>15, <1>b DEF Number, Typed
  <2>3. \A u \in Targets \ {t} : disp'[u] = disp[u]
    BY <1>15, <1>b DEF Number, Typed
  <2>4. Len(timeline) \in Nat /\ \A i \in 1..Len(timeline) : timeline[i] \in Nat
    BY <2>1
  <2>5. \A i \in 1..Len(timeline) :
          timeline[i] < counter + 1 /\ timeline[i] # counter
            /\ \A j \in 1..Len(timeline) : timeline[i] = timeline[j] => i = j
    BY <1>c, <2>1, <2>4 DEF Entries
  <2>6. ASSUME NEW u \in Targets, disp'[u] = "append"
        PROVE  /\ entry'[u] < counter + 1
               /\ \A i \in 1..Len(timeline) : timeline[i] # entry'[u]
               /\ u # t => disp[u] = "append" /\ entry'[u] = entry[u] /\ entry'[u] # counter
    <3>1. CASE u = t
      BY <2>1, <2>2, <2>5, <3>1
    <3>2. CASE u # t
      BY <1>c, <2>1, <2>2, <2>3, <2>6, <3>2 DEF Entries
    <3>. QED
      BY <3>1, <3>2
  <2>7. ASSUME NEW u \in Targets, disp'[u] = "append",
          NEW v \in Targets, disp'[v] = "append", entry'[v] = entry'[u]
        PROVE  v = u
    <3>1. CASE u = t \/ v = t
      BY <2>2, <2>6, <2>7, <3>1
    <3>2. CASE u # t /\ v # t
      BY <1>c, <2>6, <2>7, <3>2 DEF Entries
    <3>. QED
      BY <3>1, <3>2
  <2>. QED
    BY <2>1, <2>5, <2>6, <2>7 DEF Entries
<1>16. ASSUME NEW t \in Targets, AppendEntry(t)
      PROVE  Entries'
  <2>1. PICK s \in Seq(Nat) : s = timeline
    BY <1>b DEF Typed
  <2>2. PICK x \in Nat : x = entry[t]
    BY <1>b DEF Typed
  <2>3. PICK r : r = Append(s, x)
    OBVIOUS
  <2>4. /\ Len(s) \in Nat /\ Len(r) = Len(s) + 1 /\ r[Len(s) + 1] = x /\ \A i \in 1..Len(s) : r[i] = s[i]
        /\ \A i \in 1..Len(r) : i \in 1..Len(s) \/ i = Len(s) + 1
    BY <2>3
  <2>5. timeline' = r /\ counter' = counter /\ entry' = entry
    BY <1>16, <2>1, <2>2, <2>3 DEF AppendEntry
  <2>6. disp[t] = "append" /\ disp'[t] = "recv" /\ \A u \in Targets \ {t} : disp'[u] = disp[u]
    BY <1>16, <1>b DEF AppendEntry, Typed
  <2>7. x < counter /\ \A i \in 1..Len(s) : s[i] # x
    BY <1>c, <2>1, <2>2, <2>6 DEF Entries
  <2>8. \A i \in 1..Len(s) : s[i] < counter /\ \A j \in 1..Len(s) : s[i] = s[j] => i = j
    BY <1>c, <2>1 DEF Entries
  <2>9. ASSUME NEW i \in 1..Len(r)
        PROVE  r[i] < counter /\ \A j \in 1..Len(r) : r[i] = r[j] => i = j
    BY <2>4, <2>7, <2>8
  <2>10. ASSUME NEW u \in Targets, disp'[u] = "append"
         PROVE  /\ u # t /\ disp[u] = "append" /\ entry[u] < counter
                /\ \A i \in 1..Len(s) : s[i] # entry[u]
                /\ entry[u] # x
    BY <1>c, <2>1, <2>2, <2>6, <2>10 DEF Entries
  <2>11. ASSUME NEW u \in Targets, disp'[u] = "append"
         PROVE  \A i \in 1..Len(r) : r[i] # entry[u]
    BY <2>4, <2>10, <2>11
  <2>12. ASSUME NEW u \in Targets, disp'[u] = "append",
           NEW v \in Targets, disp'[v] = "append", entry[v] = entry[u]
         PROVE  v = u
    BY <1>c, <2>10, <2>12 DEF Entries
  <2>. QED
    BY <2>5, <2>9, <2>10, <2>11, <2>12 DEF Entries
<1>17. ASSUME NEW t \in Targets, Ends(t)
      PROVE  Entries'
  <2>1. timeline' = timeline /\ counter' = counter /\ entry' = entry
    BY <1>17 DEF Ends
  <2>2. \A u \in Targets : disp'[u] = "append" => disp[u] = "append"
    BY <1>17, <1>b DEF Ends, Typed
  <2>. QED
    BY <1>d, <2>1, <2>2
<1>18. ASSUME NEW t \in Targets, ChainFails(t)
      PROVE  Entries'
  <2>1. timeline' = timeline /\ counter' = counter /\ entry' = entry
    BY <1>18 DEF ChainFails
  <2>2. \A u \in Targets : disp'[u] = "append" => disp[u] = "append"
    BY <1>18, <1>b DEF ChainFails, Typed
  <2>. QED
    BY <1>d, <2>1, <2>2
<1>19. ASSUME NEW lines \in Lists, BeginSet(lines)
      PROVE  Entries'
  BY <1>19, <1>d DEF BeginSet
<1>20. CASE Install
  BY <1>20, <1>d DEF Install
<1>21. CASE Store
  BY <1>21, <1>d DEF Store
<1>22. CASE SetFails
  BY <1>22, <1>d DEF SetFails
<1>23. ASSUME NEW t \in Targets, Announce(t)
      PROVE  Entries'
  BY <1>23, <1>d DEF Announce
<1>24. ASSUME NEW t \in Targets, Start(t)
      PROVE  Entries'
  BY <1>24, <1>d DEF Start
<1>25. ASSUME NEW t \in Targets, Reannounce(t)
      PROVE  Entries'
  BY <1>25, <1>d DEF Reannounce
<1>26. ASSUME NEW t \in Targets, NEW c \in Children, Spawn(t, c)
      PROVE  Entries'
  BY <1>26, <1>d DEF Spawn
<1>27. ASSUME NEW t \in Targets, Pause(t)
      PROVE  Entries'
  BY <1>27, <1>d DEF Pause
<1>28. ASSUME NEW t \in Targets, Resume(t)
      PROVE  Entries'
  BY <1>28, <1>d DEF Resume
<1>29. ASSUME NEW c \in Leaving, Close(c)
      PROVE  Entries'
  BY <1>29, <1>d DEF Close
<1>30. CASE UNCHANGED childVars
  BY <1>30, <1>d
<1>. QED
  BY <1>1, <1>2, <1>3, <1>4, <1>5, <1>6, <1>7, <1>8, <1>9, <1>10, <1>11, <1>12, <1>13, <1>14, <1>15, <1>16,
     <1>17, <1>18, <1>19, <1>20, <1>21, <1>22, <1>23, <1>24, <1>25, <1>26, <1>27, <1>28, <1>29, <1>30
  DEF ChildNext, Handshake, Dispatch, Tool, Adapter

(* There are as many entries as stops, those being examined aside.         *)
LEMMA BalancedStep ==
  ASSUME CIInv, [ChildNext]_childVars
  PROVE  Balanced'
<1>. USE DEF childVars, adapterVars, sharedVars, toolVars
<1>a. /\ Parent \notin Children /\ Parent \notin Debugpy /\ Parent \in Targets
      /\ Debugpy \subseteq Children /\ Targets = {Parent} \cup Children /\ Leaving \subseteq Children
      /\ \A u \in Targets : At(u) \in Positions(u) /\ (Begun(u) <=> At(u) \notin Dormant \cup {"failed"})
  BY CIFacts, ChildFacts, ChildAssumption
<1>b. Typed /\ Channels /\ ChildTypeOK /\ HandshakesOK
  BY CIFacts
<1>c. Balanced
  BY DEF CIInv, TimelineOK
<1>d. ASSUME timeline' = timeline, version' = version,
             \A u \in Targets : disp'[u] \in {"chain", "number", "append"}
               <=> disp[u] \in {"chain", "number", "append"},
             \A u \in Targets : phase[u] = "closed" => phase'[u] = "closed"
      PROVE  Balanced'
  <2>1. Busy' = Busy
    BY <1>d DEF Busy
  <2>. QED
    BY <1>c, <1>d, <2>1 DEF Balanced
<1>1. CASE Supervise
  BY <1>1, <1>d DEF Supervise
<1>2. ASSUME NEW t \in Targets, Initialize(t)
      PROVE  Balanced'
  BY <1>2, <1>d DEF Initialize
<1>3. ASSUME NEW t \in Targets, AwaitInitialized(t)
      PROVE  Balanced'
  BY <1>3, <1>d DEF AwaitInitialized
<1>4. ASSUME NEW t \in Targets, TimeOut(t)
      PROVE  Balanced'
  BY <1>4, <1>d DEF TimeOut
<1>5. CASE LaunchBreakpoints
  BY <1>5, <1>d DEF LaunchBreakpoints
<1>6. ASSUME NEW t \in Targets, Forward(t)
      PROVE  Balanced'
  BY <1>6, <1>d DEF Forward
<1>7. ASSUME NEW t \in Targets, Configure(t)
      PROVE  Balanced'
  BY <1>7, <1>d DEF Configure
<1>8. CASE Confirm
  BY <1>8, <1>d DEF Confirm
<1>9. ASSUME NEW t \in Targets, Publish(t)
      PROVE  Balanced'
  <2>1. timeline' = timeline /\ version' = version /\ phase' = phase
    BY <1>9 DEF Publish
  <2>2. disp[t] = "off"
    <3>1. t \in Children /\ At(t) = "publish"
      BY <1>9, Steps DEF Publish
    <3>2. t # Parent
      BY <1>a, <3>1
    <3>. QED
      BY <1>b, <3>1, <3>2 DEF ChildTypeOK
  <2>3. \A u \in Targets : disp'[u] \in {"chain", "number", "append"}
          <=> disp[u] \in {"chain", "number", "append"}
    BY <1>9, <1>b, <2>2 DEF Publish, Typed
  <2>. QED
    BY <1>d, <2>1, <2>3
<1>10. ASSUME NEW t \in Targets, OnInitialized(t)
      PROVE  Balanced'
  BY <1>10, <1>d DEF OnInitialized
<1>11. ASSUME NEW t \in Targets, OnSpawn(t)
      PROVE  Balanced'
  BY <1>11, <1>d DEF OnSpawn
<1>12. ASSUME NEW t \in Targets, OnStopped(t)
      PROVE  Balanced'
  <2>1. timeline' = timeline /\ version' = version + 1 /\ phase' = phase /\ disp[t] = "recv"
    BY <1>12 DEF OnStopped, Receives
  <2>2. disp'[t] = "chain" /\ \A u \in Targets \ {t} : disp'[u] = disp[u]
    BY <1>12, <1>b DEF OnStopped, Typed
  <2>3. PICK B : B = Busy
    OBVIOUS
  <2>4. Busy' = B \cup {t} /\ t \notin B
    BY <2>1, <2>2, <2>3 DEF Busy
  <2>5. IsFiniteSet(B \cup {t}) /\ Cardinality(B \cup {t}) = Cardinality(B) + 1 /\ Cardinality(B) \in Nat
    BY <1>c, <2>3, <2>4, FS_AddElement, FS_CardinalityType DEF Balanced
  <2>6. Len(timeline) \in Nat /\ version \in Nat
    BY <1>b DEF Typed
  <2>. QED
    BY <1>c, <2>1, <2>3, <2>4, <2>5, <2>6 DEF Balanced
<1>13. ASSUME NEW t \in Targets, OnContinued(t)
      PROVE  Balanced'
  BY <1>13, <1>d DEF OnContinued
<1>14. ASSUME NEW t \in Targets, Chain(t)
      PROVE  Balanced'
  <2>1. timeline' = timeline /\ version' = version /\ phase' = phase
    BY <1>14 DEF Chain
  <2>2. \A u \in Targets : disp'[u] \in {"chain", "number", "append"}
          <=> disp[u] \in {"chain", "number", "append"}
    BY <1>14, <1>b DEF Chain, Typed
  <2>. QED
    BY <1>d, <2>1, <2>2
<1>15. ASSUME NEW t \in Targets, Number(t)
      PROVE  Balanced'
  <2>1. timeline' = timeline /\ version' = version /\ phase' = phase
    BY <1>15 DEF Number
  <2>2. \A u \in Targets : disp'[u] \in {"chain", "number", "append"}
          <=> disp[u] \in {"chain", "number", "append"}
    BY <1>15, <1>b DEF Number, Typed
  <2>. QED
    BY <1>d, <2>1, <2>2
<1>16. ASSUME NEW t \in Targets, AppendEntry(t)
      PROVE  Balanced'
  <2>1. version' = version /\ phase' = phase /\ disp[t] = "append"
    BY <1>16 DEF AppendEntry
  <2>2. disp'[t] = "recv" /\ \A u \in Targets \ {t} : disp'[u] = disp[u]
    BY <1>16, <1>b DEF AppendEntry, Typed
  <2>3. PICK B : B = Busy
    OBVIOUS
  <2>4. Busy' = B \ {t} /\ t \in B
    BY <2>1, <2>2, <2>3 DEF Busy
  <2>5. IsFiniteSet(B \ {t}) /\ Cardinality(B \ {t}) = Cardinality(B) - 1 /\ Cardinality(B) \in Nat
    BY <1>c, <2>3, <2>4, FS_RemoveElement, FS_CardinalityType DEF Balanced
  <2>6. Len(timeline) \in Nat /\ version \in Nat /\ Len(timeline') = Len(timeline) + 1
    BY <1>16, <1>b DEF AppendEntry, Typed
  <2>. QED
    BY <1>c, <2>1, <2>3, <2>4, <2>5, <2>6 DEF Balanced
<1>17. ASSUME NEW t \in Targets, Ends(t)
      PROVE  Balanced'
  <2>1. timeline' = timeline /\ version' = version /\ phase' = phase
    BY <1>17 DEF Ends
  <2>2. \A u \in Targets : disp'[u] \in {"chain", "number", "append"}
          <=> disp[u] \in {"chain", "number", "append"}
    BY <1>17, <1>b DEF Ends, Typed
  <2>. QED
    BY <1>d, <2>1, <2>2
<1>18. ASSUME NEW t \in Targets, ChainFails(t)
      PROVE  Balanced'
  <2>1. disp[t] = "chain" /\ ~Connected(t) /\ phase' = phase
    BY <1>18 DEF ChainFails
  <2>2. t = Parent \/ At(t) = "attached"
    BY <1>b, <2>1 DEF ChildTypeOK
  <2>3. phase'[t] = "closed"
    BY <1>a, <2>1, <2>2 DEF Connected, Dormant
  <2>4. Busy' \subseteq Busy
    BY <1>18, <1>b DEF ChainFails, Busy, Typed
  <2>5. IsFiniteSet(Busy')
    BY <1>c, <2>4, FS_Subset DEF Balanced
  <2>. QED
    BY <2>3, <2>5 DEF Balanced
<1>19. ASSUME NEW lines \in Lists, BeginSet(lines)
      PROVE  Balanced'
  BY <1>19, <1>d DEF BeginSet
<1>20. CASE Install
  BY <1>20, <1>d DEF Install
<1>21. CASE Store
  BY <1>21, <1>d DEF Store
<1>22. CASE SetFails
  BY <1>22, <1>d DEF SetFails
<1>23. ASSUME NEW t \in Targets, Announce(t)
      PROVE  Balanced'
  <2>1. timeline' = timeline /\ version' = version /\ disp' = disp
    BY <1>23 DEF Announce
  <2>2. \A u \in Targets : phase[u] = "closed" => phase'[u] = "closed"
    BY <1>23, <1>b DEF Announce, Typed
  <2>. QED
    BY <1>d, <2>1, <2>2
<1>24. ASSUME NEW t \in Targets, Start(t)
      PROVE  Balanced'
  <2>1. timeline' = timeline /\ version' = version /\ disp' = disp
    BY <1>24 DEF Start
  <2>2. \A u \in Targets : phase[u] = "closed" => phase'[u] = "closed"
    BY <1>24, <1>b DEF Start, Typed
  <2>. QED
    BY <1>d, <2>1, <2>2
<1>25. ASSUME NEW t \in Targets, Reannounce(t)
      PROVE  Balanced'
  <2>1. timeline' = timeline /\ version' = version /\ disp' = disp
    BY <1>25 DEF Reannounce
  <2>2. \A u \in Targets : phase[u] = "closed" => phase'[u] = "closed"
    BY <1>25, <1>b DEF Reannounce, Typed
  <2>. QED
    BY <1>d, <2>1, <2>2
<1>26. ASSUME NEW t \in Targets, NEW c \in Children, Spawn(t, c)
      PROVE  Balanced'
  BY <1>26, <1>d DEF Spawn
<1>27. ASSUME NEW t \in Targets, Pause(t)
      PROVE  Balanced'
  <2>1. timeline' = timeline /\ version' = version /\ disp' = disp
    BY <1>27 DEF Pause
  <2>2. \A u \in Targets : phase[u] = "closed" => phase'[u] = "closed"
    BY <1>27, <1>b DEF Pause, Typed
  <2>. QED
    BY <1>d, <2>1, <2>2
<1>28. ASSUME NEW t \in Targets, Resume(t)
      PROVE  Balanced'
  <2>1. timeline' = timeline /\ version' = version /\ disp' = disp
    BY <1>28 DEF Resume
  <2>2. \A u \in Targets : phase[u] = "closed" => phase'[u] = "closed"
    BY <1>28, <1>b DEF Resume, Typed
  <2>. QED
    BY <1>d, <2>1, <2>2
<1>29. ASSUME NEW c \in Leaving, Close(c)
      PROVE  Balanced'
  <2>1. c \in Targets /\ phase'[c] = "closed" /\ disp' = disp
    BY <1>29, <1>a, <1>b DEF Close, Typed
  <2>2. Busy' = Busy
    BY <2>1 DEF Busy
  <2>. QED
    BY <1>c, <2>1, <2>2 DEF Balanced
<1>30. CASE UNCHANGED childVars
  BY <1>30, <1>d
<1>. QED
  BY <1>1, <1>2, <1>3, <1>4, <1>5, <1>6, <1>7, <1>8, <1>9, <1>10, <1>11, <1>12, <1>13, <1>14, <1>15, <1>16,
     <1>17, <1>18, <1>19, <1>20, <1>21, <1>22, <1>23, <1>24, <1>25, <1>26, <1>27, <1>28, <1>29, <1>30
  DEF ChildNext, Handshake, Dispatch, Tool, Adapter

-----------------------------------------------------------------------------
(* The pause that is shown *)

(* The events about pauses are as before, the first d aside. *)
Shift(u, d) ==
  \A i \in Nat, n \in {"stopped", "continued"} : Has(u, i, n)' <=> i >= 1 /\ Has(u, i + d, n)

(* Steps that do not add news of a pause.                                  *)
LEMMA ShiftIf ==
  ASSUME NEW t \in Targets,
         Quiet \/ (\E n : TakenFrom(t, n))
           \/ (\E e \in EventType, k \in Nat : AddedTo(t, e, k) /\ e.name \notin {"stopped", "continued"})
  PROVE  \A u \in Targets : \E d \in 0..1 : Shift(u, d)
<1>1. CASE Quiet \/ (\E e \in EventType, k \in Nat : AddedTo(t, e, k)
        /\ e.name \notin {"stopped", "continued"})
  <2>1. \A u \in Targets, i \in Nat, n \in {"stopped", "continued"} : Has(u, i, n)' <=> Has(u, i, n)
    BY <1>1 DEF Quiet, AddedTo
  <2>2. ASSUME NEW u \in Targets, NEW i \in Nat, NEW n \in {"stopped", "continued"}
        PROVE  Has(u, i, n)' <=> i >= 1 /\ Has(u, i + 0, n)
    <3>1. i + 0 = i
      OBVIOUS
    <3>. QED
      BY <2>1, <3>1, HasIndex
  <2>3. \A u \in Targets : Shift(u, 0)
    BY <2>2 DEF Shift
  <2>. QED
    BY <2>3
<1>2. ASSUME NEW n, TakenFrom(t, n)
      PROVE  \A u \in Targets : \E d \in 0..1 : Shift(u, d)
  <2>1. Shift(t, 1)
    BY <1>2 DEF TakenFrom, Shift
  <2>2. ASSUME NEW u \in Targets \ {t}, NEW i \in Nat, NEW m \in {"stopped", "continued"}
        PROVE  Has(u, i, m)' <=> i >= 1 /\ Has(u, i + 0, m)
    <3>1. i + 0 = i /\ (Has(u, i, m)' <=> Has(u, i, m))
      BY <1>2 DEF TakenFrom
    <3>. QED
      BY <3>1, HasIndex
  <2>3. \A u \in Targets \ {t} : Shift(u, 0)
    BY <2>2 DEF Shift
  <2>. QED
    BY <2>1, <2>3
<1>. QED
  BY <1>1, <1>2

(* The order of what is left is the same.                                  *)
LEMMA OrderedSame ==
  ASSUME NEW u, Ordered(u), NEW d \in 0..1, Shift(u, d),
         phase[u] \in {"suspended", "closed"} => phase'[u] \in {"suspended", "closed"},
         phase'[u] = "suspended" => phase[u] = "suspended"
  PROVE  Ordered(u)'
<1>1. ASSUME NEW i \in Nat, NEW j \in Nat,
        NEW n \in {"stopped", "continued"}, i >= 1, j > i + d, Has(u, j, n)
      PROVE  \E l \in Nat : l > i /\ Has(u, l, n)'
  <2>1. j - d \in Nat /\ j - d >= 1 /\ j - d > i /\ (j - d) + d = j
    BY <1>1
  <2>2. Has(u, j - d, n)'
    BY <1>1, <2>1 DEF Shift
  <2>. QED
    BY <2>1, <2>2
<1>2. ASSUME NEW i \in Nat, Has(u, i, "stopped")', phase'[u] \notin {"suspended", "closed"}
      PROVE  \E j \in Nat : j > i /\ Has(u, j, "continued")'
  <2>1. i >= 1 /\ i + d \in Nat /\ Has(u, i + d, "stopped")
    BY <1>2 DEF Shift
  <2>2. PICK j \in Nat : j > i + d /\ Has(u, j, "continued")
    BY <1>2, <2>1 DEF Ordered
  <2>. QED
    BY <1>1, <2>1, <2>2
<1>3. ASSUME NEW i \in Nat, Has(u, i, "continued")', phase'[u] = "suspended"
      PROVE  \E j \in Nat : j > i /\ Has(u, j, "stopped")'
  <2>1. i >= 1 /\ i + d \in Nat /\ Has(u, i + d, "continued")
    BY <1>3 DEF Shift
  <2>2. PICK j \in Nat : j > i + d /\ Has(u, j, "stopped")
    BY <1>3, <2>1 DEF Ordered
  <2>. QED
    BY <1>1, <2>1, <2>2
<1>. QED
  BY <1>2, <1>3 DEF Ordered

(* Nothing that concerns pauses has changed. *)
LEMMA ViewSame ==
  ASSUME CIInv, \A u \in Targets : \E d \in 0..1 : Shift(u, d), Keeps("stopped"), Keeps("continued"),
         lastStopped' = lastStopped, stops' = stops, Heard' = Heard,
         \A u \in Targets : disp'[u] = "off" => disp[u] = "off",
         \A u \in Targets : phase[u] \in {"suspended", "closed"} => phase'[u] \in {"suspended", "closed"},
         \A u \in Targets : phase'[u] = "suspended" => phase[u] = "suspended"
  PROVE  ViewOK'
<1>1. \A u \in Targets : Ordered(u) /\ Shown(u) /\ Seen(u)
  BY DEF CIInv, ViewOK
<1>2. \A u \in Targets : Ordered(u)'
  BY <1>1, OrderedSame
<1>3. \A u \in Targets, n \in {"stopped", "continued"} :
        (\E j \in Nat : Has(u, j, n)) => \E i \in Nat : Has(u, i, n)'
  BY KeptEvents
<1>4. \A u \in Targets : Shown(u)'
  BY <1>1, <1>3 DEF Shown
<1>5. PICK H : H = Heard'
  OBVIOUS
<1>6. \A u \in Targets : Seen(u)'
  BY <1>1, <1>3 DEF Seen
<1>. QED
  BY <1>2, <1>4, <1>6 DEF ViewOK

(* A handshake that was given up had no dispatcher. *)
LEMMA ForgottenView ==
  ASSUME CIInv, NEW t \in Children, TimeOut(t)
  PROVE  ViewOK'
<1>1. t \in Targets /\ t # Parent
  BY ChildAssumption DEF Targets
<1>2. /\ DroppedAt(t) /\ MovedTo(t, "failed") /\ At(t) = "await" /\ stops' = stops
      /\ lastStopped' = lastStopped /\ disp' = disp /\ phase' = phase
  BY <1>1, Receptions, Steps DEF TimeOut, toolVars, sharedVars, adapterVars
<1>3. \A u \in Targets : Ordered(u) /\ Shown(u) /\ Seen(u)
  BY DEF CIInv, ViewOK
<1>4. disp[t] = "off"
  BY <1>1, <1>2, CIFacts DEF ChildTypeOK
<1>5. \A u \in Targets \ {t} : \A i \in Nat : \A n : Has(u, i, n)' <=> Has(u, i, n)
  BY <1>2 DEF DroppedAt
<1>6. \A i \in Nat : \A n : ~Has(t, i, n)'
  BY <1>2 DEF DroppedAt
<1>7. \A u \in Targets : Ordered(u)'
  BY <1>2, <1>3, <1>5, <1>6 DEF Ordered
<1>8. \A u \in Targets : Shown(u)'
  BY <1>2, <1>3, <1>4, <1>5 DEF Shown
<1>9. \A u \in Targets : u \in Heard' => u \in Heard /\ u # t
  BY <1>1, <1>2 DEF Heard, MovedTo
<1>10. \A u \in Targets : Seen(u)'
  BY <1>2, <1>3, <1>5, <1>9 DEF Seen
<1>. QED
  BY <1>7, <1>8, <1>10 DEF ViewOK

(* The dispatcher takes a stop: it is shown instead of any other. *)
LEMMA StopView ==
  ASSUME CIInv, NEW t \in Targets, OnStopped(t)
  PROVE  ViewOK'
<1>1. /\ TakenFrom(t, "stopped") /\ stops' = stops /\ setup' = setup /\ phase' = phase /\ lastStopped' = t
      /\ disp' = [disp EXCEPT ![t] = "chain"]
  BY Receptions DEF OnStopped, toolVars, adapterVars
<1>2. \A u \in Targets : Ordered(u) /\ Shown(u) /\ Seen(u) /\ Numbered(u)
  BY DEF CIInv, ViewOK, StopsOK
<1>3. disp'[t] = "chain" /\ stops[t] \in Nat
  BY <1>1, CIFacts DEF Typed
<1>4. \A u \in Targets : Ordered(u)'
  BY <1>1, <1>2, ShiftIf, OrderedSame
<1>5. Has(t, 1, "stopped")
  BY <1>1 DEF TakenFrom
<1>6. stops[t] # 0
  <2>1. queue[t][1].stop \in 1..stops[t]
    BY <1>2, <1>5 DEF Numbered
  <2>. QED
    BY <1>3, <2>1
<1>7. Shown(t)'
  <2>1. ASSUME phase[t] \notin {"suspended", "closed"}  PROVE \E j \in Nat : Has(t, j, "continued")'
    <3>1. PICK j \in Nat : j > 1 /\ Has(t, j, "continued")
      BY <1>2, <1>5, <2>1 DEF Ordered
    <3>2. j - 1 \in Nat /\ j - 1 >= 1 /\ (j - 1) + 1 = j
      BY <3>1
    <3>3. Has(t, j - 1, "continued")'
      BY <1>1, <3>1, <3>2 DEF TakenFrom
    <3>. QED
      BY <3>2, <3>3
  <2>. QED
    BY <1>1, <1>3, <2>1 DEF Shown
<1>8. \A u \in Targets : Shown(u)'
  BY <1>1, <1>7 DEF Shown
<1>9. \A u \in Targets : Seen(u)'
  BY <1>1, <1>3, <1>6 DEF Seen
<1>. QED
  BY <1>4, <1>8, <1>9 DEF ViewOK

(* The dispatcher takes a resumption: no pause is shown. *)
LEMMA ContinuedView ==
  ASSUME CIInv, NEW t \in Targets, OnContinued(t)
  PROVE  ViewOK'
<1>1. /\ TakenFrom(t, "continued") /\ stops' = stops /\ setup' = setup /\ phase' = phase
      /\ lastStopped' = Nobody
      /\ disp' = disp /\ disp[t] = "recv"
  BY Receptions DEF OnContinued, Receives, toolVars, adapterVars
<1>2. \A u \in Targets : Ordered(u) /\ Shown(u) /\ Seen(u) /\ HasPaused(u)
  BY DEF CIInv, ViewOK, StopsOK
<1>3. Nobody \notin Targets
  BY CIFacts, ChildFacts
<1>4. \A u \in Targets : Ordered(u)'
  BY <1>1, <1>2, ShiftIf, OrderedSame
<1>5. Has(t, 1, "continued") /\ 1 \in Nat
  BY <1>1 DEF TakenFrom
<1>6. stops[t] # 0
  BY <1>2, <1>5 DEF HasPaused
<1>7. \A u \in Targets : Shown(u)'
  BY <1>1, <1>3 DEF Shown
<1>8. Seen(t)'
  <2>1. ASSUME phase[t] = "suspended"  PROVE \E j \in Nat : Has(t, j, "stopped")'
    <3>1. PICK j \in Nat : j > 1 /\ Has(t, j, "stopped")
      BY <1>2, <1>5, <2>1 DEF Ordered
    <3>2. j - 1 \in Nat /\ j - 1 >= 1 /\ (j - 1) + 1 = j
      BY <3>1
    <3>3. Has(t, j - 1, "stopped")'
      BY <1>1, <3>1, <3>2 DEF TakenFrom
    <3>. QED
      BY <3>2, <3>3
  <2>. QED
    BY <1>1, <2>1 DEF Seen
<1>9. \A u \in Targets \ {t} : Seen(u)'
  BY <1>1, <1>6 DEF Seen
<1>. QED
  BY <1>4, <1>7, <1>8, <1>9 DEF ViewOK

(* A pause, and the end of one: the news comes last in the channel. *)
LEMMA PauseView ==
  ASSUME CIInv, NEW t \in Targets, Pause(t)
  PROVE  ViewOK'
<1>1. PICK k \in Nat : AddedTo(t, StopEvent(stops[t] + 1), k)
  BY Emissions
<1>2. /\ stops' = [stops EXCEPT ![t] = @ + 1] /\ setup' = setup /\ disp' = disp
      /\ lastStopped' = lastStopped
      /\ phase' = [phase EXCEPT ![t] = "suspended"]
  BY DEF Pause, sharedVars
<1>3. \A u \in Targets : Ordered(u) /\ Shown(u) /\ Seen(u)
  BY DEF CIInv, ViewOK
<1>4. /\ phase'[t] = "suspended" /\ \A u \in Targets \ {t} : phase'[u] = phase[u]
      /\ \A u \in Targets : stops[u] # 0 => stops'[u] # 0
  BY <1>2, CIFacts DEF Typed
<1>5. \A u \in Targets \ {t} : \A i \in Nat : \A n : Has(u, i, n)' <=> Has(u, i, n)
  BY <1>1 DEF AddedTo
<1>6. Has(t, k, "stopped")' /\ \A i \in Nat : \A n : Has(t, i, n) => i < k
  BY <1>1 DEF AddedTo, StopEvent
<1>7. \A i \in Nat : Has(t, i, "continued")' => Has(t, i, "continued")
  BY <1>1 DEF AddedTo, StopEvent
<1>8. \A u \in Targets \ {t} : Ordered(u)' /\ Shown(u)'
  BY <1>2, <1>3, <1>4, <1>5 DEF Ordered, Shown
<1>9. Ordered(t)'
  <2>1. \A i \in Nat : Has(t, i, "continued")' => k > i
    BY <1>6, <1>7
  <2>. QED
    BY <1>4, <1>6, <2>1 DEF Ordered
<1>10. Shown(t)'
  BY <1>2, <1>3, <1>4 DEF Shown
<1>11. Seen(t)'
  BY <1>6 DEF Seen
<1>12. Heard' = Heard
  BY <1>2 DEF Heard, At
<1>13. \A u \in Targets \ {t} : Seen(u)'
  BY <1>2, <1>3, <1>4, <1>5, <1>12 DEF Seen
<1>. QED
  BY <1>8, <1>9, <1>10, <1>11, <1>13 DEF ViewOK

(* A resumption comes last in the channel.                                 *)
LEMMA ResumeView ==
  ASSUME CIInv, NEW t \in Targets, Resume(t)
  PROVE  ViewOK'
<1>1. PICK k \in Nat : AddedTo(t, Event("continued"), k)
  BY Emissions
<1>2. /\ stops' = stops /\ setup' = setup /\ disp' = disp /\ lastStopped' = lastStopped
      /\ phase' = [phase EXCEPT ![t] = "running"]
  BY DEF Resume, sharedVars, toolVars
<1>3. \A u \in Targets : Ordered(u) /\ Shown(u) /\ Seen(u)
  BY DEF CIInv, ViewOK
<1>4. phase'[t] = "running" /\ \A u \in Targets \ {t} : phase'[u] = phase[u]
  BY <1>2, CIFacts DEF Typed
<1>5. \A u \in Targets \ {t} : \A i \in Nat : \A n : Has(u, i, n)' <=> Has(u, i, n)
  BY <1>1 DEF AddedTo
<1>6. Has(t, k, "continued")' /\ \A i \in Nat : \A n : Has(t, i, n) => i < k
  BY <1>1 DEF AddedTo, Event
<1>7. \A i \in Nat : Has(t, i, "stopped")' => Has(t, i, "stopped")
  BY <1>1 DEF AddedTo, Event
<1>8. \A u \in Targets \ {t} : Ordered(u)' /\ Shown(u)'
  BY <1>2, <1>3, <1>4, <1>5 DEF Ordered, Shown
<1>9. Ordered(t)'
  <2>1. \A i \in Nat : Has(t, i, "stopped")' => k > i
    BY <1>6, <1>7
  <2>. QED
    BY <1>4, <1>6, <2>1 DEF Ordered
<1>10. Shown(t)'
  BY <1>2, <1>3, <1>6 DEF Shown
<1>11. Seen(t)'
  BY <1>4 DEF Seen
<1>12. Heard' = Heard
  BY <1>2 DEF Heard, At
<1>13. \A u \in Targets \ {t} : Seen(u)'
  BY <1>2, <1>3, <1>4, <1>5, <1>12 DEF Seen
<1>. QED
  BY <1>8, <1>9, <1>10, <1>11, <1>13 DEF ViewOK

(* The pause that is shown is one.                                         *)
LEMMA ViewStep ==
  ASSUME CIInv, [ChildNext]_childVars
  PROVE  ViewOK'
<1>. USE DEF childVars, adapterVars, sharedVars, toolVars
<1>a. /\ Parent \notin Children /\ Parent \notin Debugpy /\ Parent \in Targets
      /\ Debugpy \subseteq Children /\ Targets = {Parent} \cup Children /\ Leaving \subseteq Children
      /\ \A u \in Targets : At(u) \in Positions(u) /\ (Begun(u) <=> At(u) \notin Dormant \cup {"failed"})
  BY CIFacts, ChildFacts, ChildAssumption
<1>b. Typed /\ Channels /\ ChildTypeOK /\ HandshakesOK
  BY CIFacts
<1>c. ASSUME \A u \in Targets : \E d \in 0..1 : Shift(u, d), Keeps("stopped"), Keeps("continued"),
             phase' = phase, lastStopped' = lastStopped, stops' = stops, Heard' = Heard,
             \A u \in Targets : disp'[u] = "off" => disp[u] = "off"
      PROVE  ViewOK'
  BY <1>c, ViewSame
<1>e. Quiet => (\A u \in Targets : \E d \in 0..1 : Shift(u, d)) /\ Keeps("stopped") /\ Keeps("continued")
  BY <1>a, KeepsIf, ShiftIf
<1>f. Stayed => Heard' = Heard
  BY HeardSame DEF Stayed
<1>g. Stayed /\ Quiet /\ stops' = stops /\ lastStopped' = lastStopped /\ phase' = phase /\ disp' = disp
        => ViewOK'
  BY <1>c, <1>e, <1>f
<1>h. ASSUME NEW t \in Targets, NEW n, TakenFrom(t, n), n \notin {"stopped", "continued"}
      PROVE  (\A u \in Targets : \E d \in 0..1 : Shift(u, d)) /\ Keeps("stopped") /\ Keeps("continued")
  BY <1>h, KeepsIf, ShiftIf
<1>i. ASSUME NEW t \in Targets, NEW e \in EventType, NEW k \in Nat, AddedTo(t, e, k),
             e.name \notin {"stopped", "continued"}
      PROVE  (\A u \in Targets : \E d \in 0..1 : Shift(u, d)) /\ Keeps("stopped") /\ Keeps("continued")
  BY <1>i, KeepsIf, ShiftIf
<1>1. CASE Supervise
  <2>1. PICK c \in Children \ Debugpy, at \in {"ignored", "initialize"} :
               At(c) = "queued" /\ setup' = [setup EXCEPT ![c] = [at |-> at, snap |-> store]]
    BY <1>1, Supervised
  <2>2. At(c)' = at /\ \A u \in Targets \ {c} : At(u)' = At(u)
    BY <1>a, <1>b, <2>1 DEF Channels, At
  <2>3. Quiet /\ stops' = stops /\ lastStopped' = lastStopped /\ phase' = phase /\ disp' = disp
    BY <1>1, SameQueue DEF Supervise
  <2>4. Heard' = Heard
    BY <2>1, <2>2, HeardSame
  <2>. QED
    BY <1>c, <1>e, <2>3, <2>4
<1>2. ASSUME NEW t \in Targets, Initialize(t)
      PROVE  ViewOK'
  <2>1. MovedTo(t, "await") /\ At(t) = "initialize"
    BY <1>2, <1>a, Steps DEF Initialize
  <2>2. stops' = stops /\ lastStopped' = lastStopped /\ phase' = phase
    BY <1>2 DEF Initialize
  <2>3. \A u \in Targets : disp'[u] = "off" => disp[u] = "off"
    BY <1>2, <1>b DEF Initialize, Typed
  <2>4. Quiet
    BY <1>2, SameQueue DEF Initialize
  <2>5. Heard' = Heard
    BY <2>1, HeardSame DEF MovedTo
  <2>. QED
    BY <1>c, <1>e, <2>2, <2>3, <2>4, <2>5
<1>3. ASSUME NEW t \in Targets, AwaitInitialized(t)
      PROVE  ViewOK'
  <2>1. MovedTo(t, IF t = Parent THEN "breakpoints" ELSE IF t \in Debugpy THEN "publish" ELSE "forward")
          /\ At(t) = "await"
    BY <1>3, <1>a, Steps DEF AwaitInitialized
  <2>2. stops' = stops /\ lastStopped' = lastStopped /\ phase' = phase
    BY <1>3 DEF AwaitInitialized
  <2>3. \A u \in Targets : disp'[u] = "off" => disp[u] = "off"
    BY <1>3, <1>b DEF AwaitInitialized, Typed
  <2>4. (\A u \in Targets : \E d \in 0..1 : Shift(u, d)) /\ Keeps("stopped") /\ Keeps("continued")
    <3>1. Quiet \/ TakenFrom(t, "initialized")
      BY <1>3, Receptions
    <3>. QED
      BY <1>e, <1>h, <3>1
  <2>5. Heard' = Heard
    BY <2>1, HeardSame DEF MovedTo
  <2>. QED
    BY <1>c, <1>e, <2>2, <2>3, <2>4, <2>5
<1>4. ASSUME NEW t \in Targets, TimeOut(t)
      PROVE  ViewOK'
  <2>1. CASE t # Parent
    BY <1>4, <1>a, <2>1, ForgottenView
  <2>2. CASE t = Parent
    <3>1. stops' = stops /\ lastStopped' = lastStopped /\ phase' = phase /\ disp' = disp /\ Quiet
      BY <1>4, <2>2, SameQueue DEF TimeOut
    <3>2. Heard' = Heard
      BY <1>4, <2>2, Steps, HeardSame DEF MovedTo
    <3>. QED
      BY <1>c, <1>e, <3>1, <3>2
  <2>. QED
    BY <2>1, <2>2
<1>5. CASE LaunchBreakpoints
  <2>1. MovedTo(Parent, "configure") /\ At(Parent) = "breakpoints"
    BY <1>5, <1>a, Steps DEF LaunchBreakpoints
  <2>2. stops' = stops /\ lastStopped' = lastStopped /\ phase' = phase
    BY <1>5 DEF LaunchBreakpoints
  <2>3. \A u \in Targets : disp'[u] = "off" => disp[u] = "off"
    BY <1>5, <1>b DEF LaunchBreakpoints, Typed
  <2>4. Quiet
    BY <1>5, SameQueue DEF LaunchBreakpoints
  <2>5. Heard' = Heard
    BY <2>1, HeardSame DEF MovedTo
  <2>. QED
    BY <1>c, <1>e, <2>2, <2>3, <2>4, <2>5
<1>6. ASSUME NEW t \in Targets, Forward(t)
      PROVE  ViewOK'
  <2>1. MovedTo(t, "configure") /\ At(t) = "forward"
    BY <1>6, <1>a, Steps DEF Forward
  <2>2. stops' = stops /\ lastStopped' = lastStopped /\ phase' = phase
    BY <1>6 DEF Forward
  <2>3. \A u \in Targets : disp'[u] = "off" => disp[u] = "off"
    BY <1>6, <1>b DEF Forward, Typed
  <2>4. Quiet
    BY <1>6, SameQueue DEF Forward
  <2>5. Heard' = Heard
    BY <2>1, HeardSame DEF MovedTo
  <2>. QED
    BY <1>c, <1>e, <2>2, <2>3, <2>4, <2>5
<1>7. ASSUME NEW t \in Targets, Configure(t)
      PROVE  ViewOK'
  <2>1. MovedTo(t, IF t = Parent THEN "confirm" ELSE IF t \in Debugpy THEN "await" ELSE "publish")
          /\ At(t) = "configure"
    BY <1>7, <1>a, Steps DEF Configure
  <2>2. stops' = stops /\ lastStopped' = lastStopped /\ phase' = phase
    BY <1>7 DEF Configure
  <2>3. \A u \in Targets : disp'[u] = "off" => disp[u] = "off"
    BY <1>7, <1>b DEF Configure, Typed
  <2>4. Quiet
    BY <1>7, SameQueue DEF Configure
  <2>5. Heard' = Heard
    BY <2>1, HeardSame DEF MovedTo
  <2>. QED
    BY <1>c, <1>e, <2>2, <2>3, <2>4, <2>5
<1>8. CASE Confirm
  <2>1. MovedTo(Parent, "attached") /\ At(Parent) = "confirm"
    BY <1>8, <1>a, Steps DEF Confirm
  <2>2. stops' = stops /\ lastStopped' = lastStopped /\ phase' = phase
    BY <1>8 DEF Confirm
  <2>3. \A u \in Targets : disp'[u] = "off" => disp[u] = "off"
    BY <1>8, <1>b DEF Confirm, Typed
  <2>4. Quiet
    BY <1>8, SameQueue DEF Confirm
  <2>5. Heard' = Heard
    BY <2>1, HeardSame DEF MovedTo
  <2>. QED
    BY <1>c, <1>e, <2>2, <2>3, <2>4, <2>5
<1>9. ASSUME NEW t \in Targets, Publish(t)
      PROVE  ViewOK'
  <2>1. MovedTo(t, "attached") /\ At(t) = "publish"
    BY <1>9, <1>a, Steps DEF Publish
  <2>2. stops' = stops /\ lastStopped' = lastStopped /\ phase' = phase
    BY <1>9 DEF Publish
  <2>3. \A u \in Targets : disp'[u] = "off" => disp[u] = "off"
    BY <1>9, <1>b DEF Publish, Typed
  <2>4. Quiet
    BY <1>9, SameQueue DEF Publish
  <2>5. Heard' = Heard
    BY <2>1, HeardSame DEF MovedTo
  <2>. QED
    BY <1>c, <1>e, <2>2, <2>3, <2>4, <2>5
<1>10. ASSUME NEW t \in Targets, OnInitialized(t)
      PROVE  ViewOK'
  <2>1. Stayed /\ TakenFrom(t, "initialized") /\ stops' = stops /\ lastStopped' = lastStopped
          /\ phase' = phase /\ disp' = disp
    BY <1>10, SameSetup, Receptions DEF OnInitialized
  <2>. QED
    BY <1>c, <1>f, <1>h, <2>1
<1>11. ASSUME NEW t \in Targets, OnSpawn(t)
      PROVE  ViewOK'
  <2>1. PICK c \in Children, at \in {"ignored", "queued", "configure"} :
               At(c) = "asked" /\ setup' = [setup EXCEPT ![c].at = at]
    BY <1>11, Spawned
  <2>2. At(c)' = at /\ \A u \in Targets \ {c} : At(u)' = At(u)
    BY <1>a, <1>b, <2>1, Moved DEF Channels, Places
  <2>3. TakenFrom(t, "spawn") /\ stops' = stops /\ lastStopped' = lastStopped /\ phase' = phase
          /\ disp' = disp
    BY <1>11, Receptions DEF OnSpawn
  <2>4. Heard' = Heard
    BY <2>1, <2>2, HeardSame
  <2>. QED
    BY <1>c, <1>h, <2>3, <2>4
<1>12. ASSUME NEW t \in Targets, OnStopped(t)
      PROVE  ViewOK'
  BY <1>12, StopView
<1>13. ASSUME NEW t \in Targets, OnContinued(t)
      PROVE  ViewOK'
  BY <1>13, ContinuedView
<1>14. ASSUME NEW t \in Targets, Chain(t)
      PROVE  ViewOK'
  <2>1. Stayed /\ Quiet /\ stops' = stops /\ lastStopped' = lastStopped /\ phase' = phase
    BY <1>14, SameSetup, SameQueue DEF Chain
  <2>2. \A u \in Targets : disp'[u] = "off" => disp[u] = "off"
    BY <1>14, <1>b DEF Chain, Typed
  <2>. QED
    BY <1>c, <1>e, <1>f, <2>1, <2>2
<1>15. ASSUME NEW t \in Targets, Number(t)
      PROVE  ViewOK'
  <2>1. Stayed /\ Quiet /\ stops' = stops /\ lastStopped' = lastStopped /\ phase' = phase
    BY <1>15, SameSetup, SameQueue DEF Number
  <2>2. \A u \in Targets : disp'[u] = "off" => disp[u] = "off"
    BY <1>15, <1>b DEF Number, Typed
  <2>. QED
    BY <1>c, <1>e, <1>f, <2>1, <2>2
<1>16. ASSUME NEW t \in Targets, AppendEntry(t)
      PROVE  ViewOK'
  <2>1. Stayed /\ Quiet /\ stops' = stops /\ lastStopped' = lastStopped /\ phase' = phase
    BY <1>16, SameSetup, SameQueue DEF AppendEntry
  <2>2. \A u \in Targets : disp'[u] = "off" => disp[u] = "off"
    BY <1>16, <1>b DEF AppendEntry, Typed
  <2>. QED
    BY <1>c, <1>e, <1>f, <2>1, <2>2
<1>17. ASSUME NEW t \in Targets, Ends(t)
      PROVE  ViewOK'
  <2>1. Stayed /\ Quiet /\ stops' = stops /\ lastStopped' = lastStopped /\ phase' = phase
    BY <1>17, SameSetup, SameQueue DEF Ends
  <2>2. \A u \in Targets : disp'[u] = "off" => disp[u] = "off"
    BY <1>17, <1>b DEF Ends, Typed
  <2>. QED
    BY <1>c, <1>e, <1>f, <2>1, <2>2
<1>18. ASSUME NEW t \in Targets, ChainFails(t)
      PROVE  ViewOK'
  <2>1. Stayed /\ Quiet /\ stops' = stops /\ lastStopped' = lastStopped /\ phase' = phase
    BY <1>18, SameSetup, SameQueue DEF ChainFails
  <2>2. \A u \in Targets : disp'[u] = "off" => disp[u] = "off"
    BY <1>18, <1>b DEF ChainFails, Typed
  <2>. QED
    BY <1>c, <1>e, <1>f, <2>1, <2>2
<1>19. ASSUME NEW lines \in Lists, BeginSet(lines)
      PROVE  ViewOK'
  BY <1>19, <1>g, SameSetup, SameQueue DEF BeginSet
<1>20. CASE Install
  BY <1>20, <1>g, SameSetup, SameQueue DEF Install
<1>21. CASE Store
  BY <1>21, <1>g, SameSetup, SameQueue DEF Store
<1>22. CASE SetFails
  BY <1>22, <1>g, SameSetup, SameQueue DEF SetFails
<1>23. ASSUME NEW t \in Targets, Announce(t)
      PROVE  ViewOK'
  <2>1. PICK k \in Nat : AddedTo(t, Event("initialized"), k)
    BY <1>23, Emissions
  <2>2. Event("initialized") \in EventType /\ Event("initialized").name \notin {"stopped", "continued"}
    BY <2>1 DEF AddedTo, Event
  <2>3. Stayed /\ stops' = stops /\ lastStopped' = lastStopped /\ disp' = disp
    BY <1>23, SameSetup DEF Announce
  <2>4. \A u \in Targets : (phase[u] \in {"suspended", "closed"} => phase'[u] \in {"suspended", "closed"})
          /\ (phase'[u] = "suspended" => phase[u] = "suspended")
    BY <1>23, <1>b DEF Announce, Typed
  <2>5. (\A u \in Targets : \E d \in 0..1 : Shift(u, d)) /\ Keeps("stopped") /\ Keeps("continued")
    BY <1>i, <2>1, <2>2
  <2>. QED
    BY <1>f, <2>3, <2>4, <2>5, ViewSame
<1>24. ASSUME NEW t \in Targets, Start(t)
      PROVE  ViewOK'
  <2>1. Stayed /\ Quiet /\ stops' = stops /\ lastStopped' = lastStopped /\ disp' = disp
    BY <1>24, SameSetup, SameQueue DEF Start
  <2>2. \A u \in Targets : (phase[u] \in {"suspended", "closed"} => phase'[u] \in {"suspended", "closed"})
          /\ (phase'[u] = "suspended" => phase[u] = "suspended")
    BY <1>24, <1>a, <1>b DEF Start, Typed
  <2>. QED
    BY <1>e, <1>f, <2>1, <2>2, ViewSame
<1>25. ASSUME NEW t \in Targets, Reannounce(t)
      PROVE  ViewOK'
  <2>1. PICK k \in Nat : AddedTo(t, Event("initialized"), k)
    BY <1>25, Emissions
  <2>2. Event("initialized") \in EventType /\ Event("initialized").name \notin {"stopped", "continued"}
    BY <2>1 DEF AddedTo, Event
  <2>3. Stayed /\ stops' = stops /\ lastStopped' = lastStopped /\ disp' = disp
    BY <1>25, SameSetup DEF Reannounce
  <2>4. \A u \in Targets : (phase[u] \in {"suspended", "closed"} => phase'[u] \in {"suspended", "closed"})
          /\ (phase'[u] = "suspended" => phase[u] = "suspended")
    BY <1>25, <1>b DEF Reannounce, Typed
  <2>5. (\A u \in Targets : \E d \in 0..1 : Shift(u, d)) /\ Keeps("stopped") /\ Keeps("continued")
    BY <1>i, <2>1, <2>2
  <2>. QED
    BY <1>f, <2>3, <2>4, <2>5, ViewSame
<1>26. ASSUME NEW t \in Targets, NEW c \in Children, Spawn(t, c)
      PROVE  ViewOK'
  <2>1. At(c) = "none" /\ At(c)' = "asked" /\ \A u \in Targets \ {c} : At(u)' = At(u)
    BY <1>26, <1>a, <1>b, Moved DEF Spawn, Channels, Places
  <2>2. PICK k \in Nat : AddedTo(t, SpawnEvent(c), k)
    BY <1>26, Emissions
  <2>3. SpawnEvent(c) \in EventType /\ SpawnEvent(c).name \notin {"stopped", "continued"}
    BY <2>2 DEF AddedTo, SpawnEvent
  <2>4. stops' = stops /\ lastStopped' = lastStopped /\ phase' = phase /\ disp' = disp
    BY <1>26 DEF Spawn
  <2>5. Heard' = Heard
    BY <2>1, HeardSame
  <2>. QED
    BY <1>c, <1>i, <2>2, <2>3, <2>4, <2>5
<1>27. ASSUME NEW t \in Targets, Pause(t)
      PROVE  ViewOK'
  BY <1>27, PauseView
<1>28. ASSUME NEW t \in Targets, Resume(t)
      PROVE  ViewOK'
  BY <1>28, ResumeView
<1>29. ASSUME NEW c \in Leaving, Close(c)
      PROVE  ViewOK'
  <2>1. Stayed /\ Quiet /\ stops' = stops /\ lastStopped' = lastStopped /\ disp' = disp
    BY <1>29, SameSetup, SameQueue DEF Close
  <2>2. \A u \in Targets : (phase[u] \in {"suspended", "closed"} => phase'[u] \in {"suspended", "closed"})
          /\ (phase'[u] = "suspended" => phase[u] = "suspended")
    BY <1>29, <1>a, <1>b DEF Close, Typed
  <2>. QED
    BY <1>e, <1>f, <2>1, <2>2, ViewSame
<1>30. CASE UNCHANGED childVars
  BY <1>30, <1>g, SameSetup, SameQueue
<1>. QED
  BY <1>1, <1>2, <1>3, <1>4, <1>5, <1>6, <1>7, <1>8, <1>9, <1>10, <1>11, <1>12, <1>13, <1>14, <1>15, <1>16,
     <1>17, <1>18, <1>19, <1>20, <1>21, <1>22, <1>23, <1>24, <1>25, <1>26, <1>27, <1>28, <1>29, <1>30
  DEF ChildNext, Handshake, Dispatch, Tool, Adapter

-----------------------------------------------------------------------------
(* Breakpoints *)

(* The handshakes that are under way, before and after a step. *)
LEMMA BegunAt ==
  ASSUME NEW t \in Targets, NEW at \in Positions(t)
  PROVE  at \in Range(Stages(t)) <=> at \notin Dormant \cup {"failed"}
<1>1. CASE t = Parent
  BY <1>1, StagesOf, ChildAssumption DEF Positions, Dormant
<1>2. CASE t \in Debugpy
  BY <1>2, StagesOf, ChildAssumption DEF Positions, Dormant
<1>3. CASE t \notin Debugpy \cup {Parent}
  BY <1>3, StagesOf DEF Positions, Dormant
<1>. QED
  BY <1>1, <1>2, <1>3

(* The handshakes that are under way, before ...                           *)
LEMMA WindowIs ==
  ASSUME CIInv, NEW t \in Targets
  PROVE  t \in InWindow
    <=> At(t) \notin Dormant \cup {"failed"} /\ (At(t) # "attached" \/ phase[t] = "announced")
  BY CIFacts, ChildFacts DEF InWindow

(* ... and after a step.                                                   *)
LEMMA WindowNext ==
  ASSUME CIInv, [ChildNext]_childVars, NEW t
  PROVE  t \in InWindow' <=> /\ t \in Targets /\ setup'[t].at \notin Dormant \cup {"failed"}
                             /\ setup'[t].at # "attached" \/ phase'[t] = "announced"
<1>1. \A u \in Targets : Placed(u)'
  BY PlacedStep
<1>2. ASSUME t \in Targets
      PROVE setup'[t].at \in Range(Stages(t)) <=> setup'[t].at \notin Dormant \cup {"failed"}
  <2>1. setup'[t].at \in Positions(t)
    BY <1>1, <1>2 DEF Placed, At
  <2>. QED
    BY <1>2, <2>1, BegunAt
<1>. QED
  BY <1>2 DEF InWindow, Begun, At

(* Nobody moves. *)
LEMMA SyncSame ==
  ASSUME CIInv, [ChildNext]_childVars, Stayed, store' = store, bound' = bound, tool' = tool,
    active' = active,
         unsynced' = unsynced,
         \A u \in Targets : phase'[u] = "announced" => phase[u] = "announced" \/ At(u) = "await"
  PROVE  SyncOK'
<1>1. SyncOK /\ Typed
  BY CIFacts DEF CIInv
<1>2. \A u \in Targets : setup'[u] = setup[u] /\ setup'[u].at = At(u)
  BY DEF Stayed, At
<1>3. InWindow' \subseteq InWindow
  BY <1>2, WindowIs, WindowNext DEF Dormant
<1>4. PICK g : g = tool.target
  OBVIOUS
<1>5. Calling'
  BY <1>1, <1>2, <1>3 DEF SyncOK, Calling, At
<1>6. \A u \in Targets : Covered(u)'
  BY <1>1, <1>2 DEF SyncOK, Covered, At
<1>7. Current'
  BY <1>1, <1>2 DEF SyncOK, Current, At, Typed
<1>. QED
  BY <1>5, <1>6, <1>7 DEF SyncOK

(* One handshake goes on. *)
LEMMA SyncMoved ==
  ASSUME CIInv, [ChildNext]_childVars, NEW t \in Targets, NEW at, MovedTo(t, at),
         At(t) \notin Dormant \cup {"failed", "attached"},
         tool' = tool, unsynced' = unsynced, phase' = phase, store' = store,
         \A u \in Targets \ {t} : bound'[u] = bound[u],
         active' = active \/ (active' = t /\ at = "attached"),
         Covered(t)',
         at = "attached" => bound'[t] = bound[t] /\ (t \in unsynced \/ bound[t] = store)
  PROVE  SyncOK'
<1>1. SyncOK /\ Typed
  BY CIFacts DEF CIInv
<1>2. setup'[t].at = at /\ \A u \in Targets \ {t} : setup'[u] = setup[u] /\ setup'[u].at = At(u)
  BY DEF MovedTo, At
<1>3. t \in InWindow
  BY WindowIs
<1>4. InWindow' \subseteq InWindow
  BY <1>2, <1>3, WindowIs, WindowNext
<1>5. Calling'
  <2>1. SUFFICES ASSUME tool.pc # "idle"  PROVE Calling'
    BY DEF Calling
  <2>2. InWindow \subseteq unsynced /\ tool.target \in Targets
          /\ (active = tool.target \/ active \in unsynced)
    BY <1>1, <2>1 DEF SyncOK, Calling
  <2>3. active' = tool.target \/ active' \in unsynced
    BY <1>3, <2>2
  <2>4. CASE tool.late
    <3>1. At(tool.target) = "attached" /\ (tool.pc = "storing" => bound[tool.target] = tool.lines)
      BY <1>1, <2>1, <2>4 DEF SyncOK, Calling
    <3>2. tool.target # t
      BY <3>1
    <3>3. setup'[tool.target].at = "attached" /\ bound'[tool.target] = bound[tool.target]
      BY <1>2, <2>2, <3>1, <3>2
    <3>. QED
      BY <1>4, <2>2, <2>3, <2>4, <3>1, <3>3 DEF Calling, At
  <2>5. CASE ~tool.late
    <3>1. tool.target = Parent /\ (Parent \in unsynced \/ At(Parent) = "failed")
      BY <1>1, <2>1, <2>5 DEF SyncOK, Calling
    <3>2. Parent \in unsynced \/ setup'[Parent].at = "failed"
      <4>1. At(Parent) = "failed" => Parent \in Targets \ {t}
        BY <1>1, <2>2, <3>1
      <4>. QED
        BY <1>2, <3>1, <4>1
    <3>. QED
      BY <1>4, <2>2, <2>3, <2>5, <3>1, <3>2 DEF Calling, At
  <2>. QED
    BY <2>4, <2>5
<1>6. \A u \in Targets : Covered(u)'
  <2>1. \A u \in Targets \ {t} : Covered(u)'
    BY <1>1, <1>2 DEF SyncOK, Covered, At
  <2>. QED
    BY <2>1
<1>7. Current'
  <2>1. SUFFICES ASSUME tool.pc # "storing", setup'[active'].at = "attached", active' \notin unsynced
                 PROVE  bound'[active'] = store
    BY DEF Current, At
  <2>2. CASE active' = t
    BY <1>2, <2>1, <2>2
  <2>3. CASE active' # t
    <3>1. active' = active /\ active \in Targets /\ At(active) = "attached"
      BY <1>1, <1>2, <2>1, <2>3 DEF Typed
    <3>. QED
      BY <1>1, <2>1, <2>3, <3>1 DEF SyncOK, Current
  <2>. QED
    BY <2>2, <2>3
<1>. QED
  BY <1>5, <1>6, <1>7 DEF SyncOK

(* A child that had no handshake is asked for, ignored or begins. *)
LEMMA SyncPlaced ==
  ASSUME CIInv, [ChildNext]_childVars, NEW c \in Children, At(c) \in Dormant,
         \A u \in Targets \ {c} : setup'[u] = setup[u],
         \/ setup'[c].at \in Dormant
         \/ setup'[c].at = "initialize" /\ setup'[c].snap = store /\ c \notin Debugpy
              /\ (tool.pc # "idle" => c \in unsynced')
         \/ setup'[c].at # "attached" /\ c \in unsynced',
         unsynced \subseteq unsynced', unsynced' \subseteq unsynced \cup {c},
         tool' = tool, phase' = phase, store' = store, bound' = bound, active' = active
  PROVE  SyncOK'
<1>1. SyncOK /\ Typed /\ c \in Targets
  BY CIFacts DEF CIInv, Targets
<1>2. \A u \in Targets \ {c} : setup'[u] = setup[u] /\ setup'[u].at = At(u)
  BY DEF At
<1>3. setup'[c].at # "attached" /\ At(c) # "attached"
  BY DEF Dormant
<1>4. Calling'
  <2>1. SUFFICES ASSUME tool.pc # "idle"  PROVE Calling'
    BY DEF Calling
  <2>2. InWindow \subseteq unsynced /\ tool.target \in Targets
          /\ (active = tool.target \/ active \in unsynced)
    BY <1>1, <2>1 DEF SyncOK, Calling
  <2>3. InWindow' \subseteq unsynced'
    <3>1. \A u \in InWindow' : u # c => u \in InWindow
      BY <1>2, WindowIs, WindowNext
    <3>2. c \in InWindow' => c \in unsynced'
      BY <2>1, WindowNext
    <3>. QED
      BY <2>2, <3>1, <3>2
  <2>4. CASE tool.late
    <3>1. At(tool.target) = "attached" /\ (tool.pc = "storing" => bound[tool.target] = tool.lines)
      BY <1>1, <2>1, <2>4 DEF SyncOK, Calling
    <3>2. setup'[tool.target].at = "attached"
      BY <1>2, <1>3, <2>2, <3>1
    <3>. QED
      BY <2>2, <2>3, <2>4, <3>1, <3>2 DEF Calling, At
  <2>5. CASE ~tool.late
    <3>1. tool.target = Parent /\ (Parent \in unsynced \/ At(Parent) = "failed")
      BY <1>1, <2>1, <2>5 DEF SyncOK, Calling
    <3>2. setup'[Parent].at = At(Parent)
      BY <1>2, <2>2, <3>1, ChildAssumption
    <3>. QED
      BY <2>2, <2>3, <2>5, <3>1, <3>2 DEF Calling, At
  <2>. QED
    BY <2>4, <2>5
<1>5. \A u \in Targets \ {c} : Covered(u)'
  BY <1>1, <1>2 DEF SyncOK, Covered, At
<1>6. Covered(c)'
  BY <1>3 DEF Covered, At, Dormant
<1>7. Current'
  <2>1. SUFFICES ASSUME tool.pc # "storing", setup'[active].at = "attached", active \notin unsynced'
                 PROVE  bound[active] = store
    BY DEF Current, At
  <2>2. active # c /\ active \in Targets /\ active \notin unsynced
    BY <1>1, <1>3, <2>1 DEF Typed
  <2>3. At(active) = "attached"
    BY <1>2, <2>1, <2>2
  <2>. QED
    BY <1>1, <2>1, <2>2, <2>3 DEF SyncOK, Current
<1>. QED
  BY <1>1, <1>4, <1>5, <1>6, <1>7 DEF SyncOK

(* The launch's breakpoints: there is nobody else yet. *)
LEMMA SyncLaunch ==
  ASSUME CIInv, [ChildNext]_childVars, LaunchBreakpoints
  PROVE  SyncOK'
<1>a. /\ Parent \notin Children /\ Parent \in Targets /\ Targets = {Parent} \cup Children
      /\ Parent \notin Debugpy
  BY CIFacts, ChildFacts
<1>1. /\ At(Parent) = "breakpoints" /\ bound' = [bound EXCEPT ![active] = Initial] /\ store' = Initial
      /\ unsynced' = IF tool.pc # "idle" THEN unsynced \cup {Parent} ELSE unsynced
      /\ tool' = tool /\ active' = active /\ phase' = phase
  BY DEF LaunchBreakpoints
<1>2. SyncOK /\ Typed
  BY CIFacts DEF CIInv
<1>3. active = Parent /\ \A c \in Children : At(c) = "none"
  BY <1>1 DEF CIInv, HandshakesOK, Early
<1>4. MovedTo(Parent, "configure")
  BY <1>a, Steps
<1>5. setup'[Parent].at = "configure" /\ \A c \in Children : setup'[c].at = "none"
  BY <1>a, <1>3, <1>4 DEF MovedTo, At
<1>6. bound'[Parent] = store'
  BY <1>a, <1>1, <1>2, <1>3 DEF Typed
<1>7. Calling'
  <2>1. SUFFICES ASSUME tool.pc # "idle"  PROVE Calling'
    BY <1>1 DEF Calling
  <2>2. tool.target \in Targets /\ ~tool.late /\ tool.target = Parent
    BY <1>a, <1>1, <1>2, <1>3, <2>1 DEF SyncOK, Calling
  <2>3. InWindow' \subseteq {Parent}
    BY <1>a, <1>5, WindowNext DEF Dormant
  <2>. QED
    BY <1>1, <1>3, <2>1, <2>2, <2>3 DEF Calling, At
<1>8. \A u \in Targets : Covered(u)'
  BY <1>a, <1>5, <1>6 DEF Covered, At, Dormant
<1>9. Current'
  BY <1>1, <1>3, <1>5 DEF Current, At
<1>. QED
  BY <1>7, <1>8, <1>9 DEF SyncOK

(* A call begins, takes effect, and is recorded. *)
LEMMA SyncBegin ==
  ASSUME CIInv, [ChildNext]_childVars, NEW lines \in Lists, BeginSet(lines)
  PROVE  SyncOK'
<1>1. /\ tool.pc = "idle" /\ unsynced' = unsynced \cup InWindow /\ active' = active /\ store' = store
      /\ tool' = [pc |-> "asking", target |-> active, lines |-> lines, late |-> At(active) = "attached"]
      /\ bound' = bound /\ phase' = phase /\ setup' = setup
  BY DEF BeginSet, adapterVars
<1>2. SyncOK /\ Typed /\ HandshakesOK /\ Parent \in Targets
  BY CIFacts DEF CIInv, Targets
<1>3. InWindow' = InWindow
  BY <1>1 DEF InWindow, Begun, At
<1>4. active \in Targets /\ (At(active) # "attached" => active = Parent)
  BY <1>2 DEF Typed, HandshakesOK
<1>5. At(Parent) \notin {"attached", "failed"} => Parent \in InWindow
  BY <1>2, WindowIs DEF HandshakesOK
<1>6. Calling'
  <2>1. /\ tool'.pc = "asking" /\ tool'.target = active
        /\ tool'.late <=> At(active) = "attached"
    BY <1>1
  <2>2. CASE At(active) = "attached"
    BY <1>1, <1>3, <1>4, <2>1, <2>2 DEF Calling, At
  <2>3. CASE At(active) # "attached"
    BY <1>1, <1>3, <1>4, <1>5, <2>1, <2>3 DEF Calling, At
  <2>. QED
    BY <2>2, <2>3
<1>7. \A u \in Targets : Covered(u)'
  BY <1>1, <1>2 DEF SyncOK, Covered, At
<1>8. Current'
  BY <1>1, <1>2 DEF SyncOK, Current, At
<1>. QED
  BY <1>6, <1>7, <1>8 DEF SyncOK

(* It takes effect ...                                                     *)
LEMMA SyncInstall ==
  ASSUME CIInv, [ChildNext]_childVars, Install
  PROVE  SyncOK'
<1>1. /\ tool.pc = "asking" /\ unsynced' = unsynced \cup InWindow /\ active' = active /\ store' = store
      /\ tool' = [tool EXCEPT !.pc = "storing"] /\ bound' = [bound EXCEPT ![tool.target] = tool.lines]
      /\ phase' = phase /\ setup' = setup
  BY DEF Install
<1>2. SyncOK /\ Typed
  BY CIFacts DEF CIInv
<1>3. InWindow' = InWindow
  BY <1>1 DEF InWindow, Begun, At
<1>4. PICK g : g = tool.target
  OBVIOUS
<1>5. /\ g \in Targets /\ (active = g \/ active \in unsynced)
      /\ IF tool.late THEN At(g) = "attached" ELSE g = Parent
           /\ (Parent \in unsynced \/ At(Parent) = "failed")
  BY <1>1, <1>2, <1>4 DEF SyncOK, Calling
<1>6. /\ tool'.pc = "storing" /\ tool'.target = g /\ tool'.late = tool.late /\ tool'.lines = tool.lines
      /\ bound'[g] = tool.lines /\ \A u \in Targets \ {g} : bound'[u] = bound[u]
  BY <1>1, <1>2, <1>4, <1>5 DEF Typed
<1>7. Calling'
  BY <1>1, <1>3, <1>5, <1>6 DEF Calling, At
<1>8. ASSUME NEW u \in Targets  PROVE Covered(u)'
  <2>1. CASE u \in InWindow \/ u \in unsynced
    BY <1>1, <2>1 DEF Covered
  <2>2. CASE u \notin InWindow /\ u \notin unsynced
    <3>1. At(u) \in Dormant \cup {"failed"} \/ (At(u) = "attached" /\ phase[u] # "announced")
      BY <2>2, WindowIs
    <3>2. u \in Debugpy => At(u) \in Dormant \cup {"attached"}
      BY <1>2, <2>2 DEF SyncOK, Covered
    <3>. QED
      BY <1>1, <3>1, <3>2 DEF Covered, At, Dormant
  <2>. QED
    BY <2>1, <2>2
<1>9. Current'
  BY <1>6 DEF Current
<1>. QED
  BY <1>7, <1>8, <1>9 DEF SyncOK

(* ... and is recorded.                                                    *)
LEMMA SyncStore ==
  ASSUME CIInv, [ChildNext]_childVars, Store
  PROVE  SyncOK'
<1>1. /\ tool.pc = "storing" /\ active' = active /\ store' = tool.lines /\ tool' = NoCall
      /\ unsynced' = (unsynced \cup InWindow) \ (IF tool.late THEN {tool.target} ELSE {})
      /\ bound' = bound /\ phase' = phase /\ setup' = setup
  BY DEF Store, adapterVars
<1>2. SyncOK /\ Typed
  BY CIFacts DEF CIInv
<1>3. PICK g : g = tool.target
  OBVIOUS
<1>4. /\ g \in Targets /\ (active = g \/ active \in unsynced)
      /\ IF tool.late THEN At(g) = "attached" /\ bound[g] = tool.lines
                      ELSE g = Parent /\ (Parent \in unsynced \/ At(Parent) = "failed")
  BY <1>1, <1>2, <1>3 DEF SyncOK, Calling
<1>5. Calling'
  BY <1>1 DEF Calling, NoCall
<1>6. ASSUME NEW u \in Targets, u \notin unsynced', u # g \/ ~tool.late
      PROVE  /\ At(u) \in Dormant \cup {"failed"} \/ (At(u) = "attached" /\ phase[u] # "announced")
             /\ u \in Debugpy => At(u) \in Dormant \cup {"attached"}
  <2>1. u \notin InWindow /\ u \notin unsynced
    BY <1>1, <1>3, <1>6
  <2>. QED
    BY <1>2, <2>1, WindowIs DEF SyncOK, Covered
<1>7. ASSUME NEW u \in Targets  PROVE Covered(u)'
  <2>1. CASE u = g /\ tool.late
    BY <1>1, <1>4, <2>1 DEF Covered, At
  <2>2. CASE u # g \/ ~tool.late
    BY <1>1, <1>6, <2>2 DEF Covered, At, Dormant
  <2>. QED
    BY <2>1, <2>2
<1>8. Current'
  <2>1. SUFFICES ASSUME At(active) = "attached", active \notin unsynced'  PROVE bound[active] = tool.lines
    BY <1>1 DEF Current, At
  <2>2. active = g /\ tool.late
    BY <1>1, <1>3, <1>4, <2>1
  <2>. QED
    BY <1>4, <2>2
<1>. QED
  BY <1>5, <1>7, <1>8 DEF SyncOK

(* The breakpoints follow.                                                 *)
LEMMA SyncStep ==
  ASSUME CIInv, [ChildNext]_childVars
  PROVE  SyncOK'
<1>. USE DEF childVars, adapterVars, sharedVars, toolVars
<1>a. /\ Parent \notin Children /\ Parent \notin Debugpy /\ Parent \in Targets
      /\ Debugpy \subseteq Children /\ Targets = {Parent} \cup Children /\ Leaving \subseteq Children
      /\ \A u \in Targets : At(u) \in Positions(u) /\ (Begun(u) <=> At(u) \notin Dormant \cup {"failed"})
  BY CIFacts, ChildFacts, ChildAssumption
<1>b. Typed /\ Channels /\ ChildTypeOK /\ HandshakesOK
  BY CIFacts
<1>c. SyncOK
  BY DEF CIInv
<1>d. Stayed /\ store' = store /\ bound' = bound /\ tool' = tool /\ active' = active /\ unsynced' = unsynced
        /\ phase' = phase => SyncOK'
  BY SyncSame
<1>1. CASE Supervise
  <2>1. PICK c \in Children \ Debugpy, at \in {"ignored", "initialize"} :
               /\ At(c) = "queued" /\ setup' = [setup EXCEPT ![c] = [at |-> at, snap |-> store]]
               /\ unsynced' = IF tool.pc # "idle" THEN unsynced \cup {c} ELSE unsynced
    BY <1>1, Supervised
  <2>2. tool' = tool /\ phase' = phase /\ store' = store /\ bound' = bound /\ active' = active
    BY <1>1 DEF Supervise
  <2>3. setup'[c].at = at /\ setup'[c].snap = store /\ \A u \in Targets \ {c} : setup'[u] = setup[u]
    BY <1>a, <1>b, <2>1 DEF Channels
  <2>4. At(c) \in Dormant /\ (at = "ignored" => at \in Dormant)
    BY <2>1 DEF Dormant
  <2>5. unsynced \subseteq unsynced' /\ unsynced' \subseteq unsynced \cup {c}
          /\ (tool.pc # "idle" => c \in unsynced')
    BY <2>1
  <2>. QED
    BY <2>1, <2>2, <2>3, <2>4, <2>5, SyncPlaced
<1>2. ASSUME NEW t \in Targets, Initialize(t)
      PROVE  SyncOK'
  <2>1. MovedTo(t, "await")
    BY <1>2, <1>a, Steps
  <2>2. /\ At(t) = "initialize" /\ At(t) \notin Dormant \cup {"failed", "attached"}
        /\ tool' = tool /\ unsynced' = unsynced /\ phase' = phase /\ store' = store
        /\ active' = active /\ bound' = bound
    BY <1>2 DEF Initialize, Dormant
  <2>3. Covered(t)
    BY <1>c DEF SyncOK
  <2>4. Covered(t)'
    BY <2>1, <2>2, <2>3, <1>2, Steps DEF Covered, MovedTo
  <2>. QED
    BY <2>1, <2>2, <2>4, SyncMoved
<1>3. ASSUME NEW t \in Targets, AwaitInitialized(t)
      PROVE  SyncOK'
  <2>1. MovedTo(t, IF t = Parent THEN "breakpoints" ELSE IF t \in Debugpy THEN "publish" ELSE "forward")
    BY <1>3, <1>a, Steps
  <2>2. /\ At(t) = "await" /\ At(t) \notin Dormant \cup {"failed", "attached"}
        /\ tool' = tool /\ unsynced' = unsynced /\ phase' = phase /\ store' = store
        /\ active' = active /\ bound' = bound
    BY <1>3 DEF AwaitInitialized, Dormant
  <2>3. Covered(t)
    BY <1>c DEF SyncOK
  <2>4. PICK p : p = IF t = Parent THEN "breakpoints" ELSE IF t \in Debugpy THEN "publish" ELSE "forward"
    OBVIOUS
  <2>5. Covered(t)'
    BY <1>a, <2>1, <2>2, <2>3, <2>4 DEF Covered, MovedTo, Dormant
  <2>. QED
    BY <2>1, <2>2, <2>4, <2>5, SyncMoved
<1>4. ASSUME NEW t \in Targets, TimeOut(t)
      PROVE  SyncOK'
  <2>1. MovedTo(t, "failed")
    BY <1>4, <1>a, Steps
  <2>2. /\ At(t) = "await" /\ At(t) \notin Dormant \cup {"failed", "attached"}
        /\ tool' = tool /\ unsynced' = unsynced /\ phase' = phase /\ store' = store
        /\ active' = active /\ bound' = bound
    BY <1>4 DEF TimeOut, Dormant
  <2>3. Covered(t)
    BY <1>c DEF SyncOK
  <2>4. Covered(t)'
    BY <1>a, <2>1, <2>2, <2>3 DEF Covered, MovedTo, Dormant
  <2>. QED
    BY <2>1, <2>2, <2>4, SyncMoved
<1>5. CASE LaunchBreakpoints
  BY <1>5, SyncLaunch
<1>6. ASSUME NEW t \in Targets, Forward(t)
      PROVE  SyncOK'
  <2>1. t \in Children \ Debugpy /\ MovedTo(t, "configure")
    BY <1>6, Steps
  <2>2. /\ At(t) = "forward" /\ At(t) \notin Dormant \cup {"failed", "attached"}
        /\ tool' = tool /\ unsynced' = unsynced /\ phase' = phase /\ store' = store
        /\ active' = active /\ bound' = [bound EXCEPT ![t] = setup[t].snap]
    BY <1>6 DEF Forward, Dormant
  <2>3. bound'[t] = setup[t].snap /\ \A u \in Targets \ {t} : bound'[u] = bound[u]
    BY <1>b, <2>2 DEF Typed
  <2>4. Covered(t) /\ t # Parent
    BY <1>a, <1>c, <2>1 DEF SyncOK
  <2>5. Covered(t)'
    BY <1>a, <2>1, <2>2, <2>3, <2>4 DEF Covered, MovedTo
  <2>. QED
    BY <2>1, <2>2, <2>3, <2>5, SyncMoved
<1>7. ASSUME NEW t \in Targets, Configure(t)
      PROVE  SyncOK'
  <2>1. MovedTo(t, IF t = Parent THEN "confirm" ELSE IF t \in Debugpy THEN "await" ELSE "publish")
    BY <1>7, <1>a, Steps
  <2>2. /\ At(t) = "configure" /\ At(t) \notin Dormant \cup {"failed", "attached"}
        /\ tool' = tool /\ unsynced' = unsynced /\ phase' = phase /\ store' = store
        /\ active' = active /\ bound' = bound
    BY <1>7 DEF Configure, Dormant
  <2>3. Covered(t)
    BY <1>c DEF SyncOK
  <2>4. PICK p : p = IF t = Parent THEN "confirm" ELSE IF t \in Debugpy THEN "await" ELSE "publish"
    OBVIOUS
  <2>5. Covered(t)'
    BY <1>a, <2>1, <2>2, <2>3, <2>4 DEF Covered, MovedTo, Dormant
  <2>. QED
    BY <2>1, <2>2, <2>4, <2>5, SyncMoved
<1>8. CASE Confirm
  <2>1. MovedTo(Parent, "attached")
    BY <1>8, <1>a, Steps
  <2>2. /\ At(Parent) = "confirm" /\ At(Parent) \notin Dormant \cup {"failed", "attached"}
        /\ tool' = tool /\ unsynced' = unsynced /\ phase' = phase /\ store' = store
        /\ active' = active /\ bound' = bound
    BY <1>8 DEF Confirm, Dormant
  <2>3. Covered(Parent)
    BY <1>a, <1>c DEF SyncOK
  <2>4. Covered(Parent)'
    BY <1>a, <2>1, <2>2, <2>3 DEF Covered, MovedTo
  <2>5. Parent \in unsynced \/ bound[Parent] = store
    BY <2>2, <2>3 DEF Covered
  <2>. QED
    BY <1>a, <2>1, <2>2, <2>4, <2>5, SyncMoved
<1>9. ASSUME NEW t \in Targets, Publish(t)
      PROVE  SyncOK'
  <2>1. t \in Children /\ MovedTo(t, "attached")
    BY <1>9, Steps
  <2>2. /\ At(t) = "publish" /\ At(t) \notin Dormant \cup {"failed", "attached"}
        /\ tool' = tool /\ unsynced' = unsynced /\ phase' = phase /\ store' = store
        /\ active' = t /\ bound' = bound
    BY <1>9 DEF Publish, Dormant
  <2>3. Covered(t)
    BY <1>c DEF SyncOK
  <2>4. Covered(t)'
    BY <2>1, <2>2, <2>3 DEF Covered, MovedTo
  <2>5. t \in unsynced \/ bound[t] = store
    BY <2>2, <2>3 DEF Covered
  <2>. QED
    BY <2>1, <2>2, <2>4, <2>5, SyncMoved
<1>10. ASSUME NEW t \in Targets, OnInitialized(t)
      PROVE  SyncOK'
  BY <1>10, <1>d, SameSetup DEF OnInitialized
<1>11. ASSUME NEW t \in Targets, OnSpawn(t)
      PROVE  SyncOK'
  <2>1. PICK c \in Children, at \in {"ignored", "queued", "configure"} :
               /\ At(c) = "asked" /\ setup' = [setup EXCEPT ![c].at = at]
               /\ unsynced' = IF at = "configure" THEN unsynced \cup {c} ELSE unsynced
    BY <1>11, Spawned
  <2>2. tool' = tool /\ phase' = phase /\ store' = store /\ bound' = bound /\ active' = active
    BY <1>11 DEF OnSpawn
  <2>3. setup'[c].at = at /\ \A u \in Targets \ {c} : setup'[u] = setup[u]
    BY <1>a, <1>b, <2>1 DEF Channels
  <2>4. At(c) \in Dormant /\ (at \in Dormant \/ (at # "attached" /\ c \in unsynced'))
    BY <2>1 DEF Dormant
  <2>5. unsynced \subseteq unsynced' /\ unsynced' \subseteq unsynced \cup {c}
    BY <2>1
  <2>. QED
    BY <2>2, <2>3, <2>4, <2>5, SyncPlaced
<1>12. ASSUME NEW t \in Targets, OnStopped(t)
      PROVE  SyncOK'
  BY <1>12, <1>d, SameSetup DEF OnStopped
<1>13. ASSUME NEW t \in Targets, OnContinued(t)
      PROVE  SyncOK'
  BY <1>13, <1>d, SameSetup DEF OnContinued
<1>14. ASSUME NEW t \in Targets, Chain(t)
      PROVE  SyncOK'
  BY <1>14, <1>d, SameSetup DEF Chain
<1>15. ASSUME NEW t \in Targets, Number(t)
      PROVE  SyncOK'
  BY <1>15, <1>d, SameSetup DEF Number
<1>16. ASSUME NEW t \in Targets, AppendEntry(t)
      PROVE  SyncOK'
  BY <1>16, <1>d, SameSetup DEF AppendEntry
<1>17. ASSUME NEW t \in Targets, Ends(t)
      PROVE  SyncOK'
  BY <1>17, <1>d, SameSetup DEF Ends
<1>18. ASSUME NEW t \in Targets, ChainFails(t)
      PROVE  SyncOK'
  BY <1>18, <1>d, SameSetup DEF ChainFails
<1>19. ASSUME NEW lines \in Lists, BeginSet(lines)
      PROVE  SyncOK'
  BY <1>19, SyncBegin
<1>20. CASE Install
  BY <1>20, SyncInstall
<1>21. CASE Store
  BY <1>21, SyncStore
<1>22. CASE SetFails
  <2>1. /\ tool.pc = "asking" /\ tool' = NoCall /\ Stayed /\ phase' = phase /\ store' = store
        /\ bound' = bound
        /\ active' = active /\ unsynced' = unsynced
    BY <1>22, SameSetup DEF SetFails
  <2>2. Calling'
    BY <2>1 DEF Calling, NoCall
  <2>3. \A u \in Targets : Covered(u)'
    BY <1>c, <2>1 DEF SyncOK, Covered, Stayed
  <2>4. Current'
    BY <1>22, <1>c, <2>1 DEF SetFails, SyncOK, Current, At
  <2>. QED
    BY <2>2, <2>3, <2>4 DEF SyncOK
<1>23. ASSUME NEW t \in Targets, Announce(t)
      PROVE  SyncOK'
  <2>1. Stayed /\ store' = store /\ bound' = bound /\ tool' = tool /\ active' = active
          /\ unsynced' = unsynced
    BY <1>23, SameSetup DEF Announce
  <2>2. \A u \in Targets : phase'[u] = "announced" => phase[u] = "announced" \/ At(u) = "await"
    BY <1>23, <1>a, <1>b DEF Announce, Typed
  <2>. QED
    BY <2>1, <2>2, SyncSame
<1>24. ASSUME NEW t \in Targets, Start(t)
      PROVE  SyncOK'
  <2>1. Stayed /\ store' = store /\ bound' = bound /\ tool' = tool /\ active' = active
          /\ unsynced' = unsynced
    BY <1>24, SameSetup DEF Start
  <2>2. \A u \in Targets : phase'[u] = "announced" => phase[u] = "announced" \/ At(u) = "await"
    BY <1>24, <1>a, <1>b DEF Start, Typed
  <2>. QED
    BY <2>1, <2>2, SyncSame
<1>25. ASSUME NEW t \in Targets, Reannounce(t)
      PROVE  SyncOK'
  <2>1. Stayed /\ store' = store /\ bound' = bound /\ tool' = tool /\ active' = active
          /\ unsynced' = unsynced
    BY <1>25, SameSetup DEF Reannounce
  <2>2. \A u \in Targets : phase'[u] = "announced" => phase[u] = "announced" \/ At(u) = "await"
    BY <1>25, <1>a, <1>b DEF Reannounce, Typed
  <2>. QED
    BY <2>1, <2>2, SyncSame
<1>26. ASSUME NEW t \in Targets, NEW c \in Children, Spawn(t, c)
      PROVE  SyncOK'
  <2>1. At(c) = "none" /\ setup' = [setup EXCEPT ![c].at = "asked"] /\ unsynced' = unsynced
          /\ tool' = tool /\ phase' = phase /\ store' = store /\ bound' = bound /\ active' = active
    BY <1>26 DEF Spawn
  <2>2. setup'[c].at = "asked" /\ \A u \in Targets \ {c} : setup'[u] = setup[u]
    BY <1>a, <1>b, <2>1 DEF Channels
  <2>3. At(c) \in Dormant /\ setup'[c].at \in Dormant
    BY <2>1, <2>2 DEF Dormant
  <2>. QED
    BY <2>1, <2>2, <2>3, SyncPlaced
<1>27. ASSUME NEW t \in Targets, Pause(t)
      PROVE  SyncOK'
  <2>1. Stayed /\ store' = store /\ bound' = bound /\ tool' = tool /\ active' = active
          /\ unsynced' = unsynced
    BY <1>27, SameSetup DEF Pause
  <2>2. \A u \in Targets : phase'[u] = "announced" => phase[u] = "announced" \/ At(u) = "await"
    BY <1>27, <1>a, <1>b DEF Pause, Typed
  <2>. QED
    BY <2>1, <2>2, SyncSame
<1>28. ASSUME NEW t \in Targets, Resume(t)
      PROVE  SyncOK'
  <2>1. Stayed /\ store' = store /\ bound' = bound /\ tool' = tool /\ active' = active
          /\ unsynced' = unsynced
    BY <1>28, SameSetup DEF Resume
  <2>2. \A u \in Targets : phase'[u] = "announced" => phase[u] = "announced" \/ At(u) = "await"
    BY <1>28, <1>a, <1>b DEF Resume, Typed
  <2>. QED
    BY <2>1, <2>2, SyncSame
<1>29. ASSUME NEW c \in Leaving, Close(c)
      PROVE  SyncOK'
  <2>1. Stayed /\ store' = store /\ bound' = bound /\ tool' = tool /\ active' = active
          /\ unsynced' = unsynced
    BY <1>29, SameSetup DEF Close
  <2>2. \A u \in Targets : phase'[u] = "announced" => phase[u] = "announced" \/ At(u) = "await"
    BY <1>29, <1>a, <1>b DEF Close, Typed
  <2>. QED
    BY <2>1, <2>2, SyncSame
<1>30. CASE UNCHANGED childVars
  BY <1>30, <1>d, SameSetup
<1>. QED
  BY <1>1, <1>2, <1>3, <1>4, <1>5, <1>6, <1>7, <1>8, <1>9, <1>10, <1>11, <1>12, <1>13, <1>14, <1>15, <1>16,
     <1>17, <1>18, <1>19, <1>20, <1>21, <1>22, <1>23, <1>24, <1>25, <1>26, <1>27, <1>28, <1>29, <1>30
  DEF ChildNext, Handshake, Dispatch, Tool, Adapter

-----------------------------------------------------------------------------
(* Theorems *)

(* Initially only the parent's handshake is under way.                     *)
LEMMA InitCIInv == ChildInit => CIInv
<1>. SUFFICES ASSUME ChildInit  PROVE CIInv
  OBVIOUS
<1>1. /\ Parent \notin Children /\ Parent \notin Debugpy /\ Nobody \notin Targets /\ Parent \in Targets
      /\ Debugpy \subseteq Children /\ Targets = {Parent} \cup Children /\ MaxActs \in Nat
  BY ChildAssumption DEF Targets
<1>2. \A t \in Targets : /\ At(t) = IF t = Parent THEN "await" ELSE "none"
                         /\ phase[t] = "created" /\ queue[t] = <<>> /\ configs[t] = 0 /\ stops[t] = 0
                         /\ disp[t] = IF t = Parent THEN "recv" ELSE "off"
  BY DEF ChildInit, At
<1>3. /\ active = Parent /\ store = {} /\ lastStopped = Nobody /\ version = 0 /\ counter = 0
      /\ timeline = <<>>
      /\ tool = NoCall /\ sets = 0 /\ unsynced = {} /\ sd = <<>> /\ ready = FALSE
  BY DEF ChildInit
<1>4. \A t \in Targets, i \in Nat : \A n : ~Has(t, i, n)
  BY <1>2 DEF Has
<1>5. \A T \in SUBSET Targets : StoppedBy(T) = {}
  <2>1. \A t \in Targets : 1..stops[t] = {}
    BY <1>2
  <2>. QED
    BY <2>1 DEF StoppedBy
<1>6. IsFiniteSet({}) /\ Cardinality({}) = 0
  BY FS_EmptySet
<1>7. Acts = 0
  <2>1. StoppedBy(Targets) = {}
    BY <1>5
  <2>2. sets = 0 /\ Cardinality(StoppedBy(Targets)) = 0
    BY <1>3, <1>6, <2>1
  <2>. QED
    BY <2>2 DEF Acts
<1>8. ChildTypeOK
  <2>1. /\ phase \in [Targets -> {"created", "announced", "reannounced", "running", "suspended", "closed"}]
        /\ bound \in [Targets -> SUBSET Lines]
        /\ configs \in [Targets -> 0..1]
        /\ disp \in [Targets -> {"off", "recv", "chain", "number", "append", "ended"}]
        /\ entry \in [Targets -> Nat] /\ stops \in [Targets -> Nat]
    BY DEF ChildInit
  <2>2. queue \in [Targets -> Seq([name : Names, child : Children \cup {Nobody}, stop : Nat])]
    BY EmptySeq DEF ChildInit
  <2>3. setup \in [Targets -> [at : Places, snap : SUBSET Lines]]
    BY DEF ChildInit, Places
  <2>4. \A t \in Targets :
          /\ At(t) \in Range(Stages(t)) \cup {"none", "asked", "queued", "ignored", "failed"}
          /\ disp[t] = "off" <=> t # Parent /\ At(t) # "attached"
    BY <1>1, <1>2, StagesOf
  <2>5. sd \in Seq(Children) /\ \A c \in Range(sd) : At(c) = "queued"
    BY <1>3 DEF Range
  <2>6. tool \in [pc : {"idle", "asking", "storing"}, target : Targets \cup {Nobody},
                  lines : SUBSET Lines, late : BOOLEAN]
    BY <1>3 DEF NoCall
  <2>7. /\ ready \in BOOLEAN /\ active \in Targets /\ store \subseteq Lines
        /\ lastStopped \in Targets \cup {Nobody} /\ version \in Nat /\ counter \in Nat
        /\ sets \in Nat /\ unsynced \subseteq Targets
    BY <1>1, <1>3
  <2>8. Acts <= MaxActs
    BY <1>1, <1>7
  <2>9. timeline \in Seq(Nat)
    BY <1>3, EmptySeq
  <2>. QED
    BY <2>1, <2>2, <2>3, <2>4, <2>5, <2>6, <2>7, <2>8, <2>9 DEF ChildTypeOK
<1>9. HandshakesOK
  <2>1. \A t \in Targets : Begins(t)
    BY <1>1, <1>2 DEF Begins
  <2>2. At(Parent) \notin Dormant /\ phase[Parent] # "closed" /\ active = Parent /\ Early
    BY <1>1, <1>2, <1>3 DEF Dormant, Early
  <2>. QED
    BY <2>1, <2>2 DEF HandshakesOK
<1>10. SpawnsOK
  <2>1. Asked
    BY <1>4 DEF Asked
  <2>2. Queued
    BY <1>3 DEF Queued
  <2>. QED
    BY <2>1, <2>2 DEF SpawnsOK
<1>11. ConfigsOK
  <2>1. \A t \in Targets : Configured(t)
    BY <1>2, <1>4 DEF Configured
  <2>. QED
    BY <2>1 DEF ConfigsOK
<1>12. StopsOK
  <2>1. \A t \in Targets : Numbered(t) /\ HasPaused(t)
    <3>1. \A t \in Targets : 1..stops[t] = {} /\ phase[t] # "suspended"
      BY <1>2
    <3>. QED
      BY <1>4, <3>1 DEF Numbered, HasPaused
  <2>2. IsFiniteSet(StoppedBy(Targets))
    BY <1>5, <1>6
  <2>3. NoStopLost
    <3>1. StoppedBy(Heard) = {}
      BY <1>5 DEF Heard
    <3>2. StoppedBy(Heard) \ Waiting = {}
      BY <3>1
    <3>. QED
      BY <1>3, <1>6, <3>2 DEF NoStopLost
  <2>. QED
    BY <2>1, <2>2, <2>3 DEF StopsOK
<1>13. ViewOK
  <2>1. \A t \in Targets : Ordered(t) /\ Shown(t) /\ Seen(t)
    BY <1>1, <1>2, <1>3, <1>4 DEF Ordered, Shown, Seen
  <2>. QED
    BY <2>1 DEF ViewOK
<1>14. TimelineOK
  <2>1. Entries
    BY <1>2, <1>3 DEF Entries
  <2>2. Busy = {}
    BY <1>2 DEF Busy
  <2>3. Balanced
    BY <1>3, <1>6, <2>2 DEF Balanced
  <2>. QED
    BY <2>1, <2>3 DEF TimelineOK
<1>15. SyncOK
  <2>1. Calling
    BY <1>3 DEF Calling, NoCall
  <2>2. \A t \in Targets : Covered(t)
    BY <1>1, <1>2 DEF Covered, Dormant
  <2>3. Current
    BY <1>1, <1>2, <1>3 DEF Current
  <2>. QED
    BY <2>1, <2>2, <2>3 DEF SyncOK
<1>. QED
  BY <1>8, <1>9, <1>10, <1>11, <1>12, <1>13, <1>14, <1>15 DEF CIInv

(* Every step keeps the invariant.                                         *)
LEMMA CIInvStep == CIInv /\ [ChildNext]_childVars => CIInv'
<1>. SUFFICES ASSUME CIInv, [ChildNext]_childVars  PROVE CIInv'
  OBVIOUS
<1>1. ChildTypeOK' /\ HandshakesOK' /\ StopsOK' /\ ViewOK' /\ SyncOK'
  BY ChildTypeStep, HandshakesStep, StopsStep, ViewStep, SyncStep
<1>2. SpawnsOK'
  BY AskedStep, QueuedStep DEF SpawnsOK
<1>3. ConfigsOK'
  <2>1. \A u \in Targets : Configured(u)'
    BY ConfigsStep
  <2>. QED
    BY <2>1 DEF ConfigsOK
<1>4. TimelineOK'
  BY EntriesStep, BalancedStep DEF TimelineOK
<1>. QED
  BY <1>1, <1>2, <1>3, <1>4 DEF CIInv

(* It holds in every state.                                                *)
LEMMA AlwaysCIInv == ChildSpec => []CIInv
  BY InitCIInv, CIInvStep, PTL DEF ChildSpec

(* A session without news on its way shows the pause that there is. *)
LEMMA ShowsStops == CIInv => StopsShown
<1>. SUFFICES ASSUME CIInv  PROVE StopsShown
  OBVIOUS
<1>1. /\ ChildTypeOK /\ Typed /\ NoStopLost /\ Entries /\ Balanced
      /\ \A t \in Targets : Ordered(t) /\ Shown(t) /\ Seen(t)
  BY CIFacts DEF CIInv, StopsOK, ViewOK, TimelineOK
<1>2. \A t \in Targets : (disp[t] # "off" => t \in Heard) /\ (t \notin Heard => disp[t] = "off")
  BY <1>1 DEF ChildTypeOK, Heard
<1>3. ASSUME Settled
      PROVE  \A t \in Heard, i \in Nat : \A n : ~Has(t, i, n)
  BY <1>3 DEF Settled, Has
<1>4. ViewSound
  <2>1. SUFFICES ASSUME Settled  PROVE ViewSound
    BY DEF ViewSound
  <2>2. ASSUME NEW t \in Targets, lastStopped = t  PROVE phase[t] = "suspended"
    <3>1. t \in Heard
      BY <1>1, <1>2, <2>2 DEF Shown
    <3>2. phase[t] \in {"suspended", "closed"} /\ phase[t] # "closed"
      BY <1>1, <1>3, <2>1, <2>2, <3>1 DEF Shown, Settled
    <3>. QED
      BY <3>2
  <2>3. ASSUME NEW t \in Heard, phase[t] = "suspended", \A u \in Heard \ {t} : stops[u] = 0
        PROVE  lastStopped = t
    <3>1. t \in Targets
      BY DEF Heard
    <3>2. \A u \in Targets \ {t} : ~(disp[u] # "off" /\ stops[u] # 0)
      BY <1>2, <2>3
    <3>. QED
      BY <1>1, <1>3, <2>1, <2>3, <3>1, <3>2 DEF Seen
  <2>. QED
    BY <2>2, <2>3 DEF ViewSound
<1>5. TimelineNumbered
  <2>1. IsInjective(timeline)
    <3>1. DOMAIN timeline = 1..Len(timeline)
      BY <1>1 DEF Typed
    <3>. QED
      BY <1>1, <3>1 DEF Entries, IsInjective
  <2>2. ASSUME Settled, \A t \in Targets : phase[t] # "closed"  PROVE Len(timeline) = version
    <3>1. Busy = {}
      BY <1>2, <2>2 DEF Settled, Busy
    <3>2. Cardinality(Busy) = 0
      BY <3>1, FS_EmptySet
    <3>3. Len(timeline) \in Nat
      BY <1>1 DEF Typed
    <3>. QED
      BY <1>1, <2>2, <3>2, <3>3 DEF Balanced
  <2>. QED
    BY <2>1, <2>2 DEF TimelineNumbered
<1>. QED
  BY <1>1, <1>4, <1>5 DEF StopsShown

(* Only a configurationDone lets an announced debuggee run. *)
LEMMA OnlyStart ==
  ASSUME CIInv, NEW a \in Targets, phase[a] = "announced", phase'[a] = "running", [ChildNext]_childVars
  PROVE  Start(a)
<1>. USE DEF childVars, adapterVars, sharedVars, toolVars
<1>a. Targets = {Parent} \cup Children /\ Leaving \subseteq Children /\ Typed
  BY CIFacts, ChildFacts, ChildAssumption
<1>b. phase' # phase
  OBVIOUS
<1>1. CASE Supervise
  BY <1>1, <1>b DEF Supervise
<1>2. ASSUME NEW t \in Targets, Initialize(t)
      PROVE  Start(a)
  BY <1>2, <1>b DEF Initialize
<1>3. ASSUME NEW t \in Targets, AwaitInitialized(t)
      PROVE  Start(a)
  BY <1>3, <1>b DEF AwaitInitialized
<1>4. ASSUME NEW t \in Targets, TimeOut(t)
      PROVE  Start(a)
  BY <1>4, <1>b DEF TimeOut
<1>5. CASE LaunchBreakpoints
  BY <1>5, <1>b DEF LaunchBreakpoints
<1>6. ASSUME NEW t \in Targets, Forward(t)
      PROVE  Start(a)
  BY <1>6, <1>b DEF Forward
<1>7. ASSUME NEW t \in Targets, Configure(t)
      PROVE  Start(a)
  BY <1>7, <1>b DEF Configure
<1>8. CASE Confirm
  BY <1>8, <1>b DEF Confirm
<1>9. ASSUME NEW t \in Targets, Publish(t)
      PROVE  Start(a)
  BY <1>9, <1>b DEF Publish
<1>10. ASSUME NEW t \in Targets, OnInitialized(t)
      PROVE  Start(a)
  BY <1>10, <1>b DEF OnInitialized
<1>11. ASSUME NEW t \in Targets, OnSpawn(t)
      PROVE  Start(a)
  BY <1>11, <1>b DEF OnSpawn
<1>12. ASSUME NEW t \in Targets, OnStopped(t)
      PROVE  Start(a)
  BY <1>12, <1>b DEF OnStopped
<1>13. ASSUME NEW t \in Targets, OnContinued(t)
      PROVE  Start(a)
  BY <1>13, <1>b DEF OnContinued
<1>14. ASSUME NEW t \in Targets, Chain(t)
      PROVE  Start(a)
  BY <1>14, <1>b DEF Chain
<1>15. ASSUME NEW t \in Targets, Number(t)
      PROVE  Start(a)
  BY <1>15, <1>b DEF Number
<1>16. ASSUME NEW t \in Targets, AppendEntry(t)
      PROVE  Start(a)
  BY <1>16, <1>b DEF AppendEntry
<1>17. ASSUME NEW t \in Targets, Ends(t)
      PROVE  Start(a)
  BY <1>17, <1>b DEF Ends
<1>18. ASSUME NEW t \in Targets, ChainFails(t)
      PROVE  Start(a)
  BY <1>18, <1>b DEF ChainFails
<1>19. ASSUME NEW lines \in Lists, BeginSet(lines)
      PROVE  Start(a)
  BY <1>19, <1>b DEF BeginSet
<1>20. CASE Install
  BY <1>20, <1>b DEF Install
<1>21. CASE Store
  BY <1>21, <1>b DEF Store
<1>22. CASE SetFails
  BY <1>22, <1>b DEF SetFails
<1>23. ASSUME NEW t \in Targets, Announce(t)
      PROVE  Start(a)
  BY <1>23, <1>a DEF Announce, Typed
<1>24. ASSUME NEW t \in Targets, Start(t)
      PROVE  Start(a)
  <2>1. t = a
    BY <1>24, <1>a DEF Start, Typed
  <2>. QED
    BY <1>24, <2>1
<1>25. ASSUME NEW t \in Targets, Reannounce(t)
      PROVE  Start(a)
  BY <1>25, <1>a DEF Reannounce, Typed
<1>26. ASSUME NEW t \in Targets, NEW c \in Children, Spawn(t, c)
      PROVE  Start(a)
  BY <1>26, <1>b DEF Spawn
<1>27. ASSUME NEW t \in Targets, Pause(t)
      PROVE  Start(a)
  BY <1>27, <1>a DEF Pause, Typed
<1>28. ASSUME NEW t \in Targets, Resume(t)
      PROVE  Start(a)
  BY <1>28, <1>a DEF Resume, Typed
<1>29. ASSUME NEW c \in Leaving, Close(c)
      PROVE  Start(a)
  BY <1>29, <1>a DEF Close, Typed
<1>30. CASE UNCHANGED childVars
  BY <1>30, <1>b
<1>. QED
  BY <1>1, <1>2, <1>3, <1>4, <1>5, <1>6, <1>7, <1>8, <1>9, <1>10, <1>11, <1>12, <1>13, <1>14, <1>15, <1>16,
     <1>17, <1>18, <1>19, <1>20, <1>21, <1>22, <1>23, <1>24, <1>25, <1>26, <1>27, <1>28, <1>29, <1>30
  DEF ChildNext, Handshake, Dispatch, Tool, Adapter

(* What the invariant says of a step: whoever starts has what it needs.    *)
LEMMA StepsInSync == CIInv /\ [ChildNext]_childVars => StartsWithBreakpoints /\ ActiveInSync'
<1>. SUFFICES ASSUME CIInv, [ChildNext]_childVars  PROVE StartsWithBreakpoints /\ ActiveInSync'
  OBVIOUS
<1>1. ActiveInSync'
  <2>1. Current'
    BY SyncStep DEF SyncOK
  <2>. QED
    BY <2>1 DEF Current, ActiveInSync
<1>2. ASSUME NEW t \in Targets, phase[t] = "announced", phase'[t] = "running", t \notin unsynced
      PROVE  bound[t] = store
  <2>1. configs[t] # 0
    <3>1. Start(t) /\ Typed
      BY <1>2, OnlyStart, CIFacts
    <3>. QED
      BY <3>1 DEF Start, Typed
  <2>2. Covered(t) /\ Configured(t) /\ At(t) \in Positions(t)
    BY CIFacts, ChildFacts DEF CIInv, SyncOK, ConfigsOK
  <2>3. At(t) \notin Dormant \cup {"initialize", "breakpoints", "forward", "configure"}
    BY <2>1, <2>2 DEF Configured
  <2>4. t \notin Debugpy => At(t) \notin {"await", "failed"}
    BY <2>1, <2>2 DEF Configured
  <2>5. t \in Debugpy => At(t) = "attached"
    BY <1>2, <2>2, <2>3 DEF Covered
  <2>6. At(t) \in {"confirm", "publish", "attached"}
    BY <2>2, <2>3, <2>4, <2>5 DEF Positions
  <2>. QED
    BY <1>2, <2>2, <2>6 DEF Covered
<1>. QED
  BY <1>1, <1>2 DEF StartsWithBreakpoints

(* Debuggees, handshakes, dispatchers, channels and calls have their       *)
(* types; a handshake is at one of its stages, it has a dispatcher if and  *)
(* only if it is over (the parent: always), and there are no more stops    *)
(* and calls than the bound allows.                                        *)
THEOREM ChildTypes == ChildSpec => []ChildTypeOK
<1>1. CIInv => ChildTypeOK
  BY DEF CIInv
<1>. QED
  BY <1>1, AlwaysCIInv, PTL

(* No stop is lost between a debuggee and stopped_tx unless its handshake  *)
(* gave up (session.rs 802-808, 862-880, 968-991); when every event has    *)
(* been handled, last_stopped is the stop of a paused debuggee, and of the *)
(* only one that ever stopped (365, 377, 877, 885); and the dispatchers    *)
(* that share timeline_counter number their entries differently (1131).    *)
THEOREM StopsAreShown == ChildSpec => []StopsShown
  BY AlwaysCIInv, ShowsStops, PTL

(* A debuggee starts with the session's breakpoints, and the one that the  *)
(* tools talk to has them between calls, except those that set_breakpoints *)
(* may have passed by and the debugpy children (session.rs 136-152, 730,   *)
(* 747-752, 814).                                                          *)
THEOREM BreakpointsFollow == ChildSpec => InSync
<1>1. CIInv /\ [ChildNext]_childVars => [StartsWithBreakpoints /\ ActiveInSync']_childVars
  BY StepsInSync
<1>2. ChildSpec => [][ChildNext]_childVars
  BY PTL DEF ChildSpec
<1>. QED
  BY <1>1, <1>2, AlwaysCIInv, PTL DEF InSync
=============================================================================
