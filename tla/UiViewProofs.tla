---------------------------- MODULE UiViewProofs ----------------------------
(***************************************************************************)
(* Two parts, for any number of sockets, any sizes of cache and ring and   *)
(* any number of frames.                                                   *)
(*                                                                         *)
(* First, what a browser gets is a run of the session's frames.  The tab,  *)
(* the session's dispatcher and its tools use the hub as Hub says it is    *)
(* used, so this holds for what the tab of UiView is sent.                 *)
(*                                                                         *)
(* Then the tab: its types, and that a tab whose live socket has handled   *)
(* every frame shows the session's status, timeline and breakpoints.  The  *)
(* invariant is ViewInv: between two frames of a kind the tab shows what   *)
(* the last one it handled told, and an answer it waits for covers what    *)
(* the frames before it announced.                                         *)
(***************************************************************************)
EXTENDS UiView, SequenceTheorems, WellFoundedInduction, TLAPS

-----------------------------------------------------------------------------
(* Runs of frames *)

(* A run is a sequence that counts. *)
LEMMA RunProperties ==
  ASSUME NEW a \in Nat \ {0}, NEW b \in Nat, a <= b + 1
  PROVE  /\ From(a, b) \in Seq(Nat)
         /\ Len(From(a, b)) = b + 1 - a
         /\ \A i \in 1..(b + 1 - a) : From(a, b)[i] = a + i - 1
<1>1. b + 1 - a \in Nat
  OBVIOUS
<1>2. \A i \in 1..(b + 1 - a) : a + i - 1 \in Nat
  OBVIOUS
<1>3. From(a, b) \in [1..(b + 1 - a) -> Nat]
  BY <1>2 DEF From
<1>4. From(a, b) \in Seq(Nat)
  BY <1>1, <1>3, SeqDef, Zenon
<1>5. DOMAIN From(a, b) = 1..(b + 1 - a)
  BY DEF From
<1>6. Len(From(a, b)) = b + 1 - a
  BY <1>1, <1>4, <1>5, LenProperties
<1>. QED
  BY <1>4, <1>6 DEF From

(* A sequence that counts is a run. *)
LEMMA RunIs ==
  ASSUME NEW q \in Seq(Nat), NEW a \in Nat \ {0}, NEW b \in Nat, a <= b + 1,
         Len(q) = b + 1 - a,
         \A i \in 1..Len(q) : q[i] = a + i - 1
  PROVE  q = From(a, b)
<1>. DEFINE r == From(a, b)
<1>1. r \in Seq(Nat) /\ Len(r) = b + 1 - a /\ \A i \in 1..(b + 1 - a) : r[i] = a + i - 1
  BY RunProperties
<1>. HIDE DEF r
<1>2. Len(q) = Len(r) /\ \A i \in 1..Len(q) : q[i] = r[i]
  BY <1>1
<1>3. q = r
  BY <1>1, <1>2, SeqEqual
<1>. QED
  BY <1>3 DEF r

(* The next frame makes it a longer run. *)
LEMMA RunAppend ==
  ASSUME NEW a \in Nat \ {0}, NEW b \in Nat, a <= b + 1
  PROVE  Append(From(a, b), b + 1) = From(a, b + 1)
<1>. DEFINE q == From(a, b)
            r == Append(q, b + 1)
<1>1. q \in Seq(Nat) /\ Len(q) = b + 1 - a /\ \A i \in 1..Len(q) : q[i] = a + i - 1
  BY RunProperties
<1>. HIDE DEF q
<1>2. r \in Seq(Nat) /\ Len(r) = Len(q) + 1
  BY <1>1
<1>3. \A i \in 1..Len(r) : r[i] = a + i - 1
  BY <1>1, <1>2
<1>. HIDE DEF r
<1>4. r = From(a, b + 1)
  BY <1>1, <1>2, <1>3, RunIs
<1>. QED
  BY <1>4 DEF q, r

(* Without its first frame it is a shorter one. *)
LEMMA RunTail ==
  ASSUME NEW a \in Nat \ {0}, NEW b \in Nat, a <= b
  PROVE  Tail(From(a, b)) = From(a + 1, b)
<1>. DEFINE q == From(a, b)
            r == Tail(q)
<1>1. q \in Seq(Nat) /\ Len(q) = b + 1 - a /\ \A i \in 1..Len(q) : q[i] = a + i - 1
  BY RunProperties
<1>. HIDE DEF q
<1>2. q # <<>>
  BY <1>1
<1>3. r \in Seq(Nat) /\ Len(r) = Len(q) - 1 /\ \A i \in 1..Len(r) : r[i] = q[i + 1]
  BY <1>1, <1>2, HeadTailProperties
<1>4. \A i \in 1..Len(r) : r[i] = (a + 1) + i - 1
  BY <1>1, <1>3
<1>. HIDE DEF r
<1>5. r = From(a + 1, b)
  BY <1>1, <1>3, <1>4, RunIs
<1>. QED
  BY <1>5 DEF q, r

(* The cache is the last CacheCap frames, and stays so when one is pushed. *)
LEMMA CachePush ==
  ASSUME NEW n \in Nat
  PROVE  Push(From(FirstCached(n), n), n + 1) = From(FirstCached(n + 1), n + 1)
<1>. USE HubAssumption
<1>. DEFINE f == FirstCached(n)
            q == From(f, n)
<1>1. f \in Nat \ {0} /\ f <= n + 1
  BY DEF FirstCached
<1>2. Len(q) = n + 1 - f
  BY <1>1, RunProperties
<1>3. CASE n < CacheCap
  <2>1. f = 1 /\ FirstCached(n + 1) = 1
    BY <1>3 DEF FirstCached
  <2>2. Len(q) < CacheCap
    BY <1>2, <1>3, <2>1
  <2>3. Append(q, n + 1) = From(1, n + 1)
    BY <2>1, RunAppend
  <2>. QED  BY <2>1, <2>2, <2>3 DEF Push
<1>4. CASE ~(n < CacheCap)
  <2>1. f = n - CacheCap + 1 /\ FirstCached(n + 1) = f + 1 /\ f <= n
    BY <1>4 DEF FirstCached
  <2>2. ~(Len(q) < CacheCap)
    BY <1>2, <2>1
  <2>3. Tail(q) = From(f + 1, n)
    BY <1>1, <2>1, RunTail
  <2>. HIDE DEF f
  <2>4. f + 1 \in Nat \ {0} /\ f + 1 <= n + 1
    BY <1>1, <2>1
  <2>5. Append(From(f + 1, n), n + 1) = From(f + 1, n + 1)
    BY <2>4, RunAppend
  <2>. QED  BY <2>1, <2>2, <2>3, <2>5 DEF Push, f
<1>. QED
  BY <1>3, <1>4

(* The two parts of a run count as well. *)
LEMMA RunParts ==
  ASSUME NEW p \in Seq(Nat), NEW q \in Seq(Nat), NEW a \in Nat \ {0}, NEW b \in Nat, a <= b + 1,
         p \o q = From(a, b)
  PROVE  /\ Len(p) + Len(q) = b + 1 - a
         /\ \A i \in 1..Len(p) : p[i] = a + i - 1
<1>1. Len(p \o q) = Len(p) + Len(q) /\ \A i \in 1..Len(p) : (p \o q)[i] = p[i]
  BY ConcatProperties
<1>2. Len(p \o q) = b + 1 - a
  BY RunProperties
<1>3. \A i \in 1..Len(p) : i \in 1..(b + 1 - a)
  BY <1>1, <1>2
<1>. QED
  BY <1>1, <1>2, <1>3, RunProperties, ZenonT(60)

(* Sending the first of what is left to send changes nothing of the whole. *)
LEMMA SendFirst ==
  ASSUME NEW p \in Seq(Nat), NEW q \in Seq(Nat), q # <<>>
  PROVE  Append(p, Head(q)) \o Tail(q) = p \o q
<1>. DEFINE r == Append(p, Head(q))
<1>1. /\ Head(q) \in Nat /\ Tail(q) \in Seq(Nat) /\ Len(Tail(q)) = Len(q) - 1
      /\ \A i \in 1..Len(Tail(q)) : Tail(q)[i] = q[i + 1]
  BY HeadTailProperties
<1>2. /\ r \in Seq(Nat) /\ Len(r) = Len(p) + 1
      /\ \A i \in 1..Len(r) : r[i] = IF i = Len(r) THEN Head(q) ELSE p[i]
  BY <1>1, AppendProperties
<1>3. Head(q) = q[1] /\ Len(q) > 0
  OBVIOUS
<1>. HIDE DEF r
<1>4. /\ r \o Tail(q) \in Seq(Nat) /\ Len(r \o Tail(q)) = Len(r) + Len(Tail(q))
      /\ \A i \in 1..Len(r) + Len(Tail(q)) :
           (r \o Tail(q))[i] = IF i <= Len(r) THEN r[i] ELSE Tail(q)[i - Len(r)]
  BY <1>1, <1>2, ConcatProperties
<1>5. /\ p \o q \in Seq(Nat) /\ Len(p \o q) = Len(p) + Len(q)
      /\ \A i \in 1..Len(p) + Len(q) : (p \o q)[i] = IF i <= Len(p) THEN p[i] ELSE q[i - Len(p)]
  BY ConcatProperties
<1>6. Len(r \o Tail(q)) = Len(p \o q)
  BY <1>1, <1>2, <1>4, <1>5
<1>7. ASSUME NEW i \in 1..Len(r \o Tail(q))
      PROVE  (r \o Tail(q))[i] = (p \o q)[i]
  <2>1. CASE i <= Len(p)
    BY <1>1, <1>2, <1>4, <1>5, <1>6, <2>1, SMTT(30)
  <2>2. CASE i = Len(p) + 1
    BY <1>1, <1>2, <1>3, <1>4, <1>5, <1>6, <2>2
  <2>3. CASE i > Len(p) + 1
    <3>1. i - Len(r) \in 1..Len(Tail(q)) /\ (i - Len(r)) + 1 = i - Len(p)
      BY <1>1, <1>2, <1>4, <2>3
    <3>2. Tail(q)[i - Len(r)] = q[i - Len(p)]
      BY <1>1, <3>1
    <3>. QED  BY <1>1, <1>2, <1>4, <1>5, <1>6, <2>3, <3>2, SMTT(30)
  <2>4. i \in Nat /\ Len(p) \in Nat
    BY <1>1, <1>2, <1>4
  <2>5. i <= Len(p) \/ i = Len(p) + 1 \/ i > Len(p) + 1
    BY <2>4
  <2>. QED  BY <2>1, <2>2, <2>3, <2>5, Zenon
<1>8. r \o Tail(q) = p \o q
  BY <1>4, <1>5, <1>6, <1>7, SeqEqual
<1>. QED
  BY <1>8 DEF r

-----------------------------------------------------------------------------
(* The inductive invariant *)

Places == {"none", "boot", "select", "deaf", "busy", "closed"}

Socket == [pc : Places, boot : Seq(Nat), next : Nat \ {0}, commands : Nat, joined : Nat,
           got : Seq(Nat), lagged : BOOLEAN]

(* What was sent and what is left of the cache make a run that ends before *)
(* the receiver's position.  The loop starts with nothing left.            *)
Sound(k) ==
  /\ k.pc \in {"select", "deaf", "busy"} => k.boot = <<>>
  /\ k.lagged => k.pc \notin {"none", "boot"}
  /\ k.pc # "none" => k.joined < k.next
  /\ k.pc # "none" /\ ~k.lagged => k.got \o k.boot = From(FirstCached(k.joined), k.next - 1)
  /\ \A i, j \in 1..Len(k.got) : i < j => k.got[i] < k.got[j]
  /\ \A i \in 1..Len(k.got) : k.got[i] < k.next

HubSound == frames \in Nat /\ cache = From(FirstCached(frames), frames)

SocketsSound == socket \in [Sockets -> Socket] /\ \A s \in Sockets : Sound(socket[s])

IInv == HubSound /\ SocketsSound

(* Changing one connection to a sound one keeps all of them sound. *)
LEMMA OneSocket ==
  ASSUME SocketsSound, NEW s \in Sockets, NEW k \in Socket, Sound(k),
         socket' = [socket EXCEPT ![s] = k]
  PROVE  SocketsSound'
BY DEF SocketsSound

(* The first cached frame. *)
LEMMA FirstCachedType ==
  ASSUME NEW n \in Nat
  PROVE  FirstCached(n) \in Nat \ {0} /\ FirstCached(n) <= n + 1
BY HubAssumption DEF FirstCached

(* It is not after the receiver's position. *)
LEMMA FirstBelow ==
  ASSUME NEW j \in Nat, NEW n \in Nat \ {0}, j < n
  PROVE  /\ FirstCached(j) \in Nat \ {0} /\ FirstCached(j) <= n
         /\ FirstCached(j) <= (n - 1) + 1 /\ n - 1 \in Nat
BY HubAssumption DEF FirstCached

(* A place in a run is below its end. *)
LEMMA InRun ==
  ASSUME NEW f \in Nat, NEW n \in Nat, NEW g \in Nat, NEW b \in Nat, NEW i \in Nat,
         g + b = (n - 1) + 1 - f, i <= g
  PROVE  f + i - 1 < n
OBVIOUS

(* The loop's state, once the cache is sent: got alone is the run. *)
LEMMA Started ==
  ASSUME NEW k \in Socket, Sound(k), k.pc \in {"select", "deaf", "busy"}, ~k.lagged
  PROVE  k.got = From(FirstCached(k.joined), k.next - 1)
<1>1. k.boot = <<>> /\ k.pc # "none"
  BY DEF Sound
<1>2. k.got \o k.boot = k.got
  BY <1>1 DEF Socket, Places
<1>. QED
  BY <1>1, <1>2 DEF Sound

(* A frame is pushed on the cache. *)
LEMMA SendSound ==
  HubSound /\ Send => HubSound'
<1>. SUFFICES ASSUME HubSound, Send  PROVE HubSound'
  OBVIOUS
<1>1. frames \in Nat /\ frames' = frames + 1 /\ cache' = Push(cache, frames + 1)
  BY DEF HubSound, Send
<1>2. cache' = From(FirstCached(frames + 1), frames + 1)
  BY <1>1, CachePush DEF HubSound
<1>. QED
  BY <1>1, <1>2 DEF HubSound

(* Initially there is no frame and no connection. *)
LEMMA InitSound == Init => IInv
<1>. SUFFICES ASSUME Init  PROVE IInv
  OBVIOUS
<1>1. frames = 0 /\ cache = <<>> /\ socket = [s \in Sockets |-> NoSocket]
  BY DEF Init
<1>2. HubSound
  <2>1. FirstCached(0) = 1
    BY HubAssumption DEF FirstCached
  <2>2. /\ <<>> \in Seq(Nat) /\ Len(<<>>) = 0 + 1 - 1
        /\ \A i \in 1..Len(<<>>) : <<>>[i] = 1 + i - 1
        /\ 1 \in Nat \ {0} /\ 0 \in Nat /\ 1 <= 0 + 1
    OBVIOUS
  <2>3. <<>> = From(1, 0)
    BY <2>2, RunIs
  <2>. QED  BY <1>1, <2>1, <2>3 DEF HubSound
<1>3. NoSocket \in Socket /\ Sound(NoSocket)
  BY DEF NoSocket, Socket, Places, Sound
<1>. QED
  BY <1>1, <1>2, <1>3 DEF IInv, SocketsSound

(* The cache and the receiver are taken together. *)
LEMMA ConnectSound ==
  ASSUME IInv, NEW s \in Sockets, Connect(s)
  PROVE  IInv'
<1>. DEFINE k == [NoSocket EXCEPT !.pc = "boot", !.boot = cache, !.next = frames + 1,
                                  !.joined = frames]
<1>1. frames \in Nat /\ cache = From(FirstCached(frames), frames) /\ cache \in Seq(Nat)
  BY FirstCachedType, RunProperties DEF IInv, HubSound
<1>2. k.pc = "boot" /\ k.boot = cache /\ k.next = frames + 1 /\ k.joined = frames
      /\ k.got = <<>> /\ ~k.lagged
  BY DEF NoSocket
<1>3. k \in Socket
  <2>1. frames + 1 \in Nat \ {0} /\ <<>> \in Seq(Nat)
    BY <1>1
  <2>. QED  BY <1>1, <2>1 DEF NoSocket, Socket, Places
<1>. HIDE DEF k
<1>4. k.got \o k.boot = From(FirstCached(k.joined), k.next - 1)
  <2>1. <<>> \o cache = cache
    BY <1>1
  <2>2. frames + 1 - 1 = frames
    BY <1>1
  <2>. QED  BY <1>1, <1>2, <2>1, <2>2
<1>5. Sound(k)
  BY <1>1, <1>2, <1>4 DEF Sound
<1>6. SocketsSound'
  <2>1. socket' = [socket EXCEPT ![s] = k]
    BY DEF Connect, k
  <2>. QED  BY <1>3, <1>5, <2>1, OneSocket DEF IInv
<1>. QED
  BY <1>6 DEF Connect, IInv, HubSound

(* Sending one of the cached frames moves it from boot to got. *)
LEMMA BootstrapSound ==
  ASSUME IInv, NEW s \in Sockets, Bootstrap(s)
  PROVE  IInv'
<1>. DEFINE o == socket[s]
<1>1. o \in Socket /\ Sound(o) /\ o.pc = "boot"
  BY DEF IInv, SocketsSound, Bootstrap
<1>2. ASSUME o.boot = <<>>  PROVE SocketsSound'
  <2>. DEFINE k == [o EXCEPT !.pc = "select"]
  <2>1. k \in Socket /\ Sound(k)
    BY <1>1, <1>2 DEF Socket, Places, Sound
  <2>2. socket' = [socket EXCEPT ![s] = k]
    BY <1>1, <1>2 DEF Bootstrap, IInv, SocketsSound, Socket
  <2>. HIDE DEF k
  <2>. QED  BY <2>1, <2>2, OneSocket DEF IInv
<1>3. ASSUME o.boot # <<>>  PROVE SocketsSound'
  <2>. DEFINE k == [o EXCEPT !.got = Append(o.got, Head(o.boot)), !.boot = Tail(o.boot)]
  <2>2. socket' = [socket EXCEPT ![s] = k]
    BY <1>1, <1>3 DEF Bootstrap, IInv, SocketsSound, Socket
  <2>3. /\ o.got \in Seq(Nat) /\ o.boot \in Seq(Nat) /\ ~o.lagged
        /\ o.next \in Nat \ {0} /\ o.joined \in Nat /\ o.joined < o.next
    BY <1>1 DEF Socket, Places, Sound
  <2>4. /\ Head(o.boot) \in Nat /\ Tail(o.boot) \in Seq(Nat)
        /\ Append(o.got, Head(o.boot)) \in Seq(Nat)
    BY <1>3, <2>3
  <2>5. k \in Socket
    BY <1>1, <2>4 DEF Socket, Places
  <2>6. /\ k.pc = "boot" /\ ~k.lagged /\ k.next = o.next /\ k.joined = o.joined
        /\ k.got = Append(o.got, Head(o.boot)) /\ k.boot = Tail(o.boot)
    BY <1>1, <2>3 DEF Socket, Places
  <2>. HIDE DEF k
  <2>7. k.got \o k.boot = From(FirstCached(k.joined), k.next - 1)
    <3>1. k.got \o k.boot = o.got \o o.boot
      BY <1>3, <2>3, <2>6, SendFirst
    <3>. QED  BY <1>1, <2>3, <2>6, <3>1 DEF Sound
  <2>8. /\ Len(k.got) + Len(k.boot) = (k.next - 1) + 1 - FirstCached(k.joined)
        /\ \A i \in 1..Len(k.got) : k.got[i] = FirstCached(k.joined) + i - 1
    <3>1. k.got \in Seq(Nat) /\ k.boot \in Seq(Nat) /\ k.joined \in Nat /\ k.next - 1 \in Nat
      BY <2>3, <2>4, <2>6
    <3>2. FirstCached(k.joined) \in Nat \ {0} /\ FirstCached(k.joined) <= (k.next - 1) + 1
      BY <2>3, <2>6, FirstBelow
    <3>. QED  BY <2>7, <3>1, <3>2, RunParts
  <2>9. Sound(k)
    <3>. DEFINE f == FirstCached(k.joined)
    <3>0. Len(k.got) \in Nat /\ Len(k.boot) \in Nat
      BY <2>4, <2>6
    <3>1. f \in Nat \ {0} /\ f <= k.next
      BY <2>3, <2>6, FirstBelow
    <3>2. Len(k.got) + Len(k.boot) = (k.next - 1) + 1 - f
      BY <2>8
    <3>3. \A i \in 1..Len(k.got) : k.got[i] = f + i - 1
      BY <2>8
    <3>4. k.next \in Nat
      BY <2>3, <2>6
    <3>. HIDE DEF f
    <3>5. \A i, j \in 1..Len(k.got) : i < j => k.got[i] < k.got[j]
      BY <3>0, <3>1, <3>3
    <3>6. \A i \in 1..Len(k.got) : k.got[i] < k.next
      <4>. SUFFICES ASSUME NEW i \in 1..Len(k.got)  PROVE f + i - 1 < k.next
        BY <3>3
      <4>1. i \in Nat /\ i <= Len(k.got)
        BY <3>0
      <4>. QED  BY <3>0, <3>1, <3>2, <3>4, <4>1, InRun
    <3>. QED  BY <2>3, <2>6, <2>7, <3>5, <3>6 DEF Sound
  <2>. QED  BY <2>2, <2>5, <2>9, OneSocket DEF IInv
<1>. QED
  BY <1>2, <1>3 DEF Bootstrap, IInv, HubSound

(* Relaying extends the run by the receiver's next frame. *)
LEMMA RelaySound ==
  ASSUME IInv, NEW s \in Sockets, Relay(s)
  PROVE  IInv'
<1>. DEFINE o == socket[s]
            k == [o EXCEPT !.got = Append(o.got, o.next), !.next = o.next + 1]
<1>1. o \in Socket /\ Sound(o) /\ o.pc = "select"
  BY DEF IInv, SocketsSound, Relay
<1>2. /\ o.got \in Seq(Nat) /\ o.boot = <<>> /\ o.next \in Nat \ {0}
      /\ o.joined \in Nat /\ o.joined < o.next /\ o.lagged \in BOOLEAN
  BY <1>1 DEF Socket, Places, Sound
<1>3. socket' = [socket EXCEPT ![s] = k]
  BY <1>1 DEF Relay, IInv, SocketsSound, Socket
<1>4. /\ Append(o.got, o.next) \in Seq(Nat) /\ Len(Append(o.got, o.next)) = Len(o.got) + 1
      /\ \A i \in 1..Len(o.got) : Append(o.got, o.next)[i] = o.got[i]
      /\ Append(o.got, o.next)[Len(o.got) + 1] = o.next
  BY <1>2, AppendProperties
<1>5. k \in Socket
  <2>1. o.next + 1 \in Nat \ {0}
    BY <1>2
  <2>. QED  BY <1>1, <1>4, <2>1 DEF Socket, Places
<1>6. /\ k.pc = "select" /\ k.boot = <<>> /\ k.lagged = o.lagged /\ k.joined = o.joined
      /\ k.next = o.next + 1 /\ k.got = Append(o.got, o.next)
  BY <1>1, <1>2 DEF Socket, Places
<1>7. /\ \A i, j \in 1..Len(o.got) : i < j => o.got[i] < o.got[j]
      /\ \A i \in 1..Len(o.got) : o.got[i] < o.next
      /\ \A i \in 1..Len(o.got) : o.got[i] \in Nat
      /\ Len(o.got) \in Nat
  BY <1>1, <1>2 DEF Sound
<1>. HIDE DEF k, o
<1>8. ASSUME ~k.lagged
      PROVE  k.got \o k.boot = From(FirstCached(k.joined), k.next - 1)
  <2>1. o.got = From(FirstCached(o.joined), o.next - 1)
    BY <1>1, <1>6, <1>8, Started
  <2>2. FirstCached(o.joined) \in Nat \ {0} /\ FirstCached(o.joined) <= (o.next - 1) + 1
        /\ o.next - 1 \in Nat
    BY <1>2, FirstBelow
  <2>3. Append(o.got, (o.next - 1) + 1) = From(FirstCached(o.joined), (o.next - 1) + 1)
    BY <2>1, <2>2, RunAppend
  <2>4. (o.next - 1) + 1 = o.next /\ k.next - 1 = o.next
    BY <1>2, <1>6
  <2>5. k.got = From(FirstCached(k.joined), k.next - 1)
    BY <1>6, <2>3, <2>4
  <2>6. k.got \o k.boot = k.got
    BY <1>2, <1>4, <1>6
  <2>. QED  BY <2>5, <2>6
<1>9. \A i, j \in 1..Len(k.got) : i < j => k.got[i] < k.got[j]
  BY <1>2, <1>4, <1>6, <1>7
<1>10. \A i \in 1..Len(k.got) : k.got[i] < k.next
  BY <1>2, <1>4, <1>6, <1>7, SMTT(30)
<1>11. Sound(k)
  <2>1. k.joined < k.next
    BY <1>2, <1>6
  <2>. QED  BY <1>6, <1>2, <1>8, <1>9, <1>10, <2>1, Zenon DEF Sound
<1>12. SocketsSound'
  BY <1>3, <1>5, <1>11, OneSocket DEF IInv
<1>. QED
  BY <1>12 DEF Relay, IInv, HubSound

(* Moving a receiver on leaves what the browser got below its position. *)
LEMMA LagSound ==
  ASSUME IInv, NEW s \in Sockets, Lag(s)
  PROVE  IInv'
<1>. DEFINE o == socket[s]
            k == [o EXCEPT !.pc = "deaf", !.lagged = TRUE, !.next = frames - ChannelCap + 1]
<1>1. o \in Socket /\ Sound(o) /\ o.pc = "select" /\ frames \in Nat
  BY DEF IInv, SocketsSound, HubSound, Lag
<1>2. o.next \in Nat \ {0} /\ o.joined \in Nat /\ o.joined < o.next /\ o.got \in Seq(Nat)
      /\ o.boot = <<>>
  BY <1>1 DEF Socket, Places, Sound
<1>3. socket' = [socket EXCEPT ![s] = k]
  BY <1>1 DEF Lag, IInv, SocketsSound, Socket
<1>4. frames - ChannelCap + 1 \in Nat \ {0} /\ o.next < frames - ChannelCap + 1
  BY <1>1, <1>2, HubAssumption, SMTT(30) DEF Lag, Overtaken
<1>5. k \in Socket
  BY <1>1, <1>4 DEF Socket, Places
<1>6. /\ k.pc = "deaf" /\ k.boot = <<>> /\ k.lagged /\ k.joined = o.joined
      /\ k.next = frames - ChannelCap + 1 /\ k.got = o.got
  BY <1>1, <1>2 DEF Socket, Places
<1>7. /\ \A i, j \in 1..Len(o.got) : i < j => o.got[i] < o.got[j]
      /\ \A i \in 1..Len(o.got) : o.got[i] < o.next
      /\ \A i \in 1..Len(o.got) : o.got[i] \in Nat
  BY <1>1, <1>2 DEF Sound
<1>. HIDE DEF k, o
<1>8. Sound(k)
  <2>1. k.joined < k.next
    BY <1>2, <1>4, <1>6
  <2>2. \A i \in 1..Len(k.got) : k.got[i] < k.next
    BY <1>2, <1>4, <1>6, <1>7
  <2>. QED  BY <1>6, <1>7, <2>1, <2>2 DEF Sound
<1>9. SocketsSound'
  BY <1>3, <1>5, <1>8, OneSocket DEF IInv
<1>. QED
  BY <1>9 DEF Lag, IInv, HubSound

(* The steps that change a connection's place in the loop alone. *)
LEMMA MoveSound ==
  ASSUME IInv, NEW s \in Sockets, Command(s) \/ CommandDone(s) \/ Close(s)
  PROVE  SocketsSound'
<1>. DEFINE o == socket[s]
<1>1. o \in Socket /\ Sound(o)
  BY DEF IInv, SocketsSound
<1>2. CASE Command(s)
  <2>. DEFINE k == [o EXCEPT !.pc = "busy", !.commands = o.commands + 1]
  <2>1. socket' = [socket EXCEPT ![s] = k]
    BY <1>1, <1>2 DEF Command, IInv, SocketsSound, Socket
  <2>2. k \in Socket /\ Sound(k)
    <3>1. o.commands + 1 \in Nat
      BY <1>1 DEF Socket
    <3>. QED  BY <1>1, <1>2, <3>1 DEF Command, Socket, Places, Sound
  <2>. HIDE DEF k
  <2>. QED  BY <2>1, <2>2, OneSocket DEF IInv
<1>3. CASE CommandDone(s)
  <2>. DEFINE k == [o EXCEPT !.pc = "select"]
  <2>1. socket' = [socket EXCEPT ![s] = k]
    BY <1>1, <1>3 DEF CommandDone, IInv, SocketsSound, Socket
  <2>2. k \in Socket /\ Sound(k)
    BY <1>1, <1>3 DEF CommandDone, Socket, Places, Sound
  <2>. HIDE DEF k
  <2>. QED  BY <2>1, <2>2, OneSocket DEF IInv
<1>4. CASE Close(s)
  <2>. DEFINE k == [o EXCEPT !.pc = "closed"]
  <2>1. socket' = [socket EXCEPT ![s] = k]
    BY <1>1, <1>4 DEF Close, IInv, SocketsSound, Socket
  <2>2. k \in Socket /\ Sound(k)
    BY <1>1, <1>4 DEF Close, Socket, Places, Sound
  <2>. HIDE DEF k
  <2>. QED  BY <2>1, <2>2, OneSocket DEF IInv
<1>. QED
  BY <1>2, <1>3, <1>4

(* Every step keeps the inductive invariant. *)
LEMMA NextSound == IInv /\ [Next]_vars => IInv'
<1>. SUFFICES ASSUME IInv, [Next]_vars  PROVE IInv'
  OBVIOUS
<1>1. CASE Register
  BY <1>1 DEF Register, IInv, HubSound, SocketsSound
<1>2. CASE Broadcast
  BY <1>2, SendSound DEF Broadcast, IInv, SocketsSound
<1>3. ASSUME NEW s \in Sockets, Connect(s)  PROVE IInv'
  BY <1>3, ConnectSound
<1>4. ASSUME NEW s \in Sockets, Loop(s)  PROVE IInv'
  <2>1. CASE Bootstrap(s)
    BY <2>1, BootstrapSound
  <2>2. CASE Relay(s)
    BY <2>2, RelaySound
  <2>3. CASE Lag(s)
    BY <2>3, LagSound
  <2>4. CASE CommandDone(s)
    <3>1. HubSound'
      BY <2>4, SendSound DEF CommandDone, IInv, HubSound
    <3>. QED  BY <2>4, <3>1, MoveSound DEF IInv
  <2>. QED  BY <1>4, <2>1, <2>2, <2>3, <2>4 DEF Loop
<1>5. ASSUME NEW s \in Sockets, Command(s)  PROVE IInv'
  <2>1. HubSound'
    BY <1>5 DEF Command, IInv, HubSound
  <2>. QED  BY <1>5, <2>1, MoveSound DEF IInv
<1>6. ASSUME NEW s \in Sockets, Close(s)  PROVE IInv'
  <2>1. HubSound'
    BY <1>6 DEF Close, IInv, HubSound
  <2>. QED  BY <1>6, <2>1, MoveSound DEF IInv
<1>7. CASE UNCHANGED vars
  BY <1>7 DEF vars, IInv, HubSound, SocketsSound
<1>. QED
  BY <1>1, <1>2, <1>3, <1>4, <1>5, <1>6, <1>7 DEF Next

-----------------------------------------------------------------------------
(* What a browser gets is an uninterrupted run of the session's frames     *)
(* that begins with the cache, or, for one that fell a whole ring behind,  *)
(* frames in ascending order (hub.rs 35-47, routes.rs 42-76).              *)
THEOREM HubRelayed == Spec => []Relayed
<1>1. IInv => Relayed
  BY DEF IInv, SocketsSound, Sound, Relayed, NoGap, InOrder
<1>. QED
  BY <1>1, InitSound, NextSound, PTL DEF Spec

-----------------------------------------------------------------------------
(* The tab *)

(* A step of the server or of the tab is a step of the hub or none of it.  *)
LEMMA StepOfTheHub == [ViewNext]_allVars => [Next]_vars
<1>1. CASE UNCHANGED allVars
  BY <1>1 DEF allVars
<1>2. CASE Server
  BY <1>2 DEF Server, RegisterSession, Stopped, PushEntry, AnnounceEntry, Continued, Ended,
              ChangeBreakpoints, AnnounceBreakpoints, Announced, Next, vars
<1>3. ASSUME NEW s \in Sockets, Tab(s)  PROVE [Next]_vars
  <2>1. CASE Dial(s) \/ Answer(s) \/ Apply(s)
    BY <2>1 DEF Dial, Answer, Apply, vars
  <2>2. CASE Subscribe(s) \/ SendCommand(s) \/ Disconnect(s)
    BY <2>2 DEF Subscribe, SendCommand, Disconnect, Next
  <2>3. CASE Deliver(s) \/ FallBehind(s) \/ Respond(s)
    BY <2>3 DEF Deliver, FallBehind, Respond, Loop, Next
  <2>. QED  BY <1>3, <2>1, <2>2, <2>3 DEF Tab
<1>. QED
  BY <1>1, <1>2, <1>3 DEF ViewNext

(* The composition of tab, dispatcher and tools implements the hub: no     *)
(* command, answer or lost connection of the tab makes it do anything else *)
(* (hub.rs 27-57, routes.rs 36-91).                                        *)
THEOREM ViewIsHub == ViewSpec => Spec
<1>1. ViewInit => Init
  BY DEF ViewInit
<1>. QED
  BY <1>1, StepOfTheHub, PTL DEF ViewSpec, Spec

(* So a tab that reconnects is sent, on each of its sockets, a run of the  *)
(* session's frames without a gap, in order.                               *)
THEOREM TabRelayed == ViewSpec => []Relayed
BY ViewIsHub, HubRelayed, PTL

-----------------------------------------------------------------------------
(* The hub's types *)

LEMMA SeqGrows ==
  ASSUME NEW S, NEW T, S \subseteq T, NEW q \in Seq(S)
  PROVE  q \in Seq(T)
<1>1. PICK n \in Nat : q \in [1..n -> S]
  BY SeqDef
<1>2. q \in [1..n -> T]
  BY <1>1
<1>. QED
  BY <1>2, SeqDef

SocketOf(f) ==
  [pc : {"none", "boot", "select", "deaf", "busy", "closed"}, boot : Seq(1..f), next : 1..(f + 1),
   commands : 0..MaxCommands, joined : 0..f, got : Seq(1..f), lagged : BOOLEAN]

LEMMA SocketGrows ==
  ASSUME NEW f \in Nat, NEW k \in SocketOf(f)
  PROVE  k \in SocketOf(f + 1)
<1>1. 1..f \subseteq 1..(f + 1) /\ 1..(f + 1) \subseteq 1..((f + 1) + 1) /\ 0..f \subseteq 0..(f + 1)
  OBVIOUS
<1>2. k.boot \in Seq(1..f) /\ k.got \in Seq(1..f)
  BY DEF SocketOf
<1>3. k.boot \in Seq(1..(f + 1)) /\ k.got \in Seq(1..(f + 1))
  BY <1>1, <1>2, SeqGrows
<1>4. k.next \in 1..((f + 1) + 1) /\ k.joined \in 0..(f + 1)
  BY <1>1 DEF SocketOf
<1>. QED
  BY <1>3, <1>4 DEF SocketOf

(* A frame that is sent. *)
LEMMA SendTypes ==
  ASSUME TypeOK, Send
  PROVE  /\ frames' \in 0..MaxFrames /\ frames' = frames + 1 /\ registered' \in BOOLEAN
         /\ cache' \in Seq(1..frames') /\ Len(cache') <= CacheCap
<1>. USE HubAssumption
<1>1. frames \in 0..MaxFrames /\ cache \in Seq(1..frames) /\ Len(cache) <= CacheCap /\ registered \in BOOLEAN
  BY DEF TypeOK
<1>2. frames < MaxFrames /\ frames' = frames + 1 /\ cache' = Push(cache, frames') /\ registered' = registered
  BY DEF Send
<1>3. frames' \in 0..MaxFrames /\ frames \in Nat
  BY <1>1, <1>2
<1>. DEFINE new == frames + 1
<1>4. new \in 1..new /\ 1..frames \subseteq 1..new
  BY <1>3
<1>5. cache \in Seq(1..new)
  BY <1>1, <1>4, SeqGrows
<1>. HIDE DEF new
<1>6. CASE Len(cache) < CacheCap
  <2>1. Append(cache, new) \in Seq(1..new) /\ Len(Append(cache, new)) = Len(cache) + 1
    BY <1>4, <1>5
  <2>2. Len(cache) \in Nat
    BY <1>5
  <2>3. Push(cache, new) = Append(cache, new)
    BY <1>6 DEF Push
  <2>4. cache' = Append(cache, new) /\ frames' = new
    BY <1>2, <2>3 DEF new
  <2>5. Len(cache) + 1 <= CacheCap
    BY <1>6, <2>2
  <2>6. cache' \in Seq(1..frames') /\ Len(cache') <= CacheCap
    BY <2>1, <2>4, <2>5
  <2>. QED  BY <1>1, <1>2, <1>3, <2>6
<1>7. CASE ~(Len(cache) < CacheCap)
  <2>1. Len(cache) \in Nat /\ Len(cache) > 0 /\ Len(cache) = CacheCap
    BY <1>1, <1>5, <1>7
  <2>2. cache # <<>>
    BY <2>1
  <2>3. Tail(cache) \in Seq(1..new) /\ Len(Tail(cache)) = Len(cache) - 1
    BY <1>5, <2>2
  <2>4. Append(Tail(cache), new) \in Seq(1..new) /\ Len(Append(Tail(cache), new)) = Len(Tail(cache)) + 1
    BY <1>4, <2>3
  <2>5. Push(cache, new) = Append(Tail(cache), new)
    BY <1>7 DEF Push
  <2>. QED  BY <1>1, <1>2, <1>3, <2>1, <2>3, <2>4, <2>5 DEF new
<1>. QED
  BY <1>6, <1>7

(* A connection's step. *)
LEMMA MovedTypes ==
  ASSUME TypeOK, NEW s \in Sockets, NEW k \in SocketOf(frames), socket' = [socket EXCEPT ![s] = k],
         registered' \in BOOLEAN, UNCHANGED <<frames, cache>>
  PROVE  TypeOK'
<1>1. socket \in [Sockets -> SocketOf(frames)]
  BY DEF TypeOK, SocketOf
<1>2. socket' \in [Sockets -> SocketOf(frames)]
  BY <1>1
<1>. QED
  BY <1>2 DEF TypeOK, SocketOf

LEMMA LoopTypes ==
  ASSUME TypeOK, NEW s \in Sockets,
         Connect(s) \/ Bootstrap(s) \/ Relay(s) \/ Lag(s) \/ Command(s) \/ Close(s)
  PROVE  TypeOK'
<1>. USE HubAssumption
<1>. DEFINE o == socket[s]
<1>1. /\ o \in SocketOf(frames) /\ socket \in [Sockets -> SocketOf(frames)]
      /\ frames \in Nat /\ cache \in Seq(1..frames) /\ registered \in BOOLEAN
  BY DEF TypeOK, SocketOf
<1>2. UNCHANGED <<frames, cache>> /\ registered' \in BOOLEAN
  BY <1>1 DEF Connect, Bootstrap, Relay, Lag, Command, Close
<1>3. /\ o.boot \in Seq(1..frames) /\ o.got \in Seq(1..frames) /\ o.next \in 1..(frames + 1)
      /\ o.joined \in 0..frames /\ o.commands \in 0..MaxCommands
  BY <1>1 DEF SocketOf
<1>4. CASE Connect(s)
  <2>. DEFINE k == [NoSocket EXCEPT !.pc = "boot", !.boot = cache, !.next = frames + 1, !.joined = frames]
  <2>1. <<>> \in Seq(1..frames) /\ frames + 1 \in 1..(frames + 1) /\ frames \in 0..frames /\ 0 \in 0..MaxCommands
    BY <1>1
  <2>2. k \in SocketOf(frames)
    BY <1>1, <2>1 DEF NoSocket, SocketOf
  <2>3. socket' = [socket EXCEPT ![s] = k]
    BY <1>4 DEF Connect
  <2>. HIDE DEF k
  <2>. QED  BY <1>2, <2>2, <2>3, MovedTypes
<1>5. CASE Bootstrap(s)
  <2>1. CASE o.boot = <<>>
    <3>. DEFINE k == [o EXCEPT !.pc = "select"]
    <3>1. k \in SocketOf(frames)
      BY <1>1 DEF SocketOf
    <3>2. socket' = [socket EXCEPT ![s] = k]
      BY <1>1, <1>5, <2>1 DEF Bootstrap, SocketOf
    <3>. HIDE DEF k
    <3>. QED  BY <1>2, <3>1, <3>2, MovedTypes
  <2>2. CASE o.boot # <<>>
    <3>. DEFINE k == [o EXCEPT !.got = Append(o.got, Head(o.boot)), !.boot = Tail(o.boot)]
    <3>1. Head(o.boot) \in 1..frames /\ Tail(o.boot) \in Seq(1..frames)
      BY <1>3, <2>2, HeadTailProperties
    <3>2. Append(o.got, Head(o.boot)) \in Seq(1..frames)
      BY <1>3, <3>1
    <3>3. k \in SocketOf(frames)
      BY <1>1, <3>1, <3>2 DEF SocketOf
    <3>4. socket' = [socket EXCEPT ![s] = k]
      BY <1>1, <1>5, <2>2 DEF Bootstrap, SocketOf
    <3>. HIDE DEF k
    <3>. QED  BY <1>2, <3>3, <3>4, MovedTypes
  <2>. QED  BY <2>1, <2>2
<1>6. CASE Relay(s)
  <2>. DEFINE k == [o EXCEPT !.got = Append(o.got, o.next), !.next = o.next + 1]
  <2>1. o.next <= frames
    BY <1>6 DEF Relay
  <2>2. o.next \in 1..frames /\ o.next + 1 \in 1..(frames + 1)
    BY <1>1, <1>3, <2>1
  <2>3. Append(o.got, o.next) \in Seq(1..frames)
    BY <1>3, <2>2
  <2>4. k \in SocketOf(frames)
    BY <1>1, <2>2, <2>3 DEF SocketOf
  <2>5. socket' = [socket EXCEPT ![s] = k]
    BY <1>1, <1>6 DEF Relay, SocketOf
  <2>. HIDE DEF k
  <2>. QED  BY <1>2, <2>4, <2>5, MovedTypes
<1>7. CASE Lag(s)
  <2>. DEFINE k == [o EXCEPT !.pc = "deaf", !.lagged = TRUE, !.next = frames - ChannelCap + 1]
  <2>1. o.next + ChannelCap <= frames
    BY <1>7 DEF Lag, Overtaken
  <2>2. frames - ChannelCap + 1 \in 1..(frames + 1)
    BY <1>1, <1>3, <2>1
  <2>3. k \in SocketOf(frames)
    BY <1>1, <2>2 DEF SocketOf
  <2>4. socket' = [socket EXCEPT ![s] = k]
    BY <1>1, <1>7 DEF Lag, SocketOf
  <2>. HIDE DEF k
  <2>. QED  BY <1>2, <2>3, <2>4, MovedTypes
<1>8. CASE Command(s)
  <2>. DEFINE k == [o EXCEPT !.pc = "busy", !.commands = o.commands + 1]
  <2>1. o.commands < MaxCommands
    BY <1>8 DEF Command
  <2>2. o.commands + 1 \in 0..MaxCommands
    BY <1>3, <2>1
  <2>3. k \in SocketOf(frames)
    BY <1>1, <2>2 DEF SocketOf
  <2>4. socket' = [socket EXCEPT ![s] = k]
    BY <1>1, <1>8 DEF Command, SocketOf
  <2>. HIDE DEF k
  <2>. QED  BY <1>2, <2>3, <2>4, MovedTypes
<1>9. CASE Close(s)
  <2>. DEFINE k == [o EXCEPT !.pc = "closed"]
  <2>1. k \in SocketOf(frames)
    BY <1>1 DEF SocketOf
  <2>2. socket' = [socket EXCEPT ![s] = k]
    BY <1>1, <1>9 DEF Close, SocketOf
  <2>. HIDE DEF k
  <2>. QED  BY <1>2, <2>1, <2>2, MovedTypes
<1>. QED
  BY <1>4, <1>5, <1>6, <1>7, <1>8, <1>9

LEMMA HubTypesStep == TypeOK /\ [Next]_vars => TypeOK'
<1>. SUFFICES ASSUME TypeOK, [Next]_vars  PROVE TypeOK'
  OBVIOUS
<1>1. /\ frames \in Nat /\ socket \in [Sockets -> SocketOf(frames)]
  BY HubAssumption DEF TypeOK, SocketOf
<1>2. CASE Register
  BY <1>2 DEF Register, TypeOK
<1>3. CASE Broadcast
  <2>1. \A s \in Sockets : socket[s] \in SocketOf(frames + 1)
    BY <1>1, SocketGrows
  <2>2. socket \in [Sockets -> SocketOf(frames + 1)]
    BY <1>1, <2>1
  <2>3. socket' \in [Sockets -> SocketOf(frames')] 
    BY <1>3, <2>2, SendTypes DEF Broadcast
  <2>. QED  BY <1>3, <2>3, SendTypes DEF Broadcast, TypeOK, SocketOf
<1>4. ASSUME NEW s \in Sockets, CommandDone(s)  PROVE TypeOK'
  <2>. DEFINE k == [socket[s] EXCEPT !.pc = "select"]
  <2>1. k \in SocketOf(frames)
    BY <1>1 DEF SocketOf
  <2>2. socket' = [socket EXCEPT ![s] = k]
    BY <1>1, <1>4 DEF CommandDone, SocketOf
  <2>. HIDE DEF k
  <2>3. CASE Send
    <3>1. socket' \in [Sockets -> SocketOf(frames)]
      BY <1>1, <2>1, <2>2
    <3>2. \A r \in Sockets : socket'[r] \in SocketOf(frames + 1)
      BY <1>1, <3>1, SocketGrows
    <3>3. socket' \in [Sockets -> SocketOf(frames + 1)]
      BY <3>1, <3>2
    <3>4. socket' \in [Sockets -> SocketOf(frames')]
      BY <2>3, <3>3, SendTypes
    <3>. QED  BY <2>3, <3>4, SendTypes DEF TypeOK, SocketOf
  <2>4. CASE UNCHANGED <<registered, frames, cache>>
    <3>1. registered' \in BOOLEAN
      BY <2>4 DEF TypeOK
    <3>. QED  BY <2>1, <2>2, <2>4, <3>1, MovedTypes
  <2>. QED  BY <1>4, <2>3, <2>4 DEF CommandDone
<1>5. ASSUME NEW s \in Sockets, Connect(s) \/ Loop(s) \/ Command(s) \/ Close(s)  PROVE TypeOK'
  BY <1>4, <1>5, LoopTypes DEF Loop
<1>6. CASE UNCHANGED vars
  BY <1>6 DEF vars, TypeOK
<1>. QED
  BY <1>2, <1>3, <1>5, <1>6 DEF Next

LEMMA HubTypesInit == Init => TypeOK
<1>. SUFFICES ASSUME Init  PROVE TypeOK
  OBVIOUS
<1>1. <<>> \in Seq(1..0) /\ 0 \in 0..MaxFrames /\ 1 \in 1..(0 + 1) /\ 0 \in 0..0 /\ 0 \in 0..MaxCommands
      /\ Len(<<>>) <= CacheCap
  BY HubAssumption
<1>. QED
  BY <1>1 DEF Init, NoSocket, TypeOK

-----------------------------------------------------------------------------
(* The invariant of the tab *)

(* The tab's types, piece by piece. *)
FrameKinds == {"stopped", "continued", "terminated", "timeline_entry", "breakpoints_changed", "response"}

SessionOK ==
  /\ session \in [pc : {"running", "enrich", "pushed", "stopped", "ended"}, entries : Nat,
                  bps : 0..MaxChanges, changes : 0..MaxChanges, tool : {"idle", "announce"}]
  /\ session.bps <= session.changes
  /\ session.pc = "pushed" => session.entries > 0

LogOK ==
  /\ log \in Seq([kind : FrameKinds, n : Nat]) /\ Len(log) = frames
  /\ \A p \in 1..Len(log) : log[p].kind = "timeline_entry" => log[p].n \in 1..session.entries
  /\ \A p \in 1..Len(log) : log[p].kind = "breakpoints_changed" => log[p].n \in 0..session.changes

FetchOK ==
  /\ fetch \in [Sockets -> [Kinds -> [pc : {"none", "asked", "answered", "done"}, found : Seq(Nat)]]]
  /\ \A s \in Sockets :
       /\ fetch[s]["timeline"].found \in Seq(1..session.entries) /\ Len(fetch[s]["timeline"].found) <= ViewCap
       /\ fetch[s]["breakpoints"].found \in Seq(0..session.changes)

ShownOK ==
  /\ view \in [status : {"running", "paused", "ended"}, timeline : Seq(Nat), bps : Nat]
  /\ view.timeline \in Seq(1..session.entries) /\ Len(view.timeline) <= ViewCap
  /\ view.bps \in 0..session.changes

TabOK == dialed \subseteq Sockets /\ overtaken \in BOOLEAN /\ mix \subseteq Kinds

ViewTypes == SessionOK /\ LogOK /\ FetchOK /\ ShownOK /\ TabOK

(* The tab has one socket at a time, and what earlier ones got is not      *)
(* after what was there when it subscribed.                                *)
First(s) == socket[s].next - Len(socket[s].boot)
Live(s) == s \in dialed /\ socket[s].pc # "closed"

OneAtATime ==
  /\ \A s \in Sockets : s \notin dialed => socket[s].pc = "none"
  /\ \A s \in Sockets : socket[s].pc = "none" => socket[s].got = <<>>
  /\ \A s, o \in dialed : Live(s) /\ Live(o) => s = o
  /\ \A s \in Sockets : socket[s].pc = "boot" => socket[s].next = socket[s].joined + 1
  /\ \A s, o \in Sockets : s # o /\ socket[s].pc \notin {"none", "closed"} =>
       \A i \in 1..Len(socket[o].got) : socket[o].got[i] <= socket[s].joined

(* Each socket asked for what there is to ask for. *)
AskedOK ==
  /\ \A s \in Sockets, kind \in Kinds : fetch[s][kind].pc = "none" => s \notin dialed \/ kind \notin mix
  /\ "timeline" \notin mix => session.entries = 0
  /\ "breakpoints" \notin mix => session.bps = 0

(* The last status event is what is shown once it was handled, unless a    *)
(* replay is under way that it is part of.                                 *)
Replaying(n) == \E s \in Sockets : socket[s].pc = "boot" /\ First(s) <= n /\ n < socket[s].next

StatusShown ==
  Uninterrupted => \A n \in LastOf(StatusKinds) : Handled(n) =>
    view.status = StatusAfter(log[n].kind) \/ Replaying(n)

(* Breakpoints *)
Changes == LastOf({"breakpoints_changed"})
AnnouncedBps == session.tool = "idle" => \A n \in Changes : log[n].n = session.bps
NoChange ==
  Changes = {} => /\ \A p \in 1..Len(log) : log[p].kind # "breakpoints_changed"
                  /\ session.tool = "idle" => session.bps = 0 /\ view.bps = 0
                  /\ session.tool = "idle" => \A s \in Sockets : fetch[s]["breakpoints"].found = <<>>
AnsweredBps ==
  \A s \in Sockets : fetch[s]["breakpoints"].pc = "answered" /\ ~overtaken /\ session.tool = "idle" =>
    fetch[s]["breakpoints"].found = IF session.bps = 0 THEN <<>> ELSE <<session.bps>>
ClearedShown ==
  Uninterrupted /\ ~overtaken /\ session.tool = "idle" /\ session.bps = 0 =>
    \A n \in Changes : Handled(n) => view.bps = 0 \/ Replaying(n)
BpsPending(s) == socket[s].pc # "none" /\ \E p \in 1..Len(log) : p >= First(s) /\ log[p].kind = "breakpoints_changed"
SetShown ==
  \A s \in Sockets :
    Live(s) /\ fetch[s]["breakpoints"].pc = "done" /\ ~overtaken /\ ~socket[s].lagged =>
      view.bps = session.bps \/ session.bps = 0 \/ session.tool = "announce" \/ BpsPending(s)

(* Timeline *)
AnnouncedEntries == IF session.pc = "pushed" THEN session.entries - 1 ELSE session.entries
IsEntry(p) == log[p].kind = "timeline_entry"
EntriesInOrder ==
  /\ \A p \in 1..Len(log) : IsEntry(p) => log[p].n <= AnnouncedEntries
  /\ \A x \in 1..AnnouncedEntries : \E p \in 1..Len(log) : IsEntry(p) /\ log[p].n = x
  /\ \A p, r \in 1..Len(log) : IsEntry(p) /\ IsEntry(r) /\ p < r => log[p].n < log[r].n
AnsweredEntries ==
  \A s \in Sockets : fetch[s]["timeline"].pc = "answered" /\ ~overtaken =>
    \E e \in AnnouncedEntries..session.entries : fetch[s]["timeline"].found = Newest(e)
(* x is one of the entries that are to be shown when there are e *)
Recent(x, e) == x \in 1..e /\ x + FetchLimit > e
(* x is shown, with no more than d entries after it *)
ShownIn(t, x, d) == \E i \in 1..Len(t) : t[i] = x /\ Len(t) - i <= d
(* the entries before b are those told before the frame f *)
SplitsAt(q, f, b) == \A p \in 1..Len(q) : q[p].kind = "timeline_entry" => (p < f <=> q[p].n < b)
EntriesShown ==
  \A s \in Sockets :
    Live(s) /\ fetch[s]["timeline"].pc = "done" /\ ~overtaken /\ ~socket[s].lagged =>
      IF socket[s].pc = "none"
      THEN \A x \in 1..AnnouncedEntries : Recent(x, session.entries) => ShownIn(view.timeline, x, session.entries - x)
      ELSE \E b \in 1..(AnnouncedEntries + 1) :
             /\ SplitsAt(log, First(s), b)
             /\ \A x \in 1..(b - 1) :
                  Recent(x, session.entries) => ShownIn(view.timeline, x, (b - 1 - x) + (FetchLimit - 1))

ViewInv ==
  /\ IInv /\ TypeOK /\ ViewTypes /\ OneAtATime /\ AskedOK
  /\ StatusShown
  /\ AnnouncedBps /\ NoChange /\ AnsweredBps /\ ClearedShown /\ SetShown
  /\ EntriesInOrder /\ AnsweredEntries /\ EntriesShown

-----------------------------------------------------------------------------
(* What each kind of step does *)

(* The second part of a run ends where the run does. *)
LEMMA RunEnd ==
  ASSUME NEW g \in Seq(Nat), NEW t \in Seq(Nat), NEW f \in Nat \ {0}, NEW e \in Nat \ {0}, f <= e,
         g \o t = From(f, e - 1)
  PROVE  Len(t) < e /\ (t # <<>> => Head(t) = e - Len(t))
<1>1. PICK r \in Seq(Nat) : r = g \o t
  BY ConcatProperties
<1>2. PICK n \in Nat : n = Len(g)
  OBVIOUS
<1>3. PICK m \in Nat : m = Len(t)
  OBVIOUS
<1>4. PICK b \in Nat : b = e - 1
  OBVIOUS
<1>5. Len(From(f, b)) = b + 1 - f /\ \A i \in 1..(b + 1 - f) : From(f, b)[i] = f + i - 1
  <2>1. f <= b + 1
    BY <1>4
  <2>. QED  BY <2>1, RunProperties
<1>6. Len(r) = b + 1 - f /\ \A i \in 1..(b + 1 - f) : r[i] = f + i - 1
  BY <1>1, <1>4, <1>5
<1>7. Len(r) = n + m /\ \A i \in 1..(n + m) : r[i] = IF i <= n THEN g[i] ELSE t[i - n]
  BY <1>1, <1>2, <1>3, ConcatProperties
<1>8. n + m = b + 1 - f
  BY <1>6, <1>7
<1>9. m < e
  BY <1>4, <1>8
<1>10. ASSUME t # <<>>  PROVE Head(t) = e - m
  <2>1. Head(t) = t[1] /\ m > 0
    BY <1>3, <1>10
  <2>2. n + 1 \in 1..(n + m) /\ ~(n + 1 <= n) /\ (n + 1) - n = 1
    BY <2>1
  <2>3. r[n + 1] = t[1]
    BY <1>7, <2>2
  <2>4. r[n + 1] = f + (n + 1) - 1
    BY <1>6, <1>8, <2>2
  <2>5. f + (n + 1) - 1 = e - m
    BY <1>4, <1>8
  <2>. QED  BY <2>1, <2>3, <2>4, <2>5
<1>. QED
  BY <1>3, <1>9, <1>10

(* What is left of the cache is the end of a run. *)
LEMMA BootRun ==
  ASSUME NEW k \in Socket, Sound(k), k.pc = "boot"
  PROVE  /\ ~k.lagged /\ Len(k.boot) < k.next
         /\ k.boot # <<>> => Head(k.boot) = k.next - Len(k.boot)
<1>1. ~k.lagged /\ k.got \o k.boot = From(FirstCached(k.joined), k.next - 1) /\ k.joined < k.next
  BY DEF Sound
<1>2. k.got \in Seq(Nat) /\ k.boot \in Seq(Nat) /\ k.next \in Nat \ {0} /\ k.joined \in Nat
  BY DEF Socket
<1>3. FirstCached(k.joined) \in Nat \ {0} /\ FirstCached(k.joined) <= k.next
  <2>1. PICK b \in Nat : b = k.next - 1
    BY <1>2
  <2>2. k.joined <= b
    BY <1>1, <1>2, <2>1
  <2>. QED  BY <1>2, <2>1, <2>2, FirstBelow
<1>. QED
  BY <1>1, <1>2, <1>3, RunEnd

(* A socket's place, step by step. *)
LEMMA FirstFacts ==
  ASSUME IInv, NEW s \in Sockets
  PROVE  /\ socket[s] \in Socket /\ Sound(socket[s])
         /\ First(s) \in Int
         /\ socket[s].pc \in {"none", "boot", "select", "deaf", "busy", "closed"}
         /\ socket[s].pc \in {"select", "deaf", "busy"} => First(s) = socket[s].next
         /\ socket[s].pc = "boot" => First(s) \in Nat \ {0} /\ ~socket[s].lagged
         /\ socket[s].next \in Nat \ {0} /\ socket[s].joined \in Nat
         /\ socket[s].pc # "none" => socket[s].joined < socket[s].next
         /\ socket[s].lagged => socket[s].pc \notin {"none", "boot"}
<1>. DEFINE k == socket[s]
<1>1. k \in Socket /\ Sound(k)
  BY DEF IInv, SocketsSound
<1>2. k.boot \in Seq(Nat) /\ k.next \in Nat \ {0} /\ Len(k.boot) \in Nat /\ k.joined \in Nat
      /\ k.pc \in {"none", "boot", "select", "deaf", "busy", "closed"}
  BY <1>1 DEF Socket, Places
<1>3. k.pc \in {"select", "deaf", "busy"} => First(s) = k.next
  <2>1. Len(<<>>) = 0
    OBVIOUS
  <2>2. k.pc \in {"select", "deaf", "busy"} => Len(k.boot) = 0
    BY <1>1, <2>1 DEF Sound
  <2>. QED  BY <1>2, <2>2 DEF First
<1>4. k.pc = "boot" => First(s) \in Nat \ {0} /\ ~k.lagged
  BY <1>1, <1>2, BootRun DEF First
<1>5. First(s) \in Int
  BY <1>2 DEF First
<1>6. k.pc # "none" => k.joined < k.next
  BY <1>1 DEF Sound
<1>7. k.lagged => k.pc \notin {"none", "boot"}
  BY <1>1 DEF Sound
<1>. QED
  BY <1>1, <1>2, <1>3, <1>4, <1>5, <1>6, <1>7

Others(s) == \A o \in Sockets \ {s} : socket'[o] = socket[o]

(* The frame p comes to the tab on the socket s. *)
Handles(s, p) ==
  /\ p \in 1..Len(log) /\ p = First(s)
  /\ socket'[s].got = Append(socket[s].got, p)
  /\ view' = HandleEnvelope(view, log[p])
  /\ First(s)' = p + 1
  /\ \/ /\ socket[s].pc = "boot" /\ socket'[s].pc = "boot" /\ socket'[s].next = socket[s].next
        /\ p < socket[s].next
     \/ /\ socket[s].pc = "select" /\ socket'[s].pc = "select" /\ socket'[s].next = p + 1
        /\ p = socket[s].next

(* The cache is sent. *)
Enters(s) ==
  /\ socket[s].pc = "boot" /\ socket'[s].pc = "select" /\ socket[s].boot = <<>>
  /\ socket'[s].got = socket[s].got /\ socket'[s].next = socket[s].next
  /\ First(s) = socket[s].next /\ First(s)' = First(s)
  /\ view' = view

LEMMA DeliverFacts ==
  ASSUME IInv, TypeOK, LogOK, NEW s \in Sockets, Deliver(s)
  PROVE  /\ UNCHANGED <<registered, frames, cache, session, log, dialed, fetch, overtaken>>
         /\ Others(s)
         /\ socket[s].pc \in {"boot", "select"}
         /\ socket'[s].lagged = socket[s].lagged /\ socket'[s].joined = socket[s].joined
         /\ Enters(s) \/ \E p \in 1..Len(log) : Handles(s, p)
<1>. DEFINE o == socket[s]
<1>1. o \in Socket /\ Sound(o) /\ socket \in [Sockets -> Socket] /\ Len(log) = frames
  BY DEF IInv, SocketsSound, LogOK
<1>2. /\ o.boot \in Seq(Nat) /\ o.next \in Nat \ {0} /\ o.got \in Seq(Nat) /\ Len(o.boot) \in Nat /\ Len(o.got) \in Nat
      /\ o.boot \in Seq(1..frames) /\ frames \in Nat
  BY <1>1, HubAssumption DEF Socket, TypeOK
<1>3. UNCHANGED <<registered, frames, cache, session, log, dialed, fetch, overtaken>>
  BY DEF Deliver, Bootstrap, Relay
<1>4. view' = IF Len(socket'[s].got) > Len(o.got) THEN HandleEnvelope(view, log[Last(socket'[s].got)]) ELSE view
  BY DEF Deliver
<1>5. CASE Bootstrap(s) /\ o.boot = <<>>
  <2>1. socket' = [socket EXCEPT ![s] = [o EXCEPT !.pc = "select"]] /\ o.pc = "boot"
    BY <1>1, <1>5 DEF Bootstrap, Socket
  <2>2. /\ socket'[s].pc = "select" /\ socket'[s].got = o.got /\ socket'[s].next = o.next
        /\ socket'[s].boot = o.boot /\ socket'[s].lagged = o.lagged /\ socket'[s].joined = o.joined
        /\ Others(s)
    BY <1>1, <2>1 DEF Socket, Others
  <2>3. Len(o.boot) = 0
    BY <1>5
  <2>4. First(s) = o.next /\ First(s)' = First(s)
    BY <1>2, <2>2, <2>3 DEF First
  <2>5. view' = view
    BY <1>2, <1>4, <2>2
  <2>. QED  BY <1>3, <1>5, <2>1, <2>2, <2>4, <2>5 DEF Enters
<1>6. CASE Bootstrap(s) /\ o.boot # <<>>
  <2>. DEFINE p == Head(o.boot)
  <2>1. socket' = [socket EXCEPT ![s] = [o EXCEPT !.got = Append(o.got, p), !.boot = Tail(o.boot)]] /\ o.pc = "boot"
    BY <1>1, <1>6 DEF Bootstrap, Socket
  <2>2. /\ socket'[s].pc = "boot" /\ socket'[s].got = Append(o.got, p) /\ socket'[s].next = o.next
        /\ socket'[s].boot = Tail(o.boot) /\ socket'[s].lagged = o.lagged /\ socket'[s].joined = o.joined
        /\ Others(s)
    BY <1>1, <2>1 DEF Socket, Others
  <2>3. p = o.next - Len(o.boot) /\ Len(o.boot) < o.next
    BY <1>1, <1>6, <2>1, BootRun
  <2>4. p \in 1..frames /\ Len(Tail(o.boot)) = Len(o.boot) - 1 /\ Len(o.boot) > 0
    BY <1>2, <1>6, HeadTailProperties
  <2>. HIDE DEF p
  <2>9. PICK m \in Nat : m = Len(o.boot)
    BY <1>2
  <2>10. PICK e \in Nat : e = o.next
    BY <1>2
  <2>5. First(s) = p /\ First(s)' = p + 1 /\ p < o.next
    <3>1. First(s) = e - m
      BY <2>9, <2>10 DEF First
    <3>2. First(s)' = e - (m - 1)
      BY <2>2, <2>4, <2>9, <2>10 DEF First
    <3>3. p = e - m /\ m > 0
      BY <2>3, <2>4, <2>9, <2>10
    <3>. QED  BY <2>10, <3>1, <3>2, <3>3
  <2>7. view' = HandleEnvelope(view, log[p])
    <3>1. Len(Append(o.got, p)) = Len(o.got) + 1 /\ Append(o.got, p)[Len(o.got) + 1] = p
      BY <1>2, <2>4, AppendProperties
    <3>2. Last(Append(o.got, p)) = p
      BY <3>1 DEF Last
    <3>3. Len(Append(o.got, p)) > Len(o.got)
      BY <1>2, <3>1
    <3>. QED  BY <1>4, <2>2, <3>2, <3>3
  <2>8. Handles(s, p)
    BY <1>1, <2>1, <2>2, <2>4, <2>5, <2>7 DEF Handles
  <2>. QED  BY <1>1, <1>3, <2>1, <2>2, <2>4, <2>8
<1>7. CASE Relay(s)
  <2>. DEFINE p == o.next
  <2>1. socket' = [socket EXCEPT ![s] = [o EXCEPT !.got = Append(o.got, p), !.next = p + 1]] /\ o.pc = "select"
        /\ p <= frames
    BY <1>1, <1>7 DEF Relay, Socket
  <2>2. /\ socket'[s].pc = "select" /\ socket'[s].got = Append(o.got, p) /\ socket'[s].next = p + 1
        /\ socket'[s].boot = o.boot /\ socket'[s].lagged = o.lagged /\ socket'[s].joined = o.joined
        /\ Others(s)
    BY <1>1, <2>1 DEF Socket, Others
  <2>3. Len(o.boot) = 0
    BY <1>1, <2>1 DEF Sound
  <2>4. p \in 1..frames
    BY <1>2, <2>1
  <2>5. First(s) = p /\ First(s)' = p + 1
    BY <1>2, <2>2, <2>3 DEF First
  <2>6. view' = HandleEnvelope(view, log[p])
    <3>1. Len(Append(o.got, p)) = Len(o.got) + 1 /\ Append(o.got, p)[Len(o.got) + 1] = p
      BY <1>2, <2>4, AppendProperties
    <3>2. Last(Append(o.got, p)) = p
      BY <3>1 DEF Last
    <3>3. Len(Append(o.got, p)) > Len(o.got)
      BY <1>2, <3>1
    <3>. QED  BY <1>4, <2>2, <3>2, <3>3
  <2>7. Handles(s, p)
    BY <1>1, <2>1, <2>2, <2>4, <2>5, <2>6 DEF Handles
  <2>. QED  BY <1>1, <1>3, <2>1, <2>2, <2>4, <2>7
<1>. QED
  BY <1>5, <1>6, <1>7 DEF Deliver

-----------------------------------------------------------------------------
(* The kinds of steps *)

Frames == [kind : FrameKinds, n : Nat]
Silent == UNCHANGED <<frames, log>>
Tells(f) == frames' = frames + 1 /\ log' = Append(log, f) /\ f \in Frames

(* The tab's socket is served without anything being relayed, or closed. *)
Moves(s) ==
  /\ Others(s) /\ UNCHANGED <<session, dialed, fetch, view, overtaken>>
  /\ socket[s].pc \notin {"none", "closed"} /\ socket'[s].pc \in {"select", "deaf", "busy", "closed"}
  /\ socket[s].pc = "boot" => socket'[s].pc = "closed"
  /\ socket'[s].got = socket[s].got /\ socket'[s].boot = socket[s].boot /\ socket'[s].joined = socket[s].joined
  /\ socket'[s].lagged \/ socket'[s].next = socket[s].next
  /\ socket[s].lagged => socket'[s].lagged
  /\ Silent \/ Tells(Frame("response", 0))

Subscribes(s) ==
  /\ Others(s) /\ UNCHANGED <<session, dialed, fetch, view, overtaken>> /\ Silent
  /\ s \in dialed /\ socket[s].pc = "none"
  /\ socket'[s].pc = "boot" /\ socket'[s].got = <<>> /\ ~socket'[s].lagged
  /\ socket'[s].joined = frames /\ socket'[s].next = frames + 1 /\ socket'[s].boot = cache

Delivers(s) ==
  /\ Others(s) /\ UNCHANGED <<session, dialed, fetch, overtaken>> /\ Silent
  /\ socket[s].pc \in {"boot", "select"}
  /\ socket'[s].lagged = socket[s].lagged /\ socket'[s].joined = socket[s].joined
  /\ Enters(s) \/ \E p \in 1..Len(log) : Handles(s, p)

(* The session's status changes and is told. *)
StatusTold ==
  /\ \E f \in Frames : f.kind \in StatusKinds /\ Tells(f)
  /\ session.pc # "pushed"
  /\ \E q \in {"enrich", "running", "ended"} : session' = [session EXCEPT !.pc = q]
  /\ UNCHANGED overtaken

EntryPushed ==
  /\ session.pc = "enrich" /\ session' = [session EXCEPT !.pc = "pushed", !.entries = @ + 1]
  /\ Silent /\ UNCHANGED overtaken /\ "timeline" \in mix

EntryTold ==
  /\ session.pc = "pushed" /\ session' = [session EXCEPT !.pc = "stopped"]
  /\ Tells(Frame("timeline_entry", session.entries))
  /\ overtaken' = (overtaken \/ InFlight("timeline"))

ListChanged ==
  /\ session.tool = "idle" /\ session.changes < MaxChanges
  /\ \E bps \in {0, session.changes + 1} :
       session' = [session EXCEPT !.tool = "announce", !.bps = bps, !.changes = @ + 1]
  /\ Silent /\ UNCHANGED overtaken /\ "breakpoints" \in mix

ListTold ==
  /\ session.tool = "announce" /\ session' = [session EXCEPT !.tool = "idle"]
  /\ Tells(Frame("breakpoints_changed", session.bps))
  /\ overtaken' = (overtaken \/ InFlight("breakpoints"))

Serves ==
  /\ UNCHANGED <<socket, dialed, fetch, view>>
  /\ \/ Silent /\ UNCHANGED <<session, overtaken>>
     \/ StatusTold \/ EntryPushed \/ EntryTold \/ ListChanged \/ ListTold

(* All that a step can be. *)
ViewStep ==
  /\ mix' = mix
  /\ Serves \/ \E s \in Sockets : Dial(s) \/ Subscribes(s) \/ Delivers(s) \/ Moves(s) \/ Answer(s) \/ Apply(s)

LEMMA MoveFacts ==
  ASSUME IInv, TypeOK, LogOK, NEW s \in Sockets,
         FallBehind(s) \/ SendCommand(s) \/ Respond(s) \/ Disconnect(s)
  PROVE  Moves(s)
<1>. DEFINE o == socket[s]
<1>1. o \in Socket /\ socket \in [Sockets -> Socket]
  BY DEF IInv, SocketsSound
<1>2. CASE FallBehind(s)
  <2>1. PICK e : e = frames - ChannelCap + 1
    OBVIOUS
  <2>2. socket' = [socket EXCEPT ![s] = [o EXCEPT !.pc = "deaf", !.lagged = TRUE, !.next = e]] /\ o.pc = "select"
        /\ UNCHANGED <<frames, log, session, dialed, fetch, view, overtaken>>
    BY <1>1, <1>2, <2>1 DEF FallBehind, Lag, Socket, tab
  <2>3. /\ socket'[s].pc = "deaf" /\ socket'[s].got = o.got /\ socket'[s].lagged
        /\ socket'[s].boot = o.boot /\ socket'[s].joined = o.joined /\ Others(s)
    BY <1>1, <2>2 DEF Socket, Others
  <2>. QED  BY <2>2, <2>3 DEF Moves, Silent
<1>3. CASE SendCommand(s)
  <2>1. PICK e : e = o.commands + 1
    OBVIOUS
  <2>2. socket' = [socket EXCEPT ![s] = [o EXCEPT !.pc = "busy", !.commands = e]] /\ o.pc \in {"select", "deaf"}
        /\ UNCHANGED <<frames, log, session, dialed, fetch, view, overtaken>>
    BY <1>1, <1>3, <2>1 DEF SendCommand, Command, Socket, tab
  <2>3. /\ socket'[s].pc = "busy" /\ socket'[s].got = o.got /\ socket'[s].lagged = o.lagged /\ socket'[s].next = o.next
        /\ socket'[s].boot = o.boot /\ socket'[s].joined = o.joined /\ Others(s)
    BY <1>1, <2>2 DEF Socket, Others
  <2>. QED  BY <2>2, <2>3 DEF Moves, Silent
<1>4. CASE Respond(s)
  <2>1. socket' = [socket EXCEPT ![s] = [o EXCEPT !.pc = "select"]] /\ o.pc = "busy"
        /\ UNCHANGED <<session, dialed, fetch, view, overtaken>>
    BY <1>1, <1>4 DEF Respond, CommandDone, Socket, tab
  <2>2. /\ socket'[s].pc = "select" /\ socket'[s].got = o.got /\ socket'[s].lagged = o.lagged /\ socket'[s].next = o.next
        /\ socket'[s].boot = o.boot /\ socket'[s].joined = o.joined /\ Others(s)
    BY <1>1, <2>1 DEF Socket, Others
  <2>3. Silent \/ Tells(Frame("response", 0))
    <3>1. frames \in Nat
      BY DEF IInv, HubSound
    <3>2. CASE Send
      <4>1. frames' = frames + 1
        BY <3>2 DEF Send
      <4>2. log' = Append(log, Frame("response", 0))
        BY <1>4, <3>1, <4>1 DEF Respond
      <4>. QED  BY <4>1, <4>2 DEF Tells, Frames, Frame, FrameKinds
    <3>3. CASE UNCHANGED frames
      BY <1>4, <3>1, <3>3 DEF Respond, Silent
    <3>. QED  BY <1>4, <3>2, <3>3 DEF Respond, CommandDone
  <2>. QED  BY <2>1, <2>2, <2>3 DEF Moves
<1>5. CASE Disconnect(s)
  <2>1. socket' = [socket EXCEPT ![s] = [o EXCEPT !.pc = "closed"]] /\ o.pc \notin {"none", "closed"}
        /\ UNCHANGED <<frames, log, session, dialed, fetch, view, overtaken>>
    BY <1>1, <1>5 DEF Disconnect, Close, Socket, tab
  <2>2. /\ socket'[s].pc = "closed" /\ socket'[s].got = o.got /\ socket'[s].lagged = o.lagged /\ socket'[s].next = o.next
        /\ socket'[s].boot = o.boot /\ socket'[s].joined = o.joined /\ Others(s)
    BY <1>1, <2>1 DEF Socket, Others
  <2>. QED  BY <2>1, <2>2 DEF Moves, Silent
<1>. QED
  BY <1>2, <1>3, <1>4, <1>5

LEMMA SubscribeFacts ==
  ASSUME IInv, NEW s \in Sockets, Subscribe(s)
  PROVE  Subscribes(s)
<1>. DEFINE k == [NoSocket EXCEPT !.pc = "boot", !.boot = cache, !.next = frames + 1, !.joined = frames]
<1>1. /\ socket \in [Sockets -> Socket] /\ socket' = [socket EXCEPT ![s] = k] /\ socket[s].pc = "none" /\ s \in dialed
      /\ UNCHANGED <<frames, log, session, dialed, fetch, view, overtaken>>
  BY DEF Subscribe, Connect, tab, IInv, SocketsSound
<1>2. k.pc = "boot" /\ k.got = <<>> /\ ~k.lagged /\ k.joined = frames /\ k.next = frames + 1 /\ k.boot = cache
  BY DEF NoSocket
<1>. HIDE DEF k
<1>3. socket'[s] = k /\ Others(s)
  BY <1>1 DEF Others
<1>. QED
  BY <1>1, <1>2, <1>3 DEF Subscribes, Silent

LEMMA ServerFacts ==
  ASSUME IInv, TypeOK, SessionOK, Server
  PROVE  Serves
<1>1. frames \in Nat /\ session.entries \in Nat /\ session.bps \in Nat /\ session.changes \in Nat
  BY UiViewAssumption DEF IInv, HubSound, SessionOK
<1>2. CASE RegisterSession
  BY <1>2 DEF RegisterSession, Register, Serves, Silent, tab
<1>3. CASE Stopped
  <2>1. Tells(Frame("stopped", 0)) /\ Frame("stopped", 0) \in Frames /\ Frame("stopped", 0).kind \in StatusKinds
    BY <1>3 DEF Stopped, Announced, Broadcast, Send, Tells, Frames, Frame, FrameKinds, StatusKinds
  <2>2. UNCHANGED <<socket, dialed, fetch, view>> /\ session.pc # "pushed" /\ UNCHANGED overtaken
        /\ session' = [session EXCEPT !.pc = "enrich"]
    BY <1>3 DEF Stopped, Announced, Broadcast, tab
  <2>. QED  BY <2>1, <2>2 DEF Serves, StatusTold
<1>4. CASE Continued
  <2>1. Tells(Frame("continued", 0)) /\ Frame("continued", 0) \in Frames /\ Frame("continued", 0).kind \in StatusKinds
    BY <1>4 DEF Continued, Announced, Broadcast, Send, Tells, Frames, Frame, FrameKinds, StatusKinds
  <2>2. UNCHANGED <<socket, dialed, fetch, view>> /\ session.pc # "pushed" /\ UNCHANGED overtaken
        /\ session' = [session EXCEPT !.pc = "running"]
    BY <1>4 DEF Continued, Announced, Broadcast, tab
  <2>. QED  BY <2>1, <2>2 DEF Serves, StatusTold
<1>5. CASE Ended
  <2>1. Tells(Frame("terminated", 0)) /\ Frame("terminated", 0) \in Frames /\ Frame("terminated", 0).kind \in StatusKinds
    BY <1>5 DEF Ended, Announced, Broadcast, Send, Tells, Frames, Frame, FrameKinds, StatusKinds
  <2>2. UNCHANGED <<socket, dialed, fetch, view>> /\ session.pc # "pushed" /\ UNCHANGED overtaken
        /\ session' = [session EXCEPT !.pc = "ended"]
    BY <1>5 DEF Ended, Announced, Broadcast, tab
  <2>. QED  BY <2>1, <2>2 DEF Serves, StatusTold
<1>6. CASE PushEntry /\ "timeline" \in mix
  BY <1>6 DEF PushEntry, Serves, EntryPushed, Silent, tab, vars
<1>7. CASE AnnounceEntry
  <2>1. Tells(Frame("timeline_entry", session.entries))
    BY <1>1, <1>7 DEF AnnounceEntry, Announced, Broadcast, Send, Tells, Frames, Frame, FrameKinds
  <2>. QED  BY <1>7, <2>1 DEF AnnounceEntry, Announced, Broadcast, Serves, EntryTold
<1>8. CASE ChangeBreakpoints /\ "breakpoints" \in mix
  <2>1. UNCHANGED <<socket, dialed, fetch, view, frames, log, overtaken>> /\ session.tool = "idle" /\ session.changes < MaxChanges
    BY <1>8 DEF ChangeBreakpoints, tab, vars
  <2>2. \E bps \in {0, session.changes + 1} :
          session' = [session EXCEPT !.tool = "announce", !.bps = bps, !.changes = @ + 1]
    BY <1>8 DEF ChangeBreakpoints
  <2>. QED  BY <1>8, <2>1, <2>2 DEF Serves, ListChanged, Silent
<1>9. CASE AnnounceBreakpoints
  <2>1. Tells(Frame("breakpoints_changed", session.bps))
    BY <1>1, <1>9 DEF AnnounceBreakpoints, Announced, Broadcast, Send, Tells, Frames, Frame, FrameKinds
  <2>. QED  BY <1>9, <2>1 DEF AnnounceBreakpoints, Announced, Broadcast, Serves, ListTold
<1>. QED
  BY <1>2, <1>3, <1>4, <1>5, <1>6, <1>7, <1>8, <1>9 DEF Server

LEMMA ViewSteps ==
  ASSUME IInv, TypeOK, SessionOK, LogOK, [ViewNext]_allVars
  PROVE  ViewStep
<1>1. CASE UNCHANGED allVars
  BY <1>1 DEF allVars, vars, tab, ViewStep, Serves, Silent
<1>2. CASE Server /\ mix' = mix
  BY <1>2, ServerFacts DEF ViewStep
<1>3. ASSUME NEW s \in Sockets, Tab(s), mix' = mix  PROVE ViewStep
  <2>1. CASE Deliver(s)
    BY <1>3, <2>1, DeliverFacts DEF ViewStep, Delivers, Silent
  <2>2. CASE Subscribe(s)
    BY <1>3, <2>2, SubscribeFacts DEF ViewStep
  <2>3. CASE FallBehind(s) \/ SendCommand(s) \/ Respond(s) \/ Disconnect(s)
    BY <1>3, <2>3, MoveFacts DEF ViewStep
  <2>. QED  BY <1>3, <2>1, <2>2, <2>3 DEF Tab, ViewStep
<1>. QED
  BY <1>1, <1>2, <1>3 DEF ViewNext

-----------------------------------------------------------------------------
(* What a step changes *)

(* Numbers have a least one. *)
LEMMA Least ==
  ASSUME NEW T, T \subseteq Nat, T # {}
  PROVE  \E x \in T : \A y \in T : x <= y
<1>. DEFINE R == OpToRel(<, Nat)
<1>1. IsWellFoundedOn(R, Nat)
  BY NatLessThanWellFounded
<1>2. \A x, y \in Nat : <<y, x>> \in R <=> y < x
  BY DEF OpToRel
<1>. HIDE DEF R
<1>3. PICK x \in T : \A y \in T : ~(<<y, x>> \in R)
  BY <1>1, WFMin
<1>4. ASSUME NEW y \in T  PROVE x <= y
  <2>1. x \in Nat /\ y \in Nat /\ ~(<<y, x>> \in R)
    BY <1>3
  <2>2. ~(y < x)
    BY <1>2, <2>1, Zenon
  <2>. QED  BY <2>1, <2>2
<1>. QED
  BY <1>4

LEMMA LogGrows ==
  ASSUME LogOK, frames \in Nat, NEW f, Tells(f)
  PROVE  /\ log' \in Seq(Frames) /\ Len(log) = frames /\ Len(log') = frames + 1 /\ frames' = frames + 1
         /\ \A p \in 1..frames : log'[p] = log[p] /\ p \in 1..(frames + 1)
         /\ \A p \in 1..(frames + 1) : p \in 1..frames \/ p = frames + 1
         /\ frames + 1 \in 1..(frames + 1) /\ log'[frames + 1] = f
         /\ f \in Frames /\ log \in Seq(Frames)
<1>1. log \in Seq(Frames) /\ Len(log) = frames /\ f \in Frames /\ log' = Append(log, f) /\ frames' = frames + 1
  BY DEF LogOK, Tells, Frames
<1>2. /\ Append(log, f) \in Seq(Frames) /\ Len(Append(log, f)) = Len(log) + 1
      /\ \A p \in 1..Len(log) : Append(log, f)[p] = log[p]
      /\ Append(log, f)[Len(log) + 1] = f
  BY <1>1, AppendProperties
<1>. QED
  BY <1>1, <1>2

LEMMA NewestFacts ==
  ASSUME NEW e \in Nat
  PROVE  /\ Newest(e) \in Seq(1..e) /\ Newest(e) \in Seq(Nat) /\ Len(Newest(e)) <= ViewCap
         /\ Newest(e) = <<>> <=> e = 0
         /\ \A x \in 1..e : x + FetchLimit > e =>
              \E i \in 1..Len(Newest(e)) : Newest(e)[i] = x /\ Len(Newest(e)) - i = e - x
         /\ \A i \in 1..Len(Newest(e)) : Newest(e)[i] \in 1..e /\ Newest(e)[i] + FetchLimit > e
<1>. USE UiViewAssumption
<1>1. PICK a : a = IF e < FetchLimit THEN 1 ELSE e - FetchLimit + 1
  OBVIOUS
<1>2. a \in Nat \ {0} /\ a <= e + 1 /\ e + 1 - a <= FetchLimit /\ a + FetchLimit > e
      /\ (e = 0 <=> e + 1 - a = 0) /\ \A x \in Nat \ {0} : x + FetchLimit > e => x >= a
  BY <1>1
<1>3. PICK q : q = Newest(e)
  OBVIOUS
<1>4. q = From(a, e)
  BY <1>1, <1>3 DEF Newest
<1>5. q \in Seq(Nat) /\ Len(q) = e + 1 - a /\ \A i \in 1..(e + 1 - a) : q[i] = a + i - 1
  BY <1>2, <1>4, RunProperties
<1>6. PICK n \in Nat : n = Len(q)
  BY <1>5
<1>7. n = e + 1 - a /\ \A i \in 1..n : q[i] = a + i - 1
  BY <1>5, <1>6
<1>8. \A i \in 1..n : q[i] \in 1..e /\ q[i] + FetchLimit > e
  BY <1>2, <1>7
<1>9. q \in Seq(1..e)
  <2>1. q \in [1..n -> Nat]
    BY <1>5, <1>6, LenProperties
  <2>2. q \in [1..n -> 1..e]
    BY <1>8, <2>1
  <2>. QED  BY <1>6, <2>2, SeqDef
<1>10. n <= ViewCap
  BY <1>2, <1>7
<1>11. q = <<>> <=> e = 0
  BY <1>2, <1>5, <1>6, <1>7, EmptySeq
<1>12. ASSUME NEW x \in 1..e, x + FetchLimit > e
       PROVE \E i \in 1..n : q[i] = x /\ n - i = e - x
  <2>1. x >= a
    BY <1>2, <1>12
  <2>2. PICK i : i = x - a + 1
    OBVIOUS
  <2>3. i \in 1..n /\ a + i - 1 = x /\ n - i = e - x
    BY <1>2, <1>7, <2>1, <2>2
  <2>. QED  BY <1>7, <2>3
<1>. QED
  BY <1>3, <1>5, <1>6, <1>8, <1>9, <1>10, <1>11, <1>12

Views == [status : {"running", "paused", "ended"}, timeline : Seq(Nat), bps : Nat]

LEMMA HandleFacts ==
  ASSUME NEW v \in Views, NEW f \in Frames
  PROVE  /\ HandleEnvelope(v, f) \in [status : {"running", "paused", "ended"},
                                     timeline : {v.timeline, Append(v.timeline, f.n), Append(Tail(v.timeline), f.n)},
                                     bps : Nat]
         /\ HandleEnvelope(v, f).status = IF f.kind \in StatusKinds THEN StatusAfter(f.kind) ELSE v.status
         /\ HandleEnvelope(v, f).bps = IF f.kind = "breakpoints_changed" THEN f.n ELSE v.bps
         /\ HandleEnvelope(v, f).timeline =
              IF f.kind # "timeline_entry" THEN v.timeline
              ELSE IF Len(v.timeline) < ViewCap THEN Append(v.timeline, f.n)
              ELSE Append(Tail(v.timeline), f.n)
<1>0. f.kind \in FrameKinds /\ f.n \in Nat
  BY DEF Frames
<1>1. CASE f.kind = "stopped"
  <2>1. HandleEnvelope(v, f) = [v EXCEPT !.status = "paused"]
    BY <1>1 DEF HandleEnvelope, Paused
  <2>2. StatusAfter("stopped") = "paused"
    BY DEF StatusAfter
  <2>. QED  BY <1>1, <2>1, <2>2 DEF Views, StatusKinds
<1>2. CASE f.kind = "continued"
  <2>1. HandleEnvelope(v, f) = [v EXCEPT !.status = "running"]
    BY <1>2 DEF HandleEnvelope, Running
  <2>2. StatusAfter("continued") = "running"
    BY DEF StatusAfter
  <2>. QED  BY <1>2, <2>1, <2>2 DEF Views, StatusKinds
<1>3. CASE f.kind = "terminated"
  <2>1. HandleEnvelope(v, f) = [v EXCEPT !.status = "ended"]
    BY <1>3 DEF HandleEnvelope, SessionEnded
  <2>2. StatusAfter("terminated") = "ended"
    BY DEF StatusAfter
  <2>. QED  BY <1>3, <2>1, <2>2 DEF Views, StatusKinds
<1>4. CASE f.kind = "timeline_entry"
  <2>1. PICK t : t = IF Len(v.timeline) < ViewCap THEN Append(v.timeline, f.n) ELSE Append(Tail(v.timeline), f.n)
    OBVIOUS
  <2>2. HandleEnvelope(v, f) = [v EXCEPT !.timeline = t]
    BY <1>4, <2>1 DEF HandleEnvelope, TimelineEntry, Views
  <2>. QED  BY <1>4, <2>1, <2>2 DEF Views, StatusKinds
<1>5. CASE f.kind = "breakpoints_changed"
  <2>1. HandleEnvelope(v, f) = [v EXCEPT !.bps = f.n]
    BY <1>5 DEF HandleEnvelope, BreakpointsChanged
  <2>. QED  BY <1>0, <1>5, <2>1 DEF Views, StatusKinds
<1>6. CASE f.kind = "response"
  <2>1. HandleEnvelope(v, f) = v
    BY <1>6 DEF HandleEnvelope
  <2>. QED  BY <1>6, <2>1 DEF Views, StatusKinds
<1>. QED
  BY <1>0, <1>1, <1>2, <1>3, <1>4, <1>5, <1>6 DEF FrameKinds

(* A frame's handling, part by part. *)
LEMMA ShownByHandling ==
  ASSUME LogOK, ShownOK, NEW s \in Sockets, NEW p \in 1..Len(log), Handles(s, p)
  PROVE  /\ log[p] \in Frames /\ view \in Views
         /\ view' \in [status : {"running", "paused", "ended"},
                       timeline : {view.timeline, Append(view.timeline, log[p].n), Append(Tail(view.timeline), log[p].n)},
                       bps : Nat]
         /\ view'.status = IF log[p].kind \in StatusKinds THEN StatusAfter(log[p].kind) ELSE view.status
         /\ view'.bps = IF log[p].kind = "breakpoints_changed" THEN log[p].n ELSE view.bps
         /\ view'.timeline = IF log[p].kind # "timeline_entry" THEN view.timeline
                             ELSE IF Len(view.timeline) < ViewCap THEN Append(view.timeline, log[p].n)
                             ELSE Append(Tail(view.timeline), log[p].n)
<1>1. log[p] \in Frames /\ view \in Views
  <2>1. log \in Seq(Frames)
    BY DEF LogOK, Frames
  <2>. QED  BY <2>1 DEF ShownOK, Views
<1>2. view' = HandleEnvelope(view, log[p])
  BY DEF Handles
<1>. QED
  BY <1>1, <1>2, HandleFacts

(* The answer to one of the requests. *)
Answers(s, kind) ==
  /\ fetch[s][kind].pc = "asked"
  /\ fetch' = [fetch EXCEPT ![s] = [fetch[s] EXCEPT ![kind] = fetch'[s][kind]]]
  /\ fetch'[s][kind].pc = "answered"
  /\ fetch'[s][kind].found = IF kind = "timeline" THEN Newest(session.entries)
                             ELSE IF session.bps = 0 THEN <<>> ELSE <<session.bps>>
  /\ fetch'[s][kind] = [pc |-> "answered", found |-> fetch'[s][kind].found]
  /\ UNCHANGED <<socket, frames, session, log, dialed, view, overtaken>>

Applies(s, kind) ==
  /\ fetch[s][kind].pc = "answered"
  /\ fetch' = [fetch EXCEPT ![s] = [fetch[s] EXCEPT ![kind] = fetch'[s][kind]]]
  /\ fetch'[s][kind] = [pc |-> "done", found |-> <<>>]
  /\ view'.status = view.status
  /\ view'.timeline = IF kind = "timeline" /\ fetch[s][kind].found # <<>> THEN fetch[s][kind].found ELSE view.timeline
  /\ view'.bps = IF kind = "breakpoints" /\ fetch[s][kind].found # <<>> THEN fetch[s][kind].found[1] ELSE view.bps
  /\ view' = [status |-> view'.status, timeline |-> view'.timeline, bps |-> view'.bps]
  /\ UNCHANGED <<socket, frames, session, log, dialed, overtaken>>

LEMMA AnswerFacts ==
  ASSUME FetchOK, NEW s \in Sockets, Answer(s)
  PROVE  \E kind \in Kinds : Answers(s, kind)
<1>1. PICK kind \in Kinds :
        /\ fetch[s][kind].pc = "asked"
        /\ fetch' = [fetch EXCEPT ![s][kind] =
             [pc |-> "answered",
              found |-> CASE kind = "timeline" -> Newest(session.entries)
                          [] kind = "breakpoints" -> IF session.bps = 0 THEN <<>> ELSE <<session.bps>>]]
  BY DEF Answer
<1>2. PICK q : q = CASE kind = "timeline" -> Newest(session.entries)
                     [] kind = "breakpoints" -> IF session.bps = 0 THEN <<>> ELSE <<session.bps>>
  OBVIOUS
<1>3. q = IF kind = "timeline" THEN Newest(session.entries) ELSE IF session.bps = 0 THEN <<>> ELSE <<session.bps>>
  BY <1>2 DEF Kinds
<1>4. fetch' = [fetch EXCEPT ![s] = [fetch[s] EXCEPT ![kind] = [pc |-> "answered", found |-> q]]]
  BY <1>1, <1>2
<1>5. fetch'[s][kind] = [pc |-> "answered", found |-> q]
  BY <1>4 DEF FetchOK
<1>6. UNCHANGED <<socket, frames, session, log, dialed, view, overtaken>>
  BY DEF Answer, vars
<1>7. fetch'[s][kind].pc = "answered" /\ fetch'[s][kind].found = q
  BY <1>5
<1>8. fetch' = [fetch EXCEPT ![s] = [fetch[s] EXCEPT ![kind] = fetch'[s][kind]]]
  BY <1>4, <1>5
<1>9. fetch'[s][kind].found = IF kind = "timeline" THEN Newest(session.entries)
                              ELSE IF session.bps = 0 THEN <<>> ELSE <<session.bps>>
  BY <1>3, <1>7
<1>10. Answers(s, kind)
  BY <1>1, <1>5, <1>6, <1>7, <1>8, <1>9 DEF Answers
<1>. QED
  BY <1>10

LEMMA ApplyFacts ==
  ASSUME FetchOK, ShownOK, NEW s \in Sockets, Apply(s)
  PROVE  \E kind \in Kinds : Applies(s, kind)
<1>1. PICK kind \in Kinds :
        /\ fetch[s][kind].pc = "answered"
        /\ fetch' = [fetch EXCEPT ![s][kind] = [NoFetch EXCEPT !.pc = "done"]]
        /\ view' = Fetched(view, kind, fetch[s][kind].found)
  BY DEF Apply
<1>2. [NoFetch EXCEPT !.pc = "done"] = [pc |-> "done", found |-> <<>>]
  BY DEF NoFetch
<1>3. fetch' = [fetch EXCEPT ![s] = [fetch[s] EXCEPT ![kind] = [pc |-> "done", found |-> <<>>]]]
  BY <1>1, <1>2
<1>4. fetch'[s][kind] = [pc |-> "done", found |-> <<>>]
  BY <1>3 DEF FetchOK
<1>5. PICK q : q = fetch[s][kind].found
  OBVIOUS
<1>6. view' = IF q = <<>> THEN view ELSE IF kind = "timeline" THEN [view EXCEPT !.timeline = q]
              ELSE [view EXCEPT !.bps = q[1]]
  <2>1. CASE q = <<>>
    BY <1>1, <1>5, <2>1 DEF Fetched
  <2>2. CASE q # <<>> /\ kind = "timeline"
    BY <1>1, <1>5, <2>2 DEF Fetched
  <2>3. CASE q # <<>> /\ kind = "breakpoints"
    BY <1>1, <1>5, <2>3 DEF Fetched
  <2>. QED  BY <2>1, <2>2, <2>3 DEF Kinds
<1>7. view \in Views
  BY DEF ShownOK, Views
<1>8. /\ view'.status = view.status
      /\ view'.timeline = IF kind = "timeline" /\ q # <<>> THEN q ELSE view.timeline
      /\ view'.bps = IF kind = "breakpoints" /\ q # <<>> THEN q[1] ELSE view.bps
      /\ view' = [status |-> view'.status, timeline |-> view'.timeline, bps |-> view'.bps]
  <2>1. CASE q = <<>>
    BY <1>6, <1>7, <2>1 DEF Views
  <2>2. CASE q # <<>> /\ kind = "timeline"
    BY <1>6, <1>7, <2>2 DEF Views
  <2>3. CASE q # <<>> /\ kind = "breakpoints"
    BY <1>6, <1>7, <2>3 DEF Views
  <2>. QED  BY <2>1, <2>2, <2>3 DEF Kinds
<1>9. UNCHANGED <<socket, frames, session, log, dialed, overtaken>>
  BY DEF Apply, vars
<1>. QED
  BY <1>1, <1>3, <1>4, <1>5, <1>8, <1>9 DEF Applies

-----------------------------------------------------------------------------
(* Types *)

LEMMA SessionStep ==
  ASSUME SessionOK, ViewStep
  PROVE  /\ SessionOK'
         /\ session.entries \in Nat /\ session'.entries \in Nat /\ session.entries <= session'.entries
         /\ session.changes \in Nat /\ session'.changes \in Nat /\ session.changes <= session'.changes
<1>. USE UiViewAssumption
<1>1. CASE UNCHANGED session
  BY <1>1 DEF SessionOK
<1>2. CASE StatusTold
  <2>1. PICK q \in {"enrich", "running", "ended"} : session' = [session EXCEPT !.pc = q]
    BY <1>2 DEF StatusTold
  <2>. QED  BY <2>1 DEF SessionOK
<1>3. CASE EntryPushed
  <2>1. PICK e : e = session.entries + 1
    OBVIOUS
  <2>2. e \in Nat /\ e > 0 /\ session.entries \in Nat /\ session.entries <= e
    BY <2>1 DEF SessionOK
  <2>3. session' = [session EXCEPT !.pc = "pushed", !.entries = e]
    BY <1>3, <2>1 DEF EntryPushed
  <2>4. session'.entries = e /\ session'.changes = session.changes /\ session'.bps = session.bps
    BY <2>3 DEF SessionOK
  <2>5. session' \in [pc : {"running", "enrich", "pushed", "stopped", "ended"}, entries : Nat,
                      bps : 0..MaxChanges, changes : 0..MaxChanges, tool : {"idle", "announce"}]
    BY <2>2, <2>3 DEF SessionOK
  <2>6. session'.bps <= session'.changes /\ session.changes \in Nat /\ session.changes <= session'.changes
    BY <2>4 DEF SessionOK
  <2>. QED  BY <2>2, <2>4, <2>5, <2>6 DEF SessionOK
<1>4. CASE EntryTold
  BY <1>4 DEF EntryTold, SessionOK
<1>5. CASE ListChanged
  <2>1. PICK b \in {0, session.changes + 1} :
           session' = [session EXCEPT !.tool = "announce", !.bps = b, !.changes = @ + 1]
    BY <1>5 DEF ListChanged
  <2>2. session.changes + 1 \in 0..MaxChanges /\ b \in 0..(session.changes + 1) /\ b \in 0..MaxChanges
    BY <1>5, <2>1 DEF ListChanged, SessionOK
  <2>3. PICK c : c = session.changes + 1
    OBVIOUS
  <2>4. c \in 0..MaxChanges /\ b \in 0..MaxChanges /\ b <= c /\ session.changes <= c /\ c \in Nat
        /\ session.changes \in Nat
    BY <2>2, <2>3 DEF SessionOK
  <2>5. session' = [session EXCEPT !.tool = "announce", !.bps = b, !.changes = c]
    BY <2>1, <2>3
  <2>6. session'.entries = session.entries /\ session'.changes = c /\ session'.bps = b /\ session'.pc = session.pc
    BY <2>5 DEF SessionOK
  <2>7. session' \in [pc : {"running", "enrich", "pushed", "stopped", "ended"}, entries : Nat,
                      bps : 0..MaxChanges, changes : 0..MaxChanges, tool : {"idle", "announce"}]
    BY <2>4, <2>5 DEF SessionOK
  <2>8. session.entries \in Nat /\ (session'.pc = "pushed" => session'.entries > 0)
    BY <2>6 DEF SessionOK
  <2>. QED  BY <2>4, <2>6, <2>7, <2>8 DEF SessionOK
<1>6. CASE ListTold
  BY <1>6 DEF ListTold, SessionOK
<1>7. ASSUME NEW s \in Sockets, Dial(s) \/ Subscribes(s) \/ Delivers(s) \/ Moves(s) \/ Answer(s) \/ Apply(s)
      PROVE  UNCHANGED session
  BY <1>7 DEF Dial, Subscribes, Delivers, Moves, Answer, Apply
<1>. QED
  BY <1>1, <1>2, <1>3, <1>4, <1>5, <1>6, <1>7 DEF ViewStep, Serves

(* The frames told name entries and changes there are. *)
LEMMA LogStep ==
  ASSUME SessionOK, LogOK, frames \in Nat, ViewStep
  PROVE  LogOK'
<1>1. /\ session.entries \in Nat /\ session'.entries \in Nat /\ session.entries <= session'.entries
      /\ session.changes \in Nat /\ session'.changes \in Nat /\ session.changes <= session'.changes
  BY SessionStep
<1>2. CASE Silent
  <2>1. log' = log /\ frames' = frames
    BY <1>2 DEF Silent
  <2>. QED  BY <1>1, <2>1 DEF LogOK
<1>3. ASSUME NEW f, Tells(f),
             f.kind = "timeline_entry" => f.n \in 1..session'.entries,
             f.kind = "breakpoints_changed" => f.n \in 0..session'.changes
      PROVE  LogOK'
  <2>1. /\ log' \in Seq(Frames) /\ Len(log) = frames /\ Len(log') = frames + 1 /\ frames' = frames + 1
        /\ \A p \in 1..frames : log'[p] = log[p]
        /\ \A p \in 1..(frames + 1) : p \in 1..frames \/ p = frames + 1
        /\ log'[frames + 1] = f
    BY <1>3, LogGrows
  <2>2. \A p \in 1..frames : log[p].kind = "timeline_entry" => log[p].n \in 1..session'.entries
    BY <1>1, <2>1 DEF LogOK
  <2>3. \A p \in 1..frames : log[p].kind = "breakpoints_changed" => log[p].n \in 0..session'.changes
    BY <1>1, <2>1 DEF LogOK
  <2>4. \A p \in 1..(frames + 1) : log'[p].kind = "timeline_entry" => log'[p].n \in 1..session'.entries
    BY <1>3, <2>1, <2>2
  <2>5. \A p \in 1..(frames + 1) : log'[p].kind = "breakpoints_changed" => log'[p].n \in 0..session'.changes
    BY <1>3, <2>1, <2>3
  <2>. QED  BY <2>1, <2>4, <2>5 DEF LogOK, Frames
<1>4. CASE StatusTold
  <2>1. PICK f \in Frames : f.kind \in StatusKinds /\ Tells(f)
    BY <1>4 DEF StatusTold
  <2>. QED  BY <1>3, <2>1 DEF StatusKinds
<1>5. CASE EntryTold
  <2>1. PICK f : f = Frame("timeline_entry", session.entries)
    OBVIOUS
  <2>2. f.kind = "timeline_entry" /\ f.n = session.entries
    BY <2>1 DEF Frame
  <2>3. session.entries \in 1..session'.entries
    BY <1>1, <1>5 DEF EntryTold, SessionOK
  <2>. QED  BY <1>3, <1>5, <2>1, <2>2, <2>3 DEF EntryTold
<1>6. CASE ListTold
  <2>1. PICK f : f = Frame("breakpoints_changed", session.bps)
    OBVIOUS
  <2>2. f.kind = "breakpoints_changed" /\ f.n = session.bps
    BY <2>1 DEF Frame
  <2>3. session.bps \in 0..session'.changes
    BY <1>1 DEF SessionOK
  <2>. QED  BY <1>3, <1>6, <2>1, <2>2, <2>3 DEF ListTold
<1>7. ASSUME NEW s \in Sockets, Moves(s), ~Silent  PROVE LogOK'
  <2>1. PICK f : f = Frame("response", 0)
    OBVIOUS
  <2>2. f.kind = "response"
    BY <2>1 DEF Frame
  <2>. QED  BY <1>3, <1>7, <2>1, <2>2 DEF Moves
<1>8. CASE EntryPushed \/ ListChanged
  BY <1>2, <1>8 DEF EntryPushed, ListChanged
<1>9. ASSUME NEW s \in Sockets, Dial(s) \/ Subscribes(s) \/ Delivers(s) \/ Answer(s) \/ Apply(s)
      PROVE  Silent
  BY <1>9 DEF Dial, Subscribes, Delivers, Answer, Apply, vars, Silent
<1>. QED
  BY <1>2, <1>4, <1>5, <1>6, <1>7, <1>8, <1>9 DEF ViewStep, Serves

(* More entries, or more changes, are fine. *)
FoundOK(q, kind, e, c) ==
  IF kind = "timeline" THEN q \in Seq(1..e) /\ Len(q) <= ViewCap ELSE q \in Seq(0..c)

LEMMA FoundGrows ==
  ASSUME NEW e \in Nat, NEW c \in Nat, NEW d \in Nat, NEW b \in Nat, e <= d, c <= b,
         NEW kind \in Kinds, NEW q, FoundOK(q, kind, e, c)
  PROVE  FoundOK(q, kind, d, b)
<1>1. 1..e \subseteq 1..d /\ 0..c \subseteq 0..b
  OBVIOUS
<1>. QED
  BY <1>1, SeqGrows DEF FoundOK

LEMMA FetchParts ==
  FetchOK <=> /\ fetch \in [Sockets -> [Kinds -> [pc : {"none", "asked", "answered", "done"}, found : Seq(Nat)]]]
              /\ \A s \in Sockets, kind \in Kinds : FoundOK(fetch[s][kind].found, kind, session.entries, session.changes)
BY DEF FetchOK, FoundOK, Kinds

LEMMA FetchParts2 ==
  FetchOK' <=> /\ fetch' \in [Sockets -> [Kinds -> [pc : {"none", "asked", "answered", "done"}, found : Seq(Nat)]]]
               /\ \A s \in Sockets, kind \in Kinds :
                    FoundOK(fetch'[s][kind].found, kind, session'.entries, session'.changes)
BY DEF FetchOK, FoundOK, Kinds

LEMMA FetchStep ==
  ASSUME SessionOK, FetchOK, ShownOK, TabOK, ViewStep
  PROVE  FetchOK'
<1>. DEFINE e == session.entries
            c == session.changes
            d == session'.entries
            b == session'.changes
            T == [pc : {"none", "asked", "answered", "done"}, found : Seq(Nat)]
<1>1. e \in Nat /\ c \in Nat /\ d \in Nat /\ b \in Nat /\ e <= d /\ c <= b
  BY SessionStep
<1>2. fetch \in [Sockets -> [Kinds -> T]] /\ \A s \in Sockets, kind \in Kinds : FoundOK(fetch[s][kind].found, kind, e, c)
  BY FetchParts
<1>. HIDE DEF e, c, d, b
<1>3. \A s \in Sockets, kind \in Kinds : FoundOK(fetch[s][kind].found, kind, d, b)
  BY <1>1, <1>2, FoundGrows
<1>4. CASE UNCHANGED fetch
  BY <1>2, <1>3, <1>4, FetchParts2 DEF d, b
<1>5. ASSUME NEW s \in Sockets, NEW kind \in Kinds, NEW a \in T, FoundOK(a.found, kind, d, b),
             fetch' = [fetch EXCEPT ![s] = [fetch[s] EXCEPT ![kind] = a]]
      PROVE  FetchOK'
  <2>1. fetch' \in [Sockets -> [Kinds -> T]]
    BY <1>2, <1>5
  <2>2. \A o \in Sockets, k \in Kinds : fetch'[o][k] = IF o = s /\ k = kind THEN a ELSE fetch[o][k]
    BY <1>2, <1>5
  <2>3. \A o \in Sockets, k \in Kinds : FoundOK(fetch'[o][k].found, k, d, b)
    BY <1>3, <1>5, <2>2
  <2>. QED  BY <2>1, <2>3, FetchParts2 DEF d, b
<1>6. ASSUME NEW s \in Sockets, Answer(s)  PROVE FetchOK'
  <2>1. PICK kind \in Kinds : Answers(s, kind)
    BY <1>6, AnswerFacts
  <2>2. PICK q : q = IF kind = "timeline" THEN Newest(session.entries) ELSE IF session.bps = 0 THEN <<>> ELSE <<session.bps>>
    OBVIOUS
  <2>3. session'.entries = e /\ session'.changes = c /\ session.bps \in Nat /\ session.bps \in 0..c
    BY <1>1, <2>1 DEF Answers, SessionOK, e, c
  <2>4. Newest(e) \in Seq(1..e) /\ Newest(e) \in Seq(Nat) /\ Len(Newest(e)) <= ViewCap
    BY <1>1, NewestFacts
  <2>5. q \in Seq(Nat) /\ FoundOK(q, kind, d, b)
    <3>1. CASE kind = "timeline"
      BY <2>2, <2>3, <2>4, <3>1 DEF FoundOK, d, b, e
    <3>2. CASE kind = "breakpoints"
      <4>1. PICK n : n = session.bps
        OBVIOUS
      <4>2. n \in Nat /\ n \in 0..b /\ q = IF n = 0 THEN <<>> ELSE <<n>>
        BY <2>2, <2>3, <3>2, <4>1 DEF b, c
      <4>3. <<n>> \in Seq(Nat) /\ <<n>> \in Seq(0..b) /\ <<>> \in Seq(Nat) /\ <<>> \in Seq(0..b)
        BY <4>2
      <4>. QED  BY <3>2, <4>2, <4>3 DEF FoundOK
    <3>. QED  BY <3>1, <3>2 DEF Kinds
  <2>6. fetch'[s][kind] = [pc |-> "answered", found |-> q]
    BY <2>1, <2>2 DEF Answers
  <2>7. fetch'[s][kind] \in T /\ fetch'[s][kind].found = q
    BY <2>5, <2>6
  <2>8. PICK a : a = fetch'[s][kind]
    OBVIOUS
  <2>9. fetch' = [fetch EXCEPT ![s] = [fetch[s] EXCEPT ![kind] = a]]
    BY <2>1, <2>8 DEF Answers
  <2>. QED  BY <1>5, <2>5, <2>7, <2>8, <2>9
<1>7. ASSUME NEW s \in Sockets, Apply(s)  PROVE FetchOK'
  <2>1. PICK kind \in Kinds : Applies(s, kind)
    BY <1>7, ApplyFacts
  <2>2. PICK a : a = [pc |-> "done", found |-> <<>>]
    OBVIOUS
  <2>3. a \in T /\ FoundOK(a.found, kind, d, b)
    <3>1. <<>> \in Seq(Nat) /\ <<>> \in Seq(1..d) /\ <<>> \in Seq(0..b) /\ Len(<<>>) = 0
      OBVIOUS
    <3>. QED  BY <2>2, <3>1, UiViewAssumption DEF FoundOK
  <2>4. fetch' = [fetch EXCEPT ![s] = [fetch[s] EXCEPT ![kind] = a]]
    BY <2>1, <2>2 DEF Applies
  <2>. QED  BY <1>5, <2>3, <2>4
<1>8. ASSUME NEW s \in Sockets, Dial(s)  PROVE FetchOK'
  <2>1. fetch' = [fetch EXCEPT ![s] = Asked]
    BY <1>8 DEF Dial
  <2>2. \A kind \in Kinds : Asked[kind] \in T /\ Asked[kind].found = <<>>
    <3>1. \A kind \in Kinds : Asked[kind] \in {NoFetch, [NoFetch EXCEPT !.pc = "asked"]}
      BY DEF Asked
    <3>2. NoFetch \in T /\ NoFetch.found = <<>>
      BY DEF NoFetch
    <3>3. [NoFetch EXCEPT !.pc = "asked"] \in T /\ [NoFetch EXCEPT !.pc = "asked"].found = <<>>
      <4>1. [NoFetch EXCEPT !.pc = "asked"] = [pc |-> "asked", found |-> <<>>] /\ <<>> \in Seq(Nat)
        BY DEF NoFetch
      <4>. QED  BY <4>1
    <3>. QED  BY <3>1, <3>2, <3>3
  <2>3. Asked \in [Kinds -> T]
    BY <2>2 DEF Asked
  <2>4. fetch' \in [Sockets -> [Kinds -> T]]
    BY <1>2, <2>1, <2>3
  <2>5. \A kind \in Kinds : FoundOK(<<>>, kind, d, b)
    <3>1. <<>> \in Seq(1..d) /\ <<>> \in Seq(0..b) /\ Len(<<>>) = 0
      OBVIOUS
    <3>. QED  BY <3>1, UiViewAssumption DEF FoundOK
  <2>6. \A o \in Sockets, k \in Kinds : FoundOK(fetch'[o][k].found, k, d, b)
    <3>. SUFFICES ASSUME NEW o \in Sockets, NEW k \in Kinds  PROVE FoundOK(fetch'[o][k].found, k, d, b)
      OBVIOUS
    <3>1. CASE o = s
      <4>1. fetch'[o][k] = Asked[k]
        BY <1>2, <2>1, <3>1
      <4>2. fetch'[o][k].found = <<>>
        BY <2>2, <4>1
      <4>. QED  BY <2>5, <4>2
    <3>2. CASE o # s
      <4>1. fetch'[o] = fetch[o]
        BY <1>2, <2>1, <3>2
      <4>. QED  BY <1>3, <4>1
    <3>. QED  BY <3>1, <3>2
  <2>. QED  BY <2>4, <2>6, FetchParts2 DEF d, b
<1>9. ASSUME NEW s \in Sockets, Subscribes(s) \/ Delivers(s) \/ Moves(s)  PROVE UNCHANGED fetch
  BY <1>9 DEF Subscribes, Delivers, Moves
<1>. QED
  BY <1>4, <1>6, <1>7, <1>8, <1>9 DEF ViewStep, Serves

LEMMA ShownStep ==
  ASSUME SessionOK, LogOK, FetchOK, ShownOK, ViewStep
  PROVE  ShownOK'
<1>. DEFINE e == session.entries
            c == session.changes
            d == session'.entries
            b == session'.changes
<1>. USE UiViewAssumption
<1>1. e \in Nat /\ c \in Nat /\ d \in Nat /\ b \in Nat /\ e <= d /\ c <= b
  BY SessionStep
<1>2. 1..e \subseteq 1..d /\ 0..c \subseteq 0..b
  BY <1>1
<1>3. view.timeline \in Seq(1..d) /\ view.bps \in 0..b
  <2>1. view.timeline \in Seq(1..e) /\ view.bps \in 0..c
    BY DEF ShownOK
  <2>. HIDE DEF e, c, d, b
  <2>. QED  BY <1>2, <2>1, SeqGrows
<1>4. CASE UNCHANGED view
  BY <1>3, <1>4 DEF ShownOK
<1>5. ASSUME NEW s \in Sockets, Apply(s)  PROVE ShownOK'
  <2>1. PICK kind \in Kinds : Applies(s, kind)
    BY <1>5, ApplyFacts
  <2>2. PICK q : q = fetch[s][kind].found
    OBVIOUS
  <2>3. q \in Seq(Nat) /\ (kind = "timeline" => q \in Seq(1..e) /\ Len(q) <= ViewCap) /\ (kind = "breakpoints" => q \in Seq(0..c))
    BY <2>2, FetchParts DEF FoundOK, Kinds
  <2>4. d = e /\ b = c
    BY <2>1 DEF Applies
  <2>5. view'.status \in {"running", "paused", "ended"}
    BY <2>1 DEF Applies, ShownOK
  <2>6. view'.timeline \in Seq(1..d) /\ view'.timeline \in Seq(Nat) /\ Len(view'.timeline) <= ViewCap
    BY <2>1, <2>2, <2>3, <2>4 DEF Applies, ShownOK
  <2>7. view'.bps \in 0..b /\ view'.bps \in Nat
    <3>1. CASE kind = "breakpoints" /\ q # <<>>
      <4>1. q[1] \in 0..c
        <5>1. Len(q) \in Nat \ {0} /\ q \in Seq(0..c)
          BY <2>3, <3>1, EmptySeq
        <5>. HIDE DEF c
        <5>2. 1 \in 1..Len(q)
          BY <5>1
        <5>. QED  BY <5>1, <5>2, ElementOfSeq
      <4>2. view'.bps = q[1]
        BY <2>1, <2>2, <3>1 DEF Applies
      <4>. QED  BY <1>1, <2>4, <4>1, <4>2
    <3>2. CASE ~(kind = "breakpoints" /\ q # <<>>)
      <4>1. view'.bps = view.bps
        BY <2>1, <2>2, <3>2 DEF Applies
      <4>. QED  BY <1>3, <4>1 DEF ShownOK
    <3>. QED  BY <3>1, <3>2
  <2>8. view' = [status |-> view'.status, timeline |-> view'.timeline, bps |-> view'.bps]
    BY <2>1 DEF Applies
  <2>9. view' \in [status : {"running", "paused", "ended"}, timeline : Seq(Nat), bps : Nat]
    BY <2>5, <2>6, <2>7, <2>8
  <2>. QED  BY <2>6, <2>7, <2>9 DEF ShownOK
<1>6. ASSUME NEW s \in Sockets, NEW p \in 1..Len(log), Handles(s, p), UNCHANGED session  PROVE ShownOK'
  <2>1. /\ log[p] \in Frames
        /\ view'.status = IF log[p].kind \in StatusKinds THEN StatusAfter(log[p].kind) ELSE view.status
        /\ view'.bps = IF log[p].kind = "breakpoints_changed" THEN log[p].n ELSE view.bps
        /\ view'.timeline = IF log[p].kind # "timeline_entry" THEN view.timeline
                            ELSE IF Len(view.timeline) < ViewCap THEN Append(view.timeline, log[p].n)
                            ELSE Append(Tail(view.timeline), log[p].n)
        /\ view' \in [status : {"running", "paused", "ended"},
                      timeline : {view.timeline, Append(view.timeline, log[p].n), Append(Tail(view.timeline), log[p].n)},
                      bps : Nat]
    BY <1>6, ShownByHandling
  <2>2. d = e /\ b = c
    BY <1>6
  <2>3. view'.bps \in 0..b
    BY <1>3, <2>1, <2>2 DEF LogOK
  <2>4. view'.timeline \in Seq(1..d) /\ Len(view'.timeline) <= ViewCap
    <3>1. CASE log[p].kind # "timeline_entry"
      <4>1. view'.timeline = view.timeline
        BY <2>1, <3>1
      <4>. QED  BY <1>3, <4>1 DEF ShownOK
    <3>2. CASE log[p].kind = "timeline_entry"
      <4>. DEFINE t == view.timeline
      <4>1. PICK n : n = log[p].n
        OBVIOUS
      <4>2. n \in 1..d
        BY <2>2, <3>2, <4>1 DEF LogOK
      <4>3. t \in Seq(1..d) /\ Len(t) \in Nat /\ Len(t) <= ViewCap
        BY <1>3 DEF ShownOK
      <4>4. view'.timeline = IF Len(t) < ViewCap THEN Append(t, n) ELSE Append(Tail(t), n)
        BY <2>1, <3>2, <4>1
      <4>. HIDE DEF t, d
      <4>5. CASE Len(t) < ViewCap
        <5>1. Append(t, n) \in Seq(1..d) /\ Len(Append(t, n)) = Len(t) + 1
          BY <4>2, <4>3, AppendProperties
        <5>. QED  BY <4>3, <4>4, <4>5, <5>1
      <4>6. CASE ~(Len(t) < ViewCap)
        <5>1. Len(t) = ViewCap /\ ViewCap > 0
          BY <4>3, <4>6
        <5>2. t # <<>>
          BY <4>3, <5>1, EmptySeq
        <5>3. Tail(t) \in Seq(1..d) /\ Len(Tail(t)) = Len(t) - 1
          BY <4>3, <5>2, HeadTailProperties
        <5>4. Append(Tail(t), n) \in Seq(1..d) /\ Len(Append(Tail(t), n)) = Len(Tail(t)) + 1
          BY <4>2, <5>3, AppendProperties
        <5>. QED  BY <4>3, <4>4, <4>6, <5>1, <5>3, <5>4
      <4>. QED  BY <4>5, <4>6
    <3>. QED  BY <3>1, <3>2
  <2>5. view'.timeline \in Seq(Nat)
    <3>1. 1..d \subseteq Nat
      OBVIOUS
    <3>. QED  BY <2>4, <3>1, SeqGrows
  <2>6. view' \in [status : {"running", "paused", "ended"}, timeline : {view'.timeline}, bps : Nat]
    BY <2>1
  <2>7. view' \in [status : {"running", "paused", "ended"}, timeline : Seq(Nat), bps : Nat]
    BY <2>5, <2>6
  <2>. QED  BY <2>3, <2>4, <2>7 DEF ShownOK
<1>7. ASSUME NEW s \in Sockets, Delivers(s)  PROVE ShownOK'
  BY <1>4, <1>6, <1>7 DEF Delivers, Enters
<1>8. ASSUME NEW s \in Sockets, Dial(s) \/ Subscribes(s) \/ Moves(s) \/ Answer(s)  PROVE UNCHANGED view
  BY <1>8 DEF Dial, Subscribes, Moves, Answer
<1>. QED
  BY <1>4, <1>5, <1>7, <1>8 DEF ViewStep, Serves

LEMMA TypesStep ==
  ASSUME ViewTypes, frames \in Nat, ViewStep
  PROVE  ViewTypes'
<1>1. TabOK'
  <2>1. ASSUME NEW s \in Sockets, Dial(s) \/ Subscribes(s) \/ Delivers(s) \/ Moves(s) \/ Answer(s) \/ Apply(s)
        PROVE  dialed' \in {dialed, dialed \cup {s}} /\ overtaken' = overtaken
    BY <2>1 DEF Dial, Subscribes, Delivers, Moves, Answer, Apply
  <2>2. CASE Serves
    BY <2>2 DEF Serves, StatusTold, EntryPushed, EntryTold, ListChanged, ListTold, InFlight, ViewTypes, TabOK, ViewStep
  <2>. QED  BY <2>1, <2>2 DEF ViewStep, ViewTypes, TabOK
<1>. QED
  BY <1>1, SessionStep, LogStep, FetchStep, ShownStep DEF ViewTypes

-----------------------------------------------------------------------------
(* One socket at a time *)

Active(s) == socket[s].pc \notin {"none", "closed"}

LEMMA OneActive ==
  ASSUME OneAtATime, NEW s \in Sockets, NEW o \in Sockets, Active(s), Live(o)
  PROVE  s = o
BY DEF OneAtATime, Active, Live

LEMMA OneStep ==
  ASSUME IInv, TypeOK, TabOK, OneAtATime, ViewStep
  PROVE  OneAtATime'
<1>1. /\ \A s \in Sockets : s \notin dialed => socket[s].pc = "none"
      /\ \A s \in Sockets : socket[s].pc = "none" => socket[s].got = <<>>
      /\ \A s, o \in dialed : Live(s) /\ Live(o) => s = o
      /\ \A s \in Sockets : socket[s].pc = "boot" => socket[s].next = socket[s].joined + 1
      /\ \A s, o \in Sockets : s # o /\ socket[s].pc \notin {"none", "closed"} =>
           \A i \in 1..Len(socket[o].got) : socket[o].got[i] <= socket[s].joined
  BY DEF OneAtATime
<1>2. CASE UNCHANGED <<socket, dialed>>
  BY <1>1, <1>2 DEF OneAtATime, Live
<1>3. ASSUME NEW s \in Sockets, Dial(s)  PROVE OneAtATime'
  <2>1. UNCHANGED socket /\ dialed' = dialed \cup {s}
    BY <1>3 DEF Dial, vars
  <2>2. dialed = {} \/ \A o \in dialed : socket[o].pc = "closed"
    BY <1>3 DEF Dial, MayDial
  <2>3. \A a, o \in dialed' : Live(a)' /\ Live(o)' => a = o
    BY <2>1, <2>2 DEF Live
  <2>. QED  BY <1>1, <2>1, <2>3 DEF OneAtATime
<1>4. ASSUME NEW s \in Sockets, Subscribes(s)  PROVE OneAtATime'
  <2>1. /\ \A o \in Sockets : o # s => socket'[o] = socket[o]
        /\ UNCHANGED <<frames, dialed>> /\ s \in dialed /\ socket[s].pc = "none"
        /\ socket'[s].pc = "boot" /\ socket'[s].got = <<>>
        /\ socket'[s].joined = frames /\ socket'[s].next = frames + 1
    BY <1>4 DEF Subscribes, Others, Silent
  <2>2. \A a, o \in dialed' : Live(a)' /\ Live(o)' => a = o
    BY <1>1, <2>1 DEF Live, TabOK
  <2>3. ASSUME NEW a \in Sockets, NEW o \in Sockets, a # o, socket'[a].pc \notin {"none", "closed"},
               NEW i \in 1..Len(socket'[o].got)
        PROVE  socket'[o].got[i] <= socket'[a].joined
    <3>1. CASE o = s
      BY <2>1, <2>3, <3>1
    <3>2. CASE o # s /\ a # s
      BY <1>1, <2>1, <2>3, <3>2
    <3>3. CASE a = s /\ o # s
      <4>1. socket[o].got \in Seq(1..frames) /\ frames \in Nat
        BY DEF TypeOK, IInv, HubSound
      <4>2. socket[o].got[i] \in 1..frames
        BY <2>1, <2>3, <3>3, <4>1, ElementOfSeq
      <4>. QED  BY <2>1, <3>3, <4>1, <4>2
    <3>. QED  BY <2>3, <3>1, <3>2, <3>3
  <2>. QED  BY <1>1, <2>1, <2>2, <2>3 DEF OneAtATime
<1>5. ASSUME NEW s \in Sockets, Delivers(s)  PROVE OneAtATime'
  <2>1. /\ \A o \in Sockets : o # s => socket'[o] = socket[o]
        /\ UNCHANGED dialed /\ socket[s].pc \in {"boot", "select"} /\ socket'[s].pc \in {"boot", "select"}
        /\ socket'[s].joined = socket[s].joined
        /\ socket'[s].pc = "boot" => socket[s].pc = "boot" /\ socket'[s].next = socket[s].next
    <3>1. CASE Enters(s)
      BY <1>5, <3>1 DEF Delivers, Others, Enters
    <3>2. ASSUME NEW p \in 1..Len(log), Handles(s, p)
          PROVE  /\ socket'[s].pc \in {"boot", "select"}
                 /\ socket'[s].pc = "boot" => socket[s].pc = "boot" /\ socket'[s].next = socket[s].next
      BY <3>2 DEF Handles
    <3>3. /\ \A o \in Sockets : o # s => socket'[o] = socket[o]
          /\ UNCHANGED dialed /\ socket[s].pc \in {"boot", "select"} /\ socket'[s].joined = socket[s].joined
      BY <1>5 DEF Delivers, Others
    <3>. QED  BY <1>5, <3>1, <3>2, <3>3 DEF Delivers
  <2>2. \A a, o \in dialed' : Live(a)' /\ Live(o)' => a = o
    BY <1>1, <2>1 DEF Live, TabOK
  <2>3. ASSUME NEW a \in Sockets, NEW o \in Sockets, a # o, socket'[a].pc \notin {"none", "closed"},
               NEW i \in 1..Len(socket'[o].got)
        PROVE  socket'[o].got[i] <= socket'[a].joined
    <3>1. CASE o # s
      BY <1>1, <2>1, <2>3, <3>1
    <3>2. CASE o = s
      <4>1. socket[a].pc \notin {"none", "closed"} /\ socket[s].pc \notin {"none", "closed"}
        BY <2>1, <2>3, <3>2
      <4>2. a \in dialed /\ s \in dialed
        BY <1>1, <4>1
      <4>3. a = s
        BY <1>1, <4>1, <4>2 DEF Live
      <4>. QED  BY <2>3, <3>2, <4>3
    <3>. QED  BY <3>1, <3>2
  <2>. QED  BY <1>1, <2>1, <2>2, <2>3 DEF OneAtATime
<1>6. ASSUME NEW s \in Sockets, Moves(s)  PROVE OneAtATime'
  <2>1. /\ \A o \in Sockets : o # s => socket'[o] = socket[o]
        /\ UNCHANGED dialed /\ socket[s].pc \notin {"none", "closed"} /\ socket'[s].pc \in {"select", "deaf", "busy", "closed"}
        /\ socket'[s].joined = socket[s].joined /\ socket'[s].got = socket[s].got
    BY <1>6 DEF Moves, Others
  <2>2. \A a, o \in dialed' : Live(a)' /\ Live(o)' => a = o
    BY <1>1, <2>1 DEF Live, TabOK
  <2>3. \A o \in Sockets : socket'[o].got = socket[o].got /\ socket'[o].joined = socket[o].joined
                           /\ (socket'[o].pc \notin {"none", "closed"} => socket[o].pc \notin {"none", "closed"})
    BY <2>1
  <2>4. \A a, o \in Sockets : a # o /\ socket'[a].pc \notin {"none", "closed"} =>
           \A i \in 1..Len(socket'[o].got) : socket'[o].got[i] <= socket'[a].joined
    BY <1>1, <2>3
  <2>. QED  BY <1>1, <2>1, <2>2, <2>4 DEF OneAtATime
<1>7. ASSUME NEW s \in Sockets, Answer(s) \/ Apply(s)  PROVE UNCHANGED <<socket, dialed>>
  BY <1>7 DEF Answer, Apply, vars
<1>. QED
  BY <1>2, <1>3, <1>4, <1>5, <1>6, <1>7 DEF ViewStep, Serves

-----------------------------------------------------------------------------
(* What is asked for *)

LEMMA AskedStep ==
  ASSUME SessionOK, FetchOK, ShownOK, TabOK, AskedOK, ViewStep
  PROVE  AskedOK'
<1>1. /\ \A s \in Sockets, kind \in Kinds : fetch[s][kind].pc = "none" => s \notin dialed \/ kind \notin mix
      /\ "timeline" \notin mix => session.entries = 0
      /\ "breakpoints" \notin mix => session.bps = 0
  BY DEF AskedOK
<1>2. mix' = mix
  BY DEF ViewStep
<1>3. ("timeline" \notin mix => session'.entries = 0) /\ ("breakpoints" \notin mix => session'.bps = 0)
  <2>1. CASE session'.entries = session.entries /\ session'.bps = session.bps
    BY <1>1, <2>1
  <2>2. CASE EntryPushed
    BY <1>1, <2>2 DEF EntryPushed, SessionOK
  <2>3. CASE ListChanged
    <3>1. PICK b : session' = [session EXCEPT !.tool = "announce", !.bps = b, !.changes = @ + 1]
      BY <2>3 DEF ListChanged
    <3>. QED  BY <1>1, <2>3, <3>1 DEF ListChanged, SessionOK
  <2>4. CASE StatusTold
    <3>1. PICK q : session' = [session EXCEPT !.pc = q]
      BY <2>4 DEF StatusTold
    <3>. QED  BY <2>1, <3>1 DEF SessionOK
  <2>5. CASE EntryTold \/ ListTold
    BY <2>1, <2>5 DEF EntryTold, ListTold, SessionOK
  <2>6. ASSUME NEW s \in Sockets, Dial(s) \/ Subscribes(s) \/ Delivers(s) \/ Moves(s) \/ Answer(s) \/ Apply(s)
        PROVE  UNCHANGED session
    BY <2>6 DEF Dial, Subscribes, Delivers, Moves, Answer, Apply
  <2>. QED  BY <2>1, <2>2, <2>3, <2>4, <2>5, <2>6 DEF ViewStep, Serves
<1>4. ASSUME NEW o \in Sockets, NEW kind \in Kinds, fetch'[o][kind].pc = "none", o \in dialed'
      PROVE  kind \notin mix \/ (o \in dialed /\ fetch[o][kind].pc = "none")
  <2>1. CASE UNCHANGED <<dialed, fetch>>
    BY <1>4, <2>1
  <2>2. ASSUME NEW s \in Sockets, Dial(s)  PROVE kind \notin mix \/ (o \in dialed /\ fetch[o][kind].pc = "none")
    <3>1. fetch' = [fetch EXCEPT ![s] = Asked] /\ dialed' = dialed \cup {s}
      BY <2>2 DEF Dial
    <3>2. CASE o # s
      BY <1>4, <3>1, <3>2 DEF FetchOK
    <3>3. CASE o = s
      <4>1. fetch'[o][kind] = Asked[kind]
        BY <3>1, <3>3 DEF FetchOK
      <4>2. kind \in mix => Asked[kind].pc = "asked"
        BY DEF Asked, NoFetch
      <4>. QED  BY <1>4, <4>1, <4>2
    <3>. QED  BY <3>2, <3>3
  <2>3. ASSUME NEW s \in Sockets, NEW k \in Kinds,
               fetch' = [fetch EXCEPT ![s] = [fetch[s] EXCEPT ![k] = fetch'[s][k]]], fetch'[s][k].pc # "none", dialed' = dialed
        PROVE  o \in dialed /\ fetch[o][kind].pc = "none"
    <3>1. PICK a : a = fetch'[s][k]
      OBVIOUS
    <3>2. fetch' = [fetch EXCEPT ![s] = [fetch[s] EXCEPT ![k] = a]] /\ a.pc # "none"
      BY <2>3, <3>1
    <3>3. fetch'[o][kind] = IF o = s /\ kind = k THEN a ELSE fetch[o][kind]
      BY <3>2 DEF FetchOK
    <3>. QED  BY <1>4, <2>3, <3>2, <3>3
  <2>4. ASSUME NEW s \in Sockets, Answer(s)  PROVE o \in dialed /\ fetch[o][kind].pc = "none"
    <3>1. PICK k \in Kinds : Answers(s, k)
      BY <2>4, AnswerFacts
    <3>. QED  BY <2>3, <3>1 DEF Answers
  <2>5. ASSUME NEW s \in Sockets, Apply(s)  PROVE o \in dialed /\ fetch[o][kind].pc = "none"
    <3>1. PICK k \in Kinds : Applies(s, k)
      BY <2>5, ApplyFacts
    <3>2. fetch'[s][k].pc = "done"
      BY <3>1 DEF Applies
    <3>. QED  BY <2>3, <3>1, <3>2 DEF Applies
  <2>6. ASSUME NEW s \in Sockets, Subscribes(s) \/ Delivers(s) \/ Moves(s)  PROVE UNCHANGED <<dialed, fetch>>
    BY <2>6 DEF Subscribes, Delivers, Moves
  <2>. QED  BY <2>1, <2>2, <2>4, <2>5, <2>6 DEF ViewStep, Serves
<1>. QED
  BY <1>1, <1>2, <1>3, <1>4 DEF AskedOK

-----------------------------------------------------------------------------
(* The last frame of a kind, and what the tab was told of it *)

(* The frame p is handled in this step. *)
HandledNow(s, p) == Delivers(s) /\ p \in 1..Len(log) /\ Handles(s, p)

LEMMA LastTold ==
  ASSUME LogOK, frames \in Nat, NEW f, Tells(f), NEW K
  PROVE  /\ f.kind \in K => LastOf(K)' = {frames + 1}
         /\ f.kind \notin K => LastOf(K)' = LastOf(K)
<1>1. /\ log' \in Seq(Frames) /\ log \in Seq(Frames) /\ Len(log) = frames /\ Len(log') = frames + 1
      /\ \A p \in 1..frames : log'[p] = log[p] /\ p \in 1..(frames + 1)
      /\ \A p \in 1..(frames + 1) : p \in 1..frames \/ p = frames + 1
      /\ frames + 1 \in 1..(frames + 1) /\ log'[frames + 1] = f
  BY LogGrows
<1>2. DOMAIN log = 1..frames /\ DOMAIN log' = 1..(frames + 1)
  BY <1>1, LenProperties
<1>3. CASE f.kind \in K
  <2>1. \A m \in 1..(frames + 1) : m <= frames + 1
    OBVIOUS
  <2>2. \A n \in 1..frames : ~(frames + 1 <= n)
    OBVIOUS
  <2>. QED  BY <1>1, <1>2, <1>3, <2>1, <2>2 DEF LastOf
<1>4. CASE f.kind \notin K
  BY <1>1, <1>2, <1>4 DEF LastOf
<1>. QED
  BY <1>3, <1>4

LEMMA HandledStep ==
  ASSUME IInv, TypeOK, OneAtATime, ViewStep, NEW n, Handled(n)'
  PROVE  Handled(n) \/ \E s \in Sockets : HandledNow(s, n)
<1>1. PICK o \in Sockets : \E i \in DOMAIN socket'[o].got : socket'[o].got[i] = n
  BY DEF Handled
<1>2. ASSUME socket'[o].got = socket[o].got  PROVE Handled(n)
  BY <1>1, <1>2 DEF Handled
<1>3. ASSUME NEW s \in Sockets, Subscribes(s)  PROVE socket'[o].got = socket[o].got
  BY <1>3 DEF Subscribes, Others, OneAtATime
<1>4. ASSUME NEW s \in Sockets, Moves(s)  PROVE socket'[o].got = socket[o].got
  BY <1>4 DEF Moves, Others
<1>5. ASSUME NEW s \in Sockets, Delivers(s)  PROVE Handled(n) \/ HandledNow(s, n)
  <2>1. CASE o # s \/ Enters(s)
    BY <1>2, <1>5, <2>1 DEF Delivers, Others, Enters
  <2>2. ASSUME o = s, NEW p \in 1..Len(log), Handles(s, p)  PROVE Handled(n) \/ HandledNow(s, n)
    <3>. DEFINE g == socket[s].got
    <3>1. g \in Seq(1..frames) /\ socket'[s].got = Append(g, p)
      BY <2>2 DEF TypeOK, Handles
    <3>. HIDE DEF g
    <3>2. /\ DOMAIN Append(g, p) = 1..(Len(g) + 1) /\ DOMAIN g = 1..Len(g) /\ Len(g) \in Nat
          /\ \A i \in 1..Len(g) : Append(g, p)[i] = g[i]
          /\ Append(g, p)[Len(g) + 1] = p
      BY <3>1
    <3>3. PICK i \in 1..(Len(g) + 1) : Append(g, p)[i] = n
      BY <1>1, <2>2, <3>1, <3>2
    <3>4. CASE i = Len(g) + 1
      BY <1>5, <2>2, <3>2, <3>3, <3>4 DEF HandledNow
    <3>5. CASE i \in 1..Len(g)
      BY <3>2, <3>3, <3>5 DEF Handled, g
    <3>. QED  BY <3>2, <3>4, <3>5
  <2>. QED  BY <1>5, <2>1, <2>2 DEF Delivers
<1>6. ASSUME NEW s \in Sockets, Dial(s) \/ Answer(s) \/ Apply(s)  PROVE UNCHANGED socket
  BY <1>6 DEF Dial, Answer, Apply, vars
<1>. QED
  BY <1>2, <1>3, <1>4, <1>5, <1>6 DEF ViewStep, Serves

LEMMA HandledSent ==
  ASSUME TypeOK, LogOK, NEW n, Handled(n)
  PROVE  n \in 1..frames /\ \E s \in Sockets : \E i \in 1..Len(socket[s].got) : socket[s].got[i] = n
<1>1. PICK o \in Sockets : \E i \in DOMAIN socket[o].got : socket[o].got[i] = n
  BY DEF Handled
<1>2. socket[o].got \in Seq(1..frames)
  BY DEF TypeOK
<1>3. DOMAIN socket[o].got = 1..Len(socket[o].got)
  BY <1>2
<1>. QED
  BY <1>1, <1>2, <1>3, ElementOfSeq

(* A connection that is lost stays as it was. *)
LEMMA ClosedStay ==
  ASSUME IInv, ViewStep, NEW s \in Sockets, socket[s].pc = "closed"
  PROVE  socket'[s] = socket[s]
<1>1. ASSUME NEW o \in Sockets, Subscribes(o) \/ Delivers(o) \/ Moves(o)  PROVE socket'[s] = socket[s]
  BY <1>1 DEF Subscribes, Delivers, Moves, Others
<1>2. ASSUME NEW o \in Sockets, Dial(o) \/ Answer(o) \/ Apply(o)  PROVE socket'[s] = socket[s]
  BY <1>2 DEF Dial, Answer, Apply, vars
<1>. QED
  BY <1>1, <1>2 DEF ViewStep, Serves

LEMMA UninterruptedStep ==
  ASSUME IInv, ViewStep, Uninterrupted'
  PROVE  Uninterrupted
BY ClosedStay DEF Uninterrupted

(* A replay goes on until the frame is handled again. *)
LEMMA ReplayStep ==
  ASSUME IInv, TypeOK, ViewStep, Uninterrupted', NEW n \in Nat, Replaying(n)
  PROVE  Replaying(n)' \/ \E s \in Sockets : HandledNow(s, n)
<1>1. PICK o \in Sockets : socket[o].pc = "boot" /\ First(o) <= n /\ n < socket[o].next
  BY DEF Replaying
<1>2. CASE socket'[o] = socket[o]
  BY <1>1, <1>2 DEF Replaying, First
<1>3. ASSUME NEW s \in Sockets, Subscribes(s)  PROVE socket'[o] = socket[o]
  BY <1>1, <1>3 DEF Subscribes, Others
<1>4. ASSUME Moves(o)  PROVE FALSE
  <2>1. socket'[o].pc = "closed" /\ socket'[o].boot = socket[o].boot
    BY <1>1, <1>4 DEF Moves
  <2>2. socket[o].boot = <<>>
    BY <2>1 DEF Uninterrupted
  <2>3. Len(socket[o].boot) = 0 /\ socket[o].next \in Nat
    BY <2>2 DEF IInv, SocketsSound, Socket
  <2>. QED  BY <1>1, <2>3 DEF First
<1>5. ASSUME Delivers(o)  PROVE Replaying(n)' \/ HandledNow(o, n)
  <2>1. CASE Enters(o)
    <3>1. First(o) = socket[o].next /\ socket[o].next \in Nat
      BY <2>1 DEF Enters, IInv, SocketsSound, Socket
    <3>. QED  BY <1>1, <3>1
  <2>2. ASSUME NEW p \in 1..Len(log), Handles(o, p), p # n  PROVE Replaying(n)'
    <3>1. p = First(o) /\ First(o)' = p + 1 /\ socket'[o].pc = "boot" /\ socket'[o].next = socket[o].next
      BY <1>1, <2>2 DEF Handles
    <3>2. p + 1 <= n
      BY <1>1, <2>2, <3>1
    <3>. QED  BY <1>1, <3>1, <3>2 DEF Replaying
  <2>. QED  BY <1>5, <2>1, <2>2 DEF Delivers, HandledNow
<1>6. ASSUME NEW s \in Sockets, Moves(s) \/ Delivers(s), s # o  PROVE socket'[o] = socket[o]
  BY <1>6 DEF Moves, Delivers, Others
<1>7. ASSUME NEW s \in Sockets, Dial(s) \/ Answer(s) \/ Apply(s)  PROVE UNCHANGED socket
  BY <1>7 DEF Dial, Answer, Apply, vars
<1>. QED
  BY <1>2, <1>3, <1>4, <1>5, <1>6, <1>7 DEF ViewStep, Serves

(* An older frame is handled again only in a replay that the last one is part of. *)
LEMMA OlderReplayed ==
  ASSUME IInv, IInv', TypeOK, LogOK, OneAtATime, NEW K, NEW n \in LastOf(K), Handled(n),
         NEW s \in Sockets, NEW p, HandledNow(s, p), log[p].kind \in K, p # n
  PROVE  Replaying(n)'
<1>1. log \in Seq(Frames) /\ Len(log) = frames
  BY DEF LogOK, Frames
<1>2. DOMAIN log = 1..frames /\ p \in 1..frames
  BY <1>1 DEF HandledNow
<1>3. n \in 1..frames /\ p < n
  BY <1>1, <1>2 DEF LastOf
<1>9. PICK o \in Sockets : \E i \in 1..Len(socket[o].got) : socket[o].got[i] = n
  BY HandledSent
<1>4. PICK i \in 1..Len(socket[o].got) : socket[o].got[i] = n
  BY <1>9
<1>5. socket[s].pc \in {"boot", "select"} /\ Handles(s, p)
  BY DEF HandledNow, Delivers
<1>6. socket[s].next \in Nat /\ socket[s].joined \in Nat /\ socket[s].joined < socket[s].next
  BY <1>5, FirstFacts
<1>7. CASE o = s
  <2>. DEFINE g == socket[s].got
  <2>1. g \in Seq(1..frames) /\ socket'[s].got = Append(g, p)
    BY <1>5 DEF TypeOK, Handles
  <2>2. \A a, b \in 1..Len(socket'[s].got) : a < b => socket'[s].got[a] < socket'[s].got[b]
    BY DEF IInv, SocketsSound, Sound
  <2>. HIDE DEF g
  <2>3. /\ Len(Append(g, p)) = Len(g) + 1 /\ Len(g) \in Nat
        /\ \A a \in 1..Len(g) : Append(g, p)[a] = g[a]
        /\ Append(g, p)[Len(g) + 1] = p
    BY <2>1
  <2>4. i \in 1..Len(g) /\ g[i] = n
    BY <1>4, <1>7 DEF g
  <2>5. n < p
    BY <2>1, <2>2, <2>3, <2>4
  <2>. QED  BY <1>2, <1>3, <2>5
<1>8. CASE o # s
  <2>1. n <= socket[s].joined
    BY <1>4, <1>5, <1>8 DEF OneAtATime
  <2>2. n < socket[s].next
    BY <1>3, <1>6, <2>1
  <2>3. socket[s].pc # "select"
    BY <1>2, <1>3, <1>5, <2>2 DEF Handles
  <2>4. socket'[s].pc = "boot" /\ socket'[s].next = socket[s].next /\ First(s)' = p + 1
    BY <1>5, <2>3 DEF Handles
  <2>5. p + 1 <= n
    BY <1>2, <1>3
  <2>. QED  BY <2>2, <2>4, <2>5 DEF Replaying
<1>. QED
  BY <1>7, <1>8

(* A last frame that was handled was the last one, and handled, already. *)
LEMMA LastHandled ==
  ASSUME IInv, TypeOK, LogOK, OneAtATime, ViewStep, NEW K, NEW n \in LastOf(K)', Handled(n)'
  PROVE  /\ n \in LastOf(K) /\ n \in 1..frames /\ log'[n] = log[n]
         /\ Handled(n) \/ \E s \in Sockets : HandledNow(s, n)
         /\ \A f : Tells(f) => f.kind \notin K
<1>1. Handled(n) \/ \E s \in Sockets : HandledNow(s, n)
  BY HandledStep
<1>2. frames \in Nat /\ Len(log) = frames
  BY DEF IInv, HubSound, LogOK
<1>3. n \in 1..frames
  BY <1>1, <1>2, HandledSent DEF HandledNow
<1>4. CASE log' = log
  BY <1>1, <1>2, <1>3, <1>4, LogGrows DEF LastOf
<1>5. ASSUME NEW f, Tells(f)  PROVE f.kind \notin K /\ n \in LastOf(K) /\ log'[n] = log[n]
  <2>1. f.kind \notin K
    BY <1>2, <1>3, <1>5, LastTold
  <2>. QED  BY <1>2, <1>3, <1>5, <2>1, LastTold, LogGrows
<1>6. (\E f : Tells(f)) \/ log' = log
  <2>1. ASSUME NEW s \in Sockets, Dial(s) \/ Subscribes(s) \/ Delivers(s) \/ Answer(s) \/ Apply(s)  PROVE log' = log
    BY <2>1 DEF Dial, Subscribes, Delivers, Answer, Apply, Silent
  <2>2. ASSUME NEW s \in Sockets, Moves(s)  PROVE (\E f : Tells(f)) \/ log' = log
    BY <2>2 DEF Moves, Silent
  <2>3. CASE Serves
    BY <2>3 DEF Serves, Silent, StatusTold, EntryPushed, EntryTold, ListChanged, ListTold
  <2>. QED  BY <2>1, <2>2, <2>3 DEF ViewStep
<1>. QED
  BY <1>1, <1>3, <1>4, <1>5, <1>6

-----------------------------------------------------------------------------
(* The status *)

LEMMA StatusStep ==
  ASSUME IInv, IInv', TypeOK, ViewTypes, OneAtATime, StatusShown, ViewStep
  PROVE  StatusShown'
<1>0. LogOK /\ FetchOK /\ ShownOK
  BY DEF ViewTypes
<1>. SUFFICES ASSUME Uninterrupted', NEW n \in LastOf(StatusKinds)', Handled(n)'
              PROVE  view'.status = StatusAfter(log'[n].kind) \/ Replaying(n)'
  BY DEF StatusShown
<1>1. /\ n \in LastOf(StatusKinds) /\ n \in 1..frames /\ log'[n] = log[n] /\ n \in Nat
      /\ Handled(n) \/ \E s \in Sockets : HandledNow(s, n)
  BY <1>0, LastHandled
<1>2. ASSUME NEW s \in Sockets, HandledNow(s, n)  PROVE view'.status = StatusAfter(log'[n].kind)
  <2>1. log[n].kind \in StatusKinds
    BY <1>1 DEF LastOf
  <2>. QED  BY <1>0, <1>1, <1>2, <2>1, ShownByHandling DEF HandledNow
<1>3. CASE Handled(n) /\ ~\E s \in Sockets : HandledNow(s, n)
  <2>1. view.status = StatusAfter(log'[n].kind) \/ Replaying(n)'
    <3>1. view.status = StatusAfter(log[n].kind) \/ Replaying(n)
      BY <1>1, <1>3, UninterruptedStep DEF StatusShown
    <3>. QED  BY <1>1, <1>3, <3>1, ReplayStep
  <2>2. CASE view'.status = view.status
    BY <2>1, <2>2
  <2>3. ASSUME NEW s \in Sockets, Delivers(s)  PROVE view'.status = view.status \/ Replaying(n)'
    <3>1. CASE Enters(s)
      BY <3>1 DEF Enters
    <3>2. ASSUME NEW p \in 1..Len(log), Handles(s, p)  PROVE view'.status = view.status \/ Replaying(n)'
      <4>1. HandledNow(s, p) /\ p # n
        BY <1>3, <2>3, <3>2 DEF HandledNow
      <4>2. CASE log[p].kind \in StatusKinds
        BY <1>0, <1>1, <1>3, <4>1, <4>2, OlderReplayed
      <4>3. CASE log[p].kind \notin StatusKinds
        BY <1>0, <3>2, <4>3, ShownByHandling
      <4>. QED  BY <4>2, <4>3
    <3>. QED  BY <2>3, <3>1, <3>2 DEF Delivers
  <2>4. ASSUME NEW s \in Sockets, Apply(s)  PROVE view'.status = view.status
    BY <1>0, <2>4, ApplyFacts DEF Applies
  <2>5. ASSUME NEW s \in Sockets, Dial(s) \/ Subscribes(s) \/ Moves(s) \/ Answer(s)  PROVE view' = view
    BY <2>5 DEF Dial, Subscribes, Moves, Answer
  <2>. QED  BY <2>1, <2>2, <2>3, <2>4, <2>5 DEF ViewStep, Serves
<1>. QED
  BY <1>1, <1>2, <1>3

-----------------------------------------------------------------------------
(* Steps by what they change *)

TabStep(s) == Dial(s) \/ Subscribes(s) \/ Delivers(s) \/ Moves(s) \/ Answer(s) \/ Apply(s)

LEMMA TabStepFacts ==
  ASSUME NEW s \in Sockets, TabStep(s)
  PROVE  UNCHANGED <<session, overtaken>>
BY DEF TabStep, Dial, Subscribes, Delivers, Moves, Answer, Apply

LEMMA LogChange ==
  ASSUME ViewStep
  PROVE  UNCHANGED <<log, frames>> \/ \E f : Tells(f)
<1>1. ASSUME NEW s \in Sockets, Dial(s) \/ Subscribes(s) \/ Delivers(s) \/ Answer(s) \/ Apply(s)
      PROVE  UNCHANGED <<log, frames>>
  BY <1>1 DEF Dial, Subscribes, Delivers, Answer, Apply, Silent, vars
<1>2. ASSUME NEW s \in Sockets, Moves(s)  PROVE (\E f : Tells(f)) \/ UNCHANGED <<log, frames>>
  BY <1>2 DEF Moves, Silent
<1>3. CASE Serves
  BY <1>3 DEF Serves, Silent, StatusTold, EntryPushed, EntryTold, ListChanged, ListTold
<1>. QED
  BY <1>1, <1>2, <1>3 DEF ViewStep

LEMMA FetchChange ==
  ASSUME FetchOK, ShownOK, ViewStep, NEW o \in Sockets, NEW k \in Kinds
  PROVE  \/ fetch'[o][k] = fetch[o][k]
         \/ fetch'[o][k].pc \in {"none", "asked"} /\ fetch'[o][k].found = <<>>
         \/ Answers(o, k) \/ Applies(o, k)
<1>1. CASE UNCHANGED fetch
  BY <1>1
<1>2. ASSUME NEW s \in Sockets, Dial(s)
      PROVE  fetch'[o][k] = fetch[o][k] \/ (fetch'[o][k].pc \in {"none", "asked"} /\ fetch'[o][k].found = <<>>)
  <2>1. fetch' = [fetch EXCEPT ![s] = Asked]
    BY <1>2 DEF Dial
  <2>2. Asked[k].pc \in {"none", "asked"} /\ Asked[k].found = <<>>
    BY DEF Asked, NoFetch
  <2>3. fetch'[o] = IF o = s THEN Asked ELSE fetch[o]
    BY <2>1 DEF FetchOK
  <2>. QED  BY <2>2, <2>3
<1>3. ASSUME NEW s \in Sockets, NEW kind \in Kinds,
             fetch' = [fetch EXCEPT ![s] = [fetch[s] EXCEPT ![kind] = fetch'[s][kind]]], ~(s = o /\ kind = k)
      PROVE  fetch'[o][k] = fetch[o][k]
  <2>1. PICK a : a = fetch'[s][kind]
    OBVIOUS
  <2>2. fetch' = [fetch EXCEPT ![s] = [fetch[s] EXCEPT ![kind] = a]]
    BY <1>3, <2>1
  <2>. QED  BY <1>3, <2>2 DEF FetchOK
<1>4. ASSUME NEW s \in Sockets, Answer(s)  PROVE fetch'[o][k] = fetch[o][k] \/ Answers(o, k)
  <2>1. PICK kind \in Kinds : Answers(s, kind)
    BY <1>4, AnswerFacts
  <2>. QED  BY <1>3, <2>1 DEF Answers
<1>5. ASSUME NEW s \in Sockets, Apply(s)  PROVE fetch'[o][k] = fetch[o][k] \/ Applies(o, k)
  <2>1. PICK kind \in Kinds : Applies(s, kind)
    BY <1>5, ApplyFacts
  <2>. QED  BY <1>3, <2>1 DEF Applies
<1>6. ASSUME NEW s \in Sockets, Subscribes(s) \/ Delivers(s) \/ Moves(s)  PROVE UNCHANGED fetch
  BY <1>6 DEF Subscribes, Delivers, Moves
<1>. QED
  BY <1>1, <1>2, <1>4, <1>5, <1>6 DEF ViewStep, Serves

LEMMA ViewChange ==
  ASSUME FetchOK, ShownOK, ViewStep
  PROVE  \/ view' = view
         \/ \E s \in Sockets : \E p \in 1..Len(log) : HandledNow(s, p)
         \/ \E s \in Sockets : \E k \in Kinds : Applies(s, k)
<1>1. ASSUME NEW s \in Sockets, Delivers(s)  PROVE view' = view \/ \E p \in 1..Len(log) : HandledNow(s, p)
  BY <1>1 DEF Delivers, Enters, HandledNow
<1>2. ASSUME NEW s \in Sockets, Apply(s)  PROVE \E k \in Kinds : Applies(s, k)
  BY <1>2, ApplyFacts
<1>3. ASSUME NEW s \in Sockets, Dial(s) \/ Subscribes(s) \/ Moves(s) \/ Answer(s)  PROVE view' = view
  BY <1>3 DEF Dial, Subscribes, Moves, Answer
<1>. QED
  BY <1>1, <1>2, <1>3 DEF ViewStep, Serves

-----------------------------------------------------------------------------
(* The breakpoints *)

(* Nothing happens to the breakpoints and none is told. *)
ListQuiet ==
  /\ session'.bps = session.bps /\ session'.tool = session.tool
  /\ overtaken => overtaken'
  /\ \A f : Tells(f) => f.kind # "breakpoints_changed"

LEMMA FrameTold ==
  ASSUME NEW f, NEW g, frames \in Nat, LogOK, Tells(f), Tells(g)
  PROVE  f = g
BY LogGrows

LEMMA ListSteps ==
  ASSUME SessionOK, LogOK, frames \in Nat, ViewStep
  PROVE  \/ ListChanged /\ UNCHANGED <<socket, dialed, fetch, view, log, frames>>
         \/ ListTold /\ UNCHANGED <<socket, dialed, fetch, view>>
         \/ ListQuiet
<1>1. CASE Serves /\ Silent /\ UNCHANGED <<session, overtaken>>
  BY <1>1, LogGrows DEF ListQuiet, Silent
<1>2. CASE StatusTold
  <2>1. PICK f \in Frames : f.kind \in StatusKinds /\ Tells(f)
    BY <1>2 DEF StatusTold
  <2>2. \A g : Tells(g) => g.kind # "breakpoints_changed"
    BY <2>1, FrameTold DEF StatusKinds
  <2>3. PICK q : session' = [session EXCEPT !.pc = q]
    BY <1>2 DEF StatusTold
  <2>. QED  BY <1>2, <2>2, <2>3 DEF StatusTold, ListQuiet, SessionOK
<1>3. CASE EntryPushed
  BY <1>3, LogGrows DEF EntryPushed, ListQuiet, SessionOK, Silent
<1>4. CASE EntryTold
  <2>1. \A g : Tells(g) => g.kind # "breakpoints_changed"
    BY <1>4, FrameTold DEF EntryTold, Frame
  <2>. QED  BY <1>4, <2>1 DEF EntryTold, ListQuiet, SessionOK
<1>5. ASSUME NEW s \in Sockets, TabStep(s)  PROVE ListQuiet
  <2>1. CASE Moves(s)
    <3>1. \A g : Tells(g) => g.kind # "breakpoints_changed"
      BY <2>1, FrameTold, LogGrows DEF Moves, Frame, Silent
    <3>. QED  BY <1>5, <3>1, TabStepFacts DEF ListQuiet
  <2>2. CASE ~Moves(s)
    <3>1. UNCHANGED frames
      BY <1>5, <2>2 DEF TabStep, Dial, Subscribes, Delivers, Answer, Apply, Silent, vars
    <3>2. \A g : ~Tells(g)
      BY <3>1, LogGrows
    <3>. QED  BY <1>5, <3>2, TabStepFacts DEF ListQuiet
  <2>. QED  BY <2>1, <2>2
<1>. QED
  BY <1>1, <1>2, <1>3, <1>4, <1>5 DEF ViewStep, Serves, TabStep, ListChanged, Silent

LEMMA ChangesQuiet ==
  ASSUME LogOK, frames \in Nat, ViewStep, \A f : Tells(f) => f.kind # "breakpoints_changed"
  PROVE  /\ Changes' = Changes
         /\ \A n \in Changes : log'[n] = log[n]
         /\ (\A p \in 1..Len(log) : log[p].kind # "breakpoints_changed")
              => \A p \in 1..Len(log') : log'[p].kind # "breakpoints_changed"
<1>1. Len(log) = frames /\ log \in Seq(Frames)
  BY DEF LogOK, Frames
<1>2. DOMAIN log = 1..frames
  BY <1>1
<1>3. CASE log' = log
  BY <1>3 DEF Changes, LastOf
<1>4. ASSUME NEW f, Tells(f)
      PROVE  /\ Changes' = Changes
             /\ \A n \in Changes : log'[n] = log[n]
             /\ (\A p \in 1..Len(log) : log[p].kind # "breakpoints_changed")
                  => \A p \in 1..Len(log') : log'[p].kind # "breakpoints_changed"
  <2>1. f.kind # "breakpoints_changed"
    BY <1>4
  <2>2. Changes' = Changes
    BY <1>4, <2>1, LastTold DEF Changes
  <2>3. \A n \in Changes : n \in 1..frames
    BY <1>2 DEF Changes, LastOf
  <2>. QED  BY <1>1, <1>4, <2>1, <2>2, <2>3, LogGrows
<1>. QED
  BY <1>3, <1>4, LogChange

LEMMA ChangesTold ==
  ASSUME LogOK, frames \in Nat, ListTold
  PROVE  Changes' = {frames + 1} /\ log'[frames + 1].n = session.bps /\ log'[frames + 1].kind = "breakpoints_changed"
<1>1. PICK f : f = Frame("breakpoints_changed", session.bps)
  OBVIOUS
<1>2. Tells(f) /\ f.kind = "breakpoints_changed" /\ f.n = session.bps
  BY <1>1 DEF ListTold, Frame
<1>. QED
  BY <1>2, LastTold, LogGrows DEF Changes

LEMMA AnnouncedStep ==
  ASSUME SessionOK, LogOK, frames \in Nat, AnnouncedBps, ViewStep
  PROVE  AnnouncedBps'
<1>1. CASE ListChanged
  BY <1>1 DEF ListChanged, SessionOK, AnnouncedBps
<1>2. CASE ListTold
  <2>1. session'.bps = session.bps
    BY <1>2 DEF ListTold, SessionOK
  <2>. QED  BY <1>2, <2>1, ChangesTold DEF AnnouncedBps
<1>3. CASE ListQuiet
  BY <1>3, ChangesQuiet DEF ListQuiet, AnnouncedBps
<1>. QED
  BY <1>1, <1>2, <1>3, ListSteps

LEMMA NoChangeStep ==
  ASSUME IInv, SessionOK, LogOK, FetchOK, ShownOK, NoChange, ViewStep
  PROVE  NoChange'
<1>0. frames \in Nat /\ Len(log) = frames
  BY DEF IInv, HubSound, LogOK
<1>1. CASE ListTold
  <2>1. Changes' # {}
    BY <1>0, <1>1, ChangesTold
  <2>. QED  BY <2>1 DEF NoChange
<1>2. CASE ListChanged /\ UNCHANGED <<socket, dialed, fetch, view, log, frames>>
  <2>1. Changes' = Changes /\ session'.tool # "idle"
    BY <1>2 DEF ListChanged, Changes, LastOf, SessionOK
  <2>. QED  BY <1>2, <2>1 DEF NoChange
<1>3. CASE ListQuiet
  <2>. SUFFICES ASSUME Changes' = {}
                PROVE  /\ \A p \in 1..Len(log') : log'[p].kind # "breakpoints_changed"
                       /\ session'.tool = "idle" => session'.bps = 0 /\ view'.bps = 0
                       /\ session'.tool = "idle" => \A s \in Sockets : fetch'[s]["breakpoints"].found = <<>>
    BY DEF NoChange
  <2>1. Changes = {} /\ \A p \in 1..Len(log) : log[p].kind # "breakpoints_changed"
    BY <1>0, <1>3, ChangesQuiet DEF ListQuiet, NoChange
  <2>2. \A p \in 1..Len(log') : log'[p].kind # "breakpoints_changed"
    BY <1>0, <1>3, <2>1, ChangesQuiet DEF ListQuiet
  <2>3. ASSUME session'.tool = "idle"
        PROVE session'.bps = 0 /\ view'.bps = 0 /\ \A s \in Sockets : fetch'[s]["breakpoints"].found = <<>>
    <3>1. session'.bps = 0 /\ session.bps = 0 /\ view.bps = 0 /\ \A s \in Sockets : fetch[s]["breakpoints"].found = <<>>
      BY <1>3, <2>1, <2>3 DEF ListQuiet, NoChange
    <3>2. view'.bps = 0
      <4>1. ASSUME NEW s \in Sockets, NEW p \in 1..Len(log), HandledNow(s, p)  PROVE view'.bps = view.bps
        BY <2>1, <4>1, ShownByHandling DEF HandledNow
      <4>2. ASSUME NEW s \in Sockets, NEW k \in Kinds, Applies(s, k)  PROVE view'.bps = view.bps
        BY <3>1, <4>2 DEF Applies
      <4>. QED  BY <3>1, <4>1, <4>2, ViewChange
    <3>3. ASSUME NEW s \in Sockets  PROVE fetch'[s]["breakpoints"].found = <<>>
      <4>. DEFINE k == "breakpoints"
      <4>1. k \in Kinds /\ k # "timeline"
        BY DEF Kinds
      <4>2. CASE Answers(s, k)
        BY <3>1, <4>1, <4>2 DEF Answers
      <4>3. CASE Applies(s, k)
        BY <4>3 DEF Applies
      <4>. QED  BY <3>1, <4>1, <4>2, <4>3, FetchChange
    <3>. QED  BY <3>1, <3>2, <3>3
  <2>. QED  BY <2>2, <2>3
<1>. QED
  BY <1>0, <1>1, <1>2, <1>3, ListSteps

LEMMA AnsweredStep ==
  ASSUME IInv, SessionOK, LogOK, FetchOK, ShownOK, AnsweredBps, ViewStep
  PROVE  AnsweredBps'
<1>. DEFINE k == "breakpoints"
<1>0. frames \in Nat /\ k \in Kinds /\ k # "timeline"
  BY DEF IInv, HubSound, Kinds
<1>. SUFFICES ASSUME NEW s \in Sockets, fetch'[s][k].pc = "answered", ~overtaken', session'.tool = "idle"
              PROVE  fetch'[s][k].found = IF session'.bps = 0 THEN <<>> ELSE <<session'.bps>>
  BY DEF AnsweredBps
<1>1. CASE ListChanged
  BY <1>1 DEF ListChanged, SessionOK
<1>2. CASE ListTold /\ UNCHANGED <<socket, dialed, fetch, view>>
  BY <1>0, <1>2 DEF ListTold, InFlight
<1>3. CASE ListQuiet
  <2>1. session'.bps = session.bps /\ session.tool = "idle" /\ ~overtaken
    BY <1>3 DEF ListQuiet
  <2>2. CASE Answers(s, k)
    BY <1>0, <2>1, <2>2 DEF Answers
  <2>3. CASE Applies(s, k)
    BY <2>3 DEF Applies
  <2>4. CASE fetch'[s][k] = fetch[s][k]
    BY <2>1, <2>4 DEF AnsweredBps
  <2>. QED  BY <1>0, <2>2, <2>3, <2>4, FetchChange
<1>. QED
  BY <1>0, <1>1, <1>2, <1>3, ListSteps

LEMMA ClearedStep ==
  ASSUME IInv, IInv', TypeOK, ViewTypes, OneAtATime, AnnouncedBps, AnsweredBps, ClearedShown, ViewStep
  PROVE  ClearedShown'
<1>0. SessionOK /\ LogOK /\ FetchOK /\ ShownOK /\ frames \in Nat
  BY DEF ViewTypes, IInv, HubSound
<1>. SUFFICES ASSUME Uninterrupted', ~overtaken', session'.tool = "idle", session'.bps = 0,
                     NEW n \in Changes', Handled(n)'
              PROVE  view'.bps = 0 \/ Replaying(n)'
  BY DEF ClearedShown
<1>1. /\ n \in Changes /\ n \in 1..frames /\ n \in Nat
      /\ Handled(n) \/ \E s \in Sockets : HandledNow(s, n)
      /\ \A f : Tells(f) => f.kind # "breakpoints_changed"
  BY <1>0, LastHandled DEF Changes
<1>2. session.tool = "idle" /\ session.bps = 0 /\ ~overtaken
  <2>1. CASE ListChanged
    BY <1>0, <2>1 DEF ListChanged, SessionOK
  <2>2. CASE ListTold
    BY <1>1, <2>2 DEF ListTold, Frame
  <2>. QED  BY <1>0, <2>1, <2>2, ListSteps DEF ListQuiet
<1>3. log[n].n = 0 /\ log[n].kind = "breakpoints_changed"
  BY <1>1, <1>2 DEF AnnouncedBps, Changes, LastOf
<1>4. ASSUME NEW s \in Sockets, HandledNow(s, n)  PROVE view'.bps = 0
  BY <1>0, <1>1, <1>3, <1>4, ShownByHandling DEF HandledNow
<1>5. CASE Handled(n) /\ ~\E s \in Sockets : HandledNow(s, n)
  <2>1. view.bps = 0 \/ Replaying(n)'
    <3>1. view.bps = 0 \/ Replaying(n)
      BY <1>1, <1>2, <1>5, UninterruptedStep DEF ClearedShown
    <3>. QED  BY <1>1, <1>5, <3>1, ReplayStep
  <2>2. ASSUME NEW s \in Sockets, NEW p \in 1..Len(log), HandledNow(s, p)  PROVE view'.bps = view.bps \/ Replaying(n)'
    <3>1. p # n
      BY <1>5, <2>2
    <3>2. CASE log[p].kind = "breakpoints_changed"
      BY <1>0, <1>1, <1>5, <2>2, <3>1, <3>2, OlderReplayed DEF Changes
    <3>3. CASE log[p].kind # "breakpoints_changed"
      BY <1>0, <2>2, <3>3, ShownByHandling DEF HandledNow
    <3>. QED  BY <3>2, <3>3
  <2>3. ASSUME NEW s \in Sockets, NEW k \in Kinds, Applies(s, k)  PROVE view'.bps = view.bps
    BY <1>2, <2>3 DEF Applies, AnsweredBps
  <2>. QED  BY <1>0, <2>1, <2>2, <2>3, ViewChange
<1>. QED
  BY <1>1, <1>4, <1>5

-----------------------------------------------------------------------------
(* A live socket's place, and what it still has to relay *)

LEMMA PlaceStep ==
  ASSUME IInv, TypeOK, OneAtATime, TabOK, ViewStep, NEW s \in Sockets,
         Live(s)', socket'[s].pc # "none", ~socket'[s].lagged
  PROVE  \/ Subscribes(s)
         \/ /\ Live(s) /\ socket[s].pc # "none" /\ ~socket[s].lagged
            /\ First(s)' = First(s)
            /\ \A o \in Sockets, p \in 1..Len(log) : ~HandledNow(o, p)
         \/ /\ Live(s) /\ socket[s].pc # "none" /\ ~socket[s].lagged
            /\ \E p \in 1..Len(log) : HandledNow(s, p) /\ p = First(s) /\ First(s)' = p + 1
<1>1. /\ \A o \in Sockets : o \notin dialed => socket[o].pc = "none"
      /\ \A o \in Sockets : \A p : HandledNow(o, p) => Active(o)
  BY DEF OneAtATime, HandledNow, Delivers, Active
<1>2. s \in dialed' /\ socket'[s].pc # "closed"
  BY DEF Live
<1>3. ASSUME socket'[s] = socket[s]
      PROVE  Live(s) /\ socket[s].pc # "none" /\ ~socket[s].lagged /\ First(s)' = First(s)
  BY <1>1, <1>2, <1>3 DEF Live, First
<1>4. ASSUME NEW o \in Sockets, Delivers(o), o # s  PROVE FALSE
  <2>1. Live(s) /\ Active(o)
    BY <1>1, <1>2, <1>4 DEF Delivers, Others, Live, Active
  <2>. QED  BY <1>4, <2>1, OneActive
<1>5. ASSUME NEW o \in Sockets, Subscribes(o)  PROVE \A p : ~\E t \in Sockets : HandledNow(t, p)
  <2>1. socket[o].pc = "none" /\ socket'[o].pc = "boot" /\ socket'[o].joined = frames /\ o \in dialed
    BY <1>5 DEF Subscribes
  <2>2. ASSUME NEW t \in Sockets, Delivers(t)  PROVE FALSE
    <3>1. Active(t) /\ Live(o)
      BY <2>1, <2>2 DEF Delivers, Active, Live
    <3>2. o = t
      BY <3>1, OneActive
    <3>. QED  BY <2>1, <2>2, <3>2 DEF Delivers
  <2>. QED  BY <2>2 DEF HandledNow
<1>6. ASSUME Delivers(s)
      PROVE  \/ /\ Live(s) /\ socket[s].pc # "none" /\ ~socket[s].lagged
                /\ First(s)' = First(s)
                /\ \A o \in Sockets, p \in 1..Len(log) : ~HandledNow(o, p)
             \/ /\ Live(s) /\ socket[s].pc # "none" /\ ~socket[s].lagged
                /\ \E p \in 1..Len(log) : HandledNow(s, p) /\ p = First(s) /\ First(s)' = p + 1
  <2>1. Live(s) /\ socket[s].pc # "none" /\ ~socket[s].lagged
    BY <1>1, <1>6 DEF Delivers, Live
  <2>2. \A o \in Sockets, p \in 1..Len(log) : HandledNow(o, p) => o = s
    BY <1>4 DEF HandledNow
  <2>3. CASE Enters(s)
    <3>1. \A p \in 1..Len(log) : ~Handles(s, p)
      <4>1. socket[s].pc = "boot" /\ socket'[s].pc = "select"
        BY <2>3 DEF Enters
      <4>. QED  BY <4>1 DEF Handles
    <3>. QED  BY <2>1, <2>2, <2>3, <3>1 DEF Enters, HandledNow
  <2>4. ASSUME NEW p \in 1..Len(log), Handles(s, p)
        PROVE  HandledNow(s, p) /\ p = First(s) /\ First(s)' = p + 1
    BY <1>6, <2>4 DEF HandledNow, Handles
  <2>. QED  BY <1>6, <2>1, <2>3, <2>4 DEF Delivers
<1>7. CASE \E o \in Sockets : Delivers(o)
  BY <1>4, <1>6, <1>7
<1>8. CASE ~\E o \in Sockets : Delivers(o)
  <2>1. \A o \in Sockets, p \in 1..Len(log) : ~HandledNow(o, p)
    BY <1>8 DEF HandledNow
  <2>2. ASSUME NEW o \in Sockets, Subscribes(o), o # s  PROVE socket'[s] = socket[s]
    BY <2>2 DEF Subscribes, Others
  <2>3. ASSUME NEW o \in Sockets, Moves(o), o # s  PROVE socket'[s] = socket[s]
    BY <2>3 DEF Moves, Others
  <2>4. ASSUME Moves(s)  PROVE Live(s) /\ socket[s].pc # "none" /\ ~socket[s].lagged /\ First(s)' = First(s)
    BY <1>1, <2>4 DEF Moves, Live, First
  <2>5. ASSUME NEW o \in Sockets, Dial(o)
        PROVE  Live(s) /\ socket[s].pc # "none" /\ ~socket[s].lagged /\ First(s)' = First(s)
    BY <1>3, <2>5 DEF Dial, vars
  <2>6. ASSUME NEW o \in Sockets, Answer(o) \/ Apply(o)  PROVE socket' = socket
    BY <2>6 DEF Answer, Apply, vars
  <2>. QED  BY <1>3, <1>8, <2>1, <2>2, <2>3, <2>4, <2>5, <2>6 DEF ViewStep, Serves
<1>. QED
  BY <1>7, <1>8

(* Before it subscribes. *)
LEMMA WaitStep ==
  ASSUME IInv, OneAtATime, ViewStep, NEW s \in Sockets, Live(s)', socket'[s].pc = "none"
  PROVE  /\ socket[s].pc = "none"
         /\ \A o \in Sockets, p \in 1..Len(log) : ~HandledNow(o, p)
         /\ Live(s) \/ Dial(s)
<1>1. socket[s].pc = "none"
  <2>1. ASSUME NEW o \in Sockets, Subscribes(o) \/ Delivers(o) \/ Moves(o)  PROVE socket[s].pc = "none"
    <3>1. CASE o = s
      BY <2>1, <3>1 DEF Subscribes, Delivers, Moves, Handles, Enters
    <3>2. CASE o # s
      BY <2>1, <3>2 DEF Subscribes, Delivers, Moves, Others
    <3>. QED  BY <3>1, <3>2
  <2>2. ASSUME NEW o \in Sockets, Dial(o) \/ Answer(o) \/ Apply(o)  PROVE socket' = socket
    BY <2>2 DEF Dial, Answer, Apply, vars
  <2>. QED  BY <2>1, <2>2 DEF ViewStep, Serves
<1>2. Live(s) \/ Dial(s)
  <2>1. ASSUME NEW o \in Sockets, Subscribes(o) \/ Delivers(o) \/ Moves(o) \/ Answer(o) \/ Apply(o)  PROVE dialed' = dialed
    BY <2>1 DEF Subscribes, Delivers, Moves, Answer, Apply
  <2>2. ASSUME NEW o \in Sockets, Dial(o)  PROVE dialed' = dialed \cup {o}
    BY <2>2 DEF Dial
  <2>. QED  BY <1>1, <2>1, <2>2 DEF ViewStep, Serves, Live
<1>3. ASSUME NEW o \in Sockets, NEW p \in 1..Len(log), HandledNow(o, p)  PROVE FALSE
  <2>1. dialed' = dialed /\ Active(o)
    BY <1>3 DEF HandledNow, Delivers, Active
  <2>2. Live(s)
    BY <1>1, <2>1 DEF Live
  <2>. QED  BY <1>1, <2>1, <2>2, OneActive DEF Active
<1>. QED
  BY <1>1, <1>2, <1>3

(* No frame is told before the place of a socket. *)
LEMMA PlaceBelow ==
  ASSUME IInv, TypeOK, NEW s \in Sockets
  PROVE  First(s) \in Int /\ First(s) <= frames + 1 /\ frames \in Nat
<1>1. socket[s].next \in 1..(frames + 1) /\ socket[s].boot \in Seq(1..frames) /\ frames \in Nat
  BY DEF TypeOK, IInv, HubSound
<1>2. PICK n \in Nat : n = Len(socket[s].boot)
  BY <1>1
<1>. QED
  BY <1>1, <1>2 DEF First

LEMMA SetStep ==
  ASSUME IInv, TypeOK, ViewTypes, OneAtATime, AnnouncedBps, AnsweredBps, SetShown, ViewStep
  PROVE  SetShown'
<1>. DEFINE k == "breakpoints"
<1>0. SessionOK /\ LogOK /\ FetchOK /\ ShownOK /\ TabOK /\ frames \in Nat /\ Len(log) = frames /\ k \in Kinds
      /\ k # "timeline"
  BY DEF ViewTypes, IInv, HubSound, LogOK, Kinds
<1>. SUFFICES ASSUME NEW s \in Sockets, Live(s)', fetch'[s][k].pc = "done", ~overtaken', ~socket'[s].lagged,
                     session'.bps # 0, session'.tool = "idle"
              PROVE  view'.bps = session'.bps \/ BpsPending(s)'
  <2>1. session'.tool # "announce" => session'.tool = "idle"
    BY <1>0, SessionStep DEF SessionOK
  <2>. QED  BY <2>1 DEF SetShown
<1>1. CASE ListChanged
  BY <1>0, <1>1 DEF ListChanged, SessionOK
<1>2. CASE ListTold /\ UNCHANGED <<socket, dialed, fetch, view>>
  <2>1. socket'[s].pc # "none"
    BY <1>0, <1>2 DEF ListTold, InFlight
  <2>2. First(s)' = First(s) /\ First(s) <= frames + 1
    BY <1>2, PlaceBelow DEF First
  <2>3. frames + 1 \in 1..Len(log') /\ log'[frames + 1].kind = "breakpoints_changed"
    <3>1. PICK f : Tells(f)
      BY <1>2 DEF ListTold
    <3>. QED  BY <1>0, <1>2, <3>1, ChangesTold, LogGrows
  <2>. QED  BY <1>0, <2>1, <2>2, <2>3, PlaceBelow DEF BpsPending
<1>3. CASE ListQuiet
  <2>1. session'.bps = session.bps /\ session.tool = "idle" /\ ~overtaken /\ session.bps # 0
    BY <1>3 DEF ListQuiet
  <2>2. ASSUME NEW o \in Sockets, NEW kk \in Kinds, Applies(o, kk)
        PROVE  view'.bps = IF kk = k THEN session.bps ELSE view.bps
    <3>1. CASE kk = k
      <4>1. fetch[o][k].found = <<session.bps>>
        BY <2>1, <2>2, <3>1 DEF Applies, AnsweredBps
      <4>2. <<session.bps>> # <<>> /\ <<session.bps>>[1] = session.bps
        OBVIOUS
      <4>. QED  BY <2>2, <3>1, <4>1, <4>2 DEF Applies
    <3>2. CASE kk # k
      BY <2>2, <3>2 DEF Applies
    <3>. QED  BY <3>1, <3>2
  <2>3. CASE \E o \in Sockets : Applies(o, k)
    BY <1>0, <2>1, <2>2, <2>3
  <2>4. CASE ~\E o \in Sockets : Applies(o, k)
    <3>1. fetch[s][k].pc = "done"
      <4>1. ~Answers(s, k)
        BY DEF Answers
      <4>. QED  BY <1>0, <2>4, <4>1, FetchChange
    <3>2. view'.bps = view.bps \/ \E o \in Sockets : \E p \in 1..Len(log) : HandledNow(o, p)
      BY <1>0, <2>2, <2>4, ViewChange
    <3>3. \A p \in 1..frames : log'[p] = log[p] /\ p \in 1..Len(log')
      BY <1>0, LogChange, LogGrows
    <3>4. CASE socket'[s].pc = "none"
      <4>1. socket[s].pc = "none" /\ (Live(s) \/ Dial(s))
            /\ \A o \in Sockets, p \in 1..Len(log) : ~HandledNow(o, p)
        BY <3>4, WaitStep
      <4>2. ~Dial(s)
        <5>1. ASSUME Dial(s)  PROVE FALSE
          <6>1. fetch'[s][k] = Asked[k]
            BY <1>0, <5>1 DEF Dial, FetchOK
          <6>2. Asked[k].pc # "done"
            <7>1. Asked[k] \in {NoFetch, [NoFetch EXCEPT !.pc = "asked"]}
              BY <1>0 DEF Asked
            <7>. QED  BY <7>1 DEF NoFetch
          <6>. QED  BY <6>1, <6>2
        <5>. QED  BY <5>1
      <4>3. ~BpsPending(s) /\ ~socket[s].lagged
        BY <4>1, FirstFacts DEF BpsPending
      <4>4. view.bps = session.bps
        BY <2>1, <3>1, <4>1, <4>2, <4>3 DEF SetShown
      <4>. QED  BY <2>1, <3>2, <4>1, <4>4
    <3>5. CASE socket'[s].pc # "none"
      <4>1. CASE Subscribes(s)
        <5>1. socket[s].pc = "none" /\ Live(s) /\ view' = view
          BY <4>1 DEF Subscribes, Live
        <5>2. ~BpsPending(s) /\ ~socket[s].lagged
          BY <5>1, FirstFacts DEF BpsPending
        <5>3. view.bps = session.bps
          BY <2>1, <3>1, <5>1, <5>2 DEF SetShown
        <5>. QED  BY <2>1, <5>1, <5>3
      <4>2. CASE /\ Live(s) /\ socket[s].pc # "none" /\ ~socket[s].lagged
                 /\ First(s)' = First(s)
                 /\ \A o \in Sockets, p \in 1..Len(log) : ~HandledNow(o, p)
        <5>1. view.bps = session.bps \/ BpsPending(s)
          BY <2>1, <3>1, <4>2 DEF SetShown
        <5>2. BpsPending(s) => BpsPending(s)'
          BY <1>0, <3>3, <3>5, <4>2 DEF BpsPending
        <5>. QED  BY <2>1, <3>2, <4>2, <5>1, <5>2
      <4>3. ASSUME Live(s), socket[s].pc # "none", ~socket[s].lagged,
                   NEW p \in 1..Len(log), HandledNow(s, p), p = First(s), First(s)' = p + 1
            PROVE  view'.bps = session'.bps \/ BpsPending(s)'
        <5>1. view.bps = session.bps \/ BpsPending(s)
          BY <2>1, <3>1, <4>3 DEF SetShown
        <5>2. ASSUME NEW q \in 1..Len(log), q > p, log[q].kind = "breakpoints_changed"  PROVE BpsPending(s)'
          <6>1. q >= First(s)' /\ q \in 1..Len(log') /\ log'[q].kind = "breakpoints_changed"
            BY <1>0, <3>3, <4>3, <5>2
          <6>. QED  BY <3>5, <6>1 DEF BpsPending
        <5>3. CASE log[p].kind = "breakpoints_changed"
          <6>1. view'.bps = log[p].n
            BY <1>0, <4>3, <5>3, ShownByHandling DEF HandledNow
          <6>2. CASE p \in Changes
            BY <2>1, <6>1, <6>2 DEF AnnouncedBps
          <6>3. CASE p \notin Changes
            <7>1. DOMAIN log = 1..Len(log)
              BY <1>0 DEF LogOK
            <7>2. PICK q \in 1..Len(log) : log[q].kind = "breakpoints_changed" /\ ~(q <= p)
              BY <5>3, <6>3, <7>1 DEF Changes, LastOf
            <7>3. q > p
              BY <1>0, <7>2
            <7>. QED  BY <5>2, <7>2, <7>3
          <6>. QED  BY <6>2, <6>3
        <5>4. CASE log[p].kind # "breakpoints_changed"
          <6>1. view'.bps = view.bps
            BY <1>0, <4>3, <5>4, ShownByHandling DEF HandledNow
          <6>2. BpsPending(s) => BpsPending(s)'
            <7>1. SUFFICES ASSUME NEW q \in 1..Len(log), q >= First(s), log[q].kind = "breakpoints_changed"
                           PROVE  BpsPending(s)'
              BY DEF BpsPending
            <7>2. q # p /\ q > p
              BY <1>0, <4>3, <5>4, <7>1
            <7>. QED  BY <5>2, <7>1, <7>2
          <6>. QED  BY <2>1, <5>1, <6>1, <6>2
        <5>. QED  BY <5>3, <5>4
      <4>. QED  BY <1>0, <3>5, <4>1, <4>2, <4>3, PlaceStep
    <3>. QED  BY <3>4, <3>5
  <2>. QED  BY <2>3, <2>4
<1>. QED
  BY <1>0, <1>1, <1>2, <1>3, ListSteps

-----------------------------------------------------------------------------
(* The timeline *)

(* Nothing happens to the entries and none is told. *)
EntriesQuiet ==
  /\ session'.entries = session.entries /\ AnnouncedEntries' = AnnouncedEntries
  /\ overtaken => overtaken'
  /\ \A f : Tells(f) => f.kind # "timeline_entry"

LEMMA EntrySteps ==
  ASSUME SessionOK, LogOK, frames \in Nat, ViewStep
  PROVE  /\ \/ EntryPushed /\ UNCHANGED <<socket, dialed, fetch, view, log, frames>>
            \/ EntryTold /\ UNCHANGED <<socket, dialed, fetch, view>>
            \/ EntriesQuiet
         /\ session.entries \in Nat /\ AnnouncedEntries \in Nat /\ AnnouncedEntries <= session.entries
<1>0. session.entries \in Nat /\ AnnouncedEntries \in Nat /\ AnnouncedEntries <= session.entries
  BY DEF SessionOK, AnnouncedEntries
<1>1. CASE Serves /\ Silent /\ UNCHANGED <<session, overtaken>>
  <2>1. AnnouncedEntries' = AnnouncedEntries
    BY <1>1 DEF AnnouncedEntries
  <2>. QED  BY <1>0, <1>1, <2>1, LogGrows DEF EntriesQuiet, Silent
<1>2. CASE StatusTold
  <2>1. PICK f \in Frames : f.kind \in StatusKinds /\ Tells(f)
    BY <1>2 DEF StatusTold
  <2>2. \A g : Tells(g) => g.kind # "timeline_entry"
    BY <2>1, FrameTold DEF StatusKinds
  <2>3. PICK q \in {"enrich", "running", "ended"} : session' = [session EXCEPT !.pc = q]
    BY <1>2 DEF StatusTold
  <2>4. session'.entries = session.entries /\ session'.pc # "pushed"
    BY <2>3 DEF SessionOK
  <2>5. AnnouncedEntries' = AnnouncedEntries
    BY <1>2, <2>4 DEF StatusTold, AnnouncedEntries
  <2>. QED  BY <1>0, <1>2, <2>2, <2>4, <2>5 DEF StatusTold, EntriesQuiet
<1>3. CASE ListChanged
  <2>1. \A g : ~Tells(g)
    BY <1>3, LogGrows DEF ListChanged, Silent
  <2>2. PICK b : session' = [session EXCEPT !.tool = "announce", !.bps = b, !.changes = @ + 1]
    BY <1>3 DEF ListChanged
  <2>3. session'.entries = session.entries /\ session'.pc = session.pc
    BY <2>2 DEF SessionOK
  <2>4. AnnouncedEntries' = AnnouncedEntries
    BY <2>3 DEF AnnouncedEntries
  <2>. QED  BY <1>0, <1>3, <2>1, <2>3, <2>4 DEF ListChanged, EntriesQuiet
<1>4. CASE ListTold
  <2>1. \A g : Tells(g) => g.kind # "timeline_entry"
    BY <1>4, FrameTold DEF ListTold, Frame
  <2>2. session'.entries = session.entries /\ session'.pc = session.pc
    BY <1>4 DEF ListTold, SessionOK
  <2>3. AnnouncedEntries' = AnnouncedEntries
    BY <2>2 DEF AnnouncedEntries
  <2>4. overtaken => overtaken'
    BY <1>4, Zenon DEF ListTold
  <2>. QED  BY <1>0, <2>1, <2>2, <2>3, <2>4 DEF EntriesQuiet
<1>5. ASSUME NEW s \in Sockets, TabStep(s)  PROVE EntriesQuiet
  <2>1. CASE Moves(s)
    <3>1. \A g : Tells(g) => g.kind # "timeline_entry"
      BY <2>1, FrameTold, LogGrows DEF Moves, Frame, Silent
    <3>. QED  BY <1>5, <3>1, TabStepFacts DEF EntriesQuiet, AnnouncedEntries
  <2>2. CASE ~Moves(s)
    <3>1. UNCHANGED frames
      BY <1>5, <2>2 DEF TabStep, Dial, Subscribes, Delivers, Answer, Apply, Silent, vars
    <3>2. \A g : ~Tells(g)
      BY <3>1, LogGrows
    <3>. QED  BY <1>5, <3>2, TabStepFacts DEF EntriesQuiet, AnnouncedEntries
  <2>. QED  BY <2>1, <2>2
<1>. QED
  BY <1>0, <1>1, <1>2, <1>3, <1>4, <1>5 DEF ViewStep, Serves, TabStep, EntryPushed, Silent

(* The log with a frame that is no entry. *)
LEMMA EntriesKept ==
  ASSUME LogOK, frames \in Nat, ViewStep, \A f : Tells(f) => f.kind # "timeline_entry"
  PROVE  /\ \A p \in 1..Len(log) : p \in 1..Len(log') /\ log'[p] = log[p]
         /\ \A p \in 1..Len(log') : log'[p].kind = "timeline_entry" => p \in 1..Len(log)
<1>1. CASE log' = log
  BY <1>1
<1>2. ASSUME NEW f, Tells(f)
      PROVE  /\ \A p \in 1..Len(log) : p \in 1..Len(log') /\ log'[p] = log[p]
             /\ \A p \in 1..Len(log') : log'[p].kind = "timeline_entry" => p \in 1..Len(log)
  <2>1. f.kind # "timeline_entry"
    BY <1>2
  <2>2. /\ Len(log) = frames /\ Len(log') = frames + 1
        /\ \A p \in 1..frames : log'[p] = log[p] /\ p \in 1..(frames + 1)
        /\ \A p \in 1..(frames + 1) : p \in 1..frames \/ p = frames + 1
        /\ log'[frames + 1] = f
    BY <1>2, LogGrows
  <2>. QED  BY <2>1, <2>2
<1>. QED
  BY <1>1, <1>2, LogChange

(* The last entry is told. *)
LEMMA EntryToldFacts ==
  ASSUME SessionOK, LogOK, frames \in Nat, EntryTold
  PROVE  /\ session'.entries = session.entries /\ AnnouncedEntries' = session.entries
         /\ AnnouncedEntries = session.entries - 1 /\ session.entries \in Nat \ {0}
         /\ Len(log) = frames /\ Len(log') = frames + 1
         /\ \A p \in 1..frames : log'[p] = log[p] /\ p \in 1..(frames + 1)
         /\ \A p \in 1..(frames + 1) : p \in 1..frames \/ p = frames + 1
         /\ frames + 1 \in 1..(frames + 1)
         /\ log'[frames + 1].kind = "timeline_entry" /\ log'[frames + 1].n = session.entries
<1>1. PICK f : f = Frame("timeline_entry", session.entries)
  OBVIOUS
<1>2. Tells(f) /\ f.kind = "timeline_entry" /\ f.n = session.entries
  BY <1>1 DEF EntryTold, Frame
<1>3. session'.entries = session.entries /\ session'.pc = "stopped" /\ session.pc = "pushed"
  BY DEF EntryTold, SessionOK
<1>4. session.entries \in Nat \ {0}
  BY <1>3 DEF SessionOK
<1>. QED
  BY <1>2, <1>3, <1>4, LogGrows DEF AnnouncedEntries

LEMMA OrderStep ==
  ASSUME SessionOK, LogOK, frames \in Nat, EntriesInOrder, ViewStep
  PROVE  EntriesInOrder'
<1>0. /\ session.entries \in Nat /\ AnnouncedEntries \in Nat /\ AnnouncedEntries <= session.entries
      /\ \A p \in 1..Len(log) : IsEntry(p) => log[p].n \in Nat
  BY EntrySteps DEF LogOK, IsEntry
<1>1. /\ \A p \in 1..Len(log) : IsEntry(p) => log[p].n <= AnnouncedEntries
      /\ \A x \in 1..AnnouncedEntries : \E p \in 1..Len(log) : IsEntry(p) /\ log[p].n = x
      /\ \A p, r \in 1..Len(log) : IsEntry(p) /\ IsEntry(r) /\ p < r => log[p].n < log[r].n
  BY DEF EntriesInOrder
<1>2. CASE EntriesQuiet
  <2>1. /\ \A p \in 1..Len(log) : p \in 1..Len(log') /\ log'[p] = log[p]
        /\ \A p \in 1..Len(log') : log'[p].kind = "timeline_entry" => p \in 1..Len(log)
        /\ AnnouncedEntries' = AnnouncedEntries
    BY <1>2, EntriesKept DEF EntriesQuiet
  <2>. QED  BY <1>1, <2>1 DEF EntriesInOrder, IsEntry
<1>3. CASE EntryPushed /\ UNCHANGED log
  <2>1. AnnouncedEntries' = AnnouncedEntries
    BY <1>3 DEF EntryPushed, AnnouncedEntries, SessionOK
  <2>. QED  BY <1>1, <1>3, <2>1 DEF EntriesInOrder, IsEntry
<1>4. CASE EntryTold
  <2>. DEFINE e == session.entries
              f == frames + 1
  <2>1. /\ AnnouncedEntries' = e /\ AnnouncedEntries = e - 1 /\ e \in Nat \ {0}
        /\ Len(log) = frames /\ Len(log') = f
        /\ \A p \in 1..frames : log'[p] = log[p] /\ p \in 1..f
        /\ \A p \in 1..f : p \in 1..frames \/ p = f
        /\ f \in 1..f /\ log'[f].kind = "timeline_entry" /\ log'[f].n = e
    BY <1>4, EntryToldFacts
  <2>2. \A p \in 1..frames : p < f /\ p <= frames
    OBVIOUS
  <2>. HIDE DEF e, f
  <2>3. \A p \in 1..f : log'[p].kind = "timeline_entry" => log'[p].n <= e
    BY <1>0, <1>1, <2>1 DEF IsEntry
  <2>4. ASSUME NEW x \in 1..e  PROVE \E p \in 1..f : log'[p].kind = "timeline_entry" /\ log'[p].n = x
    <3>1. CASE x = e
      BY <2>1, <3>1
    <3>2. CASE x # e
      <4>1. x \in 1..(e - 1)
        BY <2>1, <3>2
      <4>2. PICK p \in 1..frames : IsEntry(p) /\ log[p].n = x
        BY <1>1, <2>1, <4>1
      <4>. QED  BY <2>1, <4>2 DEF IsEntry
    <3>. QED  BY <3>1, <3>2
  <2>5. ASSUME NEW p \in 1..f, NEW r \in 1..f, log'[p].kind = "timeline_entry", log'[r].kind = "timeline_entry", p < r
        PROVE  log'[p].n < log'[r].n
    <3>1. p # f
      BY <2>1, <2>2, <2>5 DEF f
    <3>2. p \in 1..frames /\ IsEntry(p) /\ log'[p].n = log[p].n
      BY <2>1, <2>5, <3>1 DEF IsEntry
    <3>3. CASE r = f
      <4>1. log[p].n <= e - 1 /\ log[p].n \in Nat
        BY <1>0, <1>1, <2>1, <3>2
      <4>. QED  BY <2>1, <3>2, <3>3, <4>1
    <3>4. CASE r # f
      <4>1. r \in 1..frames /\ IsEntry(r) /\ log'[r].n = log[r].n
        BY <2>1, <2>5, <3>4 DEF IsEntry
      <4>. QED  BY <1>1, <2>1, <2>5, <3>2, <4>1
    <3>. QED  BY <3>3, <3>4
  <2>. QED  BY <2>1, <2>3, <2>4, <2>5 DEF EntriesInOrder, IsEntry
<1>. QED
  BY <1>2, <1>3, <1>4, EntrySteps

LEMMA AnsweredEntriesStep ==
  ASSUME IInv, SessionOK, LogOK, FetchOK, ShownOK, AnsweredEntries, ViewStep
  PROVE  AnsweredEntries'
<1>. DEFINE k == "timeline"
<1>0. frames \in Nat /\ k \in Kinds
  BY DEF IInv, HubSound, Kinds
<1>1. session.entries \in Nat /\ AnnouncedEntries \in Nat /\ AnnouncedEntries <= session.entries
  BY <1>0, EntrySteps
<1>. SUFFICES ASSUME NEW s \in Sockets, fetch'[s][k].pc = "answered", ~overtaken'
              PROVE  \E e \in AnnouncedEntries'..session'.entries : fetch'[s][k].found = Newest(e)
  <2>1. ASSUME NEW s \in Sockets, NEW e, fetch'[s][k].found = Newest(e)  PROVE (fetch[s][k].found = Newest(e))'
    BY <2>1 DEF Newest, From
  <2>. QED  BY DEF AnsweredEntries
<1>2. CASE EntriesQuiet
  <2>1. session'.entries = session.entries /\ AnnouncedEntries' = AnnouncedEntries /\ ~overtaken
    BY <1>2 DEF EntriesQuiet
  <2>2. CASE Answers(s, k)
    <3>1. fetch'[s][k].found = Newest(session.entries)
      BY <2>2 DEF Answers
    <3>2. session.entries \in AnnouncedEntries..session.entries
      BY <1>1
    <3>. QED  BY <2>1, <3>1, <3>2
  <2>3. CASE Applies(s, k)
    BY <2>3 DEF Applies
  <2>4. CASE fetch'[s][k] = fetch[s][k]
    BY <2>1, <2>4 DEF AnsweredEntries
  <2>. QED  BY <1>0, <2>2, <2>3, <2>4, FetchChange
<1>3. CASE EntryPushed /\ UNCHANGED fetch
  <2>1. AnnouncedEntries' = AnnouncedEntries /\ session'.entries = session.entries + 1 /\ ~overtaken
    BY <1>3 DEF EntryPushed, AnnouncedEntries, SessionOK
  <2>2. PICK e \in AnnouncedEntries..session.entries : fetch[s][k].found = Newest(e)
    BY <1>3, <2>1 DEF AnsweredEntries
  <2>3. e \in AnnouncedEntries..(session.entries + 1)
    BY <1>1
  <2>. QED  BY <1>3, <2>1, <2>2, <2>3
<1>4. CASE EntryTold /\ UNCHANGED fetch
  BY <1>4 DEF EntryTold, InFlight
<1>. QED
  BY <1>0, <1>2, <1>3, <1>4, EntrySteps

-----------------------------------------------------------------------------
(* What is shown of the timeline *)

LEMMA ShownWider ==
  ASSUME NEW t \in Seq(Nat), NEW x, NEW d \in Int, NEW e \in Int, d <= e, ShownIn(t, x, d)
  PROVE  ShownIn(t, x, e)
<1>1. PICK i \in 1..Len(t) : t[i] = x /\ Len(t) - i <= d
  BY DEF ShownIn
<1>2. Len(t) \in Nat
  OBVIOUS
<1>3. Len(t) - i <= e
  BY <1>1, <1>2
<1>. QED
  BY <1>1, <1>3 DEF ShownIn

(* One more entry is pushed. *)
LEMMA ShownPush ==
  ASSUME NEW t \in Seq(Nat), NEW y \in Nat, NEW u,
         u = IF Len(t) < ViewCap THEN Append(t, y) ELSE Append(Tail(t), y)
  PROVE  /\ ShownIn(u, y, 0)
         /\ \A x, d : d \in Int /\ d + 2 <= ViewCap /\ ShownIn(t, x, d) => ShownIn(u, x, d + 1)
<1>. USE UiViewAssumption
<1>1. PICK n \in Nat : n = Len(t)
  OBVIOUS
<1>2. CASE n < ViewCap
  <2>1. u = Append(t, y)
    BY <1>1, <1>2
  <2>2. Len(u) = n + 1 /\ (\A i \in 1..n : u[i] = t[i]) /\ u[n + 1] = y
    BY <1>1, <2>1, AppendProperties
  <2>3. ShownIn(u, y, 0)
    BY <2>2 DEF ShownIn
  <2>4. ASSUME NEW x, NEW d \in Int, ShownIn(t, x, d)  PROVE ShownIn(u, x, d + 1)
    <3>1. PICK i \in 1..n : t[i] = x /\ n - i <= d
      BY <1>1, <2>4 DEF ShownIn
    <3>2. i \in 1..(n + 1) /\ u[i] = x /\ (n + 1) - i <= d + 1
      BY <2>2, <3>1
    <3>. QED  BY <2>2, <3>2 DEF ShownIn
  <2>. QED  BY <2>3, <2>4
<1>3. CASE ~(n < ViewCap)
  <2>1. u = Append(Tail(t), y) /\ n > 0
    BY <1>1, <1>3
  <2>2. t # <<>>
    BY <1>1, <2>1, EmptySeq
  <2>3. Tail(t) \in Seq(Nat) /\ Len(Tail(t)) = n - 1 /\ \A i \in 1..(n - 1) : Tail(t)[i] = t[i + 1]
    BY <1>1, <2>2, HeadTailProperties
  <2>4. PICK m \in Nat : m = n - 1
    BY <2>1
  <2>5. Len(u) = m + 1 /\ (\A i \in 1..m : u[i] = Tail(t)[i]) /\ u[m + 1] = y
    BY <2>1, <2>3, <2>4, AppendProperties
  <2>6. Len(u) = n /\ (\A i \in 1..(n - 1) : u[i] = t[i + 1]) /\ u[n] = y
    BY <2>3, <2>4, <2>5
  <2>7. ShownIn(u, y, 0)
    BY <2>1, <2>6 DEF ShownIn
  <2>8. ASSUME NEW x, NEW d \in Int, d + 2 <= ViewCap, ShownIn(t, x, d)  PROVE ShownIn(u, x, d + 1)
    <3>1. PICK i \in 1..n : t[i] = x /\ n - i <= d
      BY <1>1, <2>8 DEF ShownIn
    <3>2. i >= 2
      BY <1>3, <2>8, <3>1
    <3>3. i - 1 \in 1..(n - 1) /\ (i - 1) + 1 = i /\ i - 1 \in 1..n /\ n - (i - 1) <= d + 1
      BY <3>1, <3>2
    <3>4. u[i - 1] = x
      BY <2>6, <3>1, <3>3
    <3>. QED  BY <2>6, <3>3, <3>4 DEF ShownIn
  <2>. QED  BY <2>7, <2>8
<1>. QED
  BY <1>2, <1>3

(* An answer shows the recent entries. *)
LEMMA ShownNewest ==
  ASSUME NEW e \in Nat, NEW x \in 1..e, x + FetchLimit > e
  PROVE  ShownIn(Newest(e), x, e - x)
<1>1. PICK i \in 1..Len(Newest(e)) : Newest(e)[i] = x /\ Len(Newest(e)) - i = e - x
  BY NewestFacts
<1>2. Len(Newest(e)) - i <= e - x
  BY <1>1
<1>. QED
  BY <1>1, <1>2 DEF ShownIn

(* Every frame is between two entries. *)
LEMMA SplitExists ==
  ASSUME SessionOK, LogOK, EntriesInOrder, frames \in Nat, NEW f \in Int
  PROVE  \E b \in 1..(AnnouncedEntries + 1) : SplitsAt(log, f, b)
<1>1. /\ \A p \in 1..frames : IsEntry(p) => log[p].n \in Nat /\ log[p].n >= 1
      /\ Len(log) = frames
      /\ AnnouncedEntries \in Nat
  <2>1. session.entries \in Nat /\ AnnouncedEntries \in Nat
    BY DEF SessionOK, AnnouncedEntries
  <2>2. Len(log) = frames /\ \A p \in 1..Len(log) : IsEntry(p) => log[p].n \in 1..session.entries
    BY DEF LogOK, IsEntry
  <2>. QED  BY <2>1, <2>2
<1>2. /\ \A p \in 1..frames : IsEntry(p) => log[p].n <= AnnouncedEntries
      /\ \A p, r \in 1..frames : IsEntry(p) /\ IsEntry(r) /\ p < r => log[p].n < log[r].n
  BY <1>1 DEF EntriesInOrder
<1>. DEFINE T == {log[p].n : p \in {r \in 1..frames : IsEntry(r) /\ ~(r < f)}}
<1>3. CASE T = {}
  <2>1. ASSUME NEW p \in 1..frames, IsEntry(p)  PROVE p < f /\ log[p].n < AnnouncedEntries + 1
    <3>1. p < f
      BY <1>3, <2>1
    <3>. QED  BY <1>1, <1>2, <2>1, <3>1
  <2>2. SplitsAt(log, f, AnnouncedEntries + 1)
    BY <1>1, <2>1 DEF SplitsAt, IsEntry
  <2>. QED  BY <1>1, <2>2
<1>4. CASE T # {}
  <2>1. T \subseteq Nat
    BY <1>1
  <2>2. PICK b \in T : \A y \in T : b <= y
    <3>. HIDE DEF T
    <3>. QED  BY <1>4, <2>1, Least
  <2>3. PICK z \in 1..frames : IsEntry(z) /\ ~(z < f) /\ b = log[z].n
    BY <2>2
  <2>4. b \in 1..(AnnouncedEntries + 1)
    BY <1>1, <1>2, <2>3
  <2>5. ASSUME NEW p \in 1..frames, IsEntry(p)  PROVE p < f <=> log[p].n < b
    <3>1. CASE p < f
      <4>1. p < z
        BY <2>3, <3>1
      <4>. QED  BY <1>2, <2>3, <2>5, <3>1, <4>1
    <3>2. CASE ~(p < f)
      <4>1. log[p].n \in T
        BY <2>5, <3>2
      <4>2. b <= log[p].n /\ log[p].n \in Nat /\ b \in Nat
        BY <1>1, <2>2, <2>4, <2>5, <4>1
      <4>3. ~(log[p].n < b)
        BY <4>2
      <4>. QED  BY <3>2, <4>3
    <3>. QED  BY <3>1, <3>2
  <2>6. SplitsAt(log, f, b)
    BY <1>1, <2>5 DEF SplitsAt, IsEntry
  <2>. QED  BY <2>4, <2>6
<1>. QED
  BY <1>3, <1>4

(* The entry that is handled is the next one. *)
LEMMA NextEntry ==
  ASSUME SessionOK, LogOK, EntriesInOrder, frames \in Nat,
         NEW p \in 1..frames, IsEntry(p), NEW b \in 1..(AnnouncedEntries + 1), SplitsAt(log, p, b)
  PROVE  /\ log[p].n = b /\ b + 1 \in 1..(AnnouncedEntries + 1)
         /\ SplitsAt(log, p + 1, b + 1)
<1>1. /\ \A r \in 1..frames : IsEntry(r) => log[r].n \in Nat /\ log[r].n <= AnnouncedEntries
      /\ \A r, q \in 1..frames : IsEntry(r) /\ IsEntry(q) /\ r < q => log[r].n < log[q].n
      /\ \A x \in 1..AnnouncedEntries : \E q \in 1..frames : IsEntry(q) /\ log[q].n = x
      /\ Len(log) = frames
      /\ AnnouncedEntries \in Nat
  <2>1. session.entries \in Nat /\ AnnouncedEntries \in Nat
    BY DEF SessionOK, AnnouncedEntries
  <2>2. Len(log) = frames /\ \A r \in 1..Len(log) : IsEntry(r) => log[r].n \in 1..session.entries
    BY DEF LogOK, IsEntry
  <2>3. /\ \A r \in 1..frames : IsEntry(r) => log[r].n <= AnnouncedEntries
        /\ \A x \in 1..AnnouncedEntries : \E q \in 1..frames : IsEntry(q) /\ log[q].n = x
        /\ \A r, q \in 1..frames : IsEntry(r) /\ IsEntry(q) /\ r < q => log[r].n < log[q].n
    BY <2>2, Zenon DEF EntriesInOrder
  <2>4. \A r \in 1..frames : IsEntry(r) => log[r].n \in Nat
    <3>1. \A x \in 1..session.entries : x \in Nat
      BY <2>1
    <3>. QED  BY <2>2, <3>1, Zenon
  <2>. QED  BY <2>1, <2>2, <2>3, <2>4, Zenon
<1>2. \A r \in 1..frames : IsEntry(r) => (r < p <=> log[r].n < b)
  BY <1>1 DEF SplitsAt, IsEntry
<1>3. log[p].n >= b /\ log[p].n \in Nat /\ b \in 1..AnnouncedEntries
  BY <1>1, <1>2
<1>4. log[p].n = b
  <2>1. PICK q \in 1..frames : IsEntry(q) /\ log[q].n = b
    BY <1>1, <1>3
  <2>2. ~(q < p)
    BY <1>2, <1>3, <2>1
  <2>3. CASE q = p
    BY <2>1, <2>3
  <2>4. CASE p < q
    BY <1>1, <1>3, <2>1, <2>4
  <2>. QED  BY <2>2, <2>3, <2>4
<1>5. ASSUME NEW r \in 1..frames, IsEntry(r)  PROVE r < p + 1 <=> log[r].n < b + 1
  <2>1. CASE r = p
    BY <1>3, <1>4, <2>1
  <2>2. CASE r < p
    BY <1>1, <1>2, <1>3, <1>5, <2>2
  <2>3. CASE p < r
    <3>1. log[p].n < log[r].n /\ log[r].n \in Nat
      BY <1>1, <1>5, <2>3
    <3>. QED  BY <1>3, <1>4, <2>3, <3>1
  <2>. QED  BY <2>1, <2>2, <2>3
<1>6. SplitsAt(log, p + 1, b + 1)
  BY <1>1, <1>5 DEF SplitsAt, IsEntry
<1>7. b + 1 \in 1..(AnnouncedEntries + 1)
  BY <1>1, <1>3
<1>. QED
  BY <1>4, <1>6, <1>7

LEMMA SplitSkips ==
  ASSUME LogOK, frames \in Nat, NEW p \in 1..frames, ~IsEntry(p), NEW b, SplitsAt(log, p, b)
  PROVE  SplitsAt(log, p + 1, b)
<1>1. Len(log) = frames
  BY DEF LogOK
<1>2. ASSUME NEW r \in 1..frames, IsEntry(r)  PROVE r < p + 1 <=> log[r].n < b
  <2>1. r # p /\ (r < p <=> log[r].n < b)
    BY <1>1, <1>2 DEF SplitsAt, IsEntry
  <2>2. r < p + 1 <=> r < p
    BY <2>1
  <2>. QED  BY <2>1, <2>2
<1>. QED
  BY <1>1, <1>2 DEF SplitsAt, IsEntry

(* The answer is shown. *)
LEMMA AppliedEntries ==
  ASSUME SessionOK, LogOK, EntriesInOrder, AnsweredEntries, frames \in Nat, ~overtaken,
         NEW o \in Sockets, Applies(o, "timeline")
  PROVE  /\ \A x \in 1..AnnouncedEntries : Recent(x, session.entries) =>
              ShownIn(view'.timeline, x, session.entries - x)
         /\ \A b \in 1..(AnnouncedEntries + 1) : \A x \in 1..(b - 1) : Recent(x, session.entries) =>
              ShownIn(view'.timeline, x, (b - 1 - x) + (FetchLimit - 1))
<1>. DEFINE a == AnnouncedEntries
            n == session.entries
<1>1. n \in Nat /\ a \in Nat /\ a <= n /\ FetchLimit \in Nat \ {0}
  BY UiViewAssumption DEF SessionOK, AnnouncedEntries
<1>2. PICK e \in a..n : fetch[o]["timeline"].found = Newest(e)
  BY DEF Applies, AnsweredEntries
<1>3. view'.timeline = IF Newest(e) # <<>> THEN Newest(e) ELSE view.timeline
  BY <1>2 DEF Applies
<1>. HIDE DEF a, n
<1>4. e \in Nat /\ a <= e /\ e <= n
  BY <1>1, <1>2
<1>5. ASSUME NEW x \in 1..a, Recent(x, n), NEW d \in Int, e - x <= d
      PROVE  ShownIn(view'.timeline, x, d)
  <2>1. x \in 1..e /\ x + FetchLimit > e /\ e # 0 /\ e - x \in Int
    BY <1>1, <1>4, <1>5 DEF Recent
  <2>2. ShownIn(Newest(e), x, e - x)
    BY <1>4, <2>1, ShownNewest
  <2>3. Newest(e) \in Seq(Nat) /\ view'.timeline = Newest(e)
    BY <1>3, <1>4, <2>1, NewestFacts
  <2>. QED  BY <1>5, <2>1, <2>2, <2>3, ShownWider
<1>6. ASSUME NEW x \in 1..a, Recent(x, n)  PROVE ShownIn(view'.timeline, x, n - x)
  <2>1. n - x \in Int /\ e - x <= n - x
    BY <1>1, <1>4, <1>6
  <2>. QED  BY <1>5, <1>6, <2>1
<1>7. ASSUME NEW b \in 1..(a + 1), NEW x \in 1..(b - 1), Recent(x, n)
      PROVE  ShownIn(view'.timeline, x, (b - 1 - x) + (FetchLimit - 1))
  <2>1. x \in 1..a
    BY <1>1, <1>7
  <2>2. x + FetchLimit > n /\ x <= b - 1
    BY <1>7 DEF Recent
  <2>3. (b - 1 - x) + (FetchLimit - 1) \in Int /\ e - x <= (b - 1 - x) + (FetchLimit - 1)
    BY <1>1, <1>4, <1>7, <2>1, <2>2
  <2>. QED  BY <1>5, <1>7, <2>1, <2>3
<1>. QED
  BY <1>6, <1>7 DEF a, n

(* A frame that is told leaves the place between the entries as it is. *)
LEMMA SplitKept ==
  ASSUME LogOK, frames \in Nat, ViewStep, \A g : Tells(g) => g.kind # "timeline_entry",
         NEW f, NEW b, SplitsAt(log, f, b)
  PROVE  SplitsAt(log', f, b)
BY EntriesKept DEF SplitsAt

LEMMA EntriesStep ==
  ASSUME IInv, TypeOK, ViewTypes, OneAtATime, EntriesInOrder, AnsweredEntries, EntriesShown, ViewStep
  PROVE  EntriesShown'
<1>. DEFINE k == "timeline"
            a == AnnouncedEntries
            n == session.entries
            t == view.timeline
<1>0. /\ SessionOK /\ LogOK /\ FetchOK /\ ShownOK /\ TabOK /\ frames \in Nat /\ Len(log) = frames /\ k \in Kinds
      /\ t \in Seq(Nat)
  BY DEF ViewTypes, IInv, HubSound, LogOK, Kinds, ShownOK
<1>1. n \in Nat /\ a \in Nat /\ a <= n /\ FetchLimit \in Nat \ {0} /\ ViewCap \in Nat /\ ViewCap >= 2 * FetchLimit
  BY UiViewAssumption, <1>0 DEF SessionOK, AnnouncedEntries
<1>. SUFFICES ASSUME NEW s \in Sockets, Live(s)', fetch'[s][k].pc = "done", ~overtaken', ~socket'[s].lagged
              PROVE  IF socket'[s].pc = "none"
                     THEN \A x \in 1..a' : Recent(x, n') => ShownIn(view'.timeline, x, n' - x)
                     ELSE \E b \in 1..(a' + 1) :
                            /\ SplitsAt(log', First(s)', b)
                            /\ \A x \in 1..(b - 1) :
                                 Recent(x, n') => ShownIn(view'.timeline, x, (b - 1 - x) + (FetchLimit - 1))
  BY DEF EntriesShown, SplitsAt, ShownIn, Recent
<1>. HIDE DEF a, n, t
<1>2. ASSUME EntryPushed, UNCHANGED <<socket, dialed, fetch, view, log, frames>>
      PROVE  IF socket'[s].pc = "none"
             THEN \A x \in 1..a' : Recent(x, n') => ShownIn(view'.timeline, x, n' - x)
             ELSE \E b \in 1..(a' + 1) :
                    /\ SplitsAt(log', First(s)', b)
                    /\ \A x \in 1..(b - 1) :
                         Recent(x, n') => ShownIn(view'.timeline, x, (b - 1 - x) + (FetchLimit - 1))
  <2>1. a' = a /\ n' = n + 1 /\ ~overtaken /\ Live(s) /\ ~socket[s].lagged /\ First(s)' = First(s)
    BY <1>0, <1>2 DEF EntryPushed, AnnouncedEntries, SessionOK, a, n, Live, First
  <2>2. \A x \in 1..a : Recent(x, n + 1) => Recent(x, n)
    BY <1>1 DEF Recent
  <2>3. CASE socket[s].pc = "none"
    <3>7. PICK m \in Nat : m = n + 1
      BY <1>1
    <3>1. ASSUME NEW x \in 1..a, Recent(x, m)  PROVE ShownIn(t, x, m - x)
      <4>0. Recent(x, n)
        BY <2>2, <3>1, <3>7
      <4>1. ShownIn(t, x, n - x)
        BY <1>2, <2>1, <2>3, <3>1, <4>0 DEF EntriesShown, a, n, t
      <4>2. n - x \in Int /\ m - x \in Int /\ n - x <= m - x
        BY <1>1, <3>1, <3>7
      <4>. QED  BY <1>0, <4>1, <4>2, ShownWider
    <3>2. n' = m
      BY <2>1, <3>7
    <3>4. view'.timeline = t /\ socket'[s].pc = "none"
      BY <1>2, <2>3 DEF t
    <3>5. \A x \in 1..a' : Recent(x, n') => ShownIn(view'.timeline, x, n' - x)
      BY <2>1, <3>1, <3>2, <3>4
    <3>. QED  BY <3>4, <3>5
  <2>4. CASE socket[s].pc # "none"
    <3>1. PICK b \in 1..(a + 1) :
            /\ SplitsAt(log, First(s), b)
            /\ \A x \in 1..(b - 1) : Recent(x, n) => ShownIn(t, x, (b - 1 - x) + (FetchLimit - 1))
      BY <1>2, <2>1, <2>4 DEF EntriesShown, a, n, t
    <3>2. \A x \in 1..(b - 1) : x \in 1..a
      BY <1>1
    <3>. QED  BY <1>2, <2>1, <2>2, <2>4, <3>1, <3>2 DEF t
  <2>. QED  BY <2>3, <2>4
<1>3. ASSUME EntryTold, UNCHANGED <<socket, dialed, fetch, view>>
      PROVE  /\ socket'[s].pc # "none"
             /\ \E b \in 1..(a' + 1) :
                    /\ SplitsAt(log', First(s)', b)
                    /\ \A x \in 1..(b - 1) :
                         Recent(x, n') => ShownIn(view'.timeline, x, (b - 1 - x) + (FetchLimit - 1))
  <2>1. socket'[s].pc # "none" /\ ~overtaken
    BY <1>0, <1>3 DEF EntryTold, InFlight
  <2>2. Live(s) /\ ~socket[s].lagged /\ First(s)' = First(s)
    BY <1>3 DEF Live, First
  <2>3. PICK b \in 1..(a + 1) :
            /\ SplitsAt(log, First(s), b)
            /\ \A x \in 1..(b - 1) : Recent(x, n) => ShownIn(t, x, (b - 1 - x) + (FetchLimit - 1))
    BY <1>3, <2>1, <2>2 DEF EntriesShown, a, n, t
  <2>4. /\ n' = n /\ a' = n /\ a = n - 1 /\ n \in Nat \ {0}
        /\ Len(log') = frames + 1
        /\ \A p \in 1..frames : log'[p] = log[p]
        /\ \A p \in 1..(frames + 1) : p \in 1..frames \/ p = frames + 1
        /\ log'[frames + 1].n = n
    BY <1>0, <1>3, EntryToldFacts DEF a, n
  <2>5. First(s) \in Int /\ First(s) <= frames + 1
    BY PlaceBelow
  <2>6. ~(frames + 1 < First(s)) /\ ~(n < b) /\ b \in 1..(n + 1)
    BY <1>0, <2>4, <2>5
  <2>7. SplitsAt(log', First(s), b)
    BY <1>0, <2>3, <2>4, <2>6 DEF SplitsAt
  <2>. QED  BY <1>3, <2>1, <2>2, <2>3, <2>4, <2>6, <2>7 DEF t
<1>4. ASSUME EntriesQuiet
      PROVE  IF socket'[s].pc = "none"
             THEN \A x \in 1..a : Recent(x, n) => ShownIn(view'.timeline, x, n - x)
             ELSE \E b \in 1..(a + 1) :
                    /\ SplitsAt(log', First(s)', b)
                    /\ \A x \in 1..(b - 1) :
                         Recent(x, n) => ShownIn(view'.timeline, x, (b - 1 - x) + (FetchLimit - 1))
  <2>1. ~overtaken /\ \A g : Tells(g) => g.kind # "timeline_entry"
    BY <1>4 DEF EntriesQuiet
  <2>2. CASE \E o \in Sockets : Applies(o, k)
    <3>1. PICK o \in Sockets : Applies(o, k)
      BY <2>2
    <3>2. /\ \A x \in 1..a : Recent(x, n) => ShownIn(view'.timeline, x, n - x)
          /\ \A b \in 1..(a + 1) : \A x \in 1..(b - 1) : Recent(x, n) =>
              ShownIn(view'.timeline, x, (b - 1 - x) + (FetchLimit - 1))
      BY <1>0, <2>1, <3>1, AppliedEntries DEF a, n
    <3>3. First(s)' = First(s) /\ log' = log /\ First(s) \in Int
      BY <3>1, PlaceBelow DEF Applies, First
    <3>4. PICK b \in 1..(a + 1) : SplitsAt(log, First(s), b)
      BY <1>0, <3>3, SplitExists DEF a
    <3>. QED  BY <3>2, <3>3, <3>4
  <2>3. CASE ~\E o \in Sockets : Applies(o, k)
    <3>1. fetch[s][k].pc = "done"
      <4>1. ~Answers(s, k)
        BY DEF Answers
      <4>. QED  BY <1>0, <2>3, <4>1, FetchChange
    <3>2. view'.timeline = t \/ \E o \in Sockets : \E p \in 1..Len(log) : HandledNow(o, p)
      <4>1. ASSUME NEW o \in Sockets, NEW kk \in Kinds, Applies(o, kk)  PROVE view'.timeline = t
        <5>1. kk # k
          BY <2>3, <4>1
        <5>. QED  BY <4>1, <5>1 DEF Applies, t
      <4>. QED  BY <1>0, <4>1, ViewChange DEF t
    <3>3. CASE socket'[s].pc = "none"
      <4>1. socket[s].pc = "none" /\ (Live(s) \/ Dial(s))
            /\ \A o \in Sockets, p \in 1..Len(log) : ~HandledNow(o, p)
        BY <3>3, WaitStep
      <4>2. ASSUME Dial(s)  PROVE FALSE
        <5>1. fetch'[s][k] = Asked[k]
          BY <1>0, <4>2 DEF Dial, FetchOK
        <5>2. Asked[k] \in {NoFetch, [NoFetch EXCEPT !.pc = "asked"]}
          BY <1>0 DEF Asked
        <5>3. Asked[k].pc # "done"
          BY <5>2 DEF NoFetch
        <5>. QED  BY <5>1, <5>3
      <4>3. Live(s) /\ ~socket[s].lagged
        BY <4>1, <4>2, FirstFacts
      <4>4. \A x \in 1..a : Recent(x, n) => ShownIn(t, x, n - x)
        BY <2>1, <3>1, <4>1, <4>3 DEF EntriesShown, a, n, t
      <4>. QED  BY <3>2, <3>3, <4>1, <4>4
    <3>4. CASE socket'[s].pc # "none"
      <4>1. ASSUME Subscribes(s)
            PROVE  \E b \in 1..(a + 1) :
                     /\ SplitsAt(log', First(s)', b)
                     /\ \A x \in 1..(b - 1) :
                          Recent(x, n) => ShownIn(view'.timeline, x, (b - 1 - x) + (FetchLimit - 1))
        <5>1. socket[s].pc = "none" /\ Live(s) /\ view' = view /\ log' = log /\ ~socket[s].lagged
          BY <4>1, FirstFacts DEF Subscribes, Live, Silent
        <5>2. \A x \in 1..a : Recent(x, n) => ShownIn(t, x, n - x)
          BY <2>1, <3>1, <5>1 DEF EntriesShown, a, n, t
        <5>3. First(s)' \in Int
          <6>1. socket'[s].next = frames + 1 /\ socket'[s].boot = cache /\ cache \in Seq(1..frames)
            BY <4>1 DEF Subscribes, TypeOK
          <6>2. Len(cache) \in Nat
            BY <6>1
          <6>. QED  BY <1>0, <6>1, <6>2 DEF First
        <5>4. PICK f \in Int : f = First(s)'
          BY <5>3
        <5>5. PICK b \in 1..(a + 1) : SplitsAt(log, f, b)
          BY <1>0, SplitExists DEF a
        <5>6. ASSUME NEW x \in 1..(b - 1), Recent(x, n)  PROVE ShownIn(t, x, (b - 1 - x) + (FetchLimit - 1))
          <6>1. x \in 1..a /\ x + FetchLimit > n /\ x <= b - 1
            BY <1>1, <5>6 DEF Recent
          <6>2. n - x \in Int /\ (b - 1 - x) + (FetchLimit - 1) \in Int /\ n - x <= (b - 1 - x) + (FetchLimit - 1)
            BY <1>1, <6>1
          <6>3. ShownIn(t, x, n - x)
            BY <5>2, <5>6, <6>1
          <6>. QED  BY <1>0, <6>2, <6>3, ShownWider
        <5>. QED  BY <5>1, <5>4, <5>5, <5>6 DEF t
      <4>2. ASSUME /\ Live(s) /\ socket[s].pc # "none" /\ ~socket[s].lagged
                   /\ First(s)' = First(s)
                   /\ \A o \in Sockets, p \in 1..Len(log) : ~HandledNow(o, p)
            PROVE  \E b \in 1..(a + 1) :
                     /\ SplitsAt(log', First(s)', b)
                     /\ \A x \in 1..(b - 1) :
                          Recent(x, n) => ShownIn(view'.timeline, x, (b - 1 - x) + (FetchLimit - 1))
        <5>1. PICK b \in 1..(a + 1) :
                /\ SplitsAt(log, First(s), b)
                /\ \A x \in 1..(b - 1) : Recent(x, n) => ShownIn(t, x, (b - 1 - x) + (FetchLimit - 1))
          BY <2>1, <3>1, <4>2 DEF EntriesShown, a, n, t
        <5>2. SplitsAt(log', First(s), b)
          BY <1>0, <2>1, <5>1, SplitKept
        <5>. QED  BY <3>2, <4>2, <5>1, <5>2
      <4>3. ASSUME Live(s), socket[s].pc # "none", ~socket[s].lagged,
                   NEW p \in 1..Len(log), HandledNow(s, p), p = First(s), First(s)' = p + 1
            PROVE  \E b \in 1..(a + 1) :
                     /\ SplitsAt(log', p + 1, b)
                     /\ \A x \in 1..(b - 1) :
                          Recent(x, n) => ShownIn(view'.timeline, x, (b - 1 - x) + (FetchLimit - 1))
        <5>1. PICK b \in 1..(a + 1) :
                /\ SplitsAt(log, p, b)
                /\ \A x \in 1..(b - 1) : Recent(x, n) => ShownIn(t, x, (b - 1 - x) + (FetchLimit - 1))
          BY <2>1, <3>1, <4>3 DEF EntriesShown, a, n, t
        <5>2. /\ view'.timeline = IF ~IsEntry(p) THEN t
                                  ELSE IF Len(t) < ViewCap THEN Append(t, log[p].n) ELSE Append(Tail(t), log[p].n)
              /\ log[p] \in Frames /\ p \in 1..frames
          BY <1>0, <4>3, ShownByHandling DEF HandledNow, IsEntry, t
        <5>3. CASE ~IsEntry(p)
          <6>1. SplitsAt(log, p + 1, b)
            BY <1>0, <5>1, <5>2, <5>3, SplitSkips
          <6>2. SplitsAt(log', p + 1, b)
            BY <1>0, <2>1, <6>1, SplitKept
          <6>. QED  BY <5>1, <5>2, <5>3, <6>2
        <5>4. CASE IsEntry(p)
          <6>1. log[p].n = b /\ b + 1 \in 1..(a + 1) /\ SplitsAt(log, p + 1, b + 1)
            BY <1>0, <5>1, <5>2, <5>4, NextEntry DEF a
          <6>2. SplitsAt(log', p + 1, b + 1)
            BY <1>0, <2>1, <6>1, SplitKept
          <6>3. b \in Nat /\ view'.timeline = IF Len(t) < ViewCap THEN Append(t, b) ELSE Append(Tail(t), b)
            BY <5>2, <5>4, <6>1
          <6>4. /\ ShownIn(view'.timeline, b, 0)
                /\ \A x, d : d \in Int /\ d + 2 <= ViewCap /\ ShownIn(t, x, d) => ShownIn(view'.timeline, x, d + 1)
            BY <1>0, <6>3, ShownPush
          <6>5. ASSUME NEW x \in 1..b, Recent(x, n)
                PROVE  ShownIn(view'.timeline, x, (b - x) + (FetchLimit - 1))
            <7>1. view'.timeline \in Seq(Nat)
              <8>1. LogOK /\ FetchOK
                BY <1>0
              <8>2. ShownOK'
                BY <1>0, ShownStep
              <8>. QED  BY <8>2 DEF ShownOK
            <7>2. CASE x = b
              <8>1. 0 <= (b - x) + (FetchLimit - 1) /\ (b - x) + (FetchLimit - 1) \in Int
                BY <1>1, <6>3, <7>2
              <8>. QED  BY <6>4, <7>1, <7>2, <8>1, ShownWider
            <7>3. CASE x # b
              <8>. DEFINE d == (b - 1 - x) + (FetchLimit - 1)
              <8>1. x \in 1..(b - 1) /\ x + FetchLimit > n /\ b <= n
                BY <1>1, <6>1, <6>3, <6>5, <7>3 DEF Recent
              <8>2. d \in Int /\ d + 2 <= ViewCap /\ d + 1 = (b - x) + (FetchLimit - 1)
                BY <1>1, <6>3, <8>1
              <8>3. ShownIn(t, x, d)
                BY <5>1, <6>5, <8>1
              <8>. HIDE DEF d
              <8>. QED  BY <6>4, <8>2, <8>3
            <7>. QED  BY <7>2, <7>3
          <6>6. PICK c \in 1..(a + 1) : c = b + 1
            BY <6>1
          <6>7. c - 1 = b /\ SplitsAt(log', p + 1, c)
            BY <6>2, <6>3, <6>6
          <6>8. \A x \in 1..(c - 1) : Recent(x, n) => ShownIn(view'.timeline, x, (c - 1 - x) + (FetchLimit - 1))
            BY <6>5, <6>7
          <6>. QED  BY <6>7, <6>8
        <5>. QED  BY <5>3, <5>4
      <4>. QED  BY <1>0, <3>4, <4>1, <4>2, <4>3, PlaceStep
    <3>. QED  BY <3>3, <3>4
  <2>. QED  BY <2>2, <2>3
<1>5. EntriesQuiet => n' = n /\ a' = a
  BY DEF EntriesQuiet, a, n
<1>. QED
  BY <1>0, <1>2, <1>3, <1>4, <1>5, EntrySteps

-----------------------------------------------------------------------------
(* The invariant holds, and what it says of a socket that has everything *)

LEMMA ViewInvInit == ViewInit => ViewInv
<1>. SUFFICES ASSUME ViewInit  PROVE ViewInv
  OBVIOUS
<1>. USE HubAssumption, UiViewAssumption
<1>1. IInv /\ TypeOK
  BY InitSound, HubTypesInit DEF ViewInit
<1>2. /\ frames = 0 /\ socket = [s \in Sockets |-> NoSocket] /\ log = <<>> /\ dialed = {} /\ overtaken = FALSE
      /\ session = [pc |-> "running", entries |-> 0, bps |-> 0, changes |-> 0, tool |-> "idle"]
      /\ fetch = [s \in Sockets |-> [kind \in Kinds |-> NoFetch]]
      /\ view = [status |-> "running", timeline |-> <<>>, bps |-> 0]
      /\ mix \in Mixes
  BY DEF ViewInit, Init
<1>3. /\ session.entries = 0 /\ session.bps = 0 /\ session.changes = 0 /\ session.pc = "running" /\ session.tool = "idle"
      /\ view.timeline = <<>> /\ view.bps = 0
      /\ \A s \in Sockets : socket[s].pc = "none" /\ socket[s].got = <<>>
      /\ \A s \in Sockets, kind \in Kinds : fetch[s][kind].pc = "none" /\ fetch[s][kind].found = <<>>
  BY <1>2 DEF NoSocket, NoFetch
<1>4. Len(log) = 0 /\ DOMAIN log = {} /\ 1..Len(log) = {}
  BY <1>2
<1>5. ViewTypes
  <2>1. SessionOK
    BY <1>2, <1>3 DEF SessionOK
  <2>2. LogOK
    <3>1. log \in Seq(Frames)
      BY <1>2
    <3>. QED  BY <1>2, <1>4, <3>1 DEF LogOK, Frames
  <2>3. FetchOK
    <3>1. <<>> \in Seq(Nat) /\ <<>> \in Seq(1..0) /\ <<>> \in Seq(0..0) /\ Len(<<>>) = 0
      OBVIOUS
    <3>2. fetch \in [Sockets -> [Kinds -> [pc : {"none", "asked", "answered", "done"}, found : Seq(Nat)]]]
      BY <1>2, <3>1 DEF NoFetch
    <3>3. \A s \in Sockets, kind \in Kinds : FoundOK(fetch[s][kind].found, kind, session.entries, session.changes)
      <4>1. \A kind \in Kinds : FoundOK(<<>>, kind, 0, 0)
        BY <3>1 DEF FoundOK
      <4>. QED  BY <1>3, <4>1
    <3>. QED  BY <3>2, <3>3, FetchParts
  <2>4. ShownOK
    <3>1. <<>> \in Seq(Nat) /\ <<>> \in Seq(1..0) /\ Len(<<>>) = 0
      OBVIOUS
    <3>. QED  BY <1>2, <1>3, <3>1 DEF ShownOK
  <2>5. TabOK
    BY <1>2 DEF TabOK
  <2>. QED  BY <2>1, <2>2, <2>3, <2>4, <2>5 DEF ViewTypes
<1>6. OneAtATime /\ AskedOK
  BY <1>2, <1>3 DEF OneAtATime, AskedOK, Live
<1>7. \A K : LastOf(K) = {}
  BY <1>4 DEF LastOf
<1>8. StatusShown /\ AnnouncedBps /\ ClearedShown
  BY <1>7 DEF StatusShown, AnnouncedBps, ClearedShown, Changes
<1>9. NoChange /\ AnsweredBps /\ AnsweredEntries
  BY <1>3, <1>4 DEF NoChange, AnsweredBps, AnsweredEntries, Kinds
<1>10. SetShown /\ EntriesShown
  BY <1>2 DEF SetShown, EntriesShown, Live
<1>11. EntriesInOrder
  BY <1>3, <1>4 DEF EntriesInOrder, AnnouncedEntries
<1>. QED
  BY <1>1, <1>5, <1>6, <1>8, <1>9, <1>10, <1>11 DEF ViewInv

LEMMA ViewInvStep == ViewInv /\ [ViewNext]_allVars => ViewInv'
<1>. SUFFICES ASSUME ViewInv, [ViewNext]_allVars  PROVE ViewInv'
  OBVIOUS
<1>1. /\ IInv /\ TypeOK /\ ViewTypes /\ OneAtATime /\ AskedOK /\ StatusShown
      /\ AnnouncedBps /\ NoChange /\ AnsweredBps /\ ClearedShown /\ SetShown
      /\ EntriesInOrder /\ AnsweredEntries /\ EntriesShown
  BY DEF ViewInv
<1>2. SessionOK /\ LogOK /\ FetchOK /\ ShownOK /\ TabOK /\ frames \in Nat
  BY <1>1 DEF ViewTypes, IInv, HubSound
<1>3. ViewStep
  BY <1>1, <1>2, ViewSteps
<1>4. IInv' /\ TypeOK'
  BY <1>1, StepOfTheHub, NextSound, HubTypesStep
<1>5. ViewTypes' /\ OneAtATime' /\ AskedOK'
  BY <1>1, <1>2, <1>3, TypesStep, OneStep, AskedStep
<1>6. StatusShown'
  BY <1>1, <1>3, <1>4, StatusStep
<1>7. AnnouncedBps' /\ NoChange' /\ AnsweredBps'
  BY <1>1, <1>2, <1>3, AnnouncedStep, NoChangeStep, AnsweredStep
<1>8. ClearedShown' /\ SetShown'
  BY <1>1, <1>3, <1>4, ClearedStep, SetStep
<1>9. EntriesInOrder' /\ AnsweredEntries' /\ EntriesShown'
  BY <1>1, <1>2, <1>3, OrderStep, AnsweredEntriesStep, EntriesStep
<1>. QED
  BY <1>4, <1>5, <1>6, <1>7, <1>8, <1>9 DEF ViewInv

LEMMA ViewInvHolds == ViewSpec => []ViewInv
BY ViewInvInit, ViewInvStep, PTL DEF ViewSpec

(* What is left of the tab's states once they are typed: the frames are as *)
(* many as the hub sent, and the lists shown are of entries and changes    *)
(* there are.                                                              *)
THEOREM ViewTyped == ViewSpec => []ViewTypeOK
<1>1. ViewInv => ViewTypeOK
  <2>. SUFFICES ASSUME ViewInv  PROVE ViewTypeOK
    OBVIOUS
  <2>1. TypeOK /\ SessionOK /\ LogOK /\ FetchOK /\ ShownOK /\ TabOK
    BY DEF ViewInv, ViewTypes
  <2>2. /\ session.pc \in {"running", "enrich", "pushed", "stopped", "ended"}
        /\ session.tool \in {"idle", "announce"} /\ session.bps \in 0..session.changes
    BY <2>1, UiViewAssumption DEF SessionOK
  <2>3. \A s \in Sockets, kind \in Kinds : fetch[s][kind].pc \in {"none", "asked", "answered", "done"}
    BY <2>1 DEF FetchOK
  <2>. QED  BY <2>1, <2>2, <2>3 DEF ViewTypeOK, LogOK, ShownOK, TabOK
<1>. QED
  BY <1>1, ViewInvHolds, PTL

(* Nothing is being replayed when a socket has everything. *)
LEMMA DrainedFacts ==
  ASSUME ViewInv, NEW s \in Sockets, Drained(s)
  PROVE  /\ Live(s) /\ socket[s].pc = "select" /\ First(s) = frames + 1 /\ frames \in Nat /\ Len(log) = frames
         /\ session.tool = "idle" /\ session.pc # "pushed"
         /\ \A n : ~Replaying(n)
         /\ \A kind \in Kinds : kind \in mix => fetch[s][kind].pc = "done"
<1>1. IInv /\ OneAtATime /\ AskedOK /\ LogOK /\ frames \in Nat
  BY DEF ViewInv, ViewTypes, IInv, HubSound
<1>2. socket[s].pc = "select" /\ socket[s].next = frames + 1
      /\ \A kind \in Kinds : fetch[s][kind].pc \in {"none", "done"}
  BY DEF Drained
<1>3. s \in dialed /\ Live(s) /\ First(s) = frames + 1
  BY <1>1, <1>2, FirstFacts DEF OneAtATime, Live
<1>4. ASSUME NEW n, Replaying(n)  PROVE FALSE
  <2>1. PICK o \in Sockets : socket[o].pc = "boot"
    BY <1>4 DEF Replaying
  <2>2. o = s
    BY <1>1, <1>3, <2>1, OneActive DEF Active
  <2>. QED  BY <1>2, <2>1, <2>2
<1>5. \A kind \in Kinds : kind \in mix => fetch[s][kind].pc = "done"
  BY <1>1, <1>2, <1>3 DEF AskedOK
<1>6. Len(log) = frames /\ session.tool = "idle" /\ session.pc # "pushed"
  BY <1>1 DEF LogOK, Drained
<1>. QED
  BY <1>1, <1>2, <1>3, <1>4, <1>5, <1>6

(* However often the tab reconnects and has old frames replayed to it, the *)
(* status that it shows in the end is that of the last status event it was *)
(* told of, unless a connection was lost in the middle of a replay         *)
(* (lib.rs 1120-1143, hub.rs 27-47).                                       *)
THEOREM StatusIsLast == ViewSpec => []StatusFollows
<1>1. ViewInv => StatusFollows
  <2>. SUFFICES ASSUME ViewInv, NEW s \in Sockets, Drained(s), Uninterrupted,
                       NEW n \in LastOf(StatusKinds), Handled(n)
                PROVE  view.status = StatusAfter(log[n].kind)
    BY DEF StatusFollows
  <2>1. ~Replaying(n)
    BY DrainedFacts
  <2>. QED  BY <2>1 DEF ViewInv, StatusShown
<1>. QED
  BY <1>1, ViewInvHolds, PTL

LEMMA TimelineIsWhole == ViewInv => TimelineWhole
<1>. SUFFICES ASSUME ViewInv, NEW s \in Sockets, Drained(s), ~socket[s].lagged, ~overtaken
              PROVE  ToSet(Newest(session.entries)) \subseteq ToSet(view.timeline)
  BY DEF TimelineWhole
<1>. DEFINE n == session.entries
            t == view.timeline
<1>1. /\ Live(s) /\ socket[s].pc = "select" /\ First(s) = frames + 1 /\ frames \in Nat /\ Len(log) = frames
      /\ session.pc # "pushed"
      /\ \A kind \in Kinds : kind \in mix => fetch[s][kind].pc = "done"
  BY DrainedFacts
<1>2. n \in Nat /\ t \in Seq(Nat) /\ AnnouncedEntries = n /\ "timeline" \in Kinds
      /\ ("timeline" \notin mix => n = 0)
  BY <1>1 DEF ViewInv, ViewTypes, SessionOK, ShownOK, AnnouncedEntries, AskedOK, Kinds
<1>3. /\ DOMAIN t = 1..Len(t) /\ DOMAIN Newest(n) = 1..Len(Newest(n))
  <2>1. Newest(n) \in Seq(Nat)
    BY <1>2, NewestFacts
  <2>. HIDE DEF n, t
  <2>. QED  BY <1>2, <2>1
<1>4. CASE n = 0
  <2>1. Newest(n) = <<>>
    BY <1>2, <1>4, NewestFacts
  <2>. QED  BY <2>1 DEF ToSet
<1>5. CASE n # 0
  <2>1. fetch[s]["timeline"].pc = "done"
    BY <1>1, <1>2, <1>5
  <2>2. PICK b \in 1..(n + 1) :
          /\ SplitsAt(log, First(s), b)
          /\ \A x \in 1..(b - 1) : Recent(x, n) => ShownIn(t, x, (b - 1 - x) + (FetchLimit - 1))
    BY <1>1, <1>2, <2>1 DEF ViewInv, EntriesShown
  <2>3. b = n + 1
    <3>1. n \in 1..AnnouncedEntries
      BY <1>2, <1>5
    <3>2. PICK p \in 1..frames : log[p].kind = "timeline_entry" /\ log[p].n = n
      BY <1>1, <3>1 DEF ViewInv, EntriesInOrder, IsEntry
    <3>3. p < First(s)
      BY <1>1
    <3>4. n < b
      BY <1>1, <2>2, <3>2, <3>3 DEF SplitsAt
    <3>. QED  BY <1>2, <2>2, <3>4
  <2>4. ASSUME NEW i \in 1..Len(Newest(n))  PROVE Newest(n)[i] \in ToSet(t)
    <3>1. Newest(n)[i] \in 1..n /\ Newest(n)[i] + FetchLimit > n
      BY <1>2, NewestFacts
    <3>2. PICK x \in 1..n : x = Newest(n)[i]
      BY <3>1
    <3>3. Recent(x, n) /\ x \in 1..(b - 1)
      BY <1>2, <2>3, <3>1, <3>2 DEF Recent
    <3>4. ShownIn(t, x, (b - 1 - x) + (FetchLimit - 1))
      BY <2>2, <3>3
    <3>5. PICK j \in 1..Len(t) : t[j] = x
      BY <3>4 DEF ShownIn
    <3>. QED  BY <1>3, <3>2, <3>5 DEF ToSet
  <2>. QED  BY <1>3, <2>4 DEF ToSet
<1>. QED
  BY <1>4, <1>5

LEMMA BreakpointsAreShown == ViewInv => BreakpointsShown
<1>. SUFFICES ASSUME ViewInv, NEW s \in Sockets, Drained(s), ~socket[s].lagged, ~overtaken,
                     \/ session.bps # 0
                     \/ Uninterrupted /\ \A n \in LastOf({"breakpoints_changed"}) : Handled(n)
              PROVE  view.bps = session.bps
  BY DEF BreakpointsShown
<1>1. /\ Live(s) /\ socket[s].pc = "select" /\ First(s) = frames + 1 /\ frames \in Nat /\ Len(log) = frames
      /\ session.tool = "idle" /\ \A n : ~Replaying(n)
      /\ \A kind \in Kinds : kind \in mix => fetch[s][kind].pc = "done"
  BY DrainedFacts
<1>2. CASE session.bps # 0
  <2>1. fetch[s]["breakpoints"].pc = "done"
    BY <1>1, <1>2 DEF ViewInv, AskedOK, Kinds
  <2>2. ~BpsPending(s)
    BY <1>1 DEF BpsPending
  <2>. QED  BY <1>1, <1>2, <2>1, <2>2 DEF ViewInv, SetShown
<1>3. CASE session.bps = 0
  <2>1. Uninterrupted /\ \A n \in Changes : Handled(n)
    BY <1>3 DEF Changes
  <2>2. CASE Changes = {}
    BY <1>1, <1>3, <2>2 DEF ViewInv, NoChange
  <2>3. ASSUME NEW n \in Changes  PROVE view.bps = 0
    BY <1>1, <1>3, <2>1, <2>3 DEF ViewInv, ClearedShown
  <2>. QED  BY <1>3, <2>2, <2>3
<1>. QED
  BY <1>2, <1>3

(* What onopen fetches and what the frames push add up to the session's    *)
(* lists, in whatever order answers, replayed frames and new ones come     *)
(* (lib.rs 639-708, 1180-1210, 1297-1315).                                 *)
THEOREM ListsAddUp == ViewSpec => []ListsShown
BY TimelineIsWhole, BreakpointsAreShown, ViewInvHolds, PTL DEF ListsShown
=============================================================================
