--------------------------- MODULE RelaySessionProofs ---------------------------
(* The properties of RelaySession for any locks, any grace time and any bound   *)
(* on the messages between relay and client.                                    *)
EXTENDS RelaySession, TLAPS

(* The client is cleared before the connection is made anew, what it had not    *)
(* read goes with it, and then every lock counts as offline or unknown.         *)
LinkOK ==
    /\ link => conn
    /\ ~conn => queue = <<>> /\ \A l \in Lock : connected[l] # "on"

(* The timer set when a lock went offline ends when its grace time does; once   *)
(* it has fired, the lock was written as unavailable.                           *)
TimerOK ==
    \A l \in Lock : connected[l] = "off" =>
        \/ \E t \in timers[l] : t + since[l] = Grace + 1
        \/ l \notin shown /\ since[l] >= Grace

Speaks(m, l) == m.kind = "list" \/ l \in m.locks

Says(m, l) == IF m.kind = "list" THEN l \in m.locks ELSE m.kind # "off"

(* The last word on lock l among the messages still to be handled is true, or   *)
(* there is none and the client knows it already.                               *)
Heard(l) ==
    \/ \E i \in DOMAIN queue :
           /\ Speaks(queue[i], l) /\ (Says(queue[i], l) <=> l \in attached)
           /\ \A j \in DOMAIN queue : j > i => ~Speaks(queue[j], l)
    \/ /\ \A i \in DOMAIN queue : ~Speaks(queue[i], l)
       /\ connected[l] = IF l \in attached THEN "on" ELSE "off"

HeardOK == "sessions" \in Features /\ conn /\ link => \A l \in Lock : Heard(l)

IndInv == TypeOK /\ queue \in Seq(Message) /\ KeepsAvailable /\ LinkOK /\ TimerOK /\ HeardOK

LEMMA Consequences ==
  ASSUME IndInv
  PROVE  /\ GoesUnavailable
         /\ "sessions" \in Features => SettledAgrees
  <1>1. GoesUnavailable
    <2> SUFFICES ASSUME NEW l \in Lock, connected[l] = "off", since[l] > Grace, 0 \notin timers[l]
                 PROVE  l \notin shown
      BY DEF GoesUnavailable
    <2>1. timers[l] \subseteq 0 .. Grace + 1 /\ since[l] \in Nat /\ Grace \in Nat
      BY GraceAssumption DEF IndInv, TypeOK
    <2>2. \A t \in timers[l] : t + since[l] # Grace + 1
      BY <2>1
    <2> QED BY <2>2 DEF IndInv, TimerOK
  <1>2. ASSUME "sessions" \in Features
        PROVE  SettledAgrees
    <2>1. ASSUME conn, link, queue = <<>>, NEW l \in Lock
          PROVE  connected[l] = IF l \in attached THEN "on" ELSE "off"
      <3>1. DOMAIN queue = {}
        BY <2>1
      <3> QED BY <1>2, <2>1, <3>1 DEF IndInv, HeardOK, Heard
    <2>2. ASSUME ~conn, NEW l \in Lock
          PROVE  connected[l] # "on"
      BY <2>2 DEF IndInv, LinkOK
    <2> QED BY <2>1, <2>2 DEF SettledAgrees
  <1> QED BY <1>1, <1>2

(* A queue that is empty. *)
LEMMA EmptyQueue ==
  /\ <<>> \in Seq(Message) /\ Len(<<>>) <= MaxQueue
  /\ \A i \in DOMAIN <<>> : <<>>[i] \in Message
  BY MaxQueueAssumption

LEMMA InitHolds == Init => IndInv
  <1> SUFFICES ASSUME Init PROVE IndInv
    OBVIOUS
  <1> USE DEF Init, All
  <1>1. TypeOK /\ queue \in Seq(Message)
    <2>1. queue \in Seq(Message) /\ Len(queue) <= MaxQueue /\ \A i \in DOMAIN queue : queue[i] \in Message
      BY EmptyQueue
    <2>2. connected \in [Lock -> {"unknown", "on", "off"}] /\ since \in [Lock -> 0 .. Grace + 1]
      BY GraceAssumption
    <2>3. timers \in [Lock -> SUBSET (0 .. Grace + 1)]
      OBVIOUS
    <2> QED BY <2>1, <2>2, <2>3 DEF TypeOK
  <1>2. KeepsAvailable /\ LinkOK /\ TimerOK /\ HeardOK
    BY DEF KeepsAvailable, LinkOK, TimerOK, HeardOK
  <1> QED BY <1>1, <1>2 DEF IndInv

-----------------------------------------------------------------------------
(* What a session message does to the coordinator.                          *)

CoordinatorOK ==
    /\ shown \subseteq Lock
    /\ connected \in [Lock -> {"unknown", "on", "off"}]
    /\ since \in [Lock -> 0 .. Grace + 1]
    /\ timers \in [Lock -> SUBSET (0 .. Grace + 1)]
    /\ KeepsAvailable /\ TimerOK

(* Writing the states anew does no harm at any time. *)
LEMMA WritesKeep ==
  ASSUME CoordinatorOK, WriteStates, UNCHANGED <<connected, since, timers>>
  PROVE  CoordinatorOK'
  <1>1. \A l \in Lock : l \in shown' <=> Available(l)
    BY DEF WriteStates, Available
  <1>2. KeepsAvailable'
    BY <1>1 DEF KeepsAvailable, Available
  <1>3. TimerOK'
    <2> SUFFICES ASSUME NEW l \in Lock, connected[l] = "off", ~\E t \in timers[l] : t + since[l] = Grace + 1
                 PROVE  l \notin shown' /\ since[l] >= Grace
      BY DEF TimerOK
    <2>1. since[l] >= Grace /\ since[l] \in Nat /\ Grace \in Nat
      BY GraceAssumption DEF CoordinatorOK, TimerOK
    <2>2. ~Available(l)
      BY <2>1 DEF Available
    <2> QED BY <1>1, <2>1, <2>2
  <1>4. shown' \subseteq Lock
    BY DEF WriteStates
  <1> QED BY <1>2, <1>3, <1>4 DEF CoordinatorOK

LEMMA SessionKeeps ==
  ASSUME CoordinatorOK, NEW D \in SUBSET Lock, NEW online \in [D -> {"on", "off"}],
         HandleRelaySession(online)
  PROVE  /\ CoordinatorOK'
         /\ \A l \in Lock : connected'[l] = IF l \in D THEN online[l] ELSE connected[l]
  <1> DEFINE changed == {l \in D : connected[l] # online[l]}
  <1>1. /\ connected' = [l \in Lock |-> IF l \in changed THEN online[l] ELSE connected[l]]
        /\ since' = [l \in Lock |-> IF l \in changed THEN 0 ELSE since[l]]
        /\ timers' = [l \in Lock |-> IF l \in changed /\ online[l] = "off"
                                     THEN timers[l] \cup {Grace + 1} ELSE timers[l]]
        /\ IF changed = {} THEN UNCHANGED shown ELSE WriteStates
    BY DEF HandleRelaySession
  <1> HIDE DEF changed
  <1>2. changed \subseteq D /\ \A l \in D : l \notin changed => connected[l] = online[l]
    BY DEF changed
  <1>3. \A l \in Lock : connected'[l] = IF l \in D THEN online[l] ELSE connected[l]
    BY <1>1, <1>2
  <1>4. /\ connected' \in [Lock -> {"unknown", "on", "off"}]
        /\ since' \in [Lock -> 0 .. Grace + 1]
        /\ timers' \in [Lock -> SUBSET (0 .. Grace + 1)]
    BY <1>1, <1>2, GraceAssumption DEF CoordinatorOK
  <1>5. CASE changed = {}
    <2>1. UNCHANGED <<shown, connected, since, timers>>
      BY <1>1, <1>5 DEF CoordinatorOK
    <2> QED BY <1>3, <2>1 DEF CoordinatorOK, KeepsAvailable, TimerOK, Available
  <1>6. CASE changed # {}
    <2>1. shown' = {l \in Lock : Available(l)'}
      BY <1>1, <1>6 DEF WriteStates
    <2>2. KeepsAvailable' /\ shown' \subseteq Lock
      BY <2>1 DEF KeepsAvailable
    <2>3. TimerOK'
      <3> SUFFICES ASSUME NEW l \in Lock, connected'[l] = "off"
                   PROVE  \/ \E t \in timers'[l] : t + since'[l] = Grace + 1
                          \/ l \notin shown' /\ since'[l] >= Grace
        BY DEF TimerOK
      <3>1. CASE l \in changed
        <4>1. online[l] = "off" /\ since'[l] = 0
          BY <1>1, <3>1
        <4>2. Grace + 1 \in timers'[l]
          BY <1>1, <3>1, <4>1
        <4> QED BY <4>1, <4>2, GraceAssumption
      <3>2. CASE l \notin changed
        <4>1. connected[l] = "off" /\ since'[l] = since[l] /\ timers'[l] = timers[l]
          BY <1>1, <3>2
        <4>2. (\E t \in timers[l] : t + since[l] = Grace + 1) \/ since[l] >= Grace
          BY <4>1 DEF CoordinatorOK, TimerOK
        <4>3. since[l] >= Grace => l \notin shown'
          BY <2>1, <4>1, GraceAssumption DEF Available, CoordinatorOK
        <4> QED BY <4>1, <4>2, <4>3
      <3> QED BY <3>1, <3>2
    <2> QED BY <1>3, <1>4, <2>2, <2>3 DEF CoordinatorOK
  <1> QED BY <1>3, <1>5, <1>6

-----------------------------------------------------------------------------
(* The queue.                                                               *)

LEMMA TailParts ==
  ASSUME queue \in Seq(Message), queue # <<>>, Len(queue) <= MaxQueue
  PROVE  /\ Head(queue) \in Message /\ Head(queue) = queue[1] /\ 1 \in DOMAIN queue
         /\ Tail(queue) \in Seq(Message) /\ Len(Tail(queue)) <= MaxQueue
         /\ \A i \in DOMAIN Tail(queue) : i + 1 \in DOMAIN queue /\ Tail(queue)[i] = queue[i + 1]
         /\ \A i \in DOMAIN queue \ {1} :
                i - 1 \in DOMAIN Tail(queue) /\ Tail(queue)[i - 1] = queue[i]
         /\ DOMAIN queue \subseteq Nat /\ DOMAIN Tail(queue) \subseteq Nat
  BY MaxQueueAssumption

LEMMA AppendParts ==
  ASSUME queue \in Seq(Message), NEW m \in Message, Len(queue) < MaxQueue
  PROVE  /\ Append(queue, m) \in Seq(Message) /\ Len(Append(queue, m)) <= MaxQueue
         /\ DOMAIN Append(queue, m) = DOMAIN queue \cup {Len(queue) + 1}
         /\ \A i \in DOMAIN queue : Append(queue, m)[i] = queue[i] /\ i < Len(queue) + 1
         /\ Append(queue, m)[Len(queue) + 1] = m
         /\ Len(queue) \in Nat /\ DOMAIN queue \subseteq Nat
  <1>1. /\ Append(queue, m) \in Seq(Message) /\ Len(Append(queue, m)) = Len(queue) + 1
        /\ Len(queue) \in Nat /\ DOMAIN queue = 1 .. Len(queue)
    OBVIOUS
  <1>2. /\ \A i \in 1 .. Len(queue) : Append(queue, m)[i] = queue[i]
        /\ Append(queue, m)[Len(queue) + 1] = m
    OBVIOUS
  <1>3. DOMAIN Append(queue, m) = DOMAIN queue \cup {Len(queue) + 1}
    BY <1>1
  <1> QED BY <1>1, <1>2, <1>3, MaxQueueAssumption

(* A true message about lock l is the last word on it, and leaves the others'.  *)
LEMMA SendKeeps ==
  ASSUME IndInv, NEW l \in Lock, NEW kind \in {"on", "off", "traffic"}, Sends(kind, l),
         UNCHANGED <<link, conn, connected>>,
         kind = "off" <=> l \notin attached', \A k \in Lock \ {l} : k \in attached <=> k \in attached'
  PROVE  /\ queue' \in Seq(Message) /\ Len(queue') <= MaxQueue
         /\ ~link => queue' = queue
         /\ HeardOK'
  <1> DEFINE m == [kind |-> kind, locks |-> {l}]
  <1>1. m \in Message
    BY DEF Message
  <1>2. CASE ~link
    BY <1>2 DEF Sends, IndInv, TypeOK, HeardOK
  <1>3. CASE link
    <2>1. Len(queue) < MaxQueue /\ queue' = Append(queue, m)
      BY <1>3 DEF Sends
    <2>2. queue' \in Seq(Message) /\ Len(queue') <= MaxQueue
      BY <1>1, <2>1, AppendParts DEF IndInv
    <2>3. /\ DOMAIN queue' = DOMAIN queue \cup {Len(queue) + 1}
          /\ \A i \in DOMAIN queue : queue'[i] = queue[i] /\ i < Len(queue) + 1
          /\ queue'[Len(queue) + 1] = m
          /\ Len(queue) \in Nat /\ DOMAIN queue \subseteq Nat
      BY <1>1, <2>1, AppendParts DEF IndInv
    <2>4. /\ Speaks(m, l) /\ (Says(m, l) <=> l \in attached')
          /\ \A k \in Lock \ {l} : ~Speaks(m, k)
      BY DEF Speaks, Says
    <2> HIDE DEF m
    <2>5. ASSUME HeardOK, "sessions" \in Features, conn, NEW k \in Lock
          PROVE  Heard(k)'
      <3>1. CASE k = l
        BY <2>3, <2>4, <3>1 DEF Heard
      <3>2. CASE k # l
        <4>1. Heard(k) /\ ~Speaks(m, k) /\ (k \in attached <=> k \in attached') /\ connected' = connected
          BY <1>3, <2>4, <2>5, <3>2 DEF HeardOK
        <4>2. CASE \E i \in DOMAIN queue :
                     /\ Speaks(queue[i], k) /\ (Says(queue[i], k) <=> k \in attached)
                     /\ \A j \in DOMAIN queue : j > i => ~Speaks(queue[j], k)
          BY <2>3, <4>1, <4>2 DEF Heard
        <4>3. CASE /\ \A i \in DOMAIN queue : ~Speaks(queue[i], k)
                   /\ connected[k] = IF k \in attached THEN "on" ELSE "off"
          BY <2>3, <4>1, <4>3 DEF Heard
        <4> QED BY <4>1, <4>2, <4>3 DEF Heard
      <3> QED BY <3>1, <3>2
    <2> QED BY <1>3, <2>2, <2>5 DEF IndInv, HeardOK
  <1> QED BY <1>2, <1>3

-----------------------------------------------------------------------------
(* One lemma per action. *)

LEMMA TickKeeps ==
  ASSUME IndInv, Tick
  PROVE  IndInv'
  <1>1. /\ \A l \in Lock : since'[l] = IF connected[l] = "off" /\ since[l] <= Grace
                                       THEN since[l] + 1 ELSE since[l]
        /\ \A l \in Lock : timers'[l] = {t - 1 : t \in timers[l]} /\ 0 \notin timers[l]
        /\ UNCHANGED <<attached, link, conn, queue, connected, shown>>
    BY DEF Tick, relayVars
  <1>2. Grace \in Nat /\ \A l \in Lock : since[l] \in 0 .. Grace + 1 /\ timers[l] \subseteq 0 .. Grace + 1
    BY GraceAssumption DEF IndInv, TypeOK
  <1>3. TypeOK' /\ queue' \in Seq(Message)
    <2>1. since' \in [Lock -> 0 .. Grace + 1]
      BY <1>1, <1>2 DEF Tick
    <2>2. \A l \in Lock : timers'[l] \subseteq 0 .. Grace + 1
      BY <1>1, <1>2
    <2>3. timers' \in [Lock -> SUBSET (0 .. Grace + 1)]
      BY <2>2 DEF Tick
    <2> QED BY <1>1, <2>1, <2>3 DEF IndInv, TypeOK
  <1>4. KeepsAvailable'
    BY <1>1, <1>2 DEF IndInv, KeepsAvailable, Available
  <1>5. TimerOK'
    <2> SUFFICES ASSUME NEW l \in Lock, connected[l] = "off"
                 PROVE  \/ \E t \in timers'[l] : t + since'[l] = Grace + 1
                        \/ l \notin shown /\ since'[l] >= Grace
      BY <1>1 DEF TimerOK
    <2>1. CASE \E t \in timers[l] : t + since[l] = Grace + 1
      <3>1. PICK t \in timers[l] : t + since[l] = Grace + 1
        BY <2>1
      <3>2. t \in Nat \ {0} /\ since[l] <= Grace
        BY <1>1, <1>2, <3>1
      <3>3. t - 1 \in timers'[l] /\ since'[l] = since[l] + 1
        BY <1>1, <3>1, <3>2
      <3> QED BY <1>2, <3>1, <3>2, <3>3
    <2>2. CASE l \notin shown /\ since[l] >= Grace
      BY <1>1, <1>2, <2>2
    <2> QED BY <2>1, <2>2 DEF IndInv, TimerOK
  <1>6. LinkOK' /\ HeardOK'
    BY <1>1 DEF IndInv, LinkOK, HeardOK, Heard
  <1> QED BY <1>3, <1>4, <1>5, <1>6 DEF IndInv

LEMMA CoordinatorParts == IndInv => CoordinatorOK
  BY DEF IndInv, TypeOK, CoordinatorOK

LEMMA RecheckKeeps ==
  ASSUME IndInv, NEW l \in Lock, RecheckAvailable(l)
  PROVE  IndInv'
  <1>1. /\ timers' = [timers EXCEPT ![l] = @ \ {0}]
        /\ shown' = {k \in Lock : Available(k)'}
        /\ UNCHANGED <<attached, link, conn, queue, connected, since>>
    BY DEF RecheckAvailable, WriteStates, relayVars
  <1>2. TypeOK' /\ queue' \in Seq(Message)
    BY <1>1 DEF IndInv, TypeOK
  <1>3. KeepsAvailable'
    BY <1>1 DEF KeepsAvailable
  <1>4. TimerOK'
    <2> SUFFICES ASSUME NEW k \in Lock, connected[k] = "off", ~\E t \in timers'[k] : t + since[k] = Grace + 1
                 PROVE  k \notin shown' /\ since[k] >= Grace
      BY <1>1 DEF TimerOK
    <2>1. Grace \in Nat /\ since[k] \in Nat
      BY GraceAssumption DEF IndInv, TypeOK
    <2>2. since[k] >= Grace
      BY <1>1, <2>1 DEF IndInv, TypeOK, TimerOK
    <2>3. k \notin shown'
      BY <1>1, <2>1, <2>2 DEF Available
    <2> QED BY <2>2, <2>3
  <1>5. LinkOK' /\ HeardOK'
    BY <1>1 DEF IndInv, LinkOK, HeardOK, Heard
  <1> QED BY <1>2, <1>3, <1>4, <1>5 DEF IndInv

LEMMA LossKeeps ==
  ASSUME IndInv, HandleRelaySession(All("off")), UNCHANGED attached,
         link' = FALSE, conn' = FALSE, queue' = <<>>
  PROVE  IndInv'
  <1>1. All("off") \in [Lock -> {"on", "off"}]
    BY DEF All
  <1>2. CoordinatorOK' /\ \A l \in Lock : connected'[l] = All("off")[l]
    BY <1>1, CoordinatorParts, SessionKeeps
  <1>3. \A l \in Lock : connected'[l] = "off"
    BY <1>2 DEF All
  <1>4. TypeOK' /\ queue' \in Seq(Message) /\ LinkOK' /\ HeardOK'
    <2>1. queue' \in Seq(Message) /\ Len(queue') <= MaxQueue /\ \A i \in DOMAIN queue' : queue'[i] \in Message
      BY EmptyQueue
    <2> QED BY <1>2, <1>3, <2>1 DEF CoordinatorOK, IndInv, TypeOK, LinkOK, HeardOK
  <1> QED BY <1>2, <1>4 DEF CoordinatorOK, IndInv

LEMMA HandleNextKeeps ==
  ASSUME IndInv, HandleNext
  PROVE  IndInv'
  <1> DEFINE m == Head(queue)
             D == IF m.kind = "list" THEN Lock ELSE m.locks
  <1>1. conn /\ queue # <<>> /\ queue' = Tail(queue) /\ UNCHANGED <<attached, link, conn>>
    BY DEF HandleNext, relayVars
  <1>2. /\ m \in Message /\ m = queue[1] /\ 1 \in DOMAIN queue
        /\ queue' \in Seq(Message) /\ Len(queue') <= MaxQueue
        /\ \A i \in DOMAIN queue' : i + 1 \in DOMAIN queue /\ queue'[i] = queue[i + 1]
        /\ \A i \in DOMAIN queue \ {1} : i - 1 \in DOMAIN queue' /\ queue'[i - 1] = queue[i]
        /\ DOMAIN queue \subseteq Nat /\ DOMAIN queue' \subseteq Nat
    BY <1>1, TailParts DEF IndInv, TypeOK
  <1>3. D \subseteq Lock /\ \A l \in Lock : l \in D <=> Speaks(m, l)
    BY <1>2 DEF Message, Speaks
  <1>4. /\ Meaning(m) \in [D -> {"on", "off"}]
        /\ \A l \in D : Meaning(m)[l] = IF Says(m, l) THEN "on" ELSE "off"
    BY <1>2, <1>3 DEF Message, Meaning, Says
  <1>5. /\ CoordinatorOK'
        /\ \A l \in Lock : connected'[l] = IF l \in D THEN (IF Says(m, l) THEN "on" ELSE "off")
                                           ELSE connected[l]
    <2>1. CASE HandleRelaySession(Meaning(m))
      <3>1. CoordinatorOK' /\ \A l \in Lock : connected'[l] = IF l \in D THEN Meaning(m)[l] ELSE connected[l]
        BY <1>3, <1>4, <2>1, CoordinatorParts, SessionKeeps
      <3> QED BY <1>4, <3>1
    <2>2. CASE /\ m.kind = "traffic" /\ \A l \in m.locks : connected[l] = "on"
               /\ UNCHANGED <<connected, since, timers>> /\ WriteStates
      <3>1. CoordinatorOK'
        BY <2>2, CoordinatorParts, WritesKeep
      <3> QED BY <2>2, <3>1 DEF Says
    <2> QED BY <2>1, <2>2 DEF HandleNext
  <1> HIDE DEF m, D
  <1>6. HeardOK'
    <2> SUFFICES ASSUME "sessions" \in Features, link, NEW l \in Lock PROVE Heard(l)'
      BY <1>1 DEF HeardOK
    <2>1. Heard(l)
      BY <1>1 DEF IndInv, HeardOK
    <2>2. CASE /\ \A i \in DOMAIN queue : ~Speaks(queue[i], l)
               /\ connected[l] = IF l \in attached THEN "on" ELSE "off"
      BY <1>1, <1>2, <1>3, <1>5, <2>2 DEF Heard
    <2>3. ASSUME NEW i \in DOMAIN queue,
                 /\ Speaks(queue[i], l) /\ (Says(queue[i], l) <=> l \in attached)
                 /\ \A j \in DOMAIN queue : j > i => ~Speaks(queue[j], l)
          PROVE  Heard(l)'
      <3>1. CASE i = 1
        <4>1. \A j \in DOMAIN queue' : ~Speaks(queue'[j], l)
          BY <1>2, <2>3, <3>1
        <4> QED BY <1>1, <1>2, <1>3, <1>5, <2>3, <3>1, <4>1 DEF Heard
      <3>2. CASE i # 1
        <4>1. i - 1 \in DOMAIN queue' /\ queue'[i - 1] = queue[i]
          BY <1>2, <3>2
        <4>2. \A j \in DOMAIN queue' : j > i - 1 => ~Speaks(queue'[j], l)
          BY <1>2, <2>3
        <4> QED BY <1>1, <2>3, <4>1, <4>2 DEF Heard
      <3> QED BY <3>1, <3>2
    <2> QED BY <2>1, <2>2, <2>3 DEF Heard
  <1>7. TypeOK' /\ LinkOK'
    BY <1>1, <1>2, <1>5 DEF CoordinatorOK, IndInv, TypeOK, LinkOK
  <1> QED BY <1>2, <1>5, <1>6, <1>7 DEF CoordinatorOK, IndInv

LEMMA ConnectsKeeps ==
  ASSUME IndInv, Connects
  PROVE  IndInv'
  <1>1. conn' /\ link' /\ UNCHANGED <<attached, connected, since, timers, shown>>
    BY DEF Connects, stateVars
  <1>2. PICK replay \in Replays : queue' = replay \o SessionList
    BY DEF Connects
  <1>3. replay \in Seq(Message) /\ (Len(replay) = 0 \/ Len(replay) = 1)
    <2>1. CASE replay = <<>>
      BY <2>1
    <2>2. ASSUME NEW l \in Lock, replay = <<[kind |-> "traffic", locks |-> {l}]>>
          PROVE  replay \in Seq(Message) /\ (Len(replay) = 0 \/ Len(replay) = 1)
      <3>1. [kind |-> "traffic", locks |-> {l}] \in Message
        BY DEF Message
      <3> QED BY <2>2, <3>1
    <2> QED BY <2>1, <2>2 DEF Replays
  <1>4. CASE "sessions" \in Features
    <2> DEFINE m == [kind |-> "list", locks |-> attached]
    <2>1. m \in Message /\ SessionList = <<m>>
      BY <1>4 DEF SessionList, Message, IndInv, TypeOK
    <2> HIDE DEF m
    <2>2. /\ queue' \in Seq(Message) /\ Len(queue') = Len(replay) + 1
          /\ queue'[Len(replay) + 1] = m /\ DOMAIN queue' = 1 .. Len(replay) + 1
      BY <1>2, <1>3, <2>1
    <2>3. \A l \in Lock : Speaks(m, l) /\ (Says(m, l) <=> l \in attached)
      BY DEF m, Speaks, Says
    <2>4. HeardOK'
      <3> SUFFICES ASSUME NEW l \in Lock PROVE Heard(l)'
        BY DEF HeardOK
      <3>1. \A j \in DOMAIN queue' : ~(j > Len(replay) + 1)
        BY <1>3, <2>2
      <3>2. Len(replay) + 1 \in DOMAIN queue'
        BY <1>3, <2>2
      <3> QED BY <1>1, <2>2, <2>3, <3>1, <3>2 DEF Heard
    <2>5. Len(queue') <= MaxQueue
      <3>1. MaxQueue \in Nat /\ MaxQueue >= 2
        BY MaxQueueAssumption
      <3>2. CASE Len(replay) = 0
        BY <2>2, <3>1, <3>2
      <3>3. CASE Len(replay) = 1
        BY <2>2, <3>1, <3>3
      <3> QED BY <1>3, <3>2, <3>3
    <2>6. TypeOK'
      BY <1>1, <2>2, <2>5 DEF IndInv, TypeOK
    <2> QED BY <1>1, <2>2, <2>4, <2>6 DEF IndInv, LinkOK, TimerOK, KeepsAvailable, Available
  <1>5. CASE "sessions" \notin Features
    <2>1. queue' \in Seq(Message) /\ (Len(queue') = 0 \/ Len(queue') = 1)
      BY <1>2, <1>3, <1>5 DEF SessionList
    <2>2. MaxQueue \in Nat /\ MaxQueue >= 2
      BY MaxQueueAssumption
    <2>3. Len(queue') <= MaxQueue /\ \A i \in DOMAIN queue' : queue'[i] \in Message
      BY <2>1, <2>2
    <2>4. TypeOK'
      BY <1>1, <2>3 DEF IndInv, TypeOK
    <2> QED BY <1>1, <1>5, <2>1, <2>4 DEF IndInv, HeardOK, LinkOK, TimerOK, KeepsAvailable, Available
  <1> QED BY <1>4, <1>5

LEMMA RelayKeeps ==
  ASSUME IndInv, NEW l \in Lock, Attach(l) \/ Detach(l) \/ LockSends(l)
  PROVE  IndInv'
  <1>1. UNCHANGED <<link, conn, connected, since, timers, shown>>
    BY DEF Attach, Detach, LockSends, stateVars, relayVars
  <1>2. attached' \subseteq Lock /\ \A k \in Lock \ {l} : k \in attached <=> k \in attached'
    BY DEF Attach, Detach, LockSends, relayVars, IndInv, TypeOK
  <1>3. CASE UNCHANGED queue /\ ("sessions" \notin Features \/ ~link)
    BY <1>1, <1>2, <1>3
    DEF IndInv, TypeOK, HeardOK, LinkOK, TimerOK, KeepsAvailable, Available
  <1>4. ASSUME NEW kind \in {"on", "off", "traffic"}, Sends(kind, l), kind = "off" <=> l \notin attached'
        PROVE  IndInv'
    <2>1. queue' \in Seq(Message) /\ Len(queue') <= MaxQueue /\ (~link => queue' = queue) /\ HeardOK'
      BY <1>1, <1>2, <1>4, SendKeeps
    <2>2. TypeOK'
      BY <1>1, <1>2, <2>1 DEF IndInv, TypeOK
    <2> QED BY <1>1, <2>1, <2>2 DEF IndInv, LinkOK, TimerOK, KeepsAvailable, Available
  <1>5. CASE Attach(l) /\ "sessions" \in Features
    <2>1. Sends("on", l) /\ l \in attached'
      BY <1>5 DEF Attach, Announces
    <2> QED BY <1>4, <2>1
  <1>6. CASE Detach(l) /\ "sessions" \in Features
    <2>1. Sends("off", l) /\ l \notin attached'
      BY <1>6 DEF Detach, Announces
    <2> QED BY <1>4, <2>1
  <1>7. CASE LockSends(l)
    <2>1. Sends("traffic", l) /\ l \in attached'
      BY <1>7 DEF LockSends, relayVars
    <2> QED BY <1>4, <2>1
  <1>8. CASE (Attach(l) \/ Detach(l)) /\ "sessions" \notin Features
    BY <1>3, <1>8 DEF Attach, Detach, Announces
  <1> QED BY <1>5, <1>6, <1>7, <1>8

LEMMA StepKeeps == IndInv /\ [Next]_vars => IndInv'
  <1> SUFFICES ASSUME IndInv, [Next]_vars PROVE IndInv'
    OBVIOUS
  <1>1. CASE Tick
    BY <1>1, TickKeeps
  <1>2. CASE Connects
    BY <1>2, ConnectsKeeps
  <1>3. CASE HandleNext
    BY <1>3, HandleNextKeeps
  <1>4. CASE NoticesLoss
    BY <1>4, LossKeeps DEF NoticesLoss, relayVars, IndInv, TypeOK
  <1>5. CASE SubscribeFails
    BY <1>5, LossKeeps DEF SubscribeFails, relayVars, IndInv, TypeOK, LinkOK
  <1>6. CASE Reload
    <2> USE <1>6 DEF Reload, All
    <2>1. TypeOK' /\ queue' \in Seq(Message)
      <3>1. queue' \in Seq(Message) /\ Len(queue') <= MaxQueue /\ \A i \in DOMAIN queue' : queue'[i] \in Message
        BY EmptyQueue
      <3>2. connected' \in [Lock -> {"unknown", "on", "off"}] /\ since' \in [Lock -> 0 .. Grace + 1]
        BY GraceAssumption
      <3>3. timers' \in [Lock -> SUBSET (0 .. Grace + 1)]
        OBVIOUS
      <3> QED BY <3>1, <3>2, <3>3 DEF IndInv, TypeOK
    <2>2. KeepsAvailable' /\ LinkOK' /\ TimerOK' /\ HeardOK'
      BY DEF KeepsAvailable, LinkOK, TimerOK, HeardOK
    <2> QED BY <2>1, <2>2 DEF IndInv
  <1>7. CASE LinkBreaks
    BY <1>7 DEF LinkBreaks, stateVars, IndInv, TypeOK, KeepsAvailable, Available, LinkOK, TimerOK, HeardOK
  <1>8. ASSUME NEW l \in Lock, RecheckAvailable(l) \/ Attach(l) \/ Detach(l) \/ LockSends(l)
        PROVE  IndInv'
    BY <1>8, RecheckKeeps, RelayKeeps
  <1>9. CASE UNCHANGED vars
    BY <1>9 DEF vars, IndInv, TypeOK, KeepsAvailable, Available, LinkOK, TimerOK, HeardOK, Heard
  <1> QED BY <1>1, <1>2, <1>3, <1>4, <1>5, <1>6, <1>7, <1>8, <1>9 DEF Next

(* The inductive invariant holds in every reachable state. *)
THEOREM Invariance == Spec => []IndInv
  BY InitHolds, StepKeeps, PTL DEF Spec

(* The session messages, the coordinator's fields and the timers keep their     *)
(* types: in particular no timer is left behind its time.                       *)
THEOREM TypeCorrect == Spec => []TypeOK
  <1>1. IndInv => TypeOK
    BY DEF IndInv
  <1> QED BY <1>1, Invariance, PTL

(* Whatever the grace time, no sequence of losses and returns takes a lock down *)
(* that is unknown, online or away for less than it (entity.py 33-42).          *)
THEOREM StaysAvailable == Spec => []KeepsAvailable
  <1>1. IndInv => KeepsAvailable
    BY DEF IndInv
  <1> QED BY <1>1, Invariance, PTL

(* Whatever the grace time, each time a lock goes offline leaves the timer that *)
(* takes it down, though others of it and of other locks are still running      *)
(* (__init__.py 526-532).                                                       *)
THEOREM LateTimersSuffice == Spec => []GoesUnavailable
  BY Consequences, Invariance, PTL

(* With a relay that announces its sessions, a client that has read everything  *)
(* knows who is attached: the last word in its queue on each lock is true,      *)
(* however many messages there are (relay_client.py 112-115, 140-147).          *)
THEOREM SessionsAgree ==
  ASSUME "sessions" \in Features
  PROVE  Spec => []SettledAgrees
  <1>1. IndInv => SettledAgrees
    BY Consequences
  <1> QED BY <1>1, Invariance, PTL

=============================================================================
