---------------------------- MODULE StateMergeProofs ----------------------------
(* The properties of StateMerge for any keys and any number of messages.        *)
EXTENDS StateMerge, TLAPS

(* A client that is gone has nothing to read; an answer is what its name says.  *)
PartsOK ==
    /\ queue \in Seq(Message)
    /\ ~conn => queue = <<>>
    /\ rest = "status" => answer \in [Field -> {"on", "off"}]
    /\ rest = "list" => answer \in [Slot -> Levels]

(* What the relay retains of a field is what the lock has.                      *)
CacheOK == \A f \in Field : cache.fields[f] \in {"none", door[f]}

SpeaksLast(i, f) == f \in Patched(queue[i]) /\ \A j \in DOMAIN queue : j > i => f \notin Patched(queue[j])

(* The last word on a field that is still to be handled is true.                *)
QueueOK == \A f \in Field, i \in DOMAIN queue : SpeaksLast(i, f) => queue[i].fields[f] = door[f]

(* With none to come, a field that is not outdated is shown as it is; for away, *)
(* which no retained message of another kind brings back, also while the client *)
(* is gone.                                                                     *)
ShownOK ==
    \A f \in Field \ outdated :
        /\ conn \/ f = "away"
        /\ cache.fields[f] # "none" /\ \A i \in DOMAIN queue : f \notin Patched(queue[i])
        => shown[f] = door[f]

AboutJam(m) == m.kind \in {"jam", "lock"}

(* The last word on the jam, retained or still to be handled, is true; with none *)
(* to come, the jam is shown as it is.                                          *)
JamOK ==
    /\ AboutJam(cache) => (stuck <=> cache.kind = "jam")
    /\ \A i \in DOMAIN queue :
           AboutJam(queue[i]) /\ (\A j \in DOMAIN queue : j > i => ~AboutJam(queue[j]))
               => (stuck <=> queue[i].kind = "jam")
    /\ "jam" \notin outdated /\ (\A i \in DOMAIN queue : ~AboutJam(queue[i])) => jammed = stuck

(* Nothing that is known or on its way has another name than the owner's of a   *)
(* slot that has always been the same owner's.                                  *)
NamesOK ==
    \A s \in Slot \ reused :
        /\ Fits(registry[s], s) /\ Fits(cache.pins[s], s)
        /\ \A i \in DOMAIN queue : Fits(queue[i].pins[s], s)
        /\ rest = "list" => Fits(answer[s], s)

(* A 622 without a key has an access of its own; one with a key has its pinId.  *)
KeyOK(m) ==
    m.kind = "lock" =>
        IF m.key = None THEN m.access \in {"INDOOR", "AUTO"}
        ELSE m.by \in Owner /\ m.pin = m.key[2] /\ m.access \in {m.key[1], "SVR"}

(* The one who opened is the owner of the key that was used: of one that is      *)
(* retained the present one, since a key that is added is reported after it.     *)
OpenersOK ==
    /\ KeyOK(cache) /\ (cache.kind = "lock" /\ cache.key # None => cache.by = owner[cache.key])
    /\ \A i \in DOMAIN queue :
           /\ KeyOK(queue[i])
           /\ queue[i].kind = "lock" /\ queue[i].key \notin reused \cup {None}
                  => queue[i].by = owner[queue[i].key]

IndInv == TypeOK /\ PartsOK /\ CacheOK /\ QueueOK /\ ShownOK /\ JamOK /\ NamesOK /\ OpenersOK

LEMMA Consequences ==
  ASSUME IndInv
  PROVE  SettledAgrees /\ SettledJam
  <1>1. queue = <<>> => DOMAIN queue = {}
    OBVIOUS
  <1>2. SettledAgrees
    BY <1>1 DEF IndInv, ShownOK, SettledAgrees
  <1>3. SettledJam
    BY <1>1 DEF IndInv, JamOK, SettledJam
  <1> QED BY <1>2, <1>3

-----------------------------------------------------------------------------
(* The queue.                                                               *)

LEMMA EmptyQueue ==
  /\ <<>> \in Seq(Message) /\ Len(<<>>) = 0 /\ Len(<<>>) <= MaxQueue /\ DOMAIN <<>> = {}
  BY MaxQueueAssumption

LEMMA OneInQueue ==
  ASSUME NEW m \in Message
  PROVE  /\ <<m>> \in Seq(Message) /\ Len(<<m>>) = 1 /\ Len(<<m>>) <= MaxQueue
         /\ DOMAIN <<m>> = {1} /\ <<m>>[1] = m /\ <<m>> # <<>>
  <1>1. 1 <= MaxQueue
    BY MaxQueueAssumption
  <1> QED BY <1>1

LEMMA TailParts ==
  ASSUME queue \in Seq(Message), queue # <<>>, Len(queue) <= MaxQueue
  PROVE  /\ Head(queue) \in Message /\ Head(queue) = queue[1] /\ 1 \in DOMAIN queue
         /\ Tail(queue) \in Seq(Message) /\ Len(Tail(queue)) <= MaxQueue
         /\ \A i \in DOMAIN Tail(queue) : i + 1 \in DOMAIN queue /\ Tail(queue)[i] = queue[i + 1]
         /\ \A i \in DOMAIN queue \ {1} :
                i - 1 \in DOMAIN Tail(queue) /\ Tail(queue)[i - 1] = queue[i]
         /\ DOMAIN queue \subseteq Nat \ {0} /\ DOMAIN Tail(queue) \subseteq Nat
         /\ Tail(queue) # <<>> => Tail(queue)[Len(Tail(queue))] = queue[Len(queue)]
         /\ Tail(queue) = <<>> => Len(queue) = 1
  <1>1. /\ Head(queue) \in Message /\ Head(queue) = queue[1] /\ 1 \in DOMAIN queue
        /\ Tail(queue) \in Seq(Message) /\ Len(Tail(queue)) = Len(queue) - 1
        /\ Len(queue) \in Nat \ {0} /\ DOMAIN queue = 1 .. Len(queue)
        /\ DOMAIN Tail(queue) = 1 .. Len(queue) - 1
    OBVIOUS
  <1>2. \A i \in 1 .. Len(queue) - 1 : Tail(queue)[i] = queue[i + 1]
    OBVIOUS
  <1>3. Tail(queue) = <<>> => Len(queue) = 1
    <2> SUFFICES ASSUME Tail(queue) = <<>> PROVE Len(queue) = 1
      OBVIOUS
    <2>1. Len(Tail(queue)) = 0
      BY EmptyQueue
    <2> QED BY <1>1, <2>1
  <1>4. Tail(queue) # <<>> => Len(queue) > 1
    BY <1>1
  <1>5. Tail(queue) # <<>> => Tail(queue)[Len(Tail(queue))] = queue[Len(queue)]
    <2> DEFINE n == Len(queue) - 1
    <2>1. Tail(queue) # <<>> => n \in 1 .. Len(queue) - 1 /\ n + 1 = Len(queue)
      BY <1>1, <1>4
    <2>2. Len(Tail(queue)) = n
      BY <1>1
    <2> HIDE DEF n
    <2>3. Tail(queue) # <<>> => Tail(queue)[n] = queue[Len(queue)]
      BY <1>2, <2>1
    <2>4. Tail(queue)[Len(Tail(queue))] = Tail(queue)[n]
      BY <2>2
    <2> QED BY <2>3, <2>4
  <1>6. /\ \A i \in DOMAIN Tail(queue) : i + 1 \in DOMAIN queue /\ Tail(queue)[i] = queue[i + 1]
        /\ \A i \in DOMAIN queue \ {1} :
               i - 1 \in DOMAIN Tail(queue) /\ Tail(queue)[i - 1] = queue[i]
        /\ DOMAIN queue \subseteq Nat \ {0} /\ DOMAIN Tail(queue) \subseteq Nat
    BY <1>1, <1>2
  <1>7. Len(Tail(queue)) <= MaxQueue
    BY <1>1, MaxQueueAssumption
  <1> QED BY <1>1, <1>3, <1>5, <1>6, <1>7

LEMMA AppendParts ==
  ASSUME queue \in Seq(Message), NEW m \in Message, Len(queue) < MaxQueue
  PROVE  /\ Append(queue, m) \in Seq(Message) /\ Len(Append(queue, m)) <= MaxQueue
         /\ DOMAIN Append(queue, m) = DOMAIN queue \cup {Len(queue) + 1}
         /\ \A i \in DOMAIN queue : Append(queue, m)[i] = queue[i] /\ i < Len(queue) + 1
         /\ Len(Append(queue, m)) = Len(queue) + 1 /\ Append(queue, m)[Len(queue) + 1] = m
         /\ Append(queue, m) # <<>>
         /\ Len(queue) \in Nat /\ DOMAIN queue \subseteq Nat
  <1>1. /\ Append(queue, m) \in Seq(Message) /\ Len(Append(queue, m)) = Len(queue) + 1
        /\ Len(queue) \in Nat /\ DOMAIN queue = 1 .. Len(queue)
    OBVIOUS
  <1>2. /\ \A i \in 1 .. Len(queue) : Append(queue, m)[i] = queue[i]
        /\ Append(queue, m)[Len(queue) + 1] = m
    OBVIOUS
  <1>3. DOMAIN Append(queue, m) = DOMAIN queue \cup {Len(queue) + 1}
    BY <1>1
  <1> QED BY <1>1, <1>2, <1>3, MaxQueueAssumption

-----------------------------------------------------------------------------
(* Messages of the lock.  Each field that a message carries is what the lock    *)
(* has, and is one that its kind patches; a field it does not carry has not     *)
(* changed.                                                                     *)

LEMMA PublishKeeps ==
  ASSUME IndInv, NEW m \in Message, Publish(m),
         door' \in [Field -> {"on", "off"}], stuck' \in BOOLEAN,
         owner' \in [Slot -> Owner \cup {None}], keys' \subseteq {s \in Slot : owner'[s] # None},
         \A f \in Field : m.fields[f] # "none" => m.fields[f] = door'[f] /\ (f \in AttrField \/ m.kind = f),
         \A f \in Field : m.fields[f] = "none" => door'[f] = door[f],
         AboutJam(m) => (stuck' <=> m.kind = "jam"), ~AboutJam(m) => stuck' = stuck,
         reused \subseteq reused', reused' \subseteq Slot,
         \A s \in Slot \ reused' : owner[s] \in {owner'[s], None} /\ m.pins[s] \in {"absent", "nameless", owner'[s]},
         KeyOK(m), m.kind = "lock" /\ m.key # None => m.by = owner'[m.key]
  PROVE  IndInv'
  <1>2. \A f \in Field : f \in Patched(m) <=> m.fields[f] # "none"
    BY DEF Patched
  <1>3. /\ sent < MaxMessages /\ sent' = sent + 1
        /\ cache' = Retain(m)
        /\ UNCHANGED <<conn, dataVars, restVars>>
        /\ IF conn
           THEN Len(queue) < MaxQueue /\ queue' = Append(queue, m) /\ UNCHANGED outdated
           ELSE outdated' = outdated \cup OnlyIn(m) /\ UNCHANGED queue
    BY DEF Publish
  <1>4. /\ Retain(m) \in Message /\ Retain(m).kind = m.kind
        /\ Retain(m).access = m.access /\ Retain(m).pin = m.pin
        /\ Retain(m).key = m.key /\ Retain(m).by = m.by
        /\ \A f \in Field : Retain(m).fields[f] =
                                IF m.fields[f] # "none" THEN m.fields[f] ELSE cache.fields[f]
        /\ \A s \in Slot : Retain(m).pins[s] = IF m.pins[s] # "absent" THEN m.pins[s] ELSE cache.pins[s]
    BY DEF Retain, Message, IndInv, TypeOK
  <1>5. CacheOK'
    BY <1>3, <1>4 DEF IndInv, CacheOK
  <1>6. sent' \in 0 .. MaxMessages
    BY <1>3, MaxMessagesAssumption DEF IndInv, TypeOK
  <1>7. /\ KeyOK(cache)' /\ (cache'.kind = "lock" /\ cache'.key # None => cache'.by = owner'[cache'.key])
        /\ AboutJam(cache)' => (stuck' <=> cache'.kind = "jam")
    BY <1>3, <1>4 DEF KeyOK, AboutJam
  <1>8. ASSUME NEW s \in Slot \ reused', NEW level \in Levels, Fits(level, s)
        PROVE  Fits(level, s)'
    BY <1>8, NoneAssumption DEF Fits, Levels
  <1>9. ASSUME NEW s \in Slot \ reused'
        PROVE  Fits(registry[s], s)' /\ Fits(cache.pins[s], s)' /\ (rest' = "list" => Fits(answer[s], s)')
    <2>1. /\ Fits(registry[s], s) /\ Fits(cache.pins[s], s) /\ (rest = "list" => Fits(answer[s], s))
          /\ registry[s] \in Levels /\ cache.pins[s] \in Levels /\ (rest = "list" => answer[s] \in Levels)
      BY DEF IndInv, NamesOK, TypeOK, PartsOK, Message
    <2>2. UNCHANGED <<registry, rest, answer>>
      BY <1>3 DEF dataVars, restVars
    <2>3. Fits(registry[s], s)' /\ (rest' = "list" => Fits(answer[s], s)')
      BY <1>8, <2>1, <2>2 DEF Fits
    <2>4. CASE m.pins[s] # "absent"
      BY <1>3, <1>4, <2>3, <2>4 DEF Fits
    <2>5. CASE m.pins[s] = "absent"
      <3>1. cache'.pins[s] = cache.pins[s]
        BY <1>3, <1>4, <2>5
      <3> QED BY <1>8, <2>1, <2>3, <3>1 DEF Fits
    <2> QED BY <2>4, <2>5
  <1>10. CASE conn
    <2>1. Len(queue) < MaxQueue /\ queue' = Append(queue, m) /\ UNCHANGED outdated
      BY <1>3, <1>10
    <2>2. /\ queue' \in Seq(Message) /\ Len(queue') <= MaxQueue
          /\ DOMAIN queue' = DOMAIN queue \cup {Len(queue) + 1}
          /\ \A i \in DOMAIN queue : queue'[i] = queue[i] /\ i < Len(queue) + 1
          /\ queue'[Len(queue) + 1] = m
          /\ Len(queue) \in Nat /\ DOMAIN queue \subseteq Nat
      BY <2>1, AppendParts DEF IndInv, PartsOK
    <2>3. TypeOK'
      <3>1. \A i \in DOMAIN queue' : queue'[i] \in Message
        BY <2>2
      <3> QED BY <1>3, <1>4, <1>6, <2>1, <2>2, <3>1 DEF IndInv, TypeOK, dataVars, restVars
    <2>4. PartsOK'
      BY <1>3, <1>10, <2>2 DEF IndInv, PartsOK, restVars
    <2>5. QueueOK'
      <3> SUFFICES ASSUME NEW f \in Field, NEW i \in DOMAIN queue', SpeaksLast(i, f)'
                   PROVE  queue'[i].fields[f] = door'[f]
        BY DEF QueueOK
      <3>1. CASE i = Len(queue) + 1
        BY <1>2, <2>2, <3>1 DEF SpeaksLast, Patched
      <3>2. CASE i # Len(queue) + 1
        <4>1. i \in DOMAIN queue /\ queue'[i] = queue[i] /\ i < Len(queue) + 1
          BY <2>2, <3>2
        <4>2. f \notin Patched(m)
          BY <2>2, <4>1 DEF SpeaksLast
        <4>3. SpeaksLast(i, f)
          <5>1. f \in Patched(queue[i])
            BY <4>1 DEF SpeaksLast, Patched
          <5>2. \A j \in DOMAIN queue : j > i => f \notin Patched(queue[j])
            BY <2>2 DEF SpeaksLast, Patched
          <5> QED BY <5>1, <5>2 DEF SpeaksLast
        <4> QED BY <1>2, <4>1, <4>2, <4>3 DEF IndInv, QueueOK
      <3> QED BY <3>1, <3>2
    <2>6. ShownOK'
      <3> SUFFICES ASSUME NEW f \in Field, f \notin outdated', cache'.fields[f] # "none",
                          \A i \in DOMAIN queue' : f \notin Patched(queue'[i])
                   PROVE  shown'[f] = door'[f]
        BY DEF ShownOK, Patched
      <3>1. f \notin Patched(m) /\ \A i \in DOMAIN queue : f \notin Patched(queue[i])
        BY <2>2
      <3> QED BY <1>2, <1>3, <1>4, <1>10, <2>1, <3>1 DEF IndInv, ShownOK, dataVars
    <2>7. JamOK'
      <3>1. ASSUME NEW i \in DOMAIN queue', AboutJam(queue'[i]),
                   \A j \in DOMAIN queue' : j > i => ~AboutJam(queue'[j])
            PROVE  stuck' <=> queue'[i].kind = "jam"
        <4>1. CASE i = Len(queue) + 1
          BY <2>2, <3>1, <4>1
        <4>2. CASE i # Len(queue) + 1
          <5>1. i \in DOMAIN queue /\ queue'[i] = queue[i] /\ ~AboutJam(m)
            BY <2>2, <3>1, <4>2
          <5>2. \A j \in DOMAIN queue : j > i => ~AboutJam(queue[j])
            BY <2>2, <3>1
          <5> QED BY <3>1, <5>1, <5>2 DEF IndInv, JamOK
        <4> QED BY <4>1, <4>2
      <3>2. ASSUME "jam" \notin outdated', \A i \in DOMAIN queue' : ~AboutJam(queue'[i])
            PROVE  jammed' = stuck'
        <4>1. ~AboutJam(m) /\ \A i \in DOMAIN queue : ~AboutJam(queue[i])
          BY <2>2, <3>2
        <4> QED BY <1>3, <2>1, <3>2, <4>1 DEF IndInv, JamOK, dataVars
      <3> QED BY <1>7, <3>1, <3>2 DEF JamOK, AboutJam
    <2>8. NamesOK'
      <3>1. ASSUME NEW s \in Slot \ reused', NEW i \in DOMAIN queue'
            PROVE  Fits(queue[i].pins[s], s)'
        <4>1. CASE i = Len(queue) + 1
          BY <2>2, <4>1 DEF Fits
        <4>2. CASE i # Len(queue) + 1
          <5>1. i \in DOMAIN queue /\ queue'[i] = queue[i]
            BY <2>2, <4>2
          <5>2. Fits(queue[i].pins[s], s) /\ queue[i].pins[s] \in Levels
            BY <5>1 DEF IndInv, NamesOK, TypeOK, Message
          <5> QED BY <1>8, <5>1, <5>2 DEF Fits
        <4> QED BY <4>1, <4>2
      <3> QED BY <1>9, <3>1 DEF NamesOK
    <2>9. OpenersOK'
      <3>1. ASSUME NEW i \in DOMAIN queue'
            PROVE  /\ KeyOK(queue[i])'
                   /\ queue'[i].kind = "lock" /\ queue'[i].key \notin reused' \cup {None}
                          => queue'[i].by = owner'[queue'[i].key]
        <4>1. CASE i = Len(queue) + 1
          BY <2>2, <4>1 DEF KeyOK
        <4>2. CASE i # Len(queue) + 1
          <5> DEFINE n == queue[i]
          <5>1. i \in DOMAIN queue /\ queue'[i] = n
            BY <2>2, <4>2
          <5>2. n \in Message /\ KeyOK(n)
                /\ (n.kind = "lock" /\ n.key \notin reused \cup {None} => n.by = owner[n.key])
            BY <5>1 DEF IndInv, TypeOK, OpenersOK
          <5> HIDE DEF n
          <5>3. n.key \in Slot \cup {None}
            BY <5>2 DEF Message
          <5>4. n.kind = "lock" /\ n.key \notin reused' \cup {None} => n.by = owner'[n.key]
            BY <5>2, <5>3, NoneAssumption DEF KeyOK
          <5> QED BY <5>1, <5>2, <5>4 DEF KeyOK
        <4> QED BY <4>1, <4>2
      <3> QED BY <1>7, <3>1 DEF OpenersOK
    <2> QED BY <1>5, <2>3, <2>4, <2>5, <2>6, <2>7, <2>8, <2>9 DEF IndInv
  <1>11. CASE ~conn
    <2>1. outdated' = outdated \cup OnlyIn(m) /\ queue' = queue /\ queue = <<>> /\ ~conn'
      BY <1>3, <1>11 DEF IndInv, PartsOK
    <2>2. DOMAIN queue = {} /\ DOMAIN queue' = {}
      BY <2>1
    <2>3. TypeOK' /\ PartsOK'
      BY <1>3, <1>4, <1>6, <2>1, <2>2
      DEF IndInv, TypeOK, PartsOK, Field, OnlyIn, JamNews, dataVars, restVars
    <2>4. QueueOK' /\ NamesOK' /\ OpenersOK'
      BY <1>7, <1>9, <2>1, <2>2 DEF QueueOK, NamesOK, OpenersOK
    <2>5. JamOK'
      <3>1. "jam" \notin outdated' => ~AboutJam(m) /\ "jam" \notin outdated
        BY <2>1 DEF OnlyIn, JamNews, AboutJam
      <3> QED BY <1>3, <1>7, <2>1, <2>2, <3>1 DEF IndInv, JamOK, AboutJam, dataVars
    <2>6. ShownOK'
      <3> SUFFICES ASSUME "away" \notin outdated', cache'.fields["away"] # "none"
                   PROVE  shown'["away"] = door'["away"]
        BY <2>1 DEF ShownOK, Field
      <3>1. "away" \in Field /\ "away" \notin AttrField
        BY DEF Field, AttrField
      <3>2. m.fields["away"] = "none" /\ "away" \notin outdated
        BY <2>1, <3>1 DEF OnlyIn
      <3> QED BY <1>3, <1>4, <2>2, <3>1, <3>2 DEF IndInv, ShownOK, dataVars
    <2> QED BY <1>5, <2>3, <2>4, <2>5, <2>6 DEF IndInv
  <1> QED BY <1>10, <1>11

LEMMA BlankParts ==
  /\ Blank \in [Field -> Values] /\ NoPins \in [Slot -> Levels]
  /\ \A f \in Field : Blank[f] = "none"
  /\ \A s \in Slot : NoPins[s] = "absent"
  BY DEF Blank, NoPins, Values, Levels

LEMMA NothingParts ==
  /\ Nothing \in Message /\ Nothing.kind = "attr" /\ Nothing.fields = Blank /\ Nothing.pins = NoPins
  /\ Nothing.key = None /\ Nothing.by = None /\ Nothing.access = "none" /\ Nothing.pin = 0
  BY BlankParts DEF Nothing, Message, Kinds

(* A message that reports one field of the lock; it is about the jam only when it *)
(* is a 622.                                                                      *)
LEMMA OneFieldKeeps ==
  ASSUME IndInv, NEW f \in Field, NEW v \in {"on", "off"}, NEW m \in Message, Publish(m),
         m.fields = Reports(f, v), f \in AttrField \/ m.kind = f,
         door' = [door EXCEPT ![f] = v], UNCHANGED <<keys, owner, reused>>,
         m.kind = "lock" => stuck' = FALSE, m.kind # "lock" => m.kind # "jam" /\ stuck' = stuck,
         \A s \in Slot \ reused : Fits(m.pins[s], s),
         KeyOK(m), m.kind = "lock" /\ m.key # None => m.by = owner[m.key]
  PROVE  IndInv'
  <1>1. m.fields[f] = v /\ \A g \in Field \ {f} : m.fields[g] = "none"
    BY BlankParts DEF Reports
  <1>2. door' \in [Field -> {"on", "off"}] /\ door'[f] = v /\ \A g \in Field \ {f} : door'[g] = door[g]
    BY DEF IndInv, TypeOK
  <1>3. /\ stuck' \in BOOLEAN
        /\ owner' \in [Slot -> Owner \cup {None}] /\ keys' \subseteq {s \in Slot : owner'[s] # None}
        /\ reused \subseteq reused' /\ reused' \subseteq Slot
    BY DEF IndInv, TypeOK
  <1>4. (AboutJam(m) => (stuck' <=> m.kind = "jam")) /\ (~AboutJam(m) => stuck' = stuck)
    BY DEF AboutJam
  <1>5. \A g \in Field : /\ m.fields[g] # "none" => m.fields[g] = door'[g] /\ (g \in AttrField \/ m.kind = g)
                         /\ m.fields[g] = "none" => door'[g] = door[g]
    BY <1>1, <1>2
  <1>6. \A s \in Slot \ reused' : owner[s] \in {owner'[s], None} /\ m.pins[s] \in {"absent", "nameless", owner'[s]}
    BY DEF Fits
  <1> QED BY <1>2, <1>3, <1>4, <1>5, <1>6, PublishKeeps

(* A message about no field and no key. *)
LEMMA NoFieldKeeps ==
  ASSUME IndInv, NEW kind \in {"jam", "notice"}, Publish([Nothing EXCEPT !.kind = kind]),
         UNCHANGED door, stuck' = (kind = "jam" \/ stuck),
         owner' \in [Slot -> Owner \cup {None}], keys' \subseteq {s \in Slot : owner'[s] # None},
         reused \subseteq reused', reused' \subseteq Slot,
         \A s \in Slot \ reused' : owner[s] \in {owner'[s], None}
  PROVE  IndInv'
  <1> DEFINE m == [Nothing EXCEPT !.kind = kind]
  <1>1. m \in Message /\ m.kind = kind /\ m.fields = Blank /\ m.pins = NoPins
    BY NothingParts DEF Message, Kinds
  <1>2. door' \in [Field -> {"on", "off"}] /\ stuck' \in BOOLEAN
    BY DEF IndInv, TypeOK
  <1>3. Publish(m)
    OBVIOUS
  <1> HIDE DEF m
  <1>4. KeyOK(m) /\ m.kind # "lock"
    BY <1>1 DEF KeyOK
  <1>5. (AboutJam(m) => (stuck' <=> m.kind = "jam")) /\ (~AboutJam(m) => stuck' = stuck)
    BY <1>1 DEF AboutJam, IndInv, TypeOK
  <1> QED BY <1>1, <1>2, <1>3, <1>4, <1>5, BlankParts, PublishKeeps

LEMMA LockActsKeep ==
  ASSUME IndInv, LockActs
  PROVE  IndInv'
  <1> USE DEF Field, AttrField
  <1>1. CASE MovedWithoutKey
    <2>1. PICK v \in {"on", "off"}, pin \in PinId :
              /\ door' = [door EXCEPT !["locked"] = v]
              /\ Publish([Nothing EXCEPT !.kind = "lock", !.fields = Reports("locked", v), !.pin = pin,
                                         !.access = IF v = "on" THEN "AUTO" ELSE "INDOOR"])
      BY <1>1 DEF MovedWithoutKey
    <2> DEFINE m == [Nothing EXCEPT !.kind = "lock", !.fields = Reports("locked", v), !.pin = pin,
                                    !.access = IF v = "on" THEN "AUTO" ELSE "INDOOR"]
    <2>2. Reports("locked", v) \in [Field -> Values]
      BY BlankParts DEF Reports, Values
    <2>3. /\ m \in Message /\ m.kind = "lock" /\ m.fields = Reports("locked", v) /\ m.pins = NoPins
          /\ m.key = None /\ m.access \in {"INDOOR", "AUTO"}
      BY <2>2, NothingParts DEF Message, Kinds, Access
    <2>4. Publish(m) /\ UNCHANGED <<keys, owner, reused>> /\ stuck' = FALSE
      BY <1>1, <2>1 DEF MovedWithoutKey
    <2> HIDE DEF m
    <2>5. KeyOK(m) /\ \A s \in Slot \ reused : Fits(m.pins[s], s)
      BY <2>3, BlankParts DEF KeyOK, Fits
    <2>6. m \in Message /\ m.fields = Reports("locked", v) /\ (m.kind = "lock" => stuck' = FALSE)
          /\ (m.kind # "lock" => m.kind # "jam" /\ stuck' = stuck)
      BY <2>3, <2>4
    <2>7. KeyOK(m) /\ (m.kind = "lock" /\ m.key # None => m.by = owner[m.key])
      BY <2>3, <2>5
    <2>8. "locked" \in Field /\ ("locked" \in AttrField \/ m.kind = "locked")
      OBVIOUS
    <2> HIDE DEF Field, AttrField
    <2> QED BY <2>1, <2>4, <2>5, <2>6, <2>7, <2>8, OneFieldKeeps
  <1>2. CASE DoorNotClosed
    <2>1. /\ Publish([Nothing EXCEPT !.kind = "jam"]) /\ stuck' = TRUE
          /\ UNCHANGED <<door, keys, owner, reused>>
      BY <1>2 DEF DoorNotClosed
    <2> QED BY <2>1, NoFieldKeeps DEF IndInv, TypeOK
  <1>3. CASE Dump
    <2>1. PICK pins \in {NamedKeys, [s \in Slot |-> IF s \in keys THEN "nameless" ELSE "absent"]} :
              Publish([Nothing EXCEPT !.fields = [door EXCEPT !["away"] = "none"], !.pins = pins])
      BY <1>3 DEF Dump
    <2> DEFINE fields == [door EXCEPT !["away"] = "none"]
               m == [Nothing EXCEPT !.fields = fields, !.pins = pins]
    <2>2. fields \in [Field -> Values] /\ fields["away"] = "none"
          /\ \A f \in Field \ {"away"} : fields[f] = door[f]
      BY DEF IndInv, TypeOK, Values
    <2>3. pins \in [Slot -> Levels] /\ \A s \in Slot : Fits(pins[s], s)
      BY DEF IndInv, TypeOK, NamedKeys, Levels, Fits
    <2>4. m \in Message /\ m.kind = "attr" /\ m.fields = fields /\ m.pins = pins
      <3> HIDE DEF fields
      <3> QED BY <2>2, <2>3, NothingParts DEF Message
    <2>5. /\ UNCHANGED <<door, keys, owner, stuck, reused>>
          /\ door' \in [Field -> {"on", "off"}] /\ stuck' \in BOOLEAN
          /\ owner' \in [Slot -> Owner \cup {None}] /\ keys' \subseteq {s \in Slot : owner'[s] # None}
          /\ reused \subseteq reused' /\ reused' \subseteq Slot
      BY <1>3 DEF Dump, IndInv, TypeOK
    <2>6. Publish(m)
      BY <2>1
    <2> HIDE DEF fields, m
    <2>7. KeyOK(m) /\ ~AboutJam(m) /\ m.kind # "lock"
      BY <2>4 DEF KeyOK, AboutJam
    <2>8. \A s \in Slot \ reused' : owner[s] \in {owner'[s], None} /\ m.pins[s] \in {"absent", "nameless", owner'[s]}
      BY <2>3, <2>4, <2>5 DEF Fits
    <2>9. \A f \in Field : /\ m.fields[f] # "none" => m.fields[f] = door'[f] /\ f \in AttrField
                           /\ m.fields[f] = "none" => door'[f] = door[f]
      BY <2>2, <2>4, <2>5
    <2> QED BY <2>4, <2>5, <2>6, <2>7, <2>8, <2>9, PublishKeeps
  <1>4. ASSUME NEW s \in Slot, OpenedWith(s)
        PROVE  IndInv'
    <2>1. PICK access \in {s[1], "SVR"}, pins \in PinInfos(s) :
              Publish([kind |-> "lock", fields |-> Reports("locked", "off"), pins |-> pins,
                       access |-> access, pin |-> s[2], key |-> s, by |-> owner[s]])
      BY <1>4 DEF OpenedWith
    <2> DEFINE m == [kind |-> "lock", fields |-> Reports("locked", "off"), pins |-> pins,
                     access |-> access, pin |-> s[2], key |-> s, by |-> owner[s]]
    <2>2. owner[s] \in Owner /\ s # None
      BY <1>4, NoneAssumption DEF OpenedWith, IndInv, TypeOK
    <2>3. Reports("locked", "off") \in [Field -> Values]
      BY BlankParts DEF Reports, Values
    <2>4. pins \in [Slot -> Levels] /\ \A r \in Slot : Fits(pins[r], r)
      BY BlankParts DEF PinInfos, Levels, Fits
    <2>5. m \in Message
      BY <2>2, <2>3, <2>4 DEF Message, Kinds, Access, PinType, PinId
    <2>6. /\ m.kind = "lock" /\ m.fields = Reports("locked", "off") /\ m.pins = pins
          /\ m.access = access /\ m.pin = s[2] /\ m.key = s /\ m.by = owner[s]
      OBVIOUS
    <2>7. Publish(m)
      BY <2>1
    <2> HIDE DEF m
    <2>8. KeyOK(m) /\ \A r \in Slot \ reused : Fits(m.pins[r], r)
      BY <2>2, <2>4, <2>6 DEF KeyOK, Fits
    <2>9. door' = [door EXCEPT !["locked"] = "off"] /\ UNCHANGED <<keys, owner, reused>> /\ stuck' = FALSE
      BY <1>4 DEF OpenedWith
    <2>10. /\ m.kind = "lock" => stuck' = FALSE
           /\ m.kind # "lock" => m.kind # "jam" /\ stuck' = stuck
           /\ m.kind = "lock" /\ m.key # None => m.by = owner[m.key]
      BY <2>6, <2>9
    <2>11. "locked" \in Field /\ "off" \in {"on", "off"} /\ ("locked" \in AttrField \/ m.kind = "locked")
      OBVIOUS
    <2> HIDE DEF Field, AttrField
    <2> QED BY <2>5, <2>6, <2>7, <2>8, <2>9, <2>10, <2>11, OneFieldKeeps
  <1>5. ASSUME NEW s \in Slot, KeyRemoved(s)
        PROVE  IndInv'
    <2>1. /\ Publish([Nothing EXCEPT !.kind = "notice"]) /\ UNCHANGED <<door, owner, stuck, reused>>
          /\ keys' \subseteq keys
      BY <1>5 DEF KeyRemoved
    <2>2. stuck' = ("notice" = "jam" \/ stuck)
      BY <2>1 DEF IndInv, TypeOK
    <2> QED BY <2>1, <2>2, NoFieldKeeps DEF IndInv, TypeOK
  <1>6. ASSUME NEW s \in Slot, NEW o \in Owner, KeyAdded(s, o)
        PROVE  IndInv'
    <2>1. /\ Publish([Nothing EXCEPT !.kind = "notice"]) /\ UNCHANGED <<door, stuck>>
          /\ keys' = keys \cup {s} /\ owner' = [owner EXCEPT ![s] = o]
          /\ reused' = IF owner[s] \in {None, o} THEN reused ELSE reused \cup {s}
      BY <1>6 DEF KeyAdded
    <2>2. stuck' = ("notice" = "jam" \/ stuck)
      BY <2>1 DEF IndInv, TypeOK
    <2>3. owner \in [Slot -> Owner \cup {None}] /\ keys \subseteq {r \in Slot : owner[r] # None} /\ reused \subseteq Slot
      BY DEF IndInv, TypeOK
    <2>4. /\ owner' \in [Slot -> Owner \cup {None}] /\ keys' \subseteq {r \in Slot : owner'[r] # None}
          /\ reused \subseteq reused' /\ reused' \subseteq Slot
          /\ \A r \in Slot \ reused' : owner[r] \in {owner'[r], None}
      BY <2>1, <2>3, NoneAssumption
    <2> QED BY <2>1, <2>2, <2>4, NoFieldKeeps
  <1>7. ASSUME NEW f \in {"flag", "away"}, ModeChanges(f)
        PROVE  IndInv'
    <2>1. PICK v \in {"on", "off"} \ {door[f]} :
              /\ door' = [door EXCEPT ![f] = v]
              /\ Publish([Nothing EXCEPT !.kind = IF f = "away" THEN "away" ELSE "attr",
                                         !.fields = Reports(f, v)])
      BY <1>7 DEF ModeChanges
    <2> DEFINE kind == IF f = "away" THEN "away" ELSE "attr"
               m == [Nothing EXCEPT !.kind = kind, !.fields = Reports(f, v)]
    <2>2. kind \in Kinds \ {"lock", "jam"} /\ (f \in AttrField \/ kind = f)
      BY DEF Kinds
    <2>3. Publish(m)
      BY <2>1
    <2> HIDE DEF kind
    <2>4. Reports(f, v) \in [Field -> Values]
      BY BlankParts DEF Reports, Values
    <2>5. m \in Message /\ m.kind = kind /\ m.fields = Reports(f, v) /\ m.pins = NoPins
      BY <2>2, <2>4, NothingParts DEF Message
    <2> HIDE DEF m
    <2>6. KeyOK(m) /\ m.kind \notin {"lock", "jam"} /\ \A s \in Slot \ reused : Fits(m.pins[s], s)
      BY <2>2, <2>5, BlankParts DEF KeyOK, Fits
    <2>7. UNCHANGED <<keys, owner, stuck, reused>>
      BY <1>7 DEF ModeChanges
    <2> QED BY <2>1, <2>2, <2>3, <2>5, <2>6, <2>7, OneFieldKeeps
  <1> QED BY <1>1, <1>2, <1>3, <1>4, <1>5, <1>6, <1>7 DEF LockActs

-----------------------------------------------------------------------------
(* HandleNext. *)

(* What is shown after an opening is a name, or nothing.                        *)
LEMMA UsersParts ==
  ASSUME NEW m \in Message, NEW known, NEW u \in Users(m, known)
  PROVE  u \in Owner \cup {None}
  BY DEF Users, Name

LEMMA HandleNextKeeps ==
  ASSUME IndInv, HandleNext
  PROVE  IndInv'
  <1> DEFINE m == Head(queue)
             known == MergePins(registry, m.pins)
  <1>1. /\ conn /\ queue # <<>> /\ queue' = Tail(queue)
        /\ UNCHANGED <<door, keys, owner, stuck, sent, cache, conn, rest, answer, reused>>
        /\ registry' = known
        /\ shown' = [f \in Field |-> IF f \in Patched(m) THEN m.fields[f] ELSE shown[f]]
        /\ outdated' = outdated \ (Patched(m) \cup JamNews(m))
        /\ jammed' = JammedAfter(m)
        /\ IF IsOpening(m) THEN user' \in Users(m, known) ELSE UNCHANGED user
    BY DEF HandleNext, lockVars, restVars
  <1>2. /\ m \in Message /\ m = queue[1] /\ 1 \in DOMAIN queue
        /\ queue' \in Seq(Message) /\ Len(queue') <= MaxQueue
        /\ \A i \in DOMAIN queue' : i + 1 \in DOMAIN queue /\ queue'[i] = queue[i + 1]
        /\ \A i \in DOMAIN queue \ {1} : i - 1 \in DOMAIN queue' /\ queue'[i - 1] = queue[i]
        /\ DOMAIN queue \subseteq Nat \ {0} /\ DOMAIN queue' \subseteq Nat
    BY <1>1, TailParts DEF IndInv, TypeOK, PartsOK
  <1>3. m.fields \in [Field -> Values] /\ m.pins \in [Slot -> Levels]
    BY <1>2 DEF Message
  <1>4. known \in [Slot -> Levels]
    BY <1>3 DEF MergePins, IndInv, TypeOK
  <1> HIDE DEF m, known
  <1>5. user' \in Owner \cup {None}
    <2>1. CASE IsOpening(m)
      BY <1>1, <1>2, <2>1, UsersParts
    <2>2. CASE ~IsOpening(m)
      BY <1>1, <2>2 DEF IndInv, TypeOK
    <2> QED BY <2>1, <2>2
  <1>6. TypeOK'
    <2>1. shown' \in [Field -> Values]
      BY <1>1, <1>3 DEF IndInv, TypeOK
    <2>2. jammed' \in BOOLEAN
      BY <1>1 DEF JammedAfter, IndInv, TypeOK
    <2>3. \A i \in DOMAIN queue' : queue'[i] \in Message
      BY <1>2
    <2> QED BY <1>1, <1>2, <1>4, <1>5, <2>1, <2>2, <2>3 DEF IndInv, TypeOK
  <1>7. PartsOK' /\ CacheOK'
    BY <1>1, <1>2 DEF IndInv, PartsOK, CacheOK
  <1>8. QueueOK'
    <2> SUFFICES ASSUME NEW f \in Field, NEW i \in DOMAIN queue', SpeaksLast(i, f)'
                 PROVE  queue'[i].fields[f] = door[f]
      BY <1>1 DEF QueueOK
    <2>1. i + 1 \in DOMAIN queue /\ queue'[i] = queue[i + 1]
      BY <1>2
    <2>2. f \in Patched(queue[i + 1])
      BY <2>1 DEF SpeaksLast, Patched
    <2>3. ASSUME NEW j \in DOMAIN queue, j > i + 1
          PROVE  f \notin Patched(queue[j])
      <3>1. j - 1 \in DOMAIN queue' /\ queue'[j - 1] = queue[j] /\ j - 1 > i
        BY <1>2, <2>3
      <3> QED BY <3>1 DEF SpeaksLast, Patched
    <2> QED BY <2>1, <2>2, <2>3 DEF IndInv, QueueOK, SpeaksLast
  <1>9. ShownOK'
    <2> SUFFICES ASSUME NEW f \in Field, f \notin outdated', cache.fields[f] # "none",
                        \A i \in DOMAIN queue' : f \notin Patched(queue'[i])
                 PROVE  shown'[f] = door[f]
      BY <1>1 DEF ShownOK, Patched
    <2>1. \A j \in DOMAIN queue : j > 1 => f \notin Patched(queue[j])
      BY <1>2
    <2>2. CASE f \in Patched(m)
      <3>1. SpeaksLast(1, f)
        BY <1>2, <2>1, <2>2 DEF SpeaksLast
      <3>2. m.fields[f] = door[f]
        BY <1>2, <3>1 DEF IndInv, QueueOK
      <3> QED BY <1>1, <2>2, <3>2
    <2>3. CASE f \notin Patched(m)
      <3>1. \A j \in DOMAIN queue : f \notin Patched(queue[j])
        BY <1>2, <2>1, <2>3
      <3>2. f \notin outdated
        BY <1>1, <2>3 DEF JamNews, Field
      <3> QED BY <1>1, <2>3, <3>1, <3>2 DEF IndInv, ShownOK
    <2> QED BY <2>2, <2>3
  <1>10. JamOK'
    <2>1. ASSUME NEW i \in DOMAIN queue', AboutJam(queue'[i]),
                 \A j \in DOMAIN queue' : j > i => ~AboutJam(queue'[j])
          PROVE  stuck <=> queue'[i].kind = "jam"
      <3>1. i + 1 \in DOMAIN queue /\ queue'[i] = queue[i + 1]
        BY <1>2
      <3>2. ASSUME NEW j \in DOMAIN queue, j > i + 1
            PROVE  ~AboutJam(queue[j])
        <4>1. j - 1 \in DOMAIN queue' /\ queue'[j - 1] = queue[j] /\ j - 1 > i
          BY <1>2, <3>2
        <4> QED BY <2>1, <4>1
      <3> QED BY <2>1, <3>1, <3>2 DEF IndInv, JamOK
    <2>2. ASSUME "jam" \notin outdated', \A i \in DOMAIN queue' : ~AboutJam(queue'[i])
          PROVE  jammed' = stuck
      <3>1. \A j \in DOMAIN queue : j > 1 => ~AboutJam(queue[j])
        BY <1>2, <2>2
      <3>2. CASE AboutJam(m)
        <4>1. stuck <=> m.kind = "jam"
          BY <1>2, <3>1, <3>2 DEF IndInv, JamOK
        <4> QED BY <1>1, <3>2, <4>1 DEF AboutJam, JammedAfter, IndInv, TypeOK
      <3>3. CASE ~AboutJam(m)
        <4>1. \A j \in DOMAIN queue : ~AboutJam(queue[j])
          BY <1>2, <3>1, <3>3
        <4>2. "jam" \notin outdated
          BY <1>1, <2>2, <3>3 DEF JamNews, AboutJam, Patched, Field
        <4>3. jammed' = jammed
          BY <1>1, <3>3 DEF AboutJam, JammedAfter, IndInv, TypeOK
        <4> QED BY <4>1, <4>2, <4>3 DEF IndInv, JamOK
      <3> QED BY <3>2, <3>3
    <2>3. AboutJam(cache)' => (stuck <=> cache.kind = "jam")
      BY <1>1 DEF IndInv, JamOK, AboutJam
    <2> QED BY <1>1, <2>1, <2>2, <2>3 DEF JamOK, AboutJam
  <1>11. NamesOK'
    <2> SUFFICES ASSUME NEW s \in Slot \ reused
                 PROVE  /\ Fits(known[s], s) /\ Fits(cache.pins[s], s)
                        /\ \A i \in DOMAIN queue' : Fits(queue'[i].pins[s], s)
                        /\ rest = "list" => Fits(answer[s], s)
      BY <1>1 DEF NamesOK, Fits
    <2>1. /\ Fits(registry[s], s) /\ Fits(m.pins[s], s) /\ Fits(cache.pins[s], s)
          /\ rest = "list" => Fits(answer[s], s)
          /\ \A i \in DOMAIN queue : Fits(queue[i].pins[s], s)
      BY <1>2 DEF IndInv, NamesOK
    <2>2. Fits(known[s], s)
      BY <2>1 DEF known, MergePins, Fits
    <2> QED BY <1>2, <2>1, <2>2
  <1>12. OpenersOK'
    BY <1>1, <1>2 DEF IndInv, OpenersOK, KeyOK
  <1> QED BY <1>5, <1>6, <1>7, <1>8, <1>9, <1>10, <1>11, <1>12 DEF IndInv

-----------------------------------------------------------------------------
(* The other actions. *)

LEMMA RestKeeps ==
  ASSUME IndInv, RestActs
  PROVE  IndInv'
  <1>1. CASE CloudAnswersStatus \/ CloudAnswersList \/ RefreshFails
    <2>1. /\ UNCHANGED <<lockVars, relayVars, dataVars, ghostVars>> /\ rest' \in {"none", "status", "list"}
          /\ rest' = "status" => answer' = door
          /\ rest' = "list" => answer' = NamedKeys
      BY <1>1 DEF CloudAnswersStatus, CloudAnswersList, RefreshFails
    <2>2. NamedKeys \in [Slot -> Levels] /\ \A s \in Slot : NamedKeys[s] \in {"absent", owner[s]}
      BY DEF NamedKeys, Levels, IndInv, TypeOK
    <2>3. TypeOK' /\ PartsOK' /\ CacheOK' /\ QueueOK' /\ ShownOK'
      BY <2>1, <2>2 DEF lockVars, relayVars, dataVars, ghostVars, IndInv, TypeOK, PartsOK, CacheOK, QueueOK,
                        ShownOK, SpeaksLast, Patched
    <2>4. JamOK' /\ NamesOK' /\ OpenersOK'
      BY <2>1, <2>2 DEF lockVars, relayVars, dataVars, ghostVars, IndInv, JamOK, AboutJam, NamesOK, Fits,
                        OpenersOK, KeyOK
    <2> QED BY <2>3, <2>4 DEF IndInv
  <1>2. CASE MergesStatus
    <2>1. /\ UNCHANGED <<lockVars, relayVars, jammed, registry, user, reused>>
          /\ rest = "status" /\ rest' = "listing" /\ shown' = answer
          /\ outdated' = {f \in Field : answer[f] # door[f]} \cup (outdated \cap {"jam"})
      BY <1>2 DEF MergesStatus
    <2>2. answer \in [Field -> Values]
      BY <2>1 DEF IndInv, PartsOK, Values
    <2>3. TypeOK' /\ PartsOK'
      BY <2>1, <2>2 DEF lockVars, relayVars, IndInv, TypeOK, PartsOK
    <2>4. CacheOK' /\ QueueOK' /\ JamOK' /\ NamesOK' /\ OpenersOK'
      BY <2>1 DEF lockVars, relayVars, IndInv, CacheOK, QueueOK, JamOK, AboutJam, NamesOK, Fits, OpenersOK, KeyOK,
                  SpeaksLast, Patched
    <2>5. ShownOK'
      BY <2>1 DEF lockVars, ShownOK
    <2> QED BY <2>3, <2>4, <2>5 DEF IndInv
  <1>3. CASE ReplacesRegistry
    <2>1. /\ UNCHANGED <<lockVars, relayVars, shown, jammed, user, outdated>> /\ rest = "list" /\ rest' = "none"
          /\ registry' = answer
          /\ reused' = {s \in reused : queue # <<>> \/ ~Fits(answer[s], s) \/ ~Fits(cache.pins[s], s)}
      BY <1>3 DEF ReplacesRegistry
    <2>2. TypeOK' /\ PartsOK'
      BY <2>1 DEF lockVars, relayVars, IndInv, TypeOK, PartsOK
    <2>3. CacheOK' /\ QueueOK' /\ ShownOK' /\ JamOK'
      BY <2>1 DEF lockVars, relayVars, IndInv, CacheOK, QueueOK, ShownOK, JamOK, AboutJam, SpeaksLast, Patched
    <2>4. NamesOK' /\ OpenersOK'
      <3>1. queue = <<>> => DOMAIN queue = {}
        BY EmptyQueue
      <3>2. CASE queue = <<>>
        BY <2>1, <3>1, <3>2 DEF lockVars, relayVars, IndInv, NamesOK, Fits, OpenersOK, KeyOK
      <3>3. CASE queue # <<>>
        <4>1. reused' = reused
          BY <2>1, <3>3
        <4> QED BY <2>1, <4>1 DEF lockVars, relayVars, IndInv, NamesOK, Fits, OpenersOK, KeyOK
      <3> QED BY <3>2, <3>3
    <2> QED BY <2>2, <2>3, <2>4 DEF IndInv
  <1> QED BY <1>1, <1>2, <1>3 DEF RestActs

LEMMA SetupKeeps ==
  ASSUME IndInv, Setup
  PROVE  IndInv'
  <1>1. /\ UNCHANGED <<door, keys, owner, stuck, sent, cache>>
        /\ conn' = FALSE /\ queue' = <<>> /\ jammed' = FALSE /\ user' = None
        /\ rest' = "none"
        /\ reused' = {s \in reused : ~Fits(cache.pins[s], s)}
    BY DEF Setup, lockVars
  <1>2. /\ shown' \in [Field -> Values] /\ outdated' \subseteq Field \cup {"jam"}
        /\ "away" \in outdated' \/ shown' = door
        /\ "jam" \in outdated' \/ stuck = FALSE
    BY DEF Setup, Blank, Field, Values, IndInv, TypeOK
  <1>3. registry' \in [Slot -> Levels] /\ \A s \in Slot : Fits(registry'[s], s)
    BY DEF Setup, NamedKeys, NoPins, Levels, Fits, IndInv, TypeOK
  <1>4. queue' \in Seq(Message) /\ Len(queue') <= MaxQueue /\ DOMAIN queue' = {}
    BY <1>1, EmptyQueue
  <1>5. TypeOK'
    BY <1>1, <1>2, <1>3, <1>4 DEF IndInv, TypeOK
  <1>6. PartsOK' /\ CacheOK' /\ QueueOK' /\ JamOK'
    BY <1>1, <1>2, <1>4 DEF IndInv, PartsOK, CacheOK, QueueOK, JamOK, AboutJam
  <1>7. ShownOK'
    BY <1>1, <1>2 DEF ShownOK
  <1>8. NamesOK' /\ OpenersOK'
    BY <1>1, <1>3, <1>4 DEF IndInv, NamesOK, Fits, OpenersOK, KeyOK
  <1> QED BY <1>5, <1>6, <1>7, <1>8 DEF IndInv

LEMMA ConnectsKeeps ==
  ASSUME IndInv, Connects
  PROVE  IndInv'
  <1>1. /\ UNCHANGED <<lockVars, cache, dataVars, restVars, ghostVars>> /\ ~conn /\ conn' = TRUE
        /\ queue' = IF cache = Nothing THEN <<>> ELSE <<cache>>
    BY DEF Connects
  <1>2. cache \in Message
    BY DEF IndInv, TypeOK
  <1>3. CacheOK' /\ DOMAIN queue = {}
    BY <1>1, EmptyQueue DEF IndInv, PartsOK, CacheOK, lockVars
  <1>4. CASE cache = Nothing
    <2>1. queue' \in Seq(Message) /\ Len(queue') <= MaxQueue /\ DOMAIN queue' = {} /\ queue' = <<>>
      BY <1>1, <1>4, EmptyQueue
    <2>2. cache.kind = "attr" /\ \A f \in Field : cache.fields[f] = "none"
      BY <1>4, BlankParts DEF Nothing
    <2>3. TypeOK' /\ PartsOK'
      BY <1>1, <2>1 DEF IndInv, TypeOK, PartsOK, lockVars, dataVars, restVars, ghostVars
    <2>4. QueueOK' /\ ShownOK'
      BY <1>1, <2>1, <2>2 DEF QueueOK, ShownOK
    <2>5. JamOK' /\ NamesOK' /\ OpenersOK'
      BY <1>1, <1>3, <2>1 DEF IndInv, JamOK, AboutJam, NamesOK, Fits, OpenersOK, KeyOK, lockVars, dataVars,
                              restVars, ghostVars
    <2> QED BY <1>3, <2>3, <2>4, <2>5 DEF IndInv
  <1>5. CASE cache # Nothing
    <2>1. /\ queue' \in Seq(Message) /\ Len(queue') = 1 /\ Len(queue') <= MaxQueue /\ queue' # <<>>
          /\ DOMAIN queue' = {1} /\ queue'[1] = cache
      BY <1>1, <1>2, <1>5, OneInQueue
    <2>2. TypeOK'
      BY <1>1, <1>2, <2>1 DEF IndInv, TypeOK, lockVars, dataVars, restVars, ghostVars
    <2>3. PartsOK'
      BY <1>1, <2>1 DEF IndInv, PartsOK, restVars
    <2>4. QueueOK'
      BY <1>1, <2>1 DEF IndInv, CacheOK, QueueOK, SpeaksLast, Patched, lockVars
    <2>5. ShownOK'
      <3> SUFFICES ASSUME NEW f \in Field, f \notin outdated, cache.fields[f] # "none", f \notin Patched(cache)
                   PROVE  shown[f] = door[f]
        BY <1>1, <2>1 DEF ShownOK, Patched, lockVars, dataVars, ghostVars
      <3>1. f = "away"
        BY DEF Patched, Field, AttrField
      <3> QED BY <1>3, <3>1 DEF IndInv, ShownOK
    <2>6. JamOK'
      BY <1>1, <1>3, <2>1 DEF IndInv, JamOK, AboutJam, lockVars, dataVars, ghostVars
    <2>7. NamesOK' /\ OpenersOK'
      BY <1>1, <2>1 DEF IndInv, NamesOK, Fits, OpenersOK, KeyOK, lockVars, dataVars, restVars, ghostVars
    <2> QED BY <1>3, <2>2, <2>3, <2>4, <2>5, <2>6, <2>7 DEF IndInv
  <1> QED BY <1>4, <1>5

LEMMA DropsKeeps ==
  ASSUME IndInv, Drops
  PROVE  IndInv'
  <1>1. /\ UNCHANGED <<lockVars, cache, dataVars, restVars, reused>> /\ conn /\ conn' = FALSE /\ queue' = <<>>
        /\ outdated' = outdated \cup UNION {OnlyIn(queue[i]) : i \in DOMAIN queue}
    BY DEF Drops
  <1>2. queue' \in Seq(Message) /\ Len(queue') <= MaxQueue /\ DOMAIN queue' = {}
    BY <1>1, EmptyQueue
  <1>3. TypeOK' /\ PartsOK'
    <2>1. outdated' \subseteq Field \cup {"jam"}
      BY <1>1 DEF OnlyIn, JamNews, Field, IndInv, TypeOK
    <2> QED BY <1>1, <1>2, <2>1 DEF IndInv, TypeOK, PartsOK, lockVars, dataVars, restVars
  <1>4. CacheOK' /\ QueueOK' /\ NamesOK' /\ OpenersOK'
    BY <1>1, <1>2 DEF IndInv, CacheOK, QueueOK, NamesOK, Fits, OpenersOK, KeyOK, lockVars, dataVars, restVars
  <1>5. JamOK'
    <2>1. "jam" \notin outdated' => "jam" \notin outdated /\ \A i \in DOMAIN queue : ~AboutJam(queue[i])
      BY <1>1 DEF OnlyIn, JamNews, AboutJam
    <2> QED BY <1>1, <1>2, <2>1 DEF IndInv, JamOK, AboutJam, lockVars, dataVars
  <1>6. ShownOK'
    <2> SUFFICES ASSUME "away" \notin outdated', cache.fields["away"] # "none"
                 PROVE  shown["away"] = door["away"]
      BY <1>1 DEF ShownOK, lockVars, dataVars
    <2>1. "away" \notin outdated /\ \A i \in DOMAIN queue : "away" \notin OnlyIn(queue[i])
      BY <1>1
    <2>2. \A i \in DOMAIN queue : queue[i].kind # "away"
      BY <2>1 DEF OnlyIn
    <2>3. \A i \in DOMAIN queue : "away" \notin Patched(queue[i])
      BY <2>2 DEF Patched, AttrField
    <2> QED BY <1>1, <2>1, <2>3 DEF IndInv, ShownOK, Field
  <1> QED BY <1>3, <1>4, <1>5, <1>6 DEF IndInv

LEMMA InitHolds == Init => IndInv
  <1> SUFFICES ASSUME Init PROVE IndInv
    OBVIOUS
  <1>1. queue \in Seq(Message) /\ Len(queue) <= MaxQueue /\ DOMAIN queue = {}
    BY EmptyQueue DEF Init
  <1>2. TypeOK
    <2>1. door \in [Field -> {"on", "off"}] /\ shown \in [Field -> Values] /\ sent \in 0 .. MaxMessages
      BY MaxMessagesAssumption DEF Init, Values
    <2>2. registry \in [Slot -> Levels]
      BY NoneAssumption DEF Init, NamedKeys, Levels
    <2> QED BY <1>1, <2>1, <2>2, NothingParts DEF Init, TypeOK
  <1>3. PartsOK /\ CacheOK /\ QueueOK /\ ShownOK /\ JamOK
    BY <1>1, NothingParts, BlankParts DEF Init, PartsOK, CacheOK, QueueOK, ShownOK, JamOK, AboutJam
  <1>4. NamesOK /\ OpenersOK
    BY <1>1, NothingParts, BlankParts DEF Init, NamesOK, Fits, NamedKeys, OpenersOK, KeyOK
  <1> QED BY <1>2, <1>3, <1>4 DEF IndInv

LEMMA StepKeeps == IndInv /\ [Next]_vars => IndInv'
  <1> SUFFICES ASSUME IndInv, [Next]_vars PROVE IndInv'
    OBVIOUS
  <1>1. CASE Next
    BY <1>1, HandleNextKeeps, ConnectsKeeps, DropsKeeps, SetupKeeps, RestKeeps, LockActsKeep DEF Next
  <1>2. CASE UNCHANGED vars
    <2>1. TypeOK' /\ PartsOK' /\ CacheOK' /\ QueueOK' /\ ShownOK'
      BY <1>2 DEF vars, lockVars, relayVars, dataVars, restVars, ghostVars, IndInv, TypeOK, PartsOK, CacheOK,
                  QueueOK, ShownOK, SpeaksLast, Patched
    <2>2. JamOK' /\ NamesOK' /\ OpenersOK'
      BY <1>2 DEF vars, lockVars, relayVars, dataVars, restVars, ghostVars, IndInv, JamOK, AboutJam, NamesOK, Fits,
                  OpenersOK, KeyOK
    <2> QED BY <2>1, <2>2 DEF IndInv
  <1> QED BY <1>1, <1>2

(* The inductive invariant holds in every reachable state. *)
THEOREM Invariance == Spec => []IndInv
  BY InitHolds, StepKeeps, PTL DEF Spec

(* What is shown keeps its type, whatever messages and answers are merged.      *)
THEOREM TypeCorrect == Spec => []TypeOK
  <1>1. IndInv => TypeOK
    BY DEF IndInv
  <1> QED BY <1>1, Invariance, PTL

(* Whatever was missed and in whatever order messages, answers and setups come, *)
(* a client that has read everything shows each field as the lock has it, apart *)
(* from the exceptions that outdated records (__init__.py 422-435).             *)
THEOREM FieldsAgree == Spec => []SettledAgrees
  BY Consequences, Invariance, PTL

(* The jam that is shown is the lock's own last word on it, read or brought back *)
(* under the retained message's header, but for the exceptions that outdated     *)
(* records (452-456).                                                           *)
THEOREM JamAgrees == Spec => []SettledJam
  BY Consequences, Invariance, PTL

-----------------------------------------------------------------------------
(* Names. *)

(* Of two keys only one has the pin type and the pinId of an opening.           *)
LEMMA OneOpener ==
  ASSUME NEW m \in Message, NEW known, NEW s \in Slot,
         known[s] \in Owner, m.access = s[1], m.pin = s[2]
  PROVE  Users(m, known) = {known[s]}
  <1>1. \A r \in Slot : r[2] = s[2] /\ s[1] \in {r[1], "SVR"} => r = s
    BY SlotAssumption
  <1>2. known[s] # "absent"
    BY OwnerAssumption
  <1>3. Openers(m, known) = {s}
    BY <1>1, <1>2 DEF Openers
  <1> QED BY <1>3 DEF Users, Name

LEMMA AppendIsLonger ==
  ASSUME NEW S, NEW q \in Seq(S), NEW m \in S
  PROVE  Len(Append(q, m)) = Len(q) + 1
  OBVIOUS

LEMMA AppendAny ==
  ASSUME queue \in Seq(Message), NEW m
  PROVE  Len(Append(queue, m)) = Len(queue) + 1
  <1> DEFINE S == Message \cup {m}
  <1>1. queue \in Seq(S)
    OBVIOUS
  <1>2. m \in S
    OBVIOUS
  <1> HIDE DEF S
  <1> QED BY <1>1, <1>2, AppendIsLonger, Zenon

(* A step that handles a message is HandleNext. *)
LEMMA HandlesIsHandleNext ==
  ASSUME IndInv, [Next]_vars, conn, conn', queue # <<>>, queue' = Tail(queue)
  PROVE  HandleNext
  <1>1. queue' # queue /\ \A m : queue' # Append(queue, m)
    <2>1. Len(Tail(queue)) = Len(queue) - 1 /\ Len(queue) \in Nat
      BY DEF IndInv, PartsOK
    <2>2. queue \in Seq(Message)
      BY DEF IndInv, PartsOK
    <2>3. \A m : Len(Append(queue, m)) = Len(queue) + 1
      BY <2>2, AppendAny, Zenon
    <2>4. ASSUME queue' = queue
          PROVE  FALSE
      <3>1. Len(queue) = Len(queue) - 1
        BY <2>1, <2>4, Zenon
      <3>2. Len(queue) \in Nat
        BY <2>1
      <3> QED BY <3>1, <3>2
    <2>5. ASSUME NEW m, queue' = Append(queue, m)
          PROVE  FALSE
      <3>1. Len(queue') = Len(queue) + 1
        BY <2>3, <2>5, Zenon
      <3>2. Len(queue') = Len(queue) - 1 /\ Len(queue) \in Nat
        BY <2>1
      <3> HIDE <2>5
      <3> QED BY <3>1, <3>2
    <2> QED BY <2>4, <2>5
  <1>2. ~LockActs
    <2>1. \A m : ~Publish(m)
      BY <1>1 DEF Publish
    <2> QED BY <2>1 DEF LockActs, MovedWithoutKey, DoorNotClosed, Dump, OpenedWith, KeyAdded, KeyRemoved, ModeChanges
  <1>3. ~RestActs
    BY <1>1 DEF RestActs, CloudAnswersStatus, CloudAnswersList, MergesStatus, ReplacesRegistry, RefreshFails,
                relayVars
  <1>4. ~Connects /\ ~Drops /\ ~Setup
    BY DEF Connects, Drops, Setup, IndInv, TypeOK
  <1>5. ~UNCHANGED vars
    BY <1>1 DEF vars, relayVars
  <1> QED BY <1>2, <1>3, <1>4, <1>5 DEF Next

(* Whatever keys there are, an opening with one whose name is known shows it,   *)
(* since _merge_pin_registry keeps a name that a message does not have.         *)
THEOREM NamesAreKept == Spec => KnownAreNamed
  <1>1. IndInv /\ [Next]_vars => [KnownIsNamed]_vars
    <2> SUFFICES ASSUME IndInv, [Next]_vars, NEW s \in Slot, conn, conn', queue # <<>>, queue' = Tail(queue),
                        IsOpening(Head(queue)), registry[s] \in Owner,
                        Head(queue).access = s[1], Head(queue).pin = s[2]
                 PROVE  user' \in {registry[s], Head(queue).pins[s]} \cap Owner
      BY DEF KnownIsNamed, Handles
    <2> DEFINE m == Head(queue)
               known == MergePins(registry, m.pins)
    <2>1. HandleNext
      BY HandlesIsHandleNext
    <2>2. user' \in Users(m, known)
      BY <2>1 DEF HandleNext
    <2>3. m \in Message
      BY TailParts DEF IndInv, TypeOK, PartsOK
    <2>4. known[s] \in {registry[s], m.pins[s]} \cap Owner
      BY OwnerAssumption DEF MergePins
    <2>5. Users(m, known) = {known[s]}
      <3> HIDE DEF m, known
      <3>1. m.access = s[1] /\ m.pin = s[2]
        BY DEF m
      <3> QED BY <2>3, <2>4, <3>1, OneOpener
    <2> QED BY <2>2, <2>4, <2>5
  <1> QED BY <1>1, Invariance, PTL DEF Spec, KnownAreNamed

(* Only the key that was used can be taken for it, unless the opening was remote *)
(* and another key with its pinId is known; without a key, none.                *)
LEMMA OnlyTheKey ==
  ASSUME NEW m \in Message, KeyOK(m), m.kind = "lock", m.access = "SVR" => Unambiguous(m)
  PROVE  Openers(m, MergePins(registry, m.pins)) \subseteq {m.key} \cap Slot
  <1> DEFINE known == MergePins(registry, m.pins)
  <1> SUFFICES ASSUME NEW s \in Slot, known[s] # "absent", s[2] = m.pin, m.access \in {s[1], "SVR"}, s # m.key
               PROVE  FALSE
    BY DEF Openers
  <1>1. registry[s] # "absent" \/ m.pins[s] # "absent"
    BY DEF MergePins
  <1>2. m.access # "SVR"
    BY <1>1 DEF Unambiguous
  <1>3. m.access = s[1] /\ m.access \notin {"INDOOR", "AUTO"}
    BY <1>2, SlotAssumption
  <1>4. m.key # None /\ m.pin = m.key[2] /\ m.access = m.key[1]
    BY <1>2, <1>3 DEF KeyOK
  <1>5. m.key \in Slot
    BY <1>4 DEF Message
  <1>6. s = m.key
    BY <1>3, <1>4, <1>5, SlotAssumption
  <1> QED BY <1>6

(* Whatever keys there are, come and go, and however pinIds clash, the one shown *)
(* is the owner of the key that opened the door, but for the exceptions of       *)
(* NobodyElse (463-471, 545-547).                                               *)
THEOREM RightUser == Spec => NobodyElse
  <1>1. IndInv /\ [Next]_vars => [ShownOpened]_vars
    <2> DEFINE m == Head(queue)
               known == MergePins(registry, m.pins)
    <2> SUFFICES ASSUME IndInv, [Next]_vars, conn, conn', queue # <<>>, queue' = Tail(queue),
                        IsOpening(m), m.key \notin reused, m.access = "SVR" => Unambiguous(m)
                 PROVE  user' \in {None, m.by}
      BY DEF ShownOpened, Handles
    <2>1. HandleNext
      BY HandlesIsHandleNext
    <2>2. user' \in Users(m, known)
      BY <2>1 DEF HandleNext
    <2>3. m \in Message /\ m = queue[1] /\ 1 \in DOMAIN queue
      BY TailParts DEF IndInv, TypeOK, PartsOK
    <2>4. KeyOK(m) /\ m.kind = "lock" /\ (m.key # None => m.by = owner[m.key])
      BY <2>3 DEF IndInv, OpenersOK, IsOpening
    <2>5. Openers(m, known) \subseteq {m.key} \cap Slot
      BY <2>3, <2>4, OnlyTheKey
    <2>6. ASSUME m.key \in Slot
          PROVE  Fits(registry[m.key], m.key) /\ Fits(m.pins[m.key], m.key)
      BY <2>3, <2>6 DEF IndInv, NamesOK
    <2>7. ASSUME m.key \in Slot
          PROVE  Name(known, m.key) \in {None, m.by}
      <3>1. known[m.key] \in {registry[m.key], m.pins[m.key]} /\ m.key # None
        BY <2>7, NoneAssumption DEF MergePins
      <3>2. known[m.key] \in {"absent", "nameless", m.by}
        BY <2>4, <2>6, <2>7, <3>1 DEF Fits
      <3> QED BY <3>2, OwnerAssumption DEF Name
    <2> HIDE DEF m, known
    <2>8. \A s \in Openers(m, known) : Name(known, s) \in {None, m.by}
      BY <2>5, <2>7
    <2> QED BY <2>2, <2>8 DEF Users
  <1> QED BY <1>1, Invariance, PTL DEF Spec, NobodyElse

=============================================================================
