---------------------------- MODULE KeySafetyProofs ----------------------------
(* What KeyLifecycle makes sure of at the lock, for every set of locks, calls   *)
(* and tokens and every bound on what is in flight: commands find their key, no *)
(* lock ever has two keys of ours, and client, hass.data and entry agree on it. *)
EXTENDS KeyLifecycleProofs

-----------------------------------------------------------------------------
(* What a step of a task does.                                              *)

(* What a step of task t may do that no reset has made: it asks for the token *)
(* in force, or sends a command, or nothing, over the connection it has.      *)
Moves(t) ==
    /\ UNCHANGED <<token, stopped, known>> /\ registered \subseteq registered'
    /\ \/ /\ Asks(t) /\ up /\ LockOf(t) \notin registered /\ arg'[t] = token[LockOf(t)]
          /\ asked' = asked \cup {<<LockOf(t), token[LockOf(t)]>>}
       \/ /\ asked' = asked /\ pc'[t] \notin {"reg", "del"}
          /\ pc'[t] \in {"wake", "set"} \/ (pc[t] = "wake" /\ pc'[t] = "ok") => up

LEMMA SettleMoves ==
  ASSUME TypeOK, NEW t \in Task, NEW r \in {"ok", "error"}, Settle(t, r),
         pc[t] # "wake" \/ up \/ r = "error",
         UNCHANGED <<token, stopped, known, asked>>, registered \subseteq registered'
  PROVE  Moves(t)
  <1>1. pc'[t] \in {"idle", r}
    BY DEF TypeOK, Settle
  <1> QED BY <1>1 DEF Moves

LEMMA CommandMoves ==
  ASSUME TypeOK, NEW t \in Task, NEW o, Command(t, o), pc[t] # "wake",
         UNCHANGED <<token, stopped, known>>, registered \subseteq registered'
  PROVE  Moves(t)
  <1>1. ASSUME NEW at \in {"wake", "set"}, NEW k, Publish(t, at, k)
        PROVE  Moves(t)
    <2>1. CASE up /\ pc' = [pc EXCEPT ![t] = at]
      BY <2>1 DEF TypeOK, Command, Moves
    <2>2. CASE Settle(t, "error")
      BY <2>2, SettleMoves DEF Command
    <2> QED BY <1>1, <2>1, <2>2 DEF Publish
  <1>2. CASE Settle(t, "ok")
    BY <1>2, SettleMoves DEF Command
  <1> QED BY <1>1, <1>2 DEF Command

LEMMA RegisterLockedMoves ==
  ASSUME TypeOK, NEW t \in Task, pc[t] \notin {"reg", "wake"}, LockOf(t) \notin registered,
         RegisterLocked(t, token[LockOf(t)]), UNCHANGED <<token, stopped, known, registered>>
  PROVE  Moves(t)
  <1>1. CASE up
    BY <1>1 DEF TypeOK, RegisterLocked, Publish, Settle, Asks, Moves
  <1>2. CASE ~up
    BY <1>2, SettleMoves DEF RegisterLocked, Publish
  <1> QED BY <1>1, <1>2

LEMMA RegisterNowMoves ==
  ASSUME TypeOK, NEW t \in Task, pc[t] \notin {"reg", "wake"}, LockOf(t) \notin registered,
         RegisterNow(t, token[LockOf(t)]), UNCHANGED <<token, stopped, known, registered>>
  PROVE  Moves(t)
  <1>1. CASE pc' = [pc EXCEPT ![t] = "wait"] /\ asked' = asked
    BY <1>1 DEF TypeOK, Moves
  <1> QED BY <1>1, RegisterLockedMoves DEF RegisterNow

LEMMA RequestMoves ==
  ASSUME TypeOK, NEW c \in Call, NEW o, Request(c, o)
  PROVE  Moves(c)
  <1>1. c \in Task /\ LockOf(c) = Target[c]
    BY LockOfCall
  <1>2. pc[c] = "idle" /\ UNCHANGED <<token, stopped, known, registered>>
    BY DEF Request, Begin, linkVars
  <1>3. CASE Settle(c, "error") /\ UNCHANGED asked
    BY <1>1, <1>2, <1>3, SettleMoves
  <1>4. CASE Command(c, o)
    BY <1>1, <1>2, <1>4, CommandMoves
  <1>5. CASE Target[c] \notin registered /\ RegisterNow(c, token[Target[c]])
    BY <1>1, <1>2, <1>5, RegisterNowMoves
  <1> QED BY <1>3, <1>4, <1>5 DEF Request

LEMMA EnsureMoves ==
  ASSUME TypeOK, NEW c \in Call, EnsureRegistered(c)
  PROVE  Moves(c)
  <1>1. c \in Task /\ LockOf(c) = Target[c]
    BY LockOfCall
  <1>2. pc[c] = "idle" /\ UNCHANGED <<token, stopped, known, registered>>
    BY DEF EnsureRegistered, Begin, linkVars
  <1>3. CASE (Settle(c, "ok") \/ Settle(c, "error")) /\ UNCHANGED asked
    BY <1>1, <1>2, <1>3, SettleMoves
  <1>4. CASE Target[c] \notin registered /\ RegisterNow(c, token[Target[c]])
    BY <1>1, <1>2, <1>4, RegisterNowMoves
  <1> QED BY <1>3, <1>4 DEF EnsureRegistered

LEMMA AcquireMoves ==
  ASSUME TypeOK, NEW t \in Task, Acquire(t)
  PROVE  Moves(t)
  <1>1. pc[t] = "wait" /\ UNCHANGED <<token, stopped, known, registered>>
    BY DEF Acquire, linkVars
  <1> QED BY <1>1, CommandMoves, RegisterLockedMoves DEF Acquire

LEMMA ResumeMoves ==
  ASSUME TypeOK, NEW t \in Task, Resume(t)
  PROVE  Moves(t)
  <1>1. UNCHANGED <<token, stopped, known>> /\ registered \subseteq registered'
    BY DEF Resume, ResumeReg, ResumeWake, ResumeLast, linkVars, ghostVars
  <1>2. CASE ResumeReg(t)
    BY <1>1, <1>2, CommandMoves DEF ResumeReg
  <1>3. CASE ResumeWake(t)
    BY <1>1, <1>3, SettleMoves DEF ResumeWake, ghostVars
  <1>4. CASE ResumeLast(t)
    BY <1>1, <1>4, SettleMoves DEF ResumeLast, ghostVars
  <1> QED BY <1>2, <1>3, <1>4 DEF Resume

-----------------------------------------------------------------------------
(* The commands in flight to a lock.                                        *)

(* The commands on their way to lock l stay what they are. *)
AsBefore(l) ==
    \A i \in 1 .. Len(net[l]) : /\ net'[l][i].func = net[l][i].func
                                /\ net'[l][i].tok = net[l][i].tok

(* Nothing joins or leaves them. *)
Kept(l) == Len(net'[l]) = Len(net[l]) /\ AsBefore(l)

(* Command f with token k joins them. *)
Sent(l, f, k) ==
    /\ Len(net'[l]) = Len(net[l]) + 1 /\ AsBefore(l)
    /\ net'[l][Len(net[l]) + 1].func = f /\ net'[l][Len(net[l]) + 1].tok = k

(* The first of them is gone. *)
Delivered(l) ==
    /\ net[l] # <<>>
    /\ Len(net'[l]) = Len(net[l]) - 1
    /\ \A i \in 1 .. Len(net'[l]) : net'[l][i] = net[l][i + 1]

LEMMA ForgetAt ==
  ASSUME NEW q \in Seq(Message), NEW ts
  PROVE  /\ Forget(ts, q) \in Seq(Message) /\ Len(Forget(ts, q)) = Len(q)
         /\ \A i \in 1 .. Len(q) : /\ Forget(ts, q)[i].func = q[i].func
                                  /\ Forget(ts, q)[i].tok = q[i].tok
  <1>1. Forget(ts, q) \in Seq(Message) /\ Len(Forget(ts, q)) = Len(q)
    BY ForgetTypes
  <1>2. ASSUME NEW i \in 1 .. Len(q)
        PROVE  Forget(ts, q)[i].func = q[i].func /\ Forget(ts, q)[i].tok = q[i].tok
    <2>1. Forget(ts, q)[i] = IF q[i].by \in ts THEN [q[i] EXCEPT !.by = NoTask] ELSE q[i]
      BY DEF Forget
    <2>2. q[i] \in Message
      OBVIOUS
    <2>3. \A m \in Message : /\ [m EXCEPT !.by = NoTask].func = m.func
                             /\ [m EXCEPT !.by = NoTask].tok = m.tok
      BY DEF Message
    <2> QED BY <2>1, <2>2, <2>3
  <1> QED BY <1>1, <1>2

LEMMA ForgetAllKept ==
  ASSUME NetOK, NEW ts, net' = ForgetAll(ts), NEW l \in Lock
  PROVE  Kept(l)
  <1>1. net[l] \in Seq(Message) /\ net'[l] = Forget(ts, net[l])
    BY DEF NetOK, ForgetAll
  <1> QED BY <1>1, ForgetAt DEF Kept, AsBefore

(* A step of task t reaches the network as nothing or as one command. *)
LEMMA TransmitSends ==
  ASSUME NetOK, NEW t \in Task, Transmit(t),
         \/ Publication(t) = <<>>
         \/ \E m \in Message : Publication(t) = <<m>>
  PROVE  /\ \A l \in Lock \ {LockOf(t)} : net'[l] = net[l]
         /\ Publication(t) = <<>> => Kept(LockOf(t))
         /\ \A m \in Message : Publication(t) = <<m>> => Sent(LockOf(t), m.func, m.tok)
  <1> DEFINE q == Forget({t}, net[LockOf(t)])
  <1>1. LockOf(t) \in Lock
    BY LockOfType
  <1>2. /\ q \in Seq(Message) /\ Len(q) = Len(net[LockOf(t)])
        /\ \A i \in 1 .. Len(net[LockOf(t)]) : /\ q[i].func = net[LockOf(t)][i].func
                                               /\ q[i].tok = net[LockOf(t)][i].tok
    BY <1>1, ForgetAt DEF NetOK
  <1>3. net' = [net EXCEPT ![LockOf(t)] = q \o Publication(t)]
    BY DEF Transmit
  <1>4. net'[LockOf(t)] = q \o Publication(t) /\ \A l \in Lock \ {LockOf(t)} : net'[l] = net[l]
    BY <1>1, <1>3 DEF NetOK
  <1> HIDE DEF q
  <1>5. CASE Publication(t) = <<>>
    <2>1. q \o <<>> = q
      BY <1>2
    <2>2. \A m \in Message : Publication(t) # <<m>>
      BY <1>5
    <2> QED BY <1>2, <1>4, <1>5, <2>1, <2>2 DEF Kept, AsBefore
  <1>6. ASSUME NEW m \in Message, Publication(t) = <<m>>
        PROVE  Sent(LockOf(t), m.func, m.tok)
    <2>1. /\ Len(q \o <<m>>) = Len(q) + 1 /\ (q \o <<m>>)[Len(q) + 1] = m
          /\ \A i \in 1 .. Len(q) : (q \o <<m>>)[i] = q[i]
      BY <1>2
    <2> QED BY <1>2, <1>4, <1>6, <2>1 DEF Sent, AsBefore
  <1> QED BY <1>4, <1>5, <1>6

(* What a step of task t publishes when no reset runs: a 408 for a token the   *)
(* client asks for now, or a command with a key it has reason to trust.        *)
Asked(l) ==
    /\ l \notin registered /\ Sent(l, "reg", token[l])
    /\ asked' = asked \cup {<<l, token[l]>>}
    /\ ~CancelEnabled => <<l, token[l]>> \notin asked \cup known

Commanded(l) ==
    /\ asked' = asked
    /\ \E f \in {"wake", "set", "trigger"}, k \in Token :
           Sent(l, f, k) /\ <<l, k>> \in asked \cup known

(* The task steps of KeyNext, as lock l and its network see them. *)
Sends(l) ==
    /\ UNCHANGED <<token, stopped, known, pins, cloud>> /\ registered \subseteq registered'
    /\ \A m \in Lock \ {l} : net'[m] = net[m]
    /\ \/ Kept(l) /\ asked' = asked
       \/ ~stopped /\ (Asked(l) \/ Commanded(l))

LEMMA MovesSend ==
  ASSUME IndInv, IndInv', Next, KeyInv, KeyInv', ~ResetEnabled,
         NEW t \in Task, Moves(t), Transmit(t), UNCHANGED doorVars
  PROVE  Sends(LockOf(t))
  <1>0. LockOf(t) \in Lock /\ NetOK /\ TypeOK /\ ArgOK'
    BY LockOfType DEF KeyInv
  <1>1. UNCHANGED <<token, stopped, known, pins, cloud>> /\ registered \subseteq registered'
    BY DEF Moves, doorVars
  <1>2. up => ~stopped
    BY DEF IndInv, StoppedIsDown
  <1>3. CASE Asks(t) /\ up /\ LockOf(t) \notin registered /\ arg'[t] = token[LockOf(t)]
             /\ asked' = asked \cup {<<LockOf(t), token[LockOf(t)]>>}
    <2> DEFINE m == [func |-> "reg", tok |-> token[LockOf(t)], by |-> t]
    <2>1. Publication(t) = <<m>>
      BY <1>3 DEF Asks, Publication, AckTypes
    <2>2. m \in Message
      BY <1>0 DEF Message, AckTypes, TypeOK
    <2>3. Sent(LockOf(t), "reg", token[LockOf(t)]) /\ \A l \in Lock \ {LockOf(t)} : net'[l] = net[l]
      BY <1>0, <2>1, <2>2, TransmitSends
    <2>4. ~CancelEnabled => <<LockOf(t), token[LockOf(t)]>> \notin asked \cup known
      BY <1>3, NextAsksOnce
    <2> QED BY <1>1, <1>2, <1>3, <2>3, <2>4 DEF Sends, Asked
  <1>4. CASE /\ asked' = asked /\ pc'[t] \notin {"reg", "del"}
             /\ pc'[t] \in {"wake", "set"} \/ (pc[t] = "wake" /\ pc'[t] = "ok") => up
    <2>1. ASSUME NEW f \in {"wake", "set", "trigger"}, NEW k \in Token,
                 NEW b \in Task \cup {NoTask},
                 Publication(t) = <<[func |-> f, tok |-> k, by |-> b]>>,
                 <<LockOf(t), k>> \in asked \cup known, up
          PROVE  Sends(LockOf(t))
      <3> DEFINE m == [func |-> f, tok |-> k, by |-> b]
      <3>1. m \in Message
        BY DEF Message, AckTypes
      <3>2. Sent(LockOf(t), f, k) /\ \A l \in Lock \ {LockOf(t)} : net'[l] = net[l]
        BY <1>0, <2>1, <3>1, TransmitSends
      <3> QED BY <1>1, <1>2, <1>4, <2>1, <3>2 DEF Sends, Commanded
    <2>2. CASE pc'[t] \in AckTypes \ {pc[t]}
      <3>1. pc'[t] \in {"wake", "set"} /\ up
        BY <1>4, <2>2 DEF AckTypes
      <3>2. arg'[t] \in Token
        BY <1>0, <2>2 DEF ArgOK
      <3>3. <<LockOf(t), arg'[t]>> \in asked \cup known
        BY <1>1, <1>4, <3>1 DEF IndInv, CommandTokenKnown
      <3>4. Publication(t) = <<[func |-> pc'[t], tok |-> arg'[t], by |-> t]>>
        BY <2>2 DEF Publication
      <3> QED BY <2>1, <3>1, <3>2, <3>3, <3>4
    <2>3. CASE pc'[t] \notin AckTypes \ {pc[t]} /\ pc[t] = "wake" /\ pc'[t] = "ok"
      <3>1. arg[t] \in Token
        BY <2>3 DEF KeyInv, ArgOK, AckTypes
      <3>2. <<LockOf(t), arg[t]>> \in asked \cup known
        BY <2>3 DEF IndInv, CommandTokenKnown
      <3>3. Publication(t) = <<[func |-> "trigger", tok |-> arg[t], by |-> NoTask]>>
        BY <2>3 DEF Publication
      <3> QED BY <1>4, <2>1, <2>3, <3>1, <3>2, <3>3
    <2>4. CASE pc'[t] \notin AckTypes \ {pc[t]} /\ ~(pc[t] = "wake" /\ pc'[t] = "ok")
      <3>1. Publication(t) = <<>>
        BY <2>4 DEF Publication
      <3>2. Kept(LockOf(t)) /\ \A l \in Lock \ {LockOf(t)} : net'[l] = net[l]
        BY <1>0, <3>1, TransmitSends
      <3> QED BY <1>1, <1>4, <3>2 DEF Sends
    <2> QED BY <2>2, <2>3, <2>4
  <1> QED BY <1>3, <1>4 DEF Moves

(* A cloud answer: the key k it lists for lock l is trusted from now on. *)
Sees(l, k) ==
    /\ UNCHANGED <<stopped, asked, net, pins, cloud>> /\ registered \subseteq registered'
    /\ k \in Listed(l) /\ l \in registered'
    /\ known \subseteq known' /\ known' \subseteq known \cup {<<l, k>>}
    /\ \A m \in Lock \ {l} : token'[m] = token[m]

Quiet == UNCHANGED <<token, stopped, registered, asked, known, net, pins, cloud>>

Halts == stopped' /\ UNCHANGED <<pins, cloud>> /\ \A l \in Lock : Kept(l)

(* Every step of the composition, without resets, is one of these. *)
LEMMA StepKinds ==
  ASSUME IndInv, IndInv', KeyInv, KeyInv', ~ResetEnabled, [KeyNext]_allVars
  PROVE  \/ \E l \in Lock : Sends(l)
         \/ \E l \in Lock, k \in Token : Sees(l, k)
         \/ Quiet \/ Halts \/ OutsideSteps
         \/ \E toks \in [Lock -> Token], read \in SUBSET Lock : SetupEnds(read, toks)
  <1>0. [Next]_vars /\ TypeOK /\ NetOK
    BY KeyStep DEF KeyInv
  <1>1. ASSUME NEW t \in Task, Moves(t), Transmit(t), UNCHANGED doorVars
        PROVE  \E l \in Lock : Sends(l)
    <2>1. LockOf(t) \in Lock
      BY LockOfType
    <2>2. CASE Next
      BY <1>1, <2>1, <2>2, MovesSend
    <2>3. CASE UNCHANGED vars
      <3>1. UNCHANGED <<token, stopped, registered, known, asked, pc, arg>>
        BY <2>3 DEF vars
      <3>2. Publication(t) = <<>>
        BY <3>1 DEF Publication
      <3>3. Kept(LockOf(t)) /\ \A l \in Lock \ {LockOf(t)} : net'[l] = net[l]
        BY <1>0, <1>1, <3>2, TransmitSends
      <3> QED BY <1>1, <2>1, <3>1, <3>3 DEF Sends, doorVars
    <2> QED BY <1>0, <2>2, <2>3
  <1>2. CASE ClientSteps
    <2>1. CASE Online \/ Offline
      BY <2>1 DEF Online, Offline, Connect, Drop, Quiet, taskVars, ghostVars, netVars, doorVars
    <2>2. ASSUME NEW l \in Lock, NEW acks, HandleMessage(l, TRUE, acks),
                 net' = net, doorVars' = doorVars
          PROVE  Quiet
      BY <2>2 DEF HandleMessage, linkVars, ghostVars, Quiet, doorVars
    <2>3. ASSUME NEW l \in Lock, Traffic(l) PROVE Quiet
      BY <2>2, <2>3 DEF Traffic, netVars
    <2>4. ASSUME NEW t \in Task, AckArrives(t) PROVE Quiet
      BY <2>2, <2>4, LockOfType DEF AckArrives
    <2>5. ASSUME NEW t \in Task, Acquires(t) \/ Resumes(t) PROVE \E l \in Lock : Sends(l)
      BY <1>0, <1>1, <2>5, AcquireMoves, ResumeMoves DEF Acquires, Resumes
    <2>6. ASSUME NEW c \in Call, Unlock(c) \/ SetMode(c) PROVE \E l \in Lock : Sends(l)
      <3>1. c \in Task /\ Moves(c)
        BY <1>0, <2>6, LockOfCall, RequestMoves DEF Unlock, SetMode, AsyncUnlock, AsyncSetMode
      <3> QED BY <1>1, <2>6, <3>1 DEF Unlock, SetMode
    <2>7. ASSUME NEW c \in Call, CallReturns(c) PROVE Quiet
      BY <2>7 DEF CallReturns, Return, linkVars, ghostVars, netVars, doorVars, Quiet
    <2> QED BY <1>2, <2>1, <2>3, <2>4, <2>5, <2>6, <2>7 DEF ClientSteps
  <1>3. CASE FlowSteps
    <2> PICK c \in Call :
           \/ RefreshBegins(c) \/ ResetBegins(c) \/ CloudFails(c) \/ CallCancelled(c)
           \/ FlowProgress(c)
      BY <1>3 DEF FlowSteps
    <2>0. Target[c] \in Lock /\ c \in Task
      BY LockOfCall
    <2>1. CASE RefreshBegins(c) \/ CloudFails(c)
      BY <2>1 DEF RefreshBegins, CloudFails, vars, netVars, doorVars, Quiet
    <2>2. ASSUME NEW k \in Token, k \in Listed(Target[c]), netVars' = netVars, doorVars' = doorVars,
                 vars' = vars \/ MarkRegistered(Target[c], k) \/ AdoptToken(Target[c], k)
          PROVE  Quiet \/ Sees(Target[c], k)
      <3>1. CASE vars' = vars
        BY <2>2, <3>1 DEF vars, netVars, doorVars, Quiet
      <3>2. CASE MarkRegistered(Target[c], k) \/ AdoptToken(Target[c], k)
        BY <1>0, <2>0, <2>2, <3>2
           DEF MarkRegistered, AdoptToken, linkVars, netVars, doorVars, Sees, TypeOK
      <3> QED BY <2>2, <3>1, <3>2
    <2>3. CASE RefreshConfirms(c)
      <3>1. /\ seen[c] \in Token /\ seen[c] \in Listed(Target[c])
            /\ netVars' = netVars /\ doorVars' = doorVars
        BY <2>3 DEF RefreshConfirms, Listed
      <3>2. vars' = vars \/ MarkRegistered(Target[c], seen[c])
        BY <2>3 DEF RefreshConfirms
      <3> QED BY <2>0, <2>2, <3>1, <3>2
    <2>4. ASSUME NEW k \in Token, RefreshAdopts(c, k)
          PROVE  Quiet \/ Sees(Target[c], k)
      <3>1. k \in Listed(Target[c]) /\ netVars' = netVars /\ doorVars' = doorVars
        BY <2>4 DEF RefreshAdopts
      <3>2. vars' = vars \/ AdoptToken(Target[c], k)
        BY <2>4 DEF RefreshAdopts
      <3> QED BY <2>2, <3>1, <3>2
    <2>5. CASE RefreshEnsures(c)
      <3>1. CASE c \in stale
        BY <2>5, <3>1 DEF RefreshEnsures, vars, netVars, doorVars, Quiet
      <3>2. CASE c \notin stale
        BY <1>0, <1>1, <2>0, <2>5, <3>2, EnsureMoves DEF RefreshEnsures
      <3> QED BY <3>1, <3>2
    <2>6. CASE EnsureReturns(c) \/ DeleteReturns(c)
      BY <2>6 DEF EnsureReturns, DeleteReturns, Return, linkVars, ghostVars, netVars,
         doorVars, Quiet
    <2>7. ~ResetBegins(c) /\ ~ResetLists(c)
          /\ \A k \in Token : ~ResetDeletes(c, k) /\ ~ResetReplaces(c, k)
      BY DEF ResetBegins, ResetLists, ResetDeletes, ResetReplaces, KeyInv, FlowAllowed
    <2>8. CASE CallCancelled(c)
      <3>1. /\ UNCHANGED <<token, stopped, registered, known, asked, pins, cloud>>
            /\ Transmit(c) /\ pc'[c] = "error"
        BY <1>0, <2>0, <2>8, LockOfCall
           DEF CallCancelled, Cancel, Settle, TypeOK, linkVars, ghostVars, doorVars
      <3>2. Publication(c) = <<>>
        BY <3>1 DEF Publication, AckTypes
      <3>3. Kept(LockOf(c)) /\ \A l \in Lock \ {LockOf(c)} : net'[l] = net[l]
        BY <1>0, <2>0, <3>1, <3>2, TransmitSends
      <3> QED BY <2>0, <3>1, <3>3, LockOfType DEF Sends
    <2> QED BY <2>0, <2>1, <2>3, <2>4, <2>5, <2>6, <2>7, <2>8 DEF FlowProgress
  <1>4. CASE EntrySteps
    <2>1. CASE Save \/ \E toks \in [Lock -> Token] : SetupBegins(toks)
      BY <2>1 DEF Save, SetupBegins, vars, netVars, doorVars, Quiet
    <2>2. CASE Unload \/ ProcessDies
      <3>1. stopped' /\ UNCHANGED <<pins, cloud>>
        BY <2>2 DEF Unload, Stop, ProcessDies, Crash, doorVars
      <3>2. \A l \in Lock : Kept(l)
        BY <1>0, <2>2, ForgetAllKept DEF Unload, ProcessDies
      <3> QED BY <3>1, <3>2 DEF Halts
    <2> QED BY <1>4, <2>1, <2>2 DEF EntrySteps, SetupSteps
  <1>5. CASE UNCHANGED allVars
    BY <1>5 DEF allVars, vars, netVars, doorVars, Quiet
  <1> QED BY <1>2, <1>3, <1>4, <1>5 DEF KeyNext

-----------------------------------------------------------------------------
(* Commands find their key.                                                 *)

(* Lock l has key k, or the 408 that will give it k is on its way. *)
Coming(l, k) ==
    k \in OnLock(l) \/ \E i \in 1 .. Len(net[l]) : net[l][i].func = "reg" /\ net[l][i].tok = k

NoDeletion == \A l \in Lock : \A i \in 1 .. Len(net[l]) : net[l][i].func # "del"

(* The cloud may lag, but it lists no key that is not there. *)
ListIsTrue == \A l \in Lock : Listed(l) \subseteq OnLock(l)

TrustedComes ==
    ~stopped => \A l \in Lock, k \in Token : <<l, k>> \in asked \cup known => Coming(l, k)

(* The key of the i-th command is there already, or its 408 is ahead of it. *)
KeyAhead(l, i) ==
    \/ net[l][i].tok \in OnLock(l)
    \/ \E j \in 1 .. i - 1 : net[l][j].func = "reg" /\ net[l][j].tok = net[l][i].tok

KeyGoesFirst ==
    \A l \in Lock : \A i \in 1 .. Len(net[l]) :
        net[l][i].func \in {"set", "trigger"} => KeyAhead(l, i)

FindInv == NoDeletion /\ ListIsTrue /\ TrustedComes /\ KeyGoesFirst

(* What KeyInv says of the types this needs. *)
LEMMA NetTypes ==
  ASSUME KeyInv, NEW l \in Lock
  PROVE  /\ net[l] \in Seq(Message) /\ Len(net[l]) \in Nat
         /\ \A i \in 1 .. Len(net[l]) : net[l][i].tok \in Token
         /\ \A k \in Token : pins[l][k] \in 0 .. MaxCopies /\ cloud[l][k] \in 0 .. MaxCopies
  <1>1. net[l] \in Seq(Message)
    BY DEF KeyInv, NetOK
  <1>2. \A i \in 1 .. Len(net[l]) : net[l][i] \in Message
    BY <1>1
  <1>3. \A m \in Message : m.tok \in Token
    BY DEF Message
  <1> QED BY <1>1, <1>2, <1>3 DEF KeyInv, DoorOK

(* Nothing that comes to a lock is lost when its commands stay or are joined. *)
LEMMA ComingStays ==
  ASSUME KeyInv, NEW l \in Lock, NEW k, Coming(l, k), pins' = pins,
         Kept(l) \/ (\E f, u : Sent(l, f, u))
  PROVE  Coming(l, k)'
  <1>1. Len(net[l]) \in Nat
    BY NetTypes
  <1>2. Len(net'[l]) \in {Len(net[l]), Len(net[l]) + 1}
        /\ AsBefore(l)
    BY DEF Kept, Sent, AsBefore
  <1>3. \A i \in 1 .. Len(net[l]) : i \in 1 .. Len(net'[l])
    BY <1>1, <1>2
  <1> QED BY <1>2, <1>3 DEF Coming, OnLock, AsBefore

LEMMA SentComes == ASSUME KeyInv, NEW l \in Lock, NEW k, Sent(l, "reg", k) PROVE Coming(l, k)'
  <1>1. Len(net[l]) \in Nat
    BY NetTypes
  <1>2. Len(net[l]) + 1 \in 1 .. Len(net'[l])
    BY <1>1 DEF Sent, AsBefore
  <1> QED BY <1>2 DEF Sent, AsBefore, Coming

LEMMA DeletionSends ==
  ASSUME KeyInv, NoDeletion, NEW l \in Lock, Sends(l)
  PROVE  NoDeletion'
  <1>0. Len(net[l]) \in Nat /\ \A m \in Lock \ {l} : net'[m] = net[m]
    BY NetTypes DEF Sends
  <1>1. CASE Kept(l)
    BY <1>0, <1>1 DEF NoDeletion, Kept, AsBefore
  <1>2. ASSUME NEW f \in {"reg", "wake", "set", "trigger"}, NEW k, Sent(l, f, k)
        PROVE  NoDeletion'
    <2>1. \A i \in 1 .. Len(net'[l]) : i \in 1 .. Len(net[l]) \/ i = Len(net[l]) + 1
      BY <1>0, <1>2 DEF Sent, AsBefore
    <2>2. \A i \in 1 .. Len(net'[l]) : net'[l][i].func # "del"
      BY <1>2, <2>1 DEF Sent, AsBefore, NoDeletion
    <2> QED BY <1>0, <2>2 DEF NoDeletion
  <1> QED BY <1>1, <1>2 DEF Sends, Asked, Commanded

LEMMA DeletionDelivered ==
  ASSUME KeyInv, NoDeletion, NEW l \in Lock, Delivered(l), \A m \in Lock \ {l} : net'[m] = net[m]
  PROVE  NoDeletion'
  <1>1. Len(net[l]) \in Nat
    BY NetTypes
  <1>2. \A i \in 1 .. Len(net'[l]) : i + 1 \in 1 .. Len(net[l]) /\ net'[l][i] = net[l][i + 1]
    BY <1>1 DEF Delivered
  <1>3. \A i \in 1 .. Len(net'[l]) : net'[l][i].func # "del"
    BY <1>2 DEF NoDeletion
  <1> QED BY <1>3 DEF NoDeletion

LEMMA FindSends ==
  ASSUME KeyInv, FindInv, NEW l \in Lock, Sends(l)
  PROVE  FindInv'
  <1>0. Len(net[l]) \in Nat /\ \A m \in Lock \ {l} : net'[m] = net[m]
    BY NetTypes DEF Sends
  <1>1. \A m \in Lock : Kept(m) \/ (\E f, u : Sent(m, f, u))
    BY DEF Sends, Asked, Commanded, Kept, AsBefore
  <1>2. \A m \in Lock, k \in Token : Coming(m, k) => Coming(m, k)'
    BY <1>1, ComingStays DEF Sends
  <1>3. ListIsTrue'
    BY DEF FindInv, ListIsTrue, Listed, OnLock, Sends
  <1>4. NoDeletion'
    BY DeletionSends DEF FindInv
  <1>5. TrustedComes'
    <2>1. CASE asked' = asked
      BY <1>2, <2>1 DEF FindInv, TrustedComes, Sends
    <2>2. CASE Asked(l)
      <3>1. PICK k \in Token : k = token[l]
        BY DEF KeyInv, TypeOK
      <3>2. Coming(l, k)'
        BY <2>2, <3>1, SentComes DEF Asked
      <3> QED BY <1>2, <2>2, <3>1, <3>2 DEF FindInv, TrustedComes, Sends, Asked
    <2> QED BY <2>1, <2>2 DEF Sends, Commanded
  <1>6. KeyGoesFirst'
    <2>1. \A m \in Lock : OnLock(m)' = OnLock(m)
      BY DEF Sends, OnLock
    <2>2. ASSUME AsBefore(l),
                 NEW i \in 1 .. Len(net[l]), net'[l][i].func \in {"set", "trigger"}
          PROVE  KeyAhead(l, i)'
      <3>1. \A j \in 1 .. i - 1 : j \in 1 .. Len(net[l])
        BY <1>0
      <3> QED BY <2>1, <2>2, <3>1 DEF FindInv, KeyGoesFirst, KeyAhead, AsBefore
    <2>3. CASE Kept(l)
      BY <1>0, <2>1, <2>2, <2>3 DEF FindInv, KeyGoesFirst, KeyAhead, Kept, AsBefore
    <2>4. ASSUME NEW f, NEW k, Sent(l, f, k), f \in {"set", "trigger"} => Coming(l, k)
          PROVE  KeyGoesFirst'
      <3>1. \A i \in 1 .. Len(net'[l]) : i \in 1 .. Len(net[l]) \/ i = Len(net[l]) + 1
        BY <1>0, <2>4 DEF Sent, AsBefore
      <3>2. ASSUME f \in {"set", "trigger"}
            PROVE  \/ k \in OnLock(l)'
                   \/ \E j \in 1 .. (Len(net[l]) + 1) - 1 :
                          net'[l][j].func = "reg" /\ net'[l][j].tok = k
        <4>1. \A j \in 1 .. Len(net[l]) : j \in 1 .. (Len(net[l]) + 1) - 1
          BY <1>0
        <4> QED BY <2>1, <2>4, <3>2, <4>1 DEF Coming, Sent, AsBefore
      <3>3. ASSUME NEW i \in 1 .. Len(net'[l]), net'[l][i].func \in {"set", "trigger"}
            PROVE  KeyAhead(l, i)'
        <4>1. CASE i \in 1 .. Len(net[l])
          BY <2>2, <2>4, <3>3, <4>1 DEF Sent, AsBefore
        <4>2. CASE i = Len(net[l]) + 1
          <5>1. net'[l][i].func = f /\ net'[l][i].tok = k
            BY <2>4, <4>2 DEF Sent, AsBefore
          <5> QED BY <3>2, <3>3, <4>2, <5>1 DEF KeyAhead
        <4> QED BY <3>1, <4>1, <4>2
      <3>4. ASSUME NEW m \in Lock \ {l}, NEW i \in 1 .. Len(net'[m]),
                   net'[m][i].func \in {"set", "trigger"}
            PROVE  KeyAhead(m, i)'
        BY <1>0, <2>1, <3>4 DEF FindInv, KeyGoesFirst, KeyAhead
      <3> QED BY <3>3, <3>4 DEF KeyGoesFirst, KeyAhead
    <2>5. CASE ~stopped /\ Asked(l)
      BY <2>4, <2>5 DEF Asked
    <2>6. CASE ~stopped /\ Commanded(l)
      BY <2>4, <2>6 DEF Commanded, FindInv, TrustedComes
    <2> QED BY <2>3, <2>5, <2>6 DEF Sends
  <1> QED BY <1>3, <1>4, <1>5, <1>6 DEF FindInv

LEMMA FindSees ==
  ASSUME KeyInv, FindInv, NEW l \in Lock, NEW k \in Token, Sees(l, k)
  PROVE  FindInv'
  <1>1. UNCHANGED <<stopped, asked, net, pins, cloud>> /\ known' \subseteq known \cup {<<l, k>>}
    BY DEF Sees
  <1>2. Coming(l, k)
    BY DEF Sees, FindInv, ListIsTrue, Coming
  <1>3. TrustedComes'
    BY <1>1, <1>2 DEF FindInv, TrustedComes, Coming, OnLock
  <1> QED BY <1>1, <1>3 DEF FindInv, NoDeletion, ListIsTrue, KeyGoesFirst, KeyAhead, Listed, OnLock

LEMMA FindQuiet == ASSUME FindInv, Quiet PROVE FindInv'
  BY DEF Quiet, FindInv, NoDeletion, ListIsTrue, TrustedComes, KeyGoesFirst, KeyAhead,
         Coming, Listed, OnLock

LEMMA FindHalts == ASSUME KeyInv, FindInv, Halts PROVE FindInv'
  <1>1. \A l \in Lock : OnLock(l)' = OnLock(l) /\ Listed(l)' = Listed(l)
    BY DEF Halts, OnLock, Listed
  <1>2. NoDeletion' /\ ListIsTrue' /\ TrustedComes'
    BY <1>1 DEF Halts, Kept, AsBefore, FindInv, NoDeletion, ListIsTrue, TrustedComes
  <1>3. ASSUME NEW l \in Lock, NEW i \in 1 .. Len(net'[l]), net'[l][i].func \in {"set", "trigger"}
        PROVE  KeyAhead(l, i)'
    <2>1. Kept(l) /\ Len(net[l]) \in Nat
      BY NetTypes DEF Halts
    <2>2. \A j \in 1 .. i - 1 : j \in 1 .. Len(net[l])
      BY <2>1 DEF Kept, AsBefore
    <2> QED BY <1>1, <1>3, <2>1, <2>2 DEF Kept, AsBefore, FindInv, KeyGoesFirst, KeyAhead
  <1>4. KeyGoesFirst'
    BY <1>3 DEF KeyGoesFirst, KeyAhead
  <1> QED BY <1>2, <1>4 DEF FindInv

(* The new client trusts the keys that setup has seen on the list. *)
LEMMA FindSetup ==
  ASSUME KeyInv, FindInv, NEW toks \in [Lock -> Token], NEW read \in SUBSET Lock,
         SetupEnds(read, toks)
  PROVE  FindInv'
  <1>1. /\ UNCHANGED <<net, pins, cloud>>
        /\ asked' = {} /\ known' = {<<l, toks[l]>> : l \in AlreadyRegistered(read)}
    BY DEF SetupEnds, NewClient, netVars, doorVars
  <1>2. ASSUME NEW l \in Lock, l \in AlreadyRegistered(read)
        PROVE  Coming(l, toks[l])'
    <2>1. toks[l] \in Listed(l)
      BY <1>2 DEF SetupEnds, AlreadyRegistered, Adopted
    <2> QED BY <1>1, <2>1 DEF FindInv, ListIsTrue, Coming, OnLock
  <1>3. TrustedComes'
    BY <1>1, <1>2 DEF TrustedComes
  <1> QED BY <1>1, <1>3 DEF FindInv, NoDeletion, ListIsTrue, KeyGoesFirst, KeyAhead, Listed, OnLock

(* The lock carries out the first command in flight. *)
LEMMA ExecuteDelivers ==
  ASSUME KeyInv, NEW l \in Lock, Execute(l)
  PROVE  /\ Delivered(l) /\ \A m \in Lock \ {l} : net'[m] = net[m] /\ pins'[m] = pins[m]
         /\ net[l] # <<>> /\ Len(net[l]) \in Nat \ {0}
         /\ net[l][1] = Head(net[l]) /\ net[l][1].tok \in Token
         /\ pins'[l] = KeysAfter(net[l][1], pins[l])
  <1>1. net[l] \in Seq(Message) /\ net[l] # <<>>
    BY DEF Execute, KeyInv, NetOK
  <1>2. /\ Len(net[l]) \in Nat \ {0} /\ Head(net[l]) = net[l][1]
        /\ Len(Tail(net[l])) = Len(net[l]) - 1
        /\ \A i \in 1 .. Len(Tail(net[l])) : Tail(net[l])[i] = net[l][i + 1]
    BY <1>1
  <1>3. /\ net'[l] = Tail(net[l]) /\ pins'[l] = KeysAfter(Head(net[l]), pins[l])
        /\ \A m \in Lock \ {l} : net'[m] = net[m] /\ pins'[m] = pins[m]
    BY DEF Execute, KeyInv, NetOK, DoorOK
  <1>4. net[l][1].tok \in Token
    BY <1>2, NetTypes
  <1> QED BY <1>1, <1>2, <1>3, <1>4 DEF Delivered

(* What a command other than a deletion does to the keys of its lock. *)
LEMMA KeysGrow ==
  ASSUME KeyInv, NEW l \in Lock, NEW m, m.tok \in Token, m.func # "del",
         pins'[l] = KeysAfter(m, pins[l])
  PROVE  /\ OnLock(l) \subseteq OnLock(l)'
         /\ OnLock(l)' \subseteq OnLock(l) \cup {m.tok}
         /\ m.func = "reg" => m.tok \in OnLock(l)'
         /\ m.func # "reg" => pins'[l] = pins[l]
  <1>1. pins[l] \in [Token -> 0 .. MaxCopies] /\ MaxCopies \in Nat \ {0}
    BY BoundsAssumption DEF KeyInv, DoorOK
  <1> QED BY <1>1 DEF KeysAfter, OnLock

LEMMA FindExecute ==
  ASSUME KeyInv, FindInv, NEW l \in Lock, Execute(l)
  PROVE  FindInv'
  <1>0. /\ Delivered(l) /\ Len(net[l]) \in Nat \ {0} /\ net[l][1].tok \in Token
        /\ \A m \in Lock \ {l} : net'[m] = net[m] /\ pins'[m] = pins[m]
        /\ UNCHANGED <<stopped, asked, known>>
    BY ExecuteDelivers DEF Execute, vars
  <1>1. /\ OnLock(l) \subseteq OnLock(l)'
        /\ net[l][1].func = "reg" => net[l][1].tok \in OnLock(l)'
    <2>1. net[l][1].func # "del"
      BY <1>0 DEF FindInv, NoDeletion
    <2> QED BY <1>0, <2>1, ExecuteDelivers, KeysGrow
  <1>2. \A m \in Lock \ {l} : OnLock(m)' = OnLock(m)
    BY <1>0 DEF OnLock
  <1>3. \A i \in 1 .. Len(net'[l]) : i + 1 \in 1 .. Len(net[l]) /\ net'[l][i] = net[l][i + 1]
    BY <1>0 DEF Delivered
  <1>4. \A j \in 1 .. Len(net[l]) :
            j = 1 \/ (j - 1 \in 1 .. Len(net'[l]) /\ net'[l][j - 1] = net[l][j])
    <2> TAKE j \in 1 .. Len(net[l])
    <2>1. j # 1 => j - 1 \in 1 .. Len(net'[l]) /\ (j - 1) + 1 = j
      BY <1>0 DEF Delivered
    <2> QED BY <1>3, <2>1
  <1>5. NoDeletion'
    BY <1>0, DeletionDelivered DEF FindInv
  <1>6. ListIsTrue'
    <2>1. cloud' = cloud \/ cloud' = pins'
      BY DEF Execute
    <2>2. CASE cloud' = cloud
      BY <1>1, <1>2, <2>2 DEF FindInv, ListIsTrue, Listed
    <2>3. CASE cloud' = pins'
      BY <2>3 DEF ListIsTrue, Listed, OnLock
    <2> QED BY <2>1, <2>2, <2>3
  <1>7. TrustedComes'
    <2>1. ASSUME NEW m \in Lock, NEW k, Coming(m, k) PROVE Coming(m, k)'
      <3>1. CASE m = l
        BY <1>1, <1>4, <2>1, <3>1 DEF Coming
      <3>2. CASE m # l
        BY <1>0, <1>2, <2>1, <3>2 DEF Coming
      <3> QED BY <3>1, <3>2
    <2> QED BY <1>0, <2>1 DEF FindInv, TrustedComes
  <1>8. KeyGoesFirst'
    <2>1. ASSUME NEW i \in 1 .. Len(net'[l]), net'[l][i].func \in {"set", "trigger"}
          PROVE  KeyAhead(l, i)'
      <3>1. CASE net[l][i + 1].tok \in OnLock(l)
        BY <1>1, <1>3, <3>1 DEF KeyAhead
      <3>2. ASSUME NEW j \in 1 .. (i + 1) - 1, net[l][j].func = "reg",
                   net[l][j].tok = net[l][i + 1].tok
            PROVE  KeyAhead(l, i)'
        <4>1. CASE j = 1
          BY <1>1, <1>3, <3>2, <4>1 DEF KeyAhead
        <4>2. CASE j # 1
          <5>1. j - 1 \in 1 .. i - 1 /\ j \in 1 .. Len(net[l])
            BY <1>0, <4>2 DEF Delivered
          <5> QED BY <1>3, <1>4, <3>2, <4>2, <5>1 DEF KeyAhead
        <4> QED BY <4>1, <4>2
      <3> QED BY <1>3, <2>1, <3>1, <3>2 DEF FindInv, KeyGoesFirst, KeyAhead
    <2>2. ASSUME NEW m \in Lock \ {l}, NEW i \in 1 .. Len(net'[m]),
                 net'[m][i].func \in {"set", "trigger"}
          PROVE  KeyAhead(m, i)'
      BY <1>0, <1>2, <2>2 DEF FindInv, KeyGoesFirst, KeyAhead
    <2> QED BY <2>1, <2>2 DEF KeyGoesFirst, KeyAhead
  <1> QED BY <1>5, <1>6, <1>7, <1>8 DEF FindInv

LEMMA FindCatchesUp == ASSUME FindInv, CloudCatchesUp PROVE FindInv'
  <1>1. UNCHANGED <<stopped, asked, known, net, pins>> /\ cloud' = pins'
    BY DEF CloudCatchesUp, vars, netVars
  <1> QED BY <1>1 DEF FindInv, NoDeletion, ListIsTrue, TrustedComes, KeyGoesFirst, KeyAhead,
             Coming, Listed, OnLock

LEMMA FindInit == KeyInit => FindInv
  <1> SUFFICES ASSUME KeyInit PROVE FindInv
    OBVIOUS
  <1>1. \A l \in Lock : net[l] = <<>> /\ Len(net[l]) = 0
    BY DEF KeyInit
  <1>2. stopped /\ cloud = pins
    BY DEF KeyInit, Init
  <1> QED BY <1>1, <1>2 DEF FindInv, NoDeletion, ListIsTrue, TrustedComes, KeyGoesFirst,
             KeyAhead, Listed, OnLock

LEMMA FindKeeps ==
  ASSUME Faults \cap {"loss", "appdelete"} = {}, ~ResetEnabled,
         IndInv, IndInv', KeyInv, KeyInv', FindInv, [KeyNext]_allVars
  PROVE  FindInv'
  <1>1. CASE OutsideSteps
    BY <1>1, FindExecute, FindCatchesUp DEF OutsideSteps, Loses, AppDeletes
  <1> QED BY <1>1, StepKinds, FindSends, FindSees, FindQuiet, FindHalts, FindSetup

LEMMA ClientInvariant == KeySpec => []IndInv
  <1>1. Init /\ [][Next]_vars => []IndInv
    BY InitInv, NextKeeps, PTL
  <1> QED BY <1>1, ClientSafety, PTL

(* While no command is lost and nobody deletes keys, an unlock or a mode switch  *)
(* finds its key on the lock.                                                    *)
THEOREM CommandsFindTheirKey ==
  ASSUME Faults \cap {"loss", "appdelete"} = {}, ~ResetEnabled
  PROVE  KeySpec => []CommandFindsKey
  <1>1. IndInv /\ IndInv' /\ KeyInv /\ KeyInv' /\ FindInv /\ [KeyNext]_allVars => FindInv'
    BY FindKeeps
  <1>2. KeyInv /\ FindInv => CommandFindsKey
    <2> SUFFICES ASSUME KeyInv, FindInv, NEW l \in Lock, net[l] # <<>>,
                        Head(net[l]).func \in {"set", "trigger"}
                 PROVE  Head(net[l]).tok \in OnLock(l)
      BY DEF CommandFindsKey
    <2>1. net[l] \in Seq(Message) /\ 1 \in 1 .. Len(net[l]) /\ Head(net[l]) = net[l][1]
      BY DEF KeyInv, NetOK
    <2> QED BY <2>1 DEF FindInv, KeyGoesFirst, KeyAhead
  <1> QED BY <1>1, <1>2, FindInit, ClientInvariant, LifecycleInvariance, PTL DEF KeySpec

-----------------------------------------------------------------------------
(* One key at most.                                                         *)

(* At most one 408 is on its way to lock l, none while the lock has a key of   *)
(* ours, and of those it has at most one.                                      *)
OneAt(l) ==
    /\ \A i, j \in 1 .. Len(net[l]) : net[l][i].func = "reg" /\ net[l][j].func = "reg" => i = j
    /\ \A i \in 1 .. Len(net[l]) : net[l][i].func = "reg" => OnLock(l) = {}
    /\ \A k, u \in OnLock(l) : k = u /\ pins[l][k] = 1

CurrentList == cloud = pins

(* A client that has not asked lock l for a key, nor seen one there, finds none. *)
NoneBeforeAsked ==
    ~stopped => \A l \in Lock : l \notin registered /\ <<l, token[l]>> \notin asked \cup known
                                    => \A k \in Token : ~Coming(l, k)

OneInv == NoDeletion /\ CurrentList /\ (\A l \in Lock : OneAt(l)) /\ NoneBeforeAsked

(* No 408 joins those on their way to lock l, and no key its keys. *)
NoMore(l) ==
    /\ \A k \in Token : pins'[l][k] \in {0, pins[l][k]}
    /\ \E d \in {0, 1} : \A i \in 1 .. Len(net'[l]) : net'[l][i].func = "reg" =>
           /\ i + d \in 1 .. Len(net[l]) /\ net[l][i + d].func = "reg"
           /\ net[l][i + d].tok = net'[l][i].tok

LEMMA NoMoreComes ==
  ASSUME NEW l \in Lock, NoMore(l), NEW k \in Token, Coming(l, k)'
  PROVE  Coming(l, k)
  <1>1. OnLock(l)' \subseteq OnLock(l)
    BY DEF NoMore, OnLock
  <1> QED BY <1>1 DEF NoMore, Coming

LEMMA NoMoreKeeps ==
  ASSUME KeyInv, KeyInv', NEW l \in Lock, OneAt(l), NoMore(l)
  PROVE  OneAt(l)' /\ \A k \in Token : Coming(l, k)' => Coming(l, k)
  <1>0. Len(net[l]) \in Nat /\ Len(net'[l]) \in Nat
    <2>1. net'[l] \in Seq(Message)
      BY DEF KeyInv, NetOK
    <2> QED BY <2>1, NetTypes
  <1>1. OnLock(l)' \subseteq OnLock(l) /\ \A k \in OnLock(l)' : pins'[l][k] = pins[l][k]
    BY DEF NoMore, OnLock
  <1>2. PICK d \in {0, 1} : \A i \in 1 .. Len(net'[l]) : net'[l][i].func = "reg" =>
           /\ i + d \in 1 .. Len(net[l]) /\ net[l][i + d].func = "reg"
           /\ net[l][i + d].tok = net'[l][i].tok
    BY DEF NoMore
  <1>3. ASSUME NEW i \in 1 .. Len(net'[l]), NEW j \in 1 .. Len(net'[l]),
               net'[l][i].func = "reg", net'[l][j].func = "reg"
        PROVE  i = j
    <2>1. i + d = j + d
      BY <1>2, <1>3 DEF OneAt
    <2> QED BY <1>0, <2>1
  <1>4. ASSUME NEW i \in 1 .. Len(net'[l]), net'[l][i].func = "reg"
        PROVE  OnLock(l)' = {}
    BY <1>1, <1>2, <1>4 DEF OneAt
  <1>5. OneAt(l)'
    BY <1>1, <1>3, <1>4 DEF OneAt
  <1> QED BY <1>5, NoMoreComes

LEMMA KeptNoMore ==
  ASSUME KeyInv, NEW l \in Lock, pins'[l] = pins[l],
         net'[l] = net[l] \/ Kept(l) \/ (\E f \in {"wake", "set", "trigger"} : \E k : Sent(l, f, k))
  PROVE  NoMore(l)
  <1>0. Len(net[l]) \in Nat
    BY NetTypes
  <1>1. \A i \in 1 .. Len(net'[l]) : net'[l][i].func = "reg" =>
           /\ i + 0 \in 1 .. Len(net[l]) /\ net[l][i + 0].func = "reg"
           /\ net[l][i + 0].tok = net'[l][i].tok
    <2>1. CASE net'[l] = net[l] \/ Kept(l)
      BY <1>0, <2>1 DEF Kept, AsBefore
    <2>2. ASSUME NEW f \in {"wake", "set", "trigger"}, NEW k, Sent(l, f, k)
          PROVE  <1>1
      <3>1. \A i \in 1 .. Len(net'[l]) : i \in 1 .. Len(net[l]) \/ i = Len(net[l]) + 1
        BY <1>0, <2>2 DEF Sent, AsBefore
      <3> QED BY <1>0, <2>2, <3>1 DEF Sent, AsBefore
    <2> QED BY <2>1, <2>2
  <1> QED BY <1>1 DEF NoMore

LEMMA DeliveredNoMore ==
  ASSUME KeyInv, NEW l \in Lock, pins'[l] = pins[l], Delivered(l)
  PROVE  NoMore(l)
  <1>0. Len(net[l]) \in Nat
    BY NetTypes
  <1>1. \A i \in 1 .. Len(net'[l]) : net'[l][i].func = "reg" =>
           /\ i + 1 \in 1 .. Len(net[l]) /\ net[l][i + 1].func = "reg"
           /\ net[l][i + 1].tok = net'[l][i].tok
    BY <1>0 DEF Delivered
  <1> QED BY <1>1 DEF NoMore

(* A step that brings no lock a key keeps the invariant, unless it stops the    *)
(* client, when the client forgets nothing it had asked for or seen.            *)
LEMMA OneStays ==
  ASSUME KeyInv, KeyInv', OneInv, NoDeletion', CurrentList', \A l \in Lock : NoMore(l),
         \/ stopped'
         \/ /\ ~stopped /\ asked \subseteq asked' /\ known \subseteq known'
            /\ registered \subseteq registered'
            /\ \A l \in Lock : token'[l] = token[l] \/ l \in registered'
  PROVE  OneInv'
  <1>1. \A l \in Lock : OneAt(l)' /\ \A k \in Token : Coming(l, k)' => Coming(l, k)
    BY NoMoreKeeps DEF OneInv
  <1>2. NoneBeforeAsked'
    BY <1>1 DEF OneInv, NoneBeforeAsked
  <1> QED BY <1>1, <1>2 DEF OneInv

LEMMA OneSends ==
  ASSUME ~CancelEnabled, KeyInv, KeyInv', OneInv, NEW l \in Lock, Sends(l), stopped' = stopped
  PROVE  OneInv'
  <1>0. NoDeletion' /\ CurrentList' /\ \A m \in Lock \ {l} : net'[m] = net[m] /\ pins'[m] = pins[m]
    BY DeletionSends DEF OneInv, CurrentList, Sends
  <1>1. CASE (Kept(l) /\ asked' = asked) \/ Commanded(l)
    <2>1. \A m \in Lock : NoMore(m)
      BY <1>0, <1>1, KeptNoMore DEF Sends, Commanded
    <2>2. /\ asked \subseteq asked' /\ known \subseteq known'
          /\ registered \subseteq registered' /\ token' = token
      BY <1>1 DEF Sends, Commanded
    <2> QED BY <1>0, <2>1, <2>2, OneStays
  <1>2. CASE ~stopped /\ Asked(l)
    <2>0. Len(net[l]) \in Nat /\ token[l] \in Token
      BY NetTypes DEF KeyInv, TypeOK
    <2>1. \A k \in Token : ~Coming(l, k)
      BY <1>2 DEF OneInv, NoneBeforeAsked, Asked
    <2>2. OnLock(l) = {} /\ \A i \in 1 .. Len(net[l]) : net[l][i].func # "reg"
      BY <2>1, NetTypes DEF Coming, OnLock
    <2>3. OnLock(l)' = {}
      BY <2>2 DEF Sends, OnLock
    <2>4. \A i \in 1 .. Len(net'[l]) : net'[l][i].func = "reg" => i = Len(net[l]) + 1
      <3>1. \A i \in 1 .. Len(net'[l]) : i \in 1 .. Len(net[l]) \/ i = Len(net[l]) + 1
        BY <1>2, <2>0 DEF Asked, Sent, AsBefore
      <3> QED BY <1>2, <2>2, <3>1 DEF Asked, Sent, AsBefore
    <2>5. OneAt(l)'
      BY <2>3, <2>4 DEF OneAt
    <2>6. \A m \in Lock \ {l} : OneAt(m)' /\ \A k \in Token : Coming(m, k)' => Coming(m, k)
      BY <1>0, KeptNoMore, NoMoreKeeps DEF OneInv
    <2>7. NoneBeforeAsked'
      <3>1. token' = token /\ registered \subseteq registered' /\ known' = known
            /\ asked' = asked \cup {<<l, token[l]>>}
        BY <1>2 DEF Sends, Asked
      <3>2. ASSUME NEW m \in Lock, m \notin registered', ~stopped',
                   <<m, token'[m]>> \notin asked' \cup known'
            PROVE  \A k \in Token : ~Coming(m, k)'
        <4>1. m # l
          BY <3>1, <3>2
        <4>2. \A k \in Token : ~Coming(m, k)
          BY <3>1, <3>2 DEF OneInv, NoneBeforeAsked
        <4> QED BY <2>6, <4>1, <4>2
      <3> QED BY <3>2 DEF NoneBeforeAsked
    <2> QED BY <1>0, <2>5, <2>6, <2>7 DEF OneInv
  <1> QED BY <1>1, <1>2 DEF Sends

LEMMA OneSees ==
  ASSUME KeyInv, KeyInv', OneInv, NEW l \in Lock, NEW k \in Token, Sees(l, k)
  PROVE  OneInv'
  <1>1. \A m \in Lock : NoMore(m)
    BY KeptNoMore DEF Sees
  <1>2. NoDeletion' /\ CurrentList'
    BY DEF Sees, OneInv, NoDeletion, CurrentList
  <1>3. /\ stopped' = stopped /\ asked' = asked
        /\ known \subseteq known' /\ registered \subseteq registered'
        /\ \A m \in Lock : token'[m] = token[m] \/ m \in registered'
    BY DEF Sees
  <1> QED BY <1>1, <1>2, <1>3, OneStays DEF KeyInv, TypeOK

LEMMA OneQuiet == ASSUME OneInv, Quiet PROVE OneInv'
  BY DEF Quiet, OneInv, NoDeletion, CurrentList, OneAt, NoneBeforeAsked, Coming, OnLock

LEMMA OneHalts == ASSUME KeyInv, KeyInv', OneInv, Halts PROVE OneInv'
  <1>1. \A m \in Lock : NoMore(m)
    BY KeptNoMore DEF Halts
  <1>2. NoDeletion' /\ CurrentList'
    BY DEF Halts, Kept, AsBefore, OneInv, NoDeletion, CurrentList
  <1> QED BY <1>1, <1>2, OneStays DEF Halts

(* Setup has read the whole list, and no command is in flight: a lock that does *)
(* not count as registered then has no key of ours.                             *)
LEMMA OneSetup ==
  ASSUME Faults \cap {"restfail", "hasty"} = {}, KeyInv, KeyInv', OneInv,
         NEW toks \in [Lock -> Token], NEW read \in SUBSET Lock, SetupEnds(read, toks)
  PROVE  OneInv'
  <1>1. /\ UNCHANGED <<net, pins, cloud>> /\ registered' = AlreadyRegistered(read)
        /\ read = Lock /\ \A l \in Lock : net[l] = <<>>
    BY DEF SetupEnds, NewClient, netVars, doorVars
  <1>2. NoDeletion' /\ CurrentList' /\ \A l \in Lock : OneAt(l)'
    BY <1>1 DEF OneInv, NoDeletion, CurrentList, OneAt, OnLock
  <1>3. ASSUME NEW l \in Lock, l \notin registered', NEW k \in Token
        PROVE  ~Coming(l, k)'
    <2>1. Listed(l) = {} /\ Len(net'[l]) = 0
      BY <1>1, <1>3 DEF AlreadyRegistered
    <2>2. k \notin OnLock(l)'
      BY <1>1, <2>1 DEF OneInv, CurrentList, Listed, OnLock
    <2> QED BY <2>1, <2>2 DEF Coming
  <1>4. NoneBeforeAsked'
    BY <1>3 DEF NoneBeforeAsked
  <1> QED BY <1>2, <1>4 DEF OneInv

(* What a lock carries out was on its way to it. *)
LEMMA ExecuteComes ==
  ASSUME KeyInv, NEW l \in Lock, Execute(l),
         NEW m \in Lock, NEW k \in Token, Coming(m, k)'
  PROVE  Coming(m, k)
  <1>0. /\ Delivered(l) /\ Len(net[l]) \in Nat \ {0} /\ net[l][1].tok \in Token
        /\ \A n \in Lock \ {l} : net'[n] = net[n] /\ pins'[n] = pins[n]
        /\ pins'[l] = KeysAfter(net[l][1], pins[l]) /\ 1 \in 1 .. Len(net[l])
    BY ExecuteDelivers
  <1>1. CASE m # l
    BY <1>0, <1>1 DEF Coming, OnLock
  <1>2. CASE m = l
    <2>1. /\ OnLock(l)' \subseteq OnLock(l) \cup {net[l][1].tok}
          /\ net[l][1].func # "reg" => OnLock(l)' \subseteq OnLock(l)
      <3>1. CASE net[l][1].func = "del"
        <4>1. \A u \in Token : pins'[l][u] \in {0, pins[l][u]}
          BY <1>0, <3>1 DEF KeysAfter, KeyInv, DoorOK
        <4> QED BY <3>1, <4>1 DEF OnLock
      <3>2. CASE net[l][1].func # "del"
        BY <1>0, <3>2, KeysGrow DEF OnLock
      <3> QED BY <3>1, <3>2
    <2>2. \A i \in 1 .. Len(net'[l]) : i + 1 \in 1 .. Len(net[l]) /\ net'[l][i] = net[l][i + 1]
      BY <1>0 DEF Delivered
    <2> QED BY <1>0, <1>2, <2>1, <2>2 DEF Coming
  <1> QED BY <1>1, <1>2

LEMMA OneExecute ==
  ASSUME "lag" \notin Faults, KeyInv, KeyInv', OneInv, NEW l \in Lock, Execute(l)
  PROVE  OneInv'
  <1>0. /\ Delivered(l) /\ Len(net[l]) \in Nat \ {0} /\ net[l][1].tok \in Token
        /\ \A m \in Lock \ {l} : net'[m] = net[m] /\ pins'[m] = pins[m]
        /\ UNCHANGED <<stopped, asked, known, registered, token>>
    BY ExecuteDelivers DEF Execute, vars
  <1>1. NoDeletion' /\ CurrentList'
    BY <1>0, DeletionDelivered DEF OneInv, CurrentList, Execute
  <1>2. /\ pins'[l] = KeysAfter(net[l][1], pins[l]) /\ net[l][1].func # "del"
    BY <1>0, ExecuteDelivers DEF OneInv, NoDeletion
  <1>3. CASE net[l][1].func # "reg"
    <2>1. pins'[l] = pins[l]
      BY <1>0, <1>2, <1>3, KeysGrow
    <2>2. \A m \in Lock : NoMore(m)
      BY <1>0, <2>1, DeliveredNoMore, KeptNoMore
    <2> QED BY <1>0, <1>1, <2>2, OneStays DEF KeyInv, TypeOK
  <1>4. CASE net[l][1].func = "reg"
    <2>0. 1 \in 1 .. Len(net[l])
      BY <1>0
    <2>1. OnLock(l) = {} /\ \A i \in 1 .. Len(net[l]) : net[l][i].func = "reg" => i = 1
      BY <1>4, <2>0 DEF OneInv, OneAt
    <2>2. \A i \in 1 .. Len(net'[l]) : net'[l][i].func # "reg"
      <3>1. \A i \in 1 .. Len(net'[l]) : /\ i + 1 \in 1 .. Len(net[l]) /\ i + 1 # 1
                                         /\ net'[l][i] = net[l][i + 1]
        BY <1>0 DEF Delivered
      <3> QED BY <2>1, <3>1
    <2>3. OnLock(l)' = {net[l][1].tok} /\ pins'[l][net[l][1].tok] = 1
      <3>1. \A k \in Token : pins[l][k] = 0
        BY <2>1, NetTypes DEF OnLock
      <3>2. pins[l] \in [Token -> 0 .. MaxCopies] /\ MaxCopies \in Nat \ {0}
        BY BoundsAssumption DEF KeyInv, DoorOK
      <3>3. pins'[l] = [pins[l] EXCEPT ![net[l][1].tok] = 1]
        BY <1>0, <1>2, <1>4, <3>1, <3>2 DEF KeysAfter
      <3> QED BY <1>0, <3>1, <3>2, <3>3 DEF OnLock
    <2>4. OneAt(l)'
      BY <2>2, <2>3 DEF OneAt
    <2>5. \A m \in Lock \ {l} : OneAt(m)'
      BY <1>0, KeptNoMore, NoMoreKeeps DEF OneInv
    <2>6. NoneBeforeAsked'
      BY <1>0, ExecuteComes DEF NoneBeforeAsked, OneInv
    <2> QED BY <1>1, <2>4, <2>5, <2>6 DEF OneInv
  <1> QED BY <1>3, <1>4

LEMMA LosesNoMore ==
  ASSUME KeyInv, NEW l \in Lock, Loses(l)
  PROVE  (NoDeletion => NoDeletion') /\ \A m \in Lock : NoMore(m)
  <1>0. pins' = pins
    BY DEF Loses, doorVars
  <1>1. CASE net' = net
    BY <1>0, <1>1, KeptNoMore DEF NoDeletion
  <1>2. CASE net[l] # <<>> /\ net' = [net EXCEPT ![l] = Tail(@)]
    <2>1. /\ net[l] \in Seq(Message) /\ net'[l] = Tail(net[l])
          /\ \A m \in Lock \ {l} : net'[m] = net[m]
      BY <1>2 DEF KeyInv, NetOK
    <2>2. Delivered(l)
      <3>1. /\ Len(Tail(net[l])) = Len(net[l]) - 1
            /\ \A i \in 1 .. Len(Tail(net[l])) : Tail(net[l])[i] = net[l][i + 1]
        BY <1>2, <2>1
      <3> QED BY <1>2, <2>1, <3>1 DEF Delivered
    <2> QED BY <1>0, <2>1, <2>2, DeletionDelivered, DeliveredNoMore, KeptNoMore
  <1> QED BY <1>1, <1>2 DEF Loses

LEMMA DeletedNoMore ==
  ASSUME KeyInv, NEW l \in Lock, NEW u \in Token, AppDeletes(l, u)
  PROVE  \A m \in Lock : NoMore(m)
  <1>1. net' = net /\ pins' = [pins EXCEPT ![l][u] = 0]
    BY DEF AppDeletes, netVars
  <1>2. ASSUME NEW m \in Lock PROVE NoMore(m)
    <2>1. \A k \in Token : pins'[m][k] \in {0, pins[m][k]}
      BY <1>1 DEF KeyInv, DoorOK
    <2>2. Len(net[m]) \in Nat
      BY NetTypes
    <2>3. \A i \in 1 .. Len(net'[m]) : net'[m][i].func = "reg" =>
           /\ i + 0 \in 1 .. Len(net[m]) /\ net[m][i + 0].func = "reg"
           /\ net[m][i + 0].tok = net'[m][i].tok
      BY <1>1, <2>2
    <2> QED BY <2>1, <2>3 DEF NoMore
  <1> QED BY <1>2

(* A command is lost, or the owner deletes a key in the app. *)
LEMMA OneLess ==
  ASSUME "lag" \notin Faults, KeyInv, KeyInv', OneInv, NEW l \in Lock,
         Loses(l) \/ \E u \in Token : AppDeletes(l, u)
  PROVE  OneInv'
  <1>1. UNCHANGED <<stopped, asked, known, registered, token>>
    BY DEF Loses, AppDeletes, vars
  <1>2. NoDeletion' /\ CurrentList'
    BY LosesNoMore DEF Loses, AppDeletes, doorVars, netVars, OneInv, NoDeletion, CurrentList
  <1>3. \A m \in Lock : NoMore(m)
    BY LosesNoMore, DeletedNoMore
  <1> QED BY <1>1, <1>2, <1>3, OneStays DEF KeyInv, TypeOK

LEMMA OneInit == KeyInit => OneInv
  <1> SUFFICES ASSUME KeyInit PROVE OneInv
    OBVIOUS
  <1>1. \A l \in Lock : net[l] = <<>> /\ Len(net[l]) = 0
    BY DEF KeyInit
  <1>2. NoDeletion /\ CurrentList /\ NoneBeforeAsked
    BY <1>1 DEF KeyInit, Init, NoDeletion, CurrentList, NoneBeforeAsked
  <1>3. PICK ks \in {{}} \cup {{k} : k \in Token} :
            pins = [l \in Lock |-> [k \in Token |-> IF k \in ks THEN 1 ELSE 0]]
    BY DEF KeyInit
  <1>4. \A l \in Lock : OneAt(l)
    <2>1. \A k, u \in ks : k = u
      OBVIOUS
    <2>2. \A l \in Lock, k \in Token : pins[l][k] = IF k \in ks THEN 1 ELSE 0
      BY <1>3
    <2>3. \A l \in Lock : \A k \in OnLock(l) : k \in ks /\ pins[l][k] = 1
      BY <2>2 DEF OnLock
    <2>4. \A i \in 1 .. 0 : FALSE
      OBVIOUS
    <2> QED BY <1>1, <2>1, <2>3, <2>4 DEF OneAt
  <1> QED BY <1>2, <1>4 DEF OneInv

LEMMA OneKeeps ==
  ASSUME Faults \cap {"lag", "restfail", "hasty"} = {}, ~ResetEnabled, ~CancelEnabled,
         IndInv, IndInv', KeyInv, KeyInv', OneInv, [KeyNext]_allVars
  PROVE  OneInv'
  <1>1. CASE OutsideSteps
    BY <1>1, OneExecute, OneLess DEF OutsideSteps, CloudCatchesUp, OneInv, CurrentList
  <1>2. ASSUME NEW l \in Lock, Sends(l) PROVE OneInv'
    BY <1>2, OneSends DEF Sends
  <1> QED BY <1>1, <1>2, StepKinds, OneSees, OneQuiet, OneHalts, OneSetup

(* What _registered, the adoption of a listed key and mark_registered are for   *)
(* (219-222, 259-263 of relay_client.py): when the cloud answers, and with what *)
(* the lock holds, no lock ever gets two keys of ours, whatever the tasks,      *)
(* reloads, crashes, late ACKs and lost commands do.                            *)
THEOREM OneKeyAtMost ==
  ASSUME Faults \cap {"lag", "restfail", "hasty"} = {}, ~ResetEnabled, ~CancelEnabled
  PROVE  KeySpec => []AtMostOneKey
  <1>1. IndInv /\ IndInv' /\ KeyInv /\ KeyInv' /\ OneInv /\ [KeyNext]_allVars => OneInv'
    BY OneKeeps
  <1>2. KeyInv /\ OneInv => AtMostOneKey
    <2> SUFFICES ASSUME KeyInv, OneInv, NEW l \in Lock, NEW a \in Copies(l), NEW b \in Copies(l)
                 PROVE  a = b
      BY DEF AtMostOneKey
    <2>1. OneAt(l)
      BY DEF OneInv
    <2>2. ASSUME NEW p \in Copies(l)
          PROVE  p = <<p[1], 1>> /\ p[1] \in OnLock(l)
      <3>1. p \in Token \X (1 .. MaxCopies) /\ p[2] <= pins[l][p[1]]
        BY DEF Copies
      <3>2. /\ p[1] \in Token /\ p[2] \in 1 .. MaxCopies /\ p = <<p[1], p[2]>>
            /\ pins[l][p[1]] \in 0 .. MaxCopies
        BY <3>1, NetTypes
      <3>3. MaxCopies \in Nat
        BY BoundsAssumption
      <3>4. p[1] \in OnLock(l)
        BY <3>1, <3>2, <3>3 DEF OnLock
      <3>5. pins[l][p[1]] = 1
        BY <2>1, <3>4 DEF OneAt
      <3>6. p[2] = 1
        BY <3>1, <3>2, <3>3, <3>5
      <3> QED BY <3>2, <3>4, <3>6
    <2>3. a[1] = b[1]
      BY <2>1, <2>2 DEF OneAt
    <2> QED BY <2>2, <2>3
  <1> QED BY <1>1, <1>2, OneInit, ClientInvariant, LifecycleInvariance, PTL DEF KeySpec

-----------------------------------------------------------------------------
(* One token for the client, hass.data and the entry.                       *)

BaseIsEntry == seeding => stopped /\ base = entry /\ base \in [Lock -> Token]

EntryIsUsed == ~stopped => entry = locks

OnlyToken == ~stopped => \A l \in Lock, k \in Token : Coming(l, k) => k = token[l]

(* A refresh that waits for the cloud, also one of an unloaded generation, has  *)
(* looked up the token of the entry, and its lock has or gets no other.         *)
RefreshSees ==
    \A c \in Call : flow[c] = "refresh" =>
        /\ seen[c] = entry[Target[c]] /\ seen[c] # NoToken
        /\ \A k \in Token : Coming(Target[c], k) => k = seen[c]

(* All keys that a lock has or gets are one, perhaps several times. *)
OneToken == \A l \in Lock, k, u \in Token : Coming(l, k) /\ Coming(l, u) => k = u

SameInv == CurrentList /\ OneToken /\ BaseIsEntry /\ EntryIsUsed /\ OnlyToken /\ RefreshSees

(* A key comes to a lock only when the running client asks for the token in     *)
(* force.                                                                       *)
LEMMA ComesFrom ==
  ASSUME ~ResetEnabled, IndInv, IndInv', KeyInv, KeyInv', [KeyNext]_allVars,
         NEW l \in Lock, NEW k \in Token, Coming(l, k)'
  PROVE  Coming(l, k) \/ (~stopped /\ k = token[l])
  <1>0. Len(net[l]) \in Nat
    BY NetTypes
  <1>1. ASSUME NEW m \in Lock, Sends(m)
        PROVE  Coming(l, k) \/ (~stopped /\ k = token[l])
    <2>1. CASE m # l \/ Kept(m) \/ Commanded(m)
      <3>1. /\ pins'[l] = pins[l]
            /\ \/ net'[l] = net[l] \/ Kept(l)
               \/ \E f \in {"wake", "set", "trigger"} : \E u : Sent(l, f, u)
        BY <1>1, <2>1 DEF Sends, Commanded
      <3> QED BY <3>1, KeptNoMore, NoMoreComes
    <2>2. CASE m = l /\ ~stopped /\ Asked(l)
      <3>1. \A i \in 1 .. Len(net'[l]) : i \in 1 .. Len(net[l]) \/ i = Len(net[l]) + 1
        BY <1>0, <2>2 DEF Asked, Sent, AsBefore
      <3>2. OnLock(l)' = OnLock(l)
        BY <1>1 DEF Sends, OnLock
      <3> QED BY <2>2, <3>1, <3>2 DEF Coming, Asked, Sent, AsBefore
    <2> QED BY <1>1, <2>1, <2>2 DEF Sends
  <1>2. CASE pins' = pins /\ (net' = net \/ \A m \in Lock : Kept(m))
    BY <1>2, KeptNoMore, NoMoreComes
  <1>3. CASE OutsideSteps
    <2>1. ASSUME NEW m \in Lock, Loses(m) PROVE Coming(l, k)
      BY <2>1, LosesNoMore, NoMoreComes
    <2>2. ASSUME NEW m \in Lock, NEW u \in Token, AppDeletes(m, u) PROVE Coming(l, k)
      BY <2>2, DeletedNoMore, NoMoreComes
    <2>3. CASE CloudCatchesUp
      BY <1>2, <2>3 DEF CloudCatchesUp, netVars
    <2> QED BY <1>3, <2>1, <2>2, <2>3, ExecuteComes DEF OutsideSteps
  <1> QED BY <1>1, <1>2, <1>3, StepKinds DEF Sees, Quiet, Halts, SetupEnds, netVars, doorVars

(* The cloud's list follows the lock, and what comes to a lock is one token.    *)
LEMMA SameList ==
  ASSUME "lag" \notin Faults, ~ResetEnabled,
         IndInv, IndInv', KeyInv, KeyInv', SameInv, [KeyNext]_allVars,
         \A l \in Lock, k \in Token : Coming(l, k)' => Coming(l, k) \/ (~stopped /\ k = token[l])
  PROVE  CurrentList' /\ OneToken'
  <1>1. ASSUME OutsideSteps PROVE CurrentList'
    <2>1. ASSUME NEW l \in Lock, Execute(l) PROVE cloud' = pins'
      BY <2>1 DEF Execute
    <2>2. ASSUME NEW l \in Lock, NEW k \in Token, AppDeletes(l, k) PROVE cloud' = pins'
      BY <2>2 DEF AppDeletes
    <2>3. ASSUME NEW l \in Lock, Loses(l) PROVE UNCHANGED <<pins, cloud>>
      BY <2>3 DEF Loses, doorVars
    <2> QED BY <1>1, <2>1, <2>2, <2>3 DEF OutsideSteps, CloudCatchesUp, SameInv, CurrentList
  <1>2. UNCHANGED <<pins, cloud>> => CurrentList'
    BY DEF SameInv, CurrentList
  <1>3. CurrentList'
    BY <1>1, <1>2, StepKinds DEF Sends, Sees, Quiet, Halts, SetupEnds, doorVars
  <1>4. OneToken'
    BY DEF SameInv, OneToken, OnlyToken
  <1> QED BY <1>3, <1>4

(* A step that leaves entry and client their tokens, and begins no refresh. *)
LEMMA SameStays ==
  ASSUME KeyInv, SameInv, CurrentList', OneToken', UNCHANGED <<token, entry, locks, base, seeding>>,
         stopped' = stopped \/ (stopped' /\ ~seeding),
         \A c \in Call : flow'[c] = "refresh" => flow[c] = "refresh" /\ seen'[c] = seen[c],
         \A l \in Lock, k \in Token : Coming(l, k)' => Coming(l, k) \/ (~stopped /\ k = token[l])
  PROVE  SameInv'
  <1>1. BaseIsEntry' /\ EntryIsUsed'
    BY DEF SameInv, BaseIsEntry, EntryIsUsed, KeyInv, TypeOK
  <1>2. OnlyToken'
    BY DEF SameInv, OnlyToken, KeyInv, TypeOK
  <1>3. ~stopped => token = entry
    BY DEF SameInv, EntryIsUsed, KeyInv, DataOK, DataAgrees
  <1>4. ASSUME NEW c \in Call, flow'[c] = "refresh"
        PROVE  /\ seen'[c] = entry'[Target[c]] /\ seen'[c] # NoToken
               /\ \A k \in Token : Coming(Target[c], k)' => k = seen'[c]
    BY <1>3, <1>4, LockOfCall DEF SameInv, RefreshSees
  <1> QED BY <1>1, <1>2, <1>4 DEF SameInv, RefreshSees

LEMMA SameFlow ==
  ASSUME ~ResetEnabled, KeyInv, SameInv, CurrentList', OneToken', FlowSteps,
         \A l \in Lock, k \in Token : Coming(l, k)' => Coming(l, k) \/ (~stopped /\ k = token[l])
  PROVE  SameInv'
  <1> PICK c \in Call :
         RefreshBegins(c) \/ ResetBegins(c) \/ CloudFails(c) \/ CallCancelled(c) \/ FlowProgress(c)
    BY DEF FlowSteps
  <1>0. /\ Target[c] \in Lock
        /\ flow \in [Call -> FlowTypes] /\ seen \in [Call -> Token \cup {NoToken}]
    BY LockOfCall DEF KeyInv, FlowOK
  <1>1. ASSUME UNCHANGED <<token, stopped, entryVars>>,
               EndFlow(c) \/ (flow' = [flow EXCEPT ![c] = "ensure"] /\ seen' = seen)
        PROVE  SameInv'
    <2>1. \A d \in Call : flow'[d] = "refresh" => flow[d] = "refresh" /\ seen'[d] = seen[d]
      BY <1>0, <1>1 DEF EndFlow
    <2> QED BY <1>1, <2>1, SameStays DEF entryVars
  <1>2. CASE RefreshBegins(c)
    <2>1. UNCHANGED <<token, stopped, entry, locks, base, seeding, net, pins>> /\ ~stopped
      BY <1>2 DEF RefreshBegins, vars, entryVars, netVars, doorVars
    <2>2. locks = entry /\ token = locks /\ token[Target[c]] \in Token
      BY <1>0, <2>1 DEF SameInv, EntryIsUsed, KeyInv, TypeOK, DataOK, DataAgrees
    <2>3. \A d \in Call : flow'[d] = "refresh" => (flow[d] = "refresh" /\ seen'[d] = seen[d])
                             \/ seen'[d] = token[Target[d]]
      BY <1>0, <1>2, <2>2 DEF RefreshBegins
    <2>4. \A l \in Lock, k \in Token : Coming(l, k)' <=> Coming(l, k)
      BY <2>1 DEF Coming, OnLock
    <2>5. BaseIsEntry' /\ EntryIsUsed' /\ OnlyToken'
      BY <2>1, <2>4 DEF SameInv, BaseIsEntry, EntryIsUsed, OnlyToken
    <2>6. ASSUME NEW d \in Call, flow'[d] = "refresh"
          PROVE  /\ seen'[d] = entry'[Target[d]] /\ seen'[d] # NoToken
                 /\ \A k \in Token : Coming(Target[d], k)' => k = seen'[d]
      <3>1. Target[d] \in Lock /\ token[Target[d]] \in Token
        BY LockOfCall DEF KeyInv, TypeOK
      <3>2. CASE flow[d] = "refresh" /\ seen'[d] = seen[d]
        BY <2>1, <2>4, <3>1, <3>2 DEF SameInv, RefreshSees
      <3>3. CASE seen'[d] = token[Target[d]]
        BY <2>1, <2>2, <2>4, <3>1, <3>3, TokenAssumption DEF SameInv, OnlyToken
      <3> QED BY <2>3, <2>6, <3>2, <3>3
    <2> QED BY <2>5, <2>6 DEF SameInv, RefreshSees
  <1>3. CASE CloudFails(c) \/ CallCancelled(c) \/ EnsureReturns(c)
    BY <1>1, <1>3 DEF CloudFails, CallCancelled, Cancel, EnsureReturns, Return, linkVars, vars
  <1>4. CASE RefreshConfirms(c)
    BY <1>1, <1>4 DEF RefreshConfirms, MarkRegistered, linkVars, vars
  <1>5. CASE RefreshEnsures(c)
    BY <1>1, <1>5 DEF RefreshEnsures, EnsureRegistered, linkVars, vars
  <1>6. ASSUME NEW k \in Token, RefreshAdopts(c, k) PROVE FALSE
    <2>1. flow[c] = "refresh" /\ k \in Listed(Target[c]) /\ seen[c] \notin Listed(Target[c])
      BY <1>6 DEF RefreshAdopts
    <2>2. Coming(Target[c], k)
      BY <2>1 DEF SameInv, CurrentList, Listed, OnLock, Coming
    <2> QED BY <2>1, <2>2 DEF SameInv, RefreshSees
  <1>7. ~ResetBegins(c) /\ ~ResetLists(c) /\ ~DeleteReturns(c)
        /\ \A k \in Token : ~ResetDeletes(c, k) /\ ~ResetReplaces(c, k)
    BY DEF ResetBegins, ResetLists, DeleteReturns, ResetDeletes, ResetReplaces, KeyInv, FlowAllowed
  <1> QED BY <1>2, <1>3, <1>4, <1>5, <1>6, <1>7 DEF FlowProgress

(* The new client starts with the only key the lock has, or with the entry's. *)
LEMMA SameSetup ==
  ASSUME Faults \cap {"restfail", "hasty"} = {}, KeyInv, SameInv, CurrentList', OneToken',
         NEW toks \in [Lock -> Token], NEW read \in SUBSET Lock, SetupEnds(read, toks)
  PROVE  SameInv'
  <1>1. /\ seeding /\ ~seeding' /\ base = entry /\ base \in [Lock -> Token]
        /\ locks' = toks /\ token' = toks /\ UNCHANGED <<net, pins, flow, seen>>
        /\ entry' = IF toks # base THEN toks ELSE entry
        /\ read = Lock /\ \A l \in Lock : net[l] = <<>> /\ toks[l] \in Adopted(l, read)
    BY DEF SetupEnds, NewClient, netVars, doorVars, flowVars, SameInv, BaseIsEntry
  <1>2. \A l \in Lock : Listed(l) = OnLock(l)
    BY DEF SameInv, CurrentList, Listed, OnLock
  <1>3. entry' = toks
    BY <1>1
  <1>4. BaseIsEntry' /\ EntryIsUsed'
    BY <1>1, <1>3 DEF BaseIsEntry, EntryIsUsed
  <1>5. OnlyToken'
    <2>1. ASSUME NEW l \in Lock, NEW k \in Token, Coming(l, k)' PROVE k = toks[l]
      <3>1. k \in OnLock(l)
        <4>1. Len(net'[l]) = 0 /\ pins' = pins
          BY <1>1
        <4> QED BY <2>1, <4>1 DEF Coming, OnLock
      <3>2. toks[l] \in OnLock(l)
        BY <1>1, <1>2, <3>1 DEF Adopted
      <3> QED BY <3>1, <3>2 DEF SameInv, OneToken, Coming, OnLock
    <2> QED BY <1>1, <2>1 DEF OnlyToken
  <1>6. ASSUME NEW c \in Call, flow'[c] = "refresh"
        PROVE  /\ seen'[c] = entry'[Target[c]] /\ seen'[c] # NoToken
               /\ \A k \in Token : Coming(Target[c], k)' => k = seen'[c]
    <2>0. Target[c] \in Lock
      BY LockOfCall
    <2>1. seen[c] = base[Target[c]] /\ seen[c] # NoToken
          /\ \A k \in Token : Coming(Target[c], k) => k = seen[c]
      BY <1>1, <1>6 DEF SameInv, RefreshSees
    <2>2. toks[Target[c]] = base[Target[c]]
      <3>1. SUFFICES ASSUME toks[Target[c]] # base[Target[c]] PROVE FALSE
        OBVIOUS
      <3>2. toks[Target[c]] \in OnLock(Target[c]) /\ base[Target[c]] \notin OnLock(Target[c])
        BY <1>1, <1>2, <2>0, <3>1 DEF Adopted
      <3> QED BY <2>0, <2>1, <3>2 DEF Coming
    <2>3. \A k \in Token : Coming(Target[c], k)' => Coming(Target[c], k)
      BY <1>1 DEF Coming, OnLock
    <2> QED BY <1>1, <1>3, <2>1, <2>2, <2>3
  <1> QED BY <1>4, <1>5, <1>6 DEF SameInv, RefreshSees

LEMMA SameEntry ==
  ASSUME Faults \cap {"restfail", "hasty"} = {}, KeyInv, KeyInv', SameInv, CurrentList', OneToken',
         EntrySteps,
         \A l \in Lock, k \in Token : Coming(l, k)' => Coming(l, k) \/ (~stopped /\ k = token[l])
  PROVE  SameInv'
  <1>1. ASSUME NEW toks \in [Lock -> Token], SetupBegins(toks) PROVE SameInv'
    <2>1. /\ stopped /\ stopped' = stopped /\ UNCHANGED <<flow, seen>>
          /\ base' = toks /\ entry' = toks
          /\ \A l \in Lock : entry[l] # NoToken => toks[l] = entry[l]
      BY <1>1 DEF SetupBegins, UpdateEntry, vars, flowVars
    <2>2. BaseIsEntry' /\ EntryIsUsed' /\ OnlyToken'
      BY <2>1 DEF BaseIsEntry, EntryIsUsed, OnlyToken
    <2>3. \A l \in Lock, k \in Token : Coming(l, k)' => Coming(l, k)
      BY <2>1
    <2>4. RefreshSees'
      BY <2>1, <2>3, LockOfCall DEF SameInv, RefreshSees
    <2> QED BY <2>2, <2>4 DEF SameInv
  <1>2. ASSUME NEW toks \in [Lock -> Token], NEW read \in SUBSET Lock, SetupEnds(read, toks)
        PROVE  SameInv'
    BY <1>2, SameSetup
  <1>3. CASE Unload
    <2>1. ~stopped /\ stopped' /\ UNCHANGED <<token, entry, locks, base, seeding, flow, seen>>
      BY <1>3 DEF Unload, Stop
    <2>2. ~seeding
      BY <2>1 DEF SameInv, BaseIsEntry
    <2> QED BY <2>1, <2>2, SameStays
  <1>4. CASE Save
    BY <1>4, SameStays DEF Save, vars, flowVars
  <1>5. CASE ProcessDies
    BY <1>5 DEF ProcessDies, Crash, SameInv, BaseIsEntry, EntryIsUsed, OnlyToken, RefreshSees
  <1> QED BY <1>1, <1>2, <1>3, <1>4, <1>5 DEF EntrySteps, SetupSteps

LEMMA SameInit == KeyInit => SameInv
  <1> SUFFICES ASSUME KeyInit PROVE SameInv
    OBVIOUS
  <1>1. \A l \in Lock : Len(net[l]) = 0
    BY DEF KeyInit
  <1>2. PICK ks \in {{}} \cup {{k} : k \in Token} :
            pins = [l \in Lock |-> [k \in Token |-> IF k \in ks THEN 1 ELSE 0]]
    BY DEF KeyInit
  <1>3. \A l \in Lock, k \in Token : Coming(l, k) => k \in ks
    BY <1>1, <1>2 DEF Coming, OnLock
  <1>4. CurrentList /\ OneToken
    BY <1>3 DEF KeyInit, CurrentList, OneToken
  <1> QED BY <1>4 DEF KeyInit, Init, SameInv, BaseIsEntry, EntryIsUsed, OnlyToken, RefreshSees

LEMMA SameKeeps ==
  ASSUME Faults \cap {"lag", "restfail", "hasty"} = {}, ~ResetEnabled,
         IndInv, IndInv', KeyInv, KeyInv', SameInv, [KeyNext]_allVars
  PROVE  SameInv'
  <1>0. \A l \in Lock, k \in Token : Coming(l, k)' => Coming(l, k) \/ (~stopped /\ k = token[l])
    BY ComesFrom
  <1>2. CurrentList' /\ OneToken'
    BY <1>0, SameList
  <1>1. CASE ClientSteps \/ OutsideSteps \/ UNCHANGED allVars
    <2>1. UNCHANGED <<token, stopped, entryVars, flowVars>>
      <3>1. CASE ClientSteps
        <4>1. UNCHANGED <<entryVars, flowVars>>
          BY <3>1 DEF ClientSteps, Online, Offline, Traffic, AckArrives, Acquires, Resumes, Unlock,
             SetMode, CallReturns
        <4>2. UNCHANGED <<token, stopped>>
          BY <3>1, ClientKeepsTokens
        <4> QED BY <4>1, <4>2
      <3>2. CASE OutsideSteps \/ UNCHANGED allVars
        BY <3>2 DEF OutsideSteps, CloudCatchesUp, Execute, Loses, AppDeletes, allVars, vars
      <3> QED BY <1>1, <3>1, <3>2
    <2> QED BY <1>0, <1>2, <2>1, SameStays DEF entryVars, flowVars
  <1> QED BY <1>0, <1>1, <1>2, SameFlow, SameEntry DEF KeyNext

(* While the entry is loaded and no reload is due, the client, hass.data and the *)
(* entry have one token for each lock: no refresh or setup, of whichever         *)
(* generation, adopts another key than the one in force.                         *)
THEOREM TokensStayEqual ==
  ASSUME Faults \cap {"lag", "restfail", "hasty"} = {}, ~ResetEnabled
  PROVE  KeySpec => []TokensAgree
  <1>1. IndInv /\ IndInv' /\ KeyInv /\ KeyInv' /\ SameInv /\ [KeyNext]_allVars => SameInv'
    BY SameKeeps
  <1>2. KeyInv /\ SameInv => TokensAgree
    BY DEF KeyInv, DataOK, DataAgrees, SameInv, EntryIsUsed, TokensAgree
  <1> QED BY <1>1, <1>2, SameInit, ClientInvariant, LifecycleInvariance, PTL DEF KeySpec

-----------------------------------------------------------------------------
(* Nothing after an unload.                                                 *)

(* What makes task t publish: it comes to wait for an ACK, or ends an unlock. *)
Publishes(t) == pc'[t] \in AckTypes \ {pc[t]} \/ (pc[t] = "wake" /\ pc'[t] = "ok")

LEMMA SettleSilent ==
  ASSUME TypeOK, NEW t \in Task, NEW r \in {"ok", "error"}, Settle(t, r), pc[t] # "wake" \/ r = "error"
  PROVE  ~Publishes(t)
  BY DEF TypeOK, Settle, AckTypes, Publishes

LEMMA DownSilent ==
  ASSUME TypeOK, ~up, NEW t \in Task, NEW at, NEW k, Publish(t, at, k)
  PROVE  ~Publishes(t)
  BY SettleSilent DEF Publish

LEMMA CommandSilent ==
  ASSUME TypeOK, ~up, NEW t \in Task, pc[t] # "wake", NEW o, Command(t, o)
  PROVE  ~Publishes(t)
  BY SettleSilent, DownSilent DEF Command

LEMMA RegisterNowSilent ==
  ASSUME TypeOK, ~up, NEW t \in Task, NEW k, RegisterNow(t, k)
  PROVE  ~Publishes(t)
  <1>1. CASE pc' = [pc EXCEPT ![t] = "wait"]
    BY <1>1 DEF TypeOK, AckTypes, Publishes
  <1>2. CASE RegisterLocked(t, k)
    BY <1>2, DownSilent DEF RegisterLocked
  <1> QED BY <1>1, <1>2 DEF RegisterNow

(* No step of a task publishes anything without a connection. *)
LEMMA StepSilent ==
  ASSUME TypeOK, ~up, NEW t \in Task,
         \/ Acquire(t) \/ Resume(t) \/ Cancel(t)
         \/ t \in Call /\ (AsyncUnlock(t) \/ AsyncSetMode(t) \/ EnsureRegistered(t))
         \/ t \in Call /\ \E k \in Token : DeletePin(t, k) \/ ReplaceHaPinToken(t, k)
  PROVE  ~Publishes(t)
  <1>1. CASE Acquire(t)
    BY <1>1, CommandSilent, DownSilent DEF Acquire, RegisterLocked
  <1>2. CASE ResumeReg(t)
    BY <1>2, CommandSilent DEF ResumeReg
  <1>3. CASE ResumeWake(t)
    BY <1>3, SettleSilent DEF ResumeWake
  <1>4. CASE ResumeLast(t)
    BY <1>4, SettleSilent DEF ResumeLast
  <1>5. CASE Cancel(t)
    BY <1>5, SettleSilent DEF Cancel
  <1>6. ASSUME t \in Call, NEW o, Request(t, o)
        PROVE  ~Publishes(t)
    <2>1. pc[t] = "idle"
      BY <1>6 DEF Request, Begin
    <2> QED BY <1>6, <2>1, SettleSilent, CommandSilent, RegisterNowSilent DEF Request
  <1>7. CASE EnsureRegistered(t)
    <2>1. pc[t] = "idle"
      BY <1>7 DEF EnsureRegistered, Begin
    <2> QED BY <1>7, <2>1, SettleSilent, RegisterNowSilent DEF EnsureRegistered
  <1>8. ASSUME NEW k \in Token, DeletePin(t, k)
        PROVE  ~Publishes(t)
    BY <1>8, SettleSilent, DownSilent DEF DeletePin
  <1>9. ASSUME NEW k \in Token, ReplaceHaPinToken(t, k)
        PROVE  ~Publishes(t)
    BY <1>9, SettleSilent, RegisterNowSilent DEF ReplaceHaPinToken
  <1> QED BY <1>1, <1>2, <1>3, <1>4, <1>5, <1>6, <1>7, <1>8, <1>9 DEF Resume, AsyncUnlock, AsyncSetMode

NoLonger == \A l \in Lock : Len(net'[l]) <= Len(net[l])

LEMMA SilentKeeps ==
  ASSUME NetOK, NEW t \in Task, Transmit(t), ~Publishes(t)
  PROVE  NoLonger
  <1>1. Publication(t) = <<>>
    BY DEF Publication, Publishes
  <1>2. Kept(LockOf(t)) /\ \A l \in Lock \ {LockOf(t)} : net'[l] = net[l]
    BY <1>1, TransmitSends
  <1>3. ASSUME NEW l \in Lock PROVE Len(net[l]) \in Nat
    <2>1. net[l] \in Seq(Message)
      BY DEF NetOK
    <2> QED BY <2>1
  <1> QED BY <1>2, <1>3 DEF Kept, NoLonger

LEMMA StoppedKeeps ==
  ASSUME IndInv, KeyInv, [KeyNext]_allVars, stopped
  PROVE  NoLonger
  <1>0. TypeOK /\ NetOK /\ ~up /\ \A l \in Lock : Len(net[l]) \in Nat
    BY NetTypes DEF IndInv, StoppedIsDown, KeyInv
  <1>1. ASSUME net' = net PROVE NoLonger
    BY <1>0, <1>1 DEF NoLonger
  <1>2. CASE ClientSteps
    <2>1. ASSUME NEW t \in Task, Acquires(t) \/ Resumes(t) PROVE NoLonger
      BY <1>0, <2>1, StepSilent, SilentKeeps DEF Acquires, Resumes
    <2>2. ASSUME NEW c \in Call, Unlock(c) \/ SetMode(c) PROVE NoLonger
      BY <1>0, <2>2, LockOfCall, StepSilent, SilentKeeps DEF Unlock, SetMode
    <2>3. CASE UNCHANGED net
      BY <1>1, <2>3
    <2> QED BY <1>2, <2>1, <2>2, <2>3
            DEF ClientSteps, Online, Offline, Traffic, AckArrives, CallReturns, netVars
  <1>3. CASE FlowSteps
    <2> PICK c \in Call :
           RefreshBegins(c) \/ ResetBegins(c) \/ CloudFails(c) \/ CallCancelled(c) \/ FlowProgress(c)
      BY <1>3 DEF FlowSteps
    <2>0. c \in Task
      BY LockOfCall
    <2>1. CASE UNCHANGED net
      BY <1>1, <2>1
    <2>2. CASE CallCancelled(c)
      BY <1>0, <2>0, <2>2, StepSilent, SilentKeeps DEF CallCancelled
    <2>3. CASE RefreshEnsures(c)
      BY <1>0, <2>0, <2>1, <2>3, StepSilent, SilentKeeps DEF RefreshEnsures, netVars
    <2>4. ASSUME NEW k \in Token, ResetDeletes(c, k) \/ ResetReplaces(c, k)
          PROVE  NoLonger
      BY <1>0, <2>0, <2>1, <2>4, StepSilent, SilentKeeps DEF ResetDeletes, ResetReplaces, netVars
    <2> QED BY <2>1, <2>2, <2>3, <2>4
            DEF RefreshBegins, ResetBegins, CloudFails, FlowProgress, RefreshConfirms, RefreshAdopts,
                EnsureReturns, ResetLists, DeleteReturns, netVars
  <1>4. CASE EntrySteps
    <2>1. CASE UNCHANGED net
      BY <1>1, <2>1
    <2>2. ASSUME NEW ts, net' = ForgetAll(ts) PROVE NoLonger
      BY <1>0, <2>2, ForgetAllKept DEF Kept, NoLonger
    <2> QED BY <1>4, <2>1, <2>2 DEF EntrySteps, SetupSteps, SetupBegins, SetupEnds, Unload, Save, ProcessDies, netVars
  <1>5. CASE OutsideSteps
    <2>1. CASE UNCHANGED net
      BY <1>1, <2>1
    <2>2. ASSUME NEW l \in Lock, net[l] # <<>>, net' = [net EXCEPT ![l] = Tail(@)]
          PROVE  NoLonger
      <3> DEFINE q == Tail(net[l])
      <3>1. net[l] \in Seq(Message)
        BY <1>0 DEF NetOK
      <3>2. Len(q) = Len(net[l]) - 1
        BY <2>2, <3>1, TailTypes
      <3>3. net \in [Lock -> Seq(Message)] /\ net' = [net EXCEPT ![l] = q]
        BY <1>0, <2>2 DEF NetOK
      <3> HIDE DEF q
      <3>4. net'[l] = q /\ \A m \in Lock \ {l} : net'[m] = net[m]
        BY <3>3
      <3> QED BY <1>0, <3>2, <3>4 DEF NoLonger
    <2> QED BY <1>5, <2>1, <2>2 DEF OutsideSteps, CloudCatchesUp, Execute, Loses, AppDeletes, netVars
  <1>6. CASE UNCHANGED allVars
    BY <1>1, <1>6 DEF allVars, netVars
  <1> QED BY <1>2, <1>3, <1>4, <1>5, <1>6 DEF KeyNext

(* With any operations and faults, resets and cancelled calls included, no       *)
(* command leaves Home Assistant between an unload and the next setup, though    *)
(* unlocks, switches, registrations and heal tasks were suspended in the client  *)
(* when it was stopped.                                                          *)
THEOREM NothingLeavesAfterUnload == KeySpec => NothingAfterUnload
  <1>1. IndInv /\ KeyInv /\ [KeyNext]_allVars
            => [stopped => \A l \in Lock : Len(net'[l]) <= Len(net[l])]_allVars
    BY StoppedKeeps DEF NoLonger
  <1> QED BY <1>1, ClientInvariant, LifecycleInvariance, PTL DEF KeySpec, NothingAfterUnload

-----------------------------------------------------------------------------
(* What the client keeps, it keeps in the integration.                      *)

(* Through reloads, crashes, refreshes and resets, whatever the network does, no *)
(* client asks a lock twice for one key, nor for one it has seen there.          *)
THEOREM LifecycleAsksOnce == KeySpec => NeverAskedTwice
  <1>1. IndInv /\ [Next]_vars =>
            [\A t \in Task : Asks(t) /\ ~CancelEnabled
                 => <<LockOf(t), arg'[t]>> \notin asked \cup known]_vars
    BY NextAsksOnce
  <1> QED BY <1>1, ClientSafety, ClientInvariant, PTL DEF NeverAskedTwice

(* Without resets and cancelled calls, the integration and all that surrounds it *)
(* give each client no way out of the custody of the key.                        *)
THEOREM LifecycleKeepsCustody ==
  ASSUME Plain
  PROVE  KeySpec => KeepsCustody
  <1>1. Init => Custody!NoClient
    BY InitSeen
  <1>2. IndInv /\ [Next]_vars => [Custody!CustodyNext]_(Custody!custodyVars)
    BY StepSeen DEF CustodyStep
  <1> QED BY <1>1, <1>2, ClientSafety, ClientInvariant, PTL
          DEF KeepsCustody, Custody!CustodySpec

=============================================================================
