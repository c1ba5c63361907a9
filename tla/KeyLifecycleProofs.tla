--------------------------- MODULE KeyLifecycleProofs ---------------------------
(* What KeyLifecycle makes of its client: with setup, reloads, refreshes,      *)
(* resets, crashes and the network around it, the client takes only the steps  *)
(* of RelayClient, so that all that is proved of that module holds here too;   *)
(* and every part keeps its type, the client and hass.data the same tokens.    *)
EXTENDS KeyLifecycle, RelayClientProofs

(* A flow that runs is one that Ops allows; a client's tasks are typed. *)
FlowAllowed ==
    /\ flow \in [Call -> FlowTypes]
    /\ \A c \in Call : /\ flow[c] \in {"refresh", "ensure"} => "refresh" \in Ops
                       /\ flow[c] \in {"reset", "delete", "renew"} => ResetEnabled

LEMMA FlowInit == KeyInit => FlowAllowed
  BY DEF KeyInit, FlowAllowed, FlowTypes

LEMMA EndFlowKeeps == ASSUME FlowAllowed, NEW c \in Call, EndFlow(c) PROVE FlowAllowed'
  BY DEF EndFlow, FlowAllowed, FlowTypes

LEMMA FlowSame == ASSUME FlowAllowed, flow' = flow PROVE FlowAllowed'
  BY DEF FlowAllowed

LEMMA FlowGoesOn ==
  ASSUME FlowAllowed, NEW c \in Call, NEW f \in FlowTypes, flow' = [flow EXCEPT ![c] = f],
         f \in {"refresh", "ensure"} => "refresh" \in Ops,
         f \in {"reset", "delete", "renew"} => ResetEnabled
  PROVE  FlowAllowed'
  BY DEF FlowAllowed

(* A step of a flow: what the client sees of it. *)
LEMMA FlowStep ==
  ASSUME FlowAllowed, NEW c \in Call,
         RefreshBegins(c) \/ ResetBegins(c) \/ CloudFails(c) \/ CallCancelled(c) \/ FlowProgress(c)
  PROVE  FlowAllowed' /\ [Next]_vars
  <1>1. CASE RefreshBegins(c)
    BY <1>1, FlowGoesOn DEF RefreshBegins, FlowTypes
  <1>2. CASE ResetBegins(c)
    BY <1>2, FlowGoesOn DEF ResetBegins, FlowTypes
  <1>3. CASE CloudFails(c)
    BY <1>3, EndFlowKeeps DEF CloudFails
  <1>4. CASE RefreshConfirms(c)
    <2>1. seen[c] \in Token /\ "refresh" \in Ops /\ Target[c] \in Lock
      BY <1>4, TargetAssumption DEF RefreshConfirms, Listed, FlowAllowed
    <2>2. UNCHANGED vars \/ Refresh
      BY <1>4, <2>1 DEF RefreshConfirms, Refresh
    <2> QED BY <1>4, <2>2, EndFlowKeeps DEF RefreshConfirms, Next
  <1>5. CASE RefreshEnsures(c)
    <2>1. "refresh" \in Ops
      BY <1>5 DEF RefreshEnsures, FlowAllowed
    <2>2. FlowAllowed'
      BY <1>5, <2>1, FlowGoesOn, EndFlowKeeps DEF RefreshEnsures, FlowTypes
    <2>3. UNCHANGED vars \/ Refresh
      BY <1>5, <2>1 DEF RefreshEnsures, Refresh
    <2> QED BY <2>2, <2>3 DEF Next
  <1>6. CASE EnsureReturns(c)
    BY <1>6, EndFlowKeeps DEF EnsureReturns, Next
  <1>7. CASE ResetLists(c)
    BY <1>7, FlowGoesOn DEF ResetLists, FlowTypes, FlowAllowed
  <1>8. CASE DeleteReturns(c)
    BY <1>8, EndFlowKeeps, FlowSame DEF DeleteReturns, Next, flowVars
  <1>9. ASSUME NEW k \in Token, RefreshAdopts(c, k)
        PROVE  FlowAllowed' /\ [Next]_vars
    <2>1. "refresh" \in Ops /\ Target[c] \in Lock
      BY <1>9, TargetAssumption DEF RefreshAdopts, FlowAllowed
    <2>2. UNCHANGED vars \/ Refresh
      BY <1>9, <2>1 DEF RefreshAdopts, Refresh
    <2> QED BY <1>9, <2>2, EndFlowKeeps DEF RefreshAdopts, Next
  <1>10. ASSUME NEW k \in Token, ResetDeletes(c, k)
         PROVE  FlowAllowed' /\ [Next]_vars
    <2>1. ResetEnabled
      BY <1>10 DEF ResetDeletes, FlowAllowed
    <2>2. UNCHANGED vars \/ Reset
      BY <1>10, <2>1 DEF ResetDeletes, Reset
    <2> QED BY <1>10, <2>2, EndFlowKeeps, FlowSame DEF ResetDeletes, Next
  <1>11. ASSUME NEW k \in Token, ResetReplaces(c, k)
         PROVE  FlowAllowed' /\ [Next]_vars
    <2>1. ResetEnabled
      BY <1>11 DEF ResetReplaces, FlowAllowed
    <2>2. UNCHANGED vars \/ Reset
      BY <1>11, <2>1 DEF ResetReplaces, Reset
    <2>3. FlowAllowed'
      BY <1>11, <2>1, FlowGoesOn, EndFlowKeeps DEF ResetReplaces, FlowTypes
    <2> QED BY <2>2, <2>3 DEF Next
  <1>12. CASE CallCancelled(c)
    BY <1>12, EndFlowKeeps DEF CallCancelled, Next
  <1> QED BY <1>1, <1>2, <1>3, <1>4, <1>5, <1>6, <1>7, <1>8, <1>9, <1>10, <1>11, <1>12 DEF FlowProgress

LEMMA ClientStep ==
  ASSUME FlowAllowed, ClientSteps
  PROVE  FlowAllowed' /\ [Next]_vars
  <1>1. flow' = flow
    BY DEF ClientSteps, Online, Offline, Traffic, AckArrives, Acquires, Resumes, Unlock, SetMode,
       CallReturns, flowVars
  <1>2. Next
    <2>1. CASE Online \/ Offline
      BY <2>1 DEF Online, Offline, Next
    <2>2. ASSUME NEW l \in Lock, Traffic(l) PROVE Next
      <3>1. HandleMessage(l, TRUE, {}) /\ {} \in {{}} \cup {{t} : t \in Task}
        BY <2>2 DEF Traffic
      <3> QED BY <3>1 DEF Next
    <2>3. ASSUME NEW t \in Task, AckArrives(t) PROVE Next
      <3>1. HandleMessage(LockOf(t), TRUE, {t}) /\ LockOf(t) \in Lock
        BY <2>3, LockOfType DEF AckArrives
      <3> QED BY <3>1 DEF Next
    <2>4. ASSUME NEW t \in Task, Acquires(t) \/ Resumes(t) PROVE Next
      BY <2>4 DEF Acquires, Resumes, Next
    <2>5. ASSUME NEW c \in Call, Unlock(c) \/ SetMode(c) \/ CallReturns(c) PROVE Next
      BY <2>5 DEF Unlock, SetMode, CallReturns, Next
    <2> QED BY <2>1, <2>2, <2>3, <2>4, <2>5 DEF ClientSteps
  <1> QED BY <1>1, <1>2, FlowSame

LEMMA EntryStep ==
  ASSUME FlowAllowed, EntrySteps
  PROVE  FlowAllowed' /\ [Next]_vars
  <1>1. ASSUME NEW toks \in [Lock -> Token], SetupBegins(toks)
        PROVE  FlowAllowed' /\ [Next]_vars
    BY <1>1, FlowSame DEF SetupBegins, flowVars
  <1>2. ASSUME NEW toks \in [Lock -> Token], NEW read \in SUBSET Lock, SetupEnds(read, toks)
        PROVE  FlowAllowed' /\ [Next]_vars
    <2>1. NewClient(toks, AlreadyRegistered(read)) /\ AlreadyRegistered(read) \in SUBSET Lock
      BY <1>2 DEF SetupEnds, AlreadyRegistered
    <2> QED BY <1>2, <2>1, FlowSame DEF SetupEnds, flowVars, Next
  <1>3. CASE Unload
    BY <1>3, FlowSame DEF Unload, Next
  <1>4. CASE Save
    BY <1>4, FlowSame DEF Save, flowVars
  <1>5. CASE ProcessDies
    BY <1>5 DEF ProcessDies, Next, FlowAllowed, FlowTypes
  <1> QED BY <1>1, <1>2, <1>3, <1>4, <1>5 DEF EntrySteps, SetupSteps

LEMMA KeyStep ==
  ASSUME FlowAllowed, [KeyNext]_allVars
  PROVE  FlowAllowed' /\ [Next]_vars
  <1>1. CASE OutsideSteps \/ UNCHANGED allVars
    BY <1>1, FlowSame DEF OutsideSteps, CloudCatchesUp, Execute, Loses, AppDeletes, allVars,
       flowVars
  <1> QED BY <1>1, ClientStep, FlowStep, EntryStep DEF KeyNext, FlowSteps

(* Every step of KeyLifecycle is one of the client or leaves it alone, since its  *)
(* actions are made of the client's.                                              *)
LEMMA ClientSafety == KeySpec => Init /\ [][Next]_vars
  <1>1. KeyInit => Init /\ FlowAllowed
    BY FlowInit DEF KeyInit
  <1>2. FlowAllowed /\ [KeyNext]_allVars => FlowAllowed' /\ [Next]_vars
    BY KeyStep
  <1> QED BY <1>1, <1>2, PTL DEF KeySpec

(* The invariant of the client holds through reloads, crashes and resets, which  *)
(* put other steps between those of its tasks: registrations exclude one another, *)
(* a lock that was asked for its key in force is or will be registered, commands  *)
(* carry keys the lock was asked for.                                             *)
THEOREM LifecycleKeepsClient == KeySpec => [](TypeOK /\ Exclusive /\ AskedSettled /\ CommandTokenKnown)
  <1>1. Init /\ [][Next]_vars => []IndInv
    BY InitInv, NextKeeps, PTL
  <1>2. IndInv => TypeOK /\ Exclusive /\ AskedSettled /\ CommandTokenKnown
    BY DEF IndInv
  <1> QED BY <1>1, <1>2, ClientSafety, PTL

-----------------------------------------------------------------------------
(* The client's tasks.                                                      *)

(* A task that waits for an ACK has sent a token. *)
ArgOK == \A t \in Task : pc[t] \in AckTypes => arg[t] \in Token

LEMMA SettleArg ==
  ASSUME TypeOK, ArgOK, NEW t \in Task, NEW r \in {"ok", "error"}, Settle(t, r)
  PROVE  ArgOK'
  BY DEF TypeOK, ArgOK, Settle, AckTypes

LEMMA PublishArg ==
  ASSUME TypeOK, ArgOK, NEW t \in Task, NEW at, NEW k \in Token, Publish(t, at, k)
  PROVE  ArgOK'
  BY SettleArg DEF TypeOK, ArgOK, Publish

LEMMA RegisterNowArg ==
  ASSUME TypeOK, ArgOK, NEW t \in Task, NEW k \in Token, RegisterNow(t, k)
  PROVE  ArgOK'
  BY PublishArg DEF TypeOK, ArgOK, RegisterNow, RegisterLocked, AckTypes

LEMMA CommandArg ==
  ASSUME TypeOK, ArgOK, NEW t \in Task, NEW o, Command(t, o)
  PROVE  ArgOK'
  <1>1. token[LockOf(t)] \in Token
    BY LockOfType DEF TypeOK
  <1> QED BY <1>1, PublishArg, SettleArg DEF Command

LEMMA ArgKeeps ==
  ASSUME TypeOK, ArgOK, [Next]_vars
  PROVE  ArgOK'
  <1>1. CASE Connect \/ Drop \/ UNCHANGED vars
    BY <1>1 DEF ArgOK, Connect, Drop, taskVars, vars
  <1>2. CASE Stop \/ Crash
    BY <1>2 DEF ArgOK, Stop, Crash, AckTypes
  <1>3. ASSUME NEW toks \in [Lock -> Token], NEW already \in SUBSET Lock, NewClient(toks, already)
        PROVE  ArgOK'
    BY <1>3 DEF ArgOK, NewClient, taskVars
  <1>4. ASSUME NEW l \in Lock, NEW hasSid \in BOOLEAN, NEW acks \in SUBSET Task,
               HandleMessage(l, hasSid, acks)
        PROVE  ArgOK'
    BY <1>4 DEF TypeOK, ArgOK, HandleMessage, AckTypes, Task
  <1>5. ASSUME NEW c \in Call, Request(c, "unlock") \/ Request(c, "setmode") \/ EnsureRegistered(c)
        PROVE  ArgOK'
    <2>1. token[Target[c]] \in Token /\ c \in Task
      BY LockOfCall DEF TypeOK
    <2> QED BY <1>5, <2>1, SettleArg, CommandArg, RegisterNowArg DEF Request, EnsureRegistered
  <1>6. ASSUME NEW c \in Call, Return(c) \/ Cancel(c)
        PROVE  ArgOK'
    BY <1>6, LockOfCall, SettleArg DEF TypeOK, ArgOK, Return, Cancel, AckTypes
  <1>7. ASSUME NEW l \in Lock, NEW k \in Token, AdoptToken(l, k) \/ MarkRegistered(l, k)
        PROVE  ArgOK'
    BY <1>7 DEF ArgOK, AdoptToken, MarkRegistered, taskVars
  <1>8. ASSUME NEW c \in Call, NEW k \in Token, DeletePin(c, k) \/ ReplaceHaPinToken(c, k)
        PROVE  ArgOK'
    BY <1>8, LockOfCall, SettleArg, PublishArg, RegisterNowArg DEF DeletePin, ReplaceHaPinToken
  <1>9. ASSUME NEW t \in Task, Acquire(t) \/ Resume(t)
        PROVE  ArgOK'
    <2>1. token[LockOf(t)] \in Token
      BY LockOfType DEF TypeOK
    <2>2. CASE Acquire(t)
      BY <2>1, <2>2, CommandArg, PublishArg DEF Acquire, RegisterLocked
    <2>3. CASE Resume(t)
      BY <2>3, CommandArg, SettleArg DEF Resume, ResumeReg, ResumeWake, ResumeLast
    <2> QED BY <1>9, <2>2, <2>3
  <1>10. CASE Refresh \/ Reset
    BY <1>10, <1>5, <1>7, <1>8 DEF Refresh, Reset
  <1> QED BY <1>1, <1>2, <1>3, <1>4, <1>5, <1>6, <1>9, <1>10 DEF Next, AsyncUnlock, AsyncSetMode

-----------------------------------------------------------------------------
(* The network.                                                             *)

NetOK ==
    /\ net \in [Lock -> Seq(Message)] /\ \A l \in Lock : Len(net[l]) <= MaxNet
    /\ inbox \subseteq Task

LEMMA ForgetTypes ==
  ASSUME NEW q \in Seq(Message), NEW ts
  PROVE  Forget(ts, q) \in Seq(Message) /\ Len(Forget(ts, q)) = Len(q)
  <1> DEFINE f(i) == IF q[i].by \in ts THEN [q[i] EXCEPT !.by = NoTask] ELSE q[i]
  <1>1. \A i \in 1 .. Len(q) : f(i) \in Message
    <2> TAKE i \in 1 .. Len(q)
    <2>1. q[i] \in Message
      OBVIOUS
    <2>2. \A m \in Message : [m EXCEPT !.by = NoTask] \in Message
      BY DEF Message
    <2> QED BY <2>1, <2>2
  <1>2. Forget(ts, q) = [i \in 1 .. Len(q) |-> f(i)]
    BY DEF Forget
  <1> HIDE DEF f
  <1> QED BY <1>1, <1>2

LEMMA TailTypes ==
  ASSUME NEW q \in Seq(Message), q # <<>>
  PROVE  Tail(q) \in Seq(Message) /\ Len(Tail(q)) = Len(q) - 1
  OBVIOUS

LEMMA ForgetAllKeeps ==
  ASSUME NetOK, NEW ts, net' = ForgetAll(ts), inbox' \subseteq Task
  PROVE  NetOK'
  BY ForgetTypes DEF NetOK, ForgetAll

LEMMA TransmitKeeps ==
  ASSUME NetOK, TypeOK, TypeOK', ArgOK, ArgOK', NEW t \in Task, Transmit(t)
  PROVE  NetOK'
  <1>1. LockOf(t) \in Lock
    BY LockOfType
  <1>2. Publication(t) \in Seq(Message)
    <2>1. CASE pc'[t] \in AckTypes \ {pc[t]}
      <3>1. arg'[t] \in Token
        BY <2>1 DEF ArgOK
      <3>2. [func |-> pc'[t], tok |-> arg'[t], by |-> t] \in Message
        BY <2>1, <3>1 DEF Message
      <3> QED BY <2>1, <3>2 DEF Publication
    <2>2. CASE pc'[t] \notin AckTypes \ {pc[t]} /\ pc[t] = "wake" /\ pc'[t] = "ok"
      <3>1. arg[t] \in Token
        BY <2>2 DEF ArgOK, AckTypes
      <3>2. [func |-> "trigger", tok |-> arg[t], by |-> NoTask] \in Message
        BY <3>1 DEF Message
      <3> QED BY <2>2, <3>2 DEF Publication
    <2>3. CASE pc'[t] \notin AckTypes \ {pc[t]} /\ ~(pc[t] = "wake" /\ pc'[t] = "ok")
      BY <2>3 DEF Publication
    <2> QED BY <2>1, <2>2, <2>3
  <1>3. Forget({t}, net[LockOf(t)]) \in Seq(Message)
    BY <1>1, ForgetTypes DEF NetOK
  <1>4. net' = [net EXCEPT ![LockOf(t)] = Forget({t}, net[LockOf(t)]) \o Publication(t)]
    BY DEF Transmit
  <1>5. Forget({t}, net[LockOf(t)]) \o Publication(t) \in Seq(Message)
    BY <1>2, <1>3
  <1>6. net' \in [Lock -> Seq(Message)]
    BY <1>1, <1>4, <1>5 DEF NetOK
  <1>7. \A l \in Lock : Len(net'[l]) <= MaxNet
    BY <1>1, <1>4 DEF NetOK, Transmit
  <1> QED BY <1>6, <1>7 DEF NetOK, Transmit

-----------------------------------------------------------------------------
(* The whole.                                                               *)

EntryOK ==
    /\ \A toks \in {entry, disk, locks, old, base} : toks \in [Lock -> Token \cup {NoToken}]
    /\ seeding \in BOOLEAN /\ reload \in BOOLEAN

FlowOK ==
    /\ flow \in [Call -> FlowTypes]
    /\ seen \in [Call -> Token \cup {NoToken}]
    /\ todo \in [Call -> SUBSET Token]
    /\ stale \subseteq Call

DoorOK ==
    /\ pins \in [Lock -> [Token -> 0 .. MaxCopies]]
    /\ cloud \in [Lock -> [Token -> 0 .. MaxCopies]]

(* hass.data and the client that runs have the same tokens. *)
DataAgrees == ~stopped => token = locks

(* Without resets, the token that a refresh has looked up is still in force when *)
(* the cloud's answer comes, or its lock is registered by then.                  *)
SeenIsInForce ==
    ~ResetEnabled =>
        \A c \in Call : flow[c] = "refresh" /\ c \notin stale
            => seen[c] = token[Target[c]] \/ Target[c] \in registered

(* Flows of a client that has been stopped belong to an unloaded generation. *)
DataOK ==
    /\ DataAgrees /\ SeenIsInForce
    /\ stopped => \A c \in Call : flow[c] # "none" => c \in stale

KeyInv == TypeOK /\ ArgOK /\ FlowAllowed /\ NetOK /\ EntryOK /\ FlowOK /\ DoorOK /\ DataOK

LEMMA KeyInitInv == KeyInit => KeyInv
  <1> SUFFICES ASSUME KeyInit PROVE KeyInv
    OBVIOUS
  <1>1. TypeOK /\ FlowAllowed /\ ArgOK
    BY InitInv, FlowInit DEF KeyInit, IndInv, ArgOK, Init, AckTypes
  <1>2. NetOK
    BY BoundsAssumption DEF KeyInit, NetOK
  <1>3. EntryOK /\ FlowOK
    BY DEF KeyInit, Init, EntryOK, FlowOK, FlowTypes, Nowhere
  <1>4. DoorOK
    <2>1. PICK ks \in {{}} \cup {{k} : k \in Token} :
              pins = [l \in Lock |-> [k \in Token |-> IF k \in ks THEN 1 ELSE 0]]
      BY DEF KeyInit
    <2>2. 0 \in 0 .. MaxCopies /\ 1 \in 0 .. MaxCopies
      BY BoundsAssumption
    <2> QED BY <2>1, <2>2 DEF KeyInit, DoorOK
  <1>5. DataOK
    BY DEF KeyInit, Init, DataOK, DataAgrees, SeenIsInForce
  <1> QED BY <1>1, <1>2, <1>3, <1>4, <1>5 DEF KeyInv

(* A step of the client's own leaves the rest to the network. *)
LEMMA ClientTypes ==
  ASSUME KeyInv, TypeOK', ArgOK', ClientSteps
  PROVE  NetOK' /\ EntryOK' /\ FlowOK' /\ DoorOK'
  <1>1. UNCHANGED <<entryVars, flowVars, doorVars>>
    BY DEF ClientSteps, Online, Offline, Traffic, AckArrives, Acquires, Resumes, Unlock,
       SetMode, CallReturns
  <1>2. EntryOK' /\ FlowOK' /\ DoorOK'
    BY <1>1 DEF KeyInv, EntryOK, FlowOK, DoorOK, entryVars, flowVars, doorVars
  <1>3. ASSUME NEW t \in Task, Transmit(t) PROVE NetOK'
    BY <1>3, TransmitKeeps DEF KeyInv
  <1>4. net' = net /\ inbox' \subseteq Task => NetOK'
    BY DEF KeyInv, NetOK
  <1>5. (\E t \in Task : Transmit(t)) \/ (net' = net /\ inbox' \subseteq Task)
    <2>1. inbox \subseteq Task /\ \A c \in Call : c \in Task
      BY DEF KeyInv, NetOK, Task
    <2>2. CASE Online \/ Offline \/ \E l \in Lock : Traffic(l)
      BY <2>1, <2>2 DEF Online, Offline, Traffic, netVars
    <2>3. ASSUME NEW t \in Task, AckArrives(t) \/ Acquires(t) \/ Resumes(t) PROVE <1>5!1 \/ <1>5!2
      BY <2>1, <2>3 DEF AckArrives, Acquires, Resumes
    <2>4. ASSUME NEW c \in Call, Unlock(c) \/ SetMode(c) \/ CallReturns(c) PROVE <1>5!1 \/ <1>5!2
      BY <2>1, <2>4 DEF Unlock, SetMode, CallReturns, netVars
    <2> QED BY <2>2, <2>3, <2>4 DEF ClientSteps
  <1> QED BY <1>2, <1>3, <1>4, <1>5

LEMMA StoreTokenTypes ==
  ASSUME KeyInv, NEW c \in Call, NEW k \in Token, StoreToken(c, k)
  PROVE  EntryOK'
  <1>1. CASE c \in stale
    <2>1. old' \in [Lock -> Token \cup {NoToken}]
      BY <1>1 DEF KeyInv, EntryOK, StoreToken
    <2> QED BY <1>1, <2>1 DEF KeyInv, EntryOK, StoreToken, UpdateEntry
  <1>2. CASE c \notin stale
    <2>1. locks' \in [Lock -> Token \cup {NoToken}]
      BY <1>2 DEF KeyInv, EntryOK, StoreToken
    <2> QED BY <1>2, <2>1 DEF KeyInv, EntryOK, StoreToken, UpdateEntry
  <1> QED BY <1>1, <1>2

LEMMA EndFlowTypes == ASSUME KeyInv, NEW c \in Call, EndFlow(c) PROVE FlowOK'
  BY DEF KeyInv, FlowOK, EndFlow, FlowTypes

LEMMA FlowTyped ==
  ASSUME KeyInv, TypeOK', ArgOK', FlowSteps
  PROVE  NetOK' /\ EntryOK' /\ FlowOK' /\ DoorOK'
  <1> PICK c \in Call :
         RefreshBegins(c) \/ ResetBegins(c) \/ CloudFails(c) \/ CallCancelled(c) \/ FlowProgress(c)
    BY DEF FlowSteps
  <1>1. doorVars' = doorVars
    BY DEF RefreshBegins, ResetBegins, CloudFails, CallCancelled, FlowProgress, RefreshConfirms,
       RefreshEnsures,
       EnsureReturns, ResetLists, DeleteReturns, RefreshAdopts, ResetDeletes, ResetReplaces
  <1>2. DoorOK'
    BY <1>1 DEF KeyInv, DoorOK, doorVars
  <1>3. NetOK'
    <2>1. netVars' = netVars \/ Transmit(c)
      BY DEF RefreshBegins, ResetBegins, CloudFails, CallCancelled, FlowProgress, RefreshConfirms,
         RefreshEnsures, EnsureReturns, ResetLists, DeleteReturns, RefreshAdopts, ResetDeletes, ResetReplaces,
         netVars
    <2>2. CASE Transmit(c)
      BY <2>2, LockOfCall, TransmitKeeps DEF KeyInv
    <2> QED BY <2>1, <2>2 DEF KeyInv, NetOK, netVars
  <1>4. EntryOK'
    <2>1. entryVars' = entryVars \/ \E k \in Token : StoreToken(c, k)
      BY DEF RefreshBegins, ResetBegins, CloudFails, CallCancelled, FlowProgress, RefreshConfirms,
         RefreshEnsures, EnsureReturns, ResetLists, DeleteReturns, RefreshAdopts, ResetDeletes, ResetReplaces
    <2>2. CASE entryVars' = entryVars
      BY <2>2 DEF KeyInv, EntryOK, entryVars
    <2> QED BY <2>1, <2>2, StoreTokenTypes
  <1>5. FlowOK'
    <2>1. CASE RefreshBegins(c)
      BY <2>1, TargetAssumption DEF RefreshBegins, KeyInv, EntryOK, FlowOK, FlowTypes
    <2>2. CASE ResetBegins(c) \/ ResetLists(c)
      BY <2>2 DEF ResetBegins, ResetLists, Listed, KeyInv, FlowOK, FlowTypes
    <2>3. CASE RefreshEnsures(c)
      BY <2>3, EndFlowTypes DEF RefreshEnsures, KeyInv, FlowOK, FlowTypes
    <2>4. CASE CloudFails(c) \/ CallCancelled(c) \/ RefreshConfirms(c) \/ EnsureReturns(c) \/ DeleteReturns(c)
               \/ \E k \in Token : RefreshAdopts(c, k)
      BY <2>4, EndFlowTypes DEF CloudFails, CallCancelled, RefreshConfirms, EnsureReturns, DeleteReturns,
         RefreshAdopts,
         KeyInv, FlowOK, flowVars
    <2>5. ASSUME NEW k \in Token, ResetDeletes(c, k) PROVE FlowOK'
      BY <2>5, EndFlowTypes DEF ResetDeletes, KeyInv, FlowOK
    <2>6. ASSUME NEW k \in Token, ResetReplaces(c, k) PROVE FlowOK'
      BY <2>6, EndFlowTypes DEF ResetReplaces, KeyInv, FlowOK, FlowTypes
    <2> QED BY <2>1, <2>2, <2>3, <2>4, <2>5, <2>6 DEF FlowProgress
  <1> QED BY <1>2, <1>3, <1>4, <1>5

LEMMA EntryTyped ==
  ASSUME KeyInv, TypeOK', ArgOK', EntrySteps
  PROVE  NetOK' /\ EntryOK' /\ FlowOK' /\ DoorOK'
  <1>1. ASSUME NEW toks \in [Lock -> Token], SetupBegins(toks)
        PROVE  NetOK' /\ EntryOK' /\ FlowOK' /\ DoorOK'
    BY <1>1 DEF SetupBegins, UpdateEntry, flowVars, netVars, doorVars, vars, KeyInv, NetOK,
       EntryOK,
       FlowOK, DoorOK, TypeOK
  <1>2. ASSUME NEW toks \in [Lock -> Token], NEW read \in SUBSET Lock, SetupEnds(read, toks)
        PROVE  NetOK' /\ EntryOK' /\ FlowOK' /\ DoorOK'
    BY <1>2 DEF SetupEnds, Nowhere, flowVars, netVars, doorVars, KeyInv, NetOK, EntryOK,
       FlowOK, DoorOK
  <1>3. CASE Unload
    <2>1. NetOK'
      BY <1>3, ForgetAllKeeps DEF Unload, KeyInv
    <2> QED BY <1>3, <2>1 DEF Unload, doorVars, KeyInv, EntryOK, FlowOK, DoorOK
  <1>4. CASE Save
    BY <1>4 DEF Save, flowVars, netVars, doorVars, KeyInv, NetOK, EntryOK, FlowOK, DoorOK
  <1>5. CASE ProcessDies
    <2>1. NetOK'
      BY <1>5, ForgetAllKeeps DEF ProcessDies, KeyInv
    <2> QED BY <1>5, <2>1 DEF ProcessDies, Nowhere, FlowTypes, doorVars, KeyInv, EntryOK,
               FlowOK, DoorOK
  <1> QED BY <1>1, <1>2, <1>3, <1>4, <1>5 DEF EntrySteps, SetupSteps

LEMMA OutsideTyped ==
  ASSUME KeyInv, OutsideSteps
  PROVE  NetOK' /\ EntryOK' /\ FlowOK' /\ DoorOK'
  <1>1. UNCHANGED <<entryVars, flowVars>>
    BY DEF OutsideSteps, CloudCatchesUp, Execute, Loses, AppDeletes
  <1>2. EntryOK' /\ FlowOK'
    BY <1>1 DEF KeyInv, EntryOK, FlowOK, entryVars, flowVars
  <1>3. CASE CloudCatchesUp
    BY <1>2, <1>3 DEF CloudCatchesUp, netVars, KeyInv, NetOK, DoorOK
  <1>4. ASSUME NEW l \in Lock, Execute(l) PROVE NetOK' /\ DoorOK'
    <2>1. net[l] \in Seq(Message) /\ net[l] # <<>> /\ Head(net[l]) \in Message
      BY <1>4 DEF Execute, KeyInv, NetOK
    <2>2. Tail(net[l]) \in Seq(Message) /\ Len(Tail(net[l])) = Len(net[l]) - 1
      BY <2>1, TailTypes
    <2>3. Head(net[l]).tok \in Token /\ (Head(net[l]).by # NoTask => Head(net[l]).by \in Task)
      BY <2>1 DEF Message
    <2>4. NetOK'
      BY <1>4, <2>2, <2>3, BoundsAssumption DEF Execute, KeyInv, NetOK
    <2>5. KeysAfter(Head(net[l]), pins[l]) \in [Token -> 0 .. MaxCopies]
      <3>1. pins[l] \in [Token -> 0 .. MaxCopies] /\ MaxCopies \in Nat
        BY BoundsAssumption DEF KeyInv, DoorOK
      <3> QED BY <2>3, <3>1 DEF KeysAfter
    <2>6. pins' \in [Lock -> [Token -> 0 .. MaxCopies]]
      BY <1>4, <2>5 DEF Execute, KeyInv, DoorOK
    <2> QED BY <1>4, <2>4, <2>6 DEF Execute, KeyInv, DoorOK
  <1>5. ASSUME NEW l \in Lock, Loses(l) PROVE NetOK' /\ DoorOK'
    <2>1. ASSUME net[l] # <<>>
          PROVE  Tail(net[l]) \in Seq(Message) /\ Len(Tail(net[l])) = Len(net[l]) - 1
      <3>1. net[l] \in Seq(Message)
        BY DEF KeyInv, NetOK
      <3> QED BY <2>1, <3>1, TailTypes
    <2>2. net[l] # <<>> /\ net' = [net EXCEPT ![l] = Tail(@)] /\ inbox' = inbox => NetOK'
      <3> SUFFICES ASSUME net[l] # <<>>, net' = [net EXCEPT ![l] = Tail(@)], inbox' = inbox PROVE NetOK'
        OBVIOUS
      <3>1. net' \in [Lock -> Seq(Message)] /\ \A m \in Lock : Len(net'[m]) <= Len(net[m])
        BY <2>1 DEF KeyInv, NetOK
      <3> QED BY <3>1, BoundsAssumption DEF KeyInv, NetOK
    <2>3. net' = net /\ inbox' \subseteq inbox => NetOK'
      BY DEF KeyInv, NetOK
    <2>4. DoorOK'
      BY <1>5 DEF Loses, doorVars, KeyInv, DoorOK
    <2> QED BY <1>5, <2>2, <2>3, <2>4 DEF Loses
  <1>6. ASSUME NEW l \in Lock, NEW k \in Token, AppDeletes(l, k) PROVE NetOK' /\ DoorOK'
    <2>1. 0 \in 0 .. MaxCopies
      BY BoundsAssumption
    <2> QED BY <1>6, <2>1 DEF AppDeletes, netVars, KeyInv, NetOK, DoorOK
  <1> QED BY <1>2, <1>3, <1>4, <1>5, <1>6 DEF OutsideSteps

-----------------------------------------------------------------------------
(* The client and hass.data.                                                *)

LEMMA ClientKeepsTokens ==
  ASSUME ClientSteps
  PROVE  UNCHANGED <<token, stopped, locks, flow, seen, stale>> /\ registered \subseteq registered'
  <1>1. UNCHANGED <<locks, flow, seen, stale>>
    BY DEF ClientSteps, Online, Offline, Traffic, AckArrives, Acquires, Resumes, Unlock,
       SetMode,
       CallReturns, entryVars, flowVars
  <1>2. ASSUME NEW t \in Task, Acquire(t) \/ Resume(t)
        PROVE  UNCHANGED <<token, stopped>> /\ registered \subseteq registered'
    BY <1>2 DEF Acquire, Resume, ResumeReg, ResumeWake, ResumeLast, linkVars
  <1>3. ASSUME NEW c \in Call, AsyncUnlock(c) \/ AsyncSetMode(c) \/ Return(c)
        PROVE  UNCHANGED <<token, stopped>> /\ registered \subseteq registered'
    BY <1>3 DEF AsyncUnlock, AsyncSetMode, Request, Return, linkVars
  <1>4. ASSUME NEW l \in Lock, NEW acks, HandleMessage(l, TRUE, acks)
        PROVE  UNCHANGED <<token, stopped>> /\ registered \subseteq registered'
    BY <1>4 DEF HandleMessage, linkVars
  <1>5. Connect \/ Drop => UNCHANGED <<token, stopped, registered>>
    BY DEF Connect, Drop
  <1> QED BY <1>1, <1>2, <1>3, <1>4, <1>5, LockOfType DEF ClientSteps, Online, Offline,
             Traffic,
             AckArrives, Acquires, Resumes, Unlock, SetMode, CallReturns

LEMMA DataKeepsClient ==
  ASSUME KeyInv, ClientSteps
  PROVE  DataOK'
  BY ClientKeepsTokens DEF KeyInv, DataOK, DataAgrees, SeenIsInForce

(* A flow that goes on in its own generation, or ends. *)
LEMMA DataSame ==
  ASSUME KeyInv, UNCHANGED <<token, stopped, locks>>,
  ResetEnabled \/ registered \subseteq registered',
         NEW c \in Call, seen'[c] = seen[c] \/ flow'[c] # "refresh",
         \A d \in Call \ {c} : flow'[d] = flow[d] /\ seen'[d] = seen[d] /\ (d \in stale' <=> d \in stale),
         \/ flow'[c] = "none"
         \/ flow[c] # "none" /\ (c \in stale' <=> c \in stale) /\ (flow'[c] = "refresh" => flow[c] = "refresh")
  PROVE  DataOK'
  BY DEF KeyInv, DataOK, DataAgrees, SeenIsInForce, ResetEnabled

LEMMA EndFlowAt ==
  ASSUME KeyInv, NEW c \in Call, EndFlow(c)
  PROVE  /\ flow'[c] = "none"
         /\ \A d \in Call \ {c} : flow'[d] = flow[d] /\ seen'[d] = seen[d] /\ (d \in stale' <=> d \in stale)
  BY DEF KeyInv, FlowOK, EndFlow

LEMMA DataKeepsFlow ==
  ASSUME KeyInv, FlowSteps
  PROVE  DataOK'
  <1> PICK c \in Call :
         RefreshBegins(c) \/ ResetBegins(c) \/ CloudFails(c) \/ CallCancelled(c) \/ FlowProgress(c)
    BY DEF FlowSteps
  <1> Target[c] \in Lock
    BY TargetAssumption
  <1>1. CASE RefreshBegins(c)
    BY <1>1 DEF RefreshBegins, vars, entryVars, KeyInv, FlowOK, DataOK, DataAgrees,
       SeenIsInForce, ResetEnabled
  <1>2. CASE ResetBegins(c)
    BY <1>2 DEF ResetBegins, vars, entryVars, KeyInv, FlowOK, DataOK, DataAgrees,
       SeenIsInForce, ResetEnabled
  <1>3. CASE CloudFails(c)
    BY <1>3, EndFlowAt, DataSame DEF CloudFails, vars, entryVars
  <1>4. CASE RefreshConfirms(c)
    <2>1. UNCHANGED <<token, stopped, locks>> /\ registered \subseteq registered'
      BY <1>4 DEF RefreshConfirms, MarkRegistered, vars, linkVars, entryVars
    <2> QED BY <1>4, <2>1, EndFlowAt, DataSame DEF RefreshConfirms
  <1>5. CASE RefreshEnsures(c)
    <2>1. UNCHANGED <<token, stopped, locks, registered>>
      BY <1>5 DEF RefreshEnsures, EnsureRegistered, vars, linkVars, entryVars
    <2>2. CASE c \in stale
      BY <1>5, <2>1, <2>2, EndFlowAt, DataSame DEF RefreshEnsures
    <2>3. CASE c \notin stale
      BY <1>5, <2>1, <2>3, DataSame DEF RefreshEnsures, KeyInv, FlowOK
    <2> QED BY <2>2, <2>3
  <1>6. CASE EnsureReturns(c)
    <2>1. UNCHANGED <<token, stopped, locks, registered>>
      BY <1>6 DEF EnsureReturns, Return, linkVars, entryVars
    <2> QED BY <1>6, <2>1, EndFlowAt, DataSame DEF EnsureReturns
  <1>7. CASE ResetLists(c)
    BY <1>7, DataSame DEF ResetLists, vars, entryVars, KeyInv, FlowOK
  <1>8. CASE DeleteReturns(c)
    <2>1. UNCHANGED <<token, stopped, locks, registered>>
      BY <1>8 DEF DeleteReturns, Return, linkVars, entryVars
    <2>2. CASE EndFlow(c)
      BY <2>1, <2>2, EndFlowAt, DataSame
    <2>3. CASE UNCHANGED flowVars
      BY <1>8, <2>1, <2>3 DEF flowVars, KeyInv, DataOK, DataAgrees, SeenIsInForce, ResetEnabled
    <2> QED BY <1>8, <2>2, <2>3 DEF DeleteReturns
  <1>9. ASSUME NEW k \in Token, RefreshAdopts(c, k) PROVE DataOK'
    <2>1. CASE c \in stale
      <3>1. UNCHANGED <<token, stopped, locks, registered>>
        BY <1>9, <2>1 DEF RefreshAdopts, StoreToken, vars
      <3> QED BY <1>9, <3>1, EndFlowAt, DataSame DEF RefreshAdopts
    <2>2. CASE c \notin stale
      <3>1. /\ token' = [token EXCEPT ![Target[c]] = k] /\ locks' = [locks EXCEPT ![Target[c]] = k]
            /\ registered' = registered \cup {Target[c]} /\ stopped' = stopped
        BY <1>9, <2>2 DEF RefreshAdopts, StoreToken, AdoptToken, linkVars
      <3>2. \A l \in Lock \ {Target[c]} : token'[l] = token[l]
        BY <3>1 DEF KeyInv, TypeOK
      <3>3. \A d \in Call : Target[d] \in Lock
        BY TargetAssumption
      <3>4. ~stopped' => token' = locks'
        BY <3>1 DEF KeyInv, DataOK, DataAgrees, SeenIsInForce
      <3>5. /\ flow'[c] = "none"
            /\ \A d \in Call \ {c} : flow'[d] = flow[d] /\ seen'[d] = seen[d] /\ (d \in stale' <=> d \in stale)
        BY <1>9, EndFlowAt DEF RefreshAdopts
      <3> QED BY <3>1, <3>2, <3>3, <3>4, <3>5 DEF KeyInv, DataOK, DataAgrees, SeenIsInForce,
                 ResetEnabled
    <2> QED BY <2>1, <2>2
  <1>10. ASSUME NEW k \in Token, ResetDeletes(c, k) PROVE DataOK'
    <2>1. UNCHANGED <<token, stopped, locks, registered>>
      BY <1>10 DEF ResetDeletes, DeletePin, vars, linkVars, entryVars
    <2>2. CASE EndFlow(c)
      BY <2>1, <2>2, EndFlowAt, DataSame
    <2>3. CASE UNCHANGED <<flow, seen, stale>>
      BY <2>1, <2>3 DEF KeyInv, DataOK, DataAgrees, SeenIsInForce, ResetEnabled
    <2> QED BY <1>10, <2>2, <2>3 DEF ResetDeletes
  <1>11. ASSUME NEW k \in Token, ResetReplaces(c, k) PROVE DataOK'
    <2>0. ResetEnabled
      BY <1>11 DEF ResetReplaces, KeyInv, FlowAllowed
    <2>1. CASE c \in stale
      <3>1. UNCHANGED <<token, stopped, locks, registered>>
        BY <1>11, <2>1 DEF ResetReplaces, StoreToken, vars
      <3> QED BY <1>11, <2>1, <3>1, EndFlowAt, DataSame DEF ResetReplaces
    <2>2. CASE c \notin stale
      <3>1. /\ token' = [token EXCEPT ![Target[c]] = k] /\ locks' = [locks EXCEPT ![Target[c]] = k]
            /\ stopped' = stopped /\ UNCHANGED <<seen, stale>>
            /\ flow' = [flow EXCEPT ![c] = "renew"] /\ flow[c] = "delete"
        BY <1>11, <2>2 DEF ResetReplaces, StoreToken, ReplaceHaPinToken, linkVars
      <3>2. ~stopped' => token' = locks'
        BY <3>1 DEF KeyInv, DataOK, DataAgrees, SeenIsInForce
      <3> QED BY <2>0, <3>1, <3>2 DEF KeyInv, FlowOK, DataOK, DataAgrees, SeenIsInForce,
                 ResetEnabled
    <2> QED BY <2>1, <2>2
  <1>12. CASE CallCancelled(c)
    <2>1. UNCHANGED <<token, stopped, locks, registered>>
      BY <1>12 DEF CallCancelled, Cancel, linkVars, entryVars
    <2> QED BY <1>12, <2>1, EndFlowAt, DataSame DEF CallCancelled
  <1> QED BY <1>1, <1>2, <1>3, <1>4, <1>5, <1>6, <1>7, <1>8, <1>9, <1>10, <1>11, <1>12 DEF FlowProgress

LEMMA DataKeepsEntry ==
  ASSUME KeyInv, EntrySteps
  PROVE  DataOK'
  <1>1. ASSUME NEW toks \in [Lock -> Token], SetupBegins(toks) PROVE DataOK'
    BY <1>1 DEF SetupBegins, vars, flowVars, KeyInv, DataOK, DataAgrees, SeenIsInForce,
       ResetEnabled
  <1>2. ASSUME NEW toks \in [Lock -> Token], NEW read \in SUBSET Lock, SetupEnds(read, toks)
        PROVE  DataOK'
    BY <1>2 DEF SetupEnds, NewClient, flowVars, KeyInv, DataOK, DataAgrees, SeenIsInForce,
       ResetEnabled
  <1>3. CASE Unload
    BY <1>3 DEF Unload, Stop, KeyInv, DataOK, DataAgrees, SeenIsInForce, ResetEnabled
  <1>4. CASE Save
    BY <1>4 DEF Save, vars, flowVars, KeyInv, DataOK, DataAgrees, SeenIsInForce, ResetEnabled
  <1>5. CASE ProcessDies
    BY <1>5 DEF ProcessDies, Crash, DataOK, DataAgrees, SeenIsInForce, ResetEnabled
  <1> QED BY <1>1, <1>2, <1>3, <1>4, <1>5 DEF EntrySteps, SetupSteps

LEMMA KeyInvKeeps ==
  ASSUME KeyInv, TypeOK', [KeyNext]_allVars
  PROVE  KeyInv'
  <1>1. FlowAllowed' /\ ArgOK'
    BY KeyStep, ArgKeeps DEF KeyInv
  <1>2. CASE ClientSteps
    BY <1>1, <1>2, ClientTypes, DataKeepsClient DEF KeyInv
  <1>3. CASE FlowSteps
    BY <1>1, <1>3, FlowTyped, DataKeepsFlow DEF KeyInv
  <1>4. CASE EntrySteps
    BY <1>1, <1>4, EntryTyped, DataKeepsEntry DEF KeyInv
  <1>5. CASE OutsideSteps
    <2>1. UNCHANGED <<vars, entryVars, flowVars>>
      BY <1>5 DEF OutsideSteps, CloudCatchesUp, Execute, Loses, AppDeletes
    <2>2. DataOK'
      BY <2>1 DEF vars, entryVars, flowVars, KeyInv, DataOK, DataAgrees, SeenIsInForce,
         ResetEnabled
    <2> QED BY <1>1, <1>5, <2>2, OutsideTyped DEF KeyInv
  <1>6. CASE UNCHANGED allVars
    <2>1. NetOK' /\ EntryOK' /\ FlowOK' /\ DoorOK'
      BY <1>6 DEF allVars, netVars, entryVars, flowVars, doorVars, KeyInv, NetOK, EntryOK,
         FlowOK, DoorOK
    <2>2. DataOK'
      BY <1>6 DEF allVars, vars, entryVars, flowVars, KeyInv, DataOK, DataAgrees,
         SeenIsInForce, ResetEnabled
    <2> QED BY <1>1, <2>1, <2>2 DEF KeyInv
  <1> QED BY <1>2, <1>3, <1>4, <1>5, <1>6 DEF KeyNext

(* The invariant of client, entry, flows, network, lock and cloud holds in every *)
(* reachable state.                                                              *)
THEOREM LifecycleInvariance == KeySpec => []KeyInv
  <1>1. KeySpec => []TypeOK
    BY LifecycleKeepsClient, PTL
  <1> QED BY <1>1, KeyInitInv, KeyInvKeeps, PTL DEF KeySpec

(* Every variable of the composition keeps its type: in particular every command *)
(* on its way carries a token and awaits the ACK of a task, and a flow captures, *)
(* deletes and stores tokens only.                                               *)
THEOREM LifecycleTypeCorrect == KeySpec => []KeyTypeOK
  <1>1. KeyInv => KeyTypeOK
    <2>1. ASSUME KeyInv, NEW l \in Lock
          PROVE  Len(net[l]) <= MaxNet /\ \A i \in DOMAIN net[l] : net[l][i] \in Message
      BY <2>1 DEF KeyInv, NetOK
    <2> QED BY <2>1 DEF KeyInv, KeyTypeOK, EntryOK, FlowOK, DoorOK, NetOK
  <1> QED BY <1>1, LifecycleInvariance, PTL

(* __init__.py writes each change of a token to the client and to hass.data in  *)
(* one step, so that the two agree; and mark_registered, which does not say     *)
(* with which token (259-263 of relay_client.py), is called for the token in    *)
(* force: the guard of MarkRegistered holds back no refresh.                    *)
THEOREM DataAndClientAgree == KeySpec => [](DataAgrees /\ SeenIsInForce)
  <1>1. KeyInv => DataAgrees /\ SeenIsInForce
    BY DEF KeyInv, DataOK
  <1> QED BY <1>1, LifecycleInvariance, PTL

=============================================================================
