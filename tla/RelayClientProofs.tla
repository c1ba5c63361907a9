--------------------------- MODULE RelayClientProofs ---------------------------
(* What holds of RelayClient for every set of locks, calls and tokens: the    *)
(* state types, the mutual exclusion of registrations, that no key is asked   *)
(* for twice and that commands carry keys the lock was asked to register; and *)
(* that it implements KeyCustody.                                             *)
EXTENDS RelayClient, TLAPS

(* The invariant that every step preserves.  AskedSettled is what makes       *)
(* NeverAskedTwice a consequence of the guard "not registered": outside the   *)
(* mutex an unregistered lock has never been asked for the token in force.    *)
(* RegisteredKnown turns "registered" into "the command's token is known".    *)
IndInv ==
    /\ TypeOK
    /\ StoppedIsDown
    /\ Exclusive
    /\ AskedSettled
    /\ RegisteredKnown
    /\ CommandTokenKnown

LEMMA LockOfType == \A t \in Task : LockOf(t) \in Lock
  BY TargetAssumption DEF LockOf, Task

LEMMA LockOfCall == \A c \in Call : c \in Task /\ c \notin Lock /\ LockOf(c) = Target[c] /\ Target[c] \in Lock
  BY TargetAssumption, CallAssumption DEF LockOf, Task

-----------------------------------------------------------------------------
(* What the pieces of a step do to a typed state.                           *)

LEMMA SettleTypes ==
  ASSUME TypeOK, NEW t \in Task, NEW r \in {"ok", "error"}, Settle(t, r)
  PROVE  /\ pc' \in [Task -> AtTypes] /\ arg' \in [Task -> Token \cup {NoToken}]
         /\ pc'[t] \in {"idle", "ok", "error"}
         /\ \A u \in Task \ {t} : pc'[u] = pc[u] /\ arg'[u] = arg[u]
  BY DEF Settle, TypeOK, AtTypes, AckTypes

LEMMA PublishTypes ==
  ASSUME TypeOK, NEW t \in Task, NEW at \in AckTypes, NEW k \in Token, Publish(t, at, k)
  PROVE  /\ pc' \in [Task -> AtTypes] /\ arg' \in [Task -> Token \cup {NoToken}]
         /\ up => pc'[t] = at /\ arg'[t] = k
         /\ ~up => pc'[t] \in {"idle", "error"}
         /\ \A u \in Task \ {t} : pc'[u] = pc[u] /\ arg'[u] = arg[u]
  <1>1. CASE up
    BY <1>1 DEF Publish, TypeOK, AtTypes
  <1>2. CASE ~up
    <2>1. Settle(t, "error")
      BY <1>2 DEF Publish
    <2>2. pc'[t] \in {"idle", "error"}
      BY <2>1 DEF Settle, TypeOK
    <2> QED BY <1>2, <2>1, <2>2, SettleTypes
  <1> QED BY <1>1, <1>2

LEMMA RegisterLockedTypes ==
  ASSUME TypeOK, NEW t \in Task, NEW k \in Token, RegisterLocked(t, k)
  PROVE  /\ pc' \in [Task -> AtTypes] /\ arg' \in [Task -> Token \cup {NoToken}]
         /\ asked' \in SUBSET (Lock \X Token)
         /\ \/ /\ up /\ pc'[t] = "reg" /\ arg'[t] = k
               /\ asked' = asked \cup {<<LockOf(t), k>>}
            \/ pc'[t] \in {"idle", "error"} /\ asked' = asked
         /\ \A u \in Task \ {t} : pc'[u] = pc[u] /\ arg'[u] = arg[u]
  <1>1. Publish(t, "reg", k)
    BY DEF RegisterLocked
  <1>2. "reg" \in AckTypes
    BY DEF AckTypes
  <1>3. LockOf(t) \in Lock
    BY LockOfType
  <1>4. asked \in SUBSET (Lock \X Token)
    BY DEF TypeOK
  <1> QED BY <1>1, <1>2, <1>3, <1>4, PublishTypes DEF RegisterLocked

LEMMA RegisterNowTypes ==
  ASSUME TypeOK, NEW t \in Task, pc[t] # "reg", NEW k \in Token, RegisterNow(t, k)
  PROVE  /\ pc' \in [Task -> AtTypes] /\ arg' \in [Task -> Token \cup {NoToken}]
         /\ asked' \in SUBSET (Lock \X Token)
         /\ \/ /\ up /\ pc'[t] = "reg" /\ arg'[t] = k /\ ~Contended(LockOf(t))
               /\ asked' = asked \cup {<<LockOf(t), k>>}
            \/ pc'[t] \in {"idle", "error", "wait"} /\ asked' = asked
         /\ \A u \in Task \ {t} : pc'[u] = pc[u] /\ arg'[u] = arg[u]
  <1>1. CASE Contended(LockOf(t))
    BY <1>1 DEF RegisterNow, TypeOK, AtTypes
  <1>2. CASE ~Contended(LockOf(t))
    <2>1. RegisterLocked(t, k)
      BY <1>2 DEF RegisterNow
    <2> QED BY <1>2, <2>1, RegisterLockedTypes
  <1> QED BY <1>1, <1>2

LEMMA CommandTypes ==
  ASSUME TypeOK, NEW t \in Task, NEW o \in CallTypes, Command(t, o)
  PROVE  /\ pc' \in [Task -> AtTypes] /\ arg' \in [Task -> Token \cup {NoToken}]
         /\ asked' = asked
         /\ pc'[t] \in {"idle", "ok", "error", "wake", "set"}
         /\ pc'[t] \in {"wake", "set"} => arg'[t] = token[LockOf(t)]
         /\ \A u \in Task \ {t} : pc'[u] = pc[u] /\ arg'[u] = arg[u]
  <1>1. LockOf(t) \in Lock /\ token[LockOf(t)] \in Token
    BY LockOfType DEF TypeOK
  <1>2. CASE o = "unlock" \/ o = "setmode"
    <2>1. PICK at \in {"wake", "set"} : Publish(t, at, token[LockOf(t)])
      BY <1>2 DEF Command
    <2>2. at \in AckTypes
      BY DEF AckTypes
    <2> QED BY <1>1, <2>1, <2>2, PublishTypes DEF Command
  <1>3. CASE o = "ensure"
    <2>1. Settle(t, "ok")
      BY <1>3 DEF Command
    <2>2. pc'[t] \in {"idle", "ok"}
      BY <2>1 DEF Settle, TypeOK
    <2> QED BY <2>1, <2>2, SettleTypes DEF Command
  <1> QED BY <1>2, <1>3 DEF Command

-----------------------------------------------------------------------------
(* Every step's effect on the invariant comes down to one of these: a task    *)
(* that publishes a 408 or moves without publishing one, all else unchanged.  *)

(* Task t leaves or enters a state other than "reg" and nothing else changes  *)
(* that the invariant reads, except that t may carry a command.               *)
LEMMA MoveKeeps ==
  ASSUME IndInv, TypeOK', NEW t \in Task,
         pc[t] # "reg", pc'[t] # "reg",
         pc'[t] \in {"wake", "set"} =>
             \/ pc'[t] = pc[t] /\ arg'[t] = arg[t]
             \/ LockOf(t) \in registered /\ arg'[t] = token[LockOf(t)],
         \A u \in Task \ {t} : pc'[u] = pc[u] /\ arg'[u] = arg[u],
         up' = up, stopped' = stopped, token' = token, registered' = registered,
         asked' = asked, known' = known
  PROVE  IndInv'
  <1>1. \A l \in Lock : Registering(l)' <=> Registering(l)
    BY DEF Registering
  <1>2. Exclusive'
    BY DEF IndInv, Exclusive
  <1>3. AskedSettled'
    BY <1>1 DEF IndInv, AskedSettled
  <1>4. RegisteredKnown'
    BY <1>1 DEF IndInv, RegisteredKnown
  <1>5. CommandTokenKnown'
    BY LockOfType DEF IndInv, CommandTokenKnown, RegisteredKnown
  <1> QED BY <1>2, <1>3, <1>4, <1>5 DEF IndInv, StoppedIsDown

(* Task t enters the mutex and publishes the 408 for token k, now in force. *)
LEMMA AskKeeps ==
  ASSUME IndInv, TypeOK', NEW t \in Task, ~Registering(LockOf(t)),
         pc'[t] = "reg", asked' = asked \cup {<<LockOf(t), token'[LockOf(t)]>>},
         \A u \in Task \ {t} : pc'[u] = pc[u] /\ arg'[u] = arg[u],
         up' = up, stopped' = stopped, known' = known,
         \A l \in Lock \ {LockOf(t)} : token'[l] = token[l],
         \A l \in Lock \ {LockOf(t)} : l \in registered' <=> l \in registered,
         ResetEnabled \/ token' = token
  PROVE  IndInv'
  <1>1. \A l \in Lock \ {LockOf(t)} : Registering(l)' <=> Registering(l)
    BY LockOfType DEF Registering
  <1>2. Registering(LockOf(t))'
    BY DEF Registering
  <1>3. Exclusive'
    BY DEF IndInv, Exclusive, Registering
  <1>4. AskedSettled'
    BY <1>1, <1>2 DEF IndInv, AskedSettled
  <1>5. RegisteredKnown'
    BY <1>1, <1>2, LockOfType DEF IndInv, RegisteredKnown, ResetEnabled
  <1>6. CommandTokenKnown'
    BY DEF IndInv, CommandTokenKnown, ResetEnabled
  <1> QED BY <1>3, <1>4, <1>5, <1>6 DEF IndInv, StoppedIsDown

-----------------------------------------------------------------------------
(* One lemma per action or group of actions with the same effect.           *)

LEMMA InitInv == Init => IndInv
  <1> SUFFICES ASSUME Init PROVE IndInv
    OBVIOUS
  <1>1. TypeOK
    BY DEF Init, TypeOK, AtTypes, CallTypes
  <1>2. \A t \in Task : pc[t] = "idle"
    BY DEF Init
  <1>3. StoppedIsDown /\ Exclusive /\ CommandTokenKnown
    BY <1>2 DEF Init, StoppedIsDown, Exclusive, CommandTokenKnown
  <1>4. AskedSettled /\ RegisteredKnown
    BY <1>2, LockOfType DEF Init, AskedSettled, RegisteredKnown, Registering
  <1> QED BY <1>1, <1>3, <1>4 DEF IndInv

(* Only the connection or the stopped flag changes, or nothing at all. *)
LEMMA LinkKeeps == ASSUME IndInv, Connect \/ Drop \/ UNCHANGED vars PROVE IndInv'
  <1>1. TypeOK'
    BY DEF IndInv, TypeOK, Connect, Drop, vars, taskVars, ghostVars
  <1>2. /\ UNCHANGED <<stopped, token, registered, asked, known, pc, arg>>
    BY DEF Connect, Drop, vars, taskVars, ghostVars
  <1>3. StoppedIsDown'
    BY DEF IndInv, StoppedIsDown, Connect, Drop, vars
  <1> QED BY <1>1, <1>2, <1>3 DEF IndInv, Exclusive, AskedSettled, RegisteredKnown, CommandTokenKnown, Registering

LEMMA StopKeeps == ASSUME IndInv, Stop PROVE IndInv'
  <1>1. TypeOK'
    BY DEF IndInv, TypeOK, Stop, AtTypes, ghostVars
  <1>2. \A t \in Task : pc'[t] # "idle" => pc'[t] = pc[t] /\ arg'[t] = arg[t]
    BY DEF Stop
  <1>3. UNCHANGED <<token, registered, asked, known>> /\ stopped' /\ ~up'
    BY DEF Stop, ghostVars
  <1>4. \A l \in Lock : Registering(l)' => Registering(l)
    BY <1>2 DEF Registering
  <1>5. StoppedIsDown' /\ Exclusive' /\ AskedSettled' /\ RegisteredKnown' /\ CommandTokenKnown'
    BY <1>2, <1>3, <1>4 DEF IndInv, StoppedIsDown, Exclusive, AskedSettled, RegisteredKnown, CommandTokenKnown
  <1> QED BY <1>1, <1>5 DEF IndInv

LEMMA CrashKeeps == ASSUME IndInv, Crash PROVE IndInv'
  <1>1. TypeOK'
    BY DEF IndInv, TypeOK, Crash, AtTypes, CallTypes, ghostVars
  <1>2. \A t \in Task : pc'[t] = "idle"
    BY DEF Crash
  <1>3. UNCHANGED <<token, registered, asked, known>> /\ stopped' /\ ~up'
    BY DEF Crash, ghostVars
  <1>4. \A l \in Lock : ~Registering(l)'
    BY <1>2 DEF Registering
  <1>5. StoppedIsDown' /\ Exclusive' /\ AskedSettled' /\ RegisteredKnown' /\ CommandTokenKnown'
    BY <1>2, <1>3, <1>4 DEF IndInv, StoppedIsDown, Exclusive, AskedSettled, RegisteredKnown, CommandTokenKnown
  <1> QED BY <1>1, <1>5 DEF IndInv

LEMMA NewClientKeeps ==
  ASSUME IndInv, NEW toks \in [Lock -> Token], NEW already \in SUBSET Lock, NewClient(toks, already)
  PROVE  IndInv'
  <1>0. known' \in SUBSET (Lock \X Token)
    <2>1. \A l \in already : l \in Lock /\ toks[l] \in Token
      OBVIOUS
    <2> QED BY <2>1 DEF NewClient
  <1>1. TypeOK'
    BY <1>0 DEF IndInv, TypeOK, NewClient, taskVars
  <1>2. \A t \in Task : pc'[t] \in Settled
    BY DEF NewClient, NothingInFlight, taskVars
  <1>3. StoppedIsDown' /\ Exclusive' /\ CommandTokenKnown'
    BY <1>2 DEF NewClient, StoppedIsDown, Exclusive, CommandTokenKnown, Settled
  <1>4. \A l \in Lock : ~Registering(l)'
    BY <1>2 DEF Registering, Settled
  <1>5. \A l \in Lock : <<l, toks[l]>> \in asked' \cup known' <=> l \in already
    BY DEF NewClient
  <1>6. token' = toks /\ registered' = already
    BY DEF NewClient
  <1>7. AskedSettled' /\ RegisteredKnown'
    BY <1>4, <1>5, <1>6 DEF AskedSettled, RegisteredKnown
  <1> QED BY <1>1, <1>3, <1>7 DEF IndInv

LEMMA HandleMessageKeeps ==
  ASSUME IndInv, NEW l \in Lock, NEW hasSid \in BOOLEAN, NEW acks \in SUBSET Task,
         HandleMessage(l, hasSid, acks)
  PROVE  IndInv'
  <1>0. l \in Task
    BY DEF Task
  <1>1. TypeOK'
    BY <1>0 DEF IndInv, TypeOK, HandleMessage, AtTypes, linkVars, ghostVars
  <1>2. UNCHANGED <<up, stopped, token, registered, asked, known, arg>>
    BY DEF HandleMessage, linkVars, ghostVars
  <1>3. CASE pc' = pc
    BY <1>1, <1>2, <1>3 DEF IndInv, StoppedIsDown, Exclusive, AskedSettled, RegisteredKnown, CommandTokenKnown, Registering
  <1>4. CASE pc' # pc
    <2>1. pc[l] = "idle" /\ pc' = [pc EXCEPT ![l] = "wait"]
      BY <1>4 DEF HandleMessage
    <2>2. pc'[l] = "wait" /\ \A u \in Task \ {l} : pc'[u] = pc[u] /\ arg'[u] = arg[u]
      BY <1>0, <1>2, <2>1 DEF IndInv, TypeOK
    <2> QED BY <1>0, <1>1, <1>2, <2>1, <2>2, MoveKeeps
  <1> QED BY <1>3, <1>4

(* A step of task t alone, in which any 408 is for a key not published before. *)
AsksOnce(t) ==
    /\ Asks(t) /\ ~CancelEnabled => <<LockOf(t), arg'[t]>> \notin asked \cup known
    /\ \A u \in Task \ {t} : pc'[u] = pc[u]

(* An idle task that enters _register_now for an unregistered lock. *)
LEMMA RegisterNowKeeps ==
  ASSUME IndInv, NEW t \in Task, pc[t] = "idle", LockOf(t) \notin registered,
         RegisterNow(t, token[LockOf(t)]), op' \in [Call -> CallTypes],
         UNCHANGED <<up, stopped, sid, token, registered, acked, known>>
  PROVE  IndInv' /\ AsksOnce(t)
  <1>1. TypeOK /\ pc[t] # "reg" /\ token[LockOf(t)] \in Token /\ LockOf(t) \in Lock
    BY LockOfType DEF IndInv, TypeOK
  <1>2. TypeOK'
    BY <1>1, RegisterNowTypes DEF TypeOK
  <1>3. CASE pc'[t] = "reg"
    <2>1. /\ up /\ arg'[t] = token[LockOf(t)] /\ ~Contended(LockOf(t))
          /\ asked' = asked \cup {<<LockOf(t), token[LockOf(t)]>>}
          /\ \A u \in Task \ {t} : pc'[u] = pc[u] /\ arg'[u] = arg[u]
      BY <1>1, <1>3, RegisterNowTypes
    <2>2. ~Registering(LockOf(t))
      BY <2>1 DEF Registering, Contended
    <2>3. IndInv'
      BY <1>2, <1>3, <2>1, <2>2, AskKeeps
    <2>4. ~CancelEnabled => <<LockOf(t), arg'[t]>> \notin asked \cup known
      BY <1>1, <2>1, <2>2 DEF IndInv, StoppedIsDown, AskedSettled
    <2> QED BY <2>1, <2>3, <2>4 DEF AsksOnce
  <1>4. CASE pc'[t] # "reg"
    <2>1. /\ asked' = asked /\ pc'[t] \notin {"wake", "set"}
          /\ \A u \in Task \ {t} : pc'[u] = pc[u] /\ arg'[u] = arg[u]
      BY <1>1, <1>4, RegisterNowTypes
    <2>2. IndInv'
      BY <1>1, <1>2, <1>4, <2>1, MoveKeeps
    <2> QED BY <1>4, <2>1, <2>2 DEF Asks, AsksOnce
  <1> QED BY <1>3, <1>4

(* An idle task that ends at once. *)
LEMMA SettleKeeps ==
  ASSUME IndInv, NEW t \in Task, pc[t] # "reg", NEW r \in {"ok", "error"}, Settle(t, r),
         op' \in [Call -> CallTypes], acked' \in SUBSET Task,
         UNCHANGED <<up, stopped, sid, token, registered, asked, known>>
  PROVE  IndInv' /\ AsksOnce(t)
  <1>1. TypeOK
    BY DEF IndInv
  <1>2. /\ pc'[t] \in {"idle", "ok", "error"}
        /\ \A u \in Task \ {t} : pc'[u] = pc[u] /\ arg'[u] = arg[u]
    BY <1>1, SettleTypes
  <1>3. TypeOK'
    BY <1>1, SettleTypes DEF TypeOK
  <1>4. IndInv'
    BY <1>2, <1>3, MoveKeeps
  <1> QED BY <1>2, <1>4 DEF Asks, AsksOnce

(* A task outside "reg" that goes on to its command on a registered lock. *)
LEMMA CommandKeeps ==
  ASSUME IndInv, NEW t \in Task, pc[t] # "reg", NEW o \in CallTypes, Command(t, o),
         LockOf(t) \in registered, op' \in [Call -> CallTypes],
         UNCHANGED <<up, stopped, sid, token, registered, acked, known>>
  PROVE  IndInv' /\ AsksOnce(t)
  <1>1. TypeOK
    BY DEF IndInv
  <1>2. TypeOK'
    BY <1>1, CommandTypes DEF TypeOK
  <1>3. IndInv'
    BY <1>1, <1>2, CommandTypes, MoveKeeps
  <1>4. pc'[t] # "reg" /\ \A u \in Task \ {t} : pc'[u] = pc[u]
    BY <1>1, CommandTypes
  <1> QED BY <1>3, <1>4 DEF Asks, AsksOnce

LEMMA RequestKeeps ==
  ASSUME IndInv, NEW c \in Call, NEW o \in {"unlock", "setmode"}, Request(c, o)
  PROVE  IndInv' /\ AsksOnce(c)
  <1>1. /\ c \in Task /\ LockOf(c) = Target[c] /\ pc[c] = "idle" /\ o \in CallTypes
        /\ UNCHANGED <<up, stopped, sid, token, registered, acked, known>>
    BY LockOfCall DEF Request, Begin, CallTypes, linkVars
  <1>2. op' \in [Call -> CallTypes] /\ acked' \in SUBSET Task
    BY <1>1 DEF Request, Begin, IndInv, TypeOK
  <1>3. CASE Settle(c, "error") /\ asked' = asked
    BY <1>1, <1>2, <1>3, SettleKeeps
  <1>4. CASE Target[c] \in registered /\ Command(c, o)
    BY <1>1, <1>2, <1>4, CommandKeeps
  <1>5. CASE Target[c] \notin registered /\ RegisterNow(c, token[Target[c]])
    BY <1>1, <1>2, <1>5, RegisterNowKeeps
  <1> QED BY <1>3, <1>4, <1>5 DEF Request

LEMMA EnsureRegisteredKeeps ==
  ASSUME IndInv, NEW c \in Call, EnsureRegistered(c)
  PROVE  IndInv' /\ AsksOnce(c)
  <1>1. /\ c \in Task /\ LockOf(c) = Target[c] /\ pc[c] = "idle"
        /\ UNCHANGED <<up, stopped, sid, token, registered, acked, known>>
    BY LockOfCall DEF EnsureRegistered, Begin, linkVars
  <1>2. op' \in [Call -> CallTypes] /\ acked' \in SUBSET Task
    BY <1>1 DEF EnsureRegistered, Begin, IndInv, TypeOK, CallTypes
  <1>3. CASE asked' = asked /\ (Settle(c, "ok") \/ Settle(c, "error"))
    BY <1>1, <1>2, <1>3, SettleKeeps
  <1>4. CASE Target[c] \notin registered /\ RegisterNow(c, token[Target[c]])
    BY <1>1, <1>2, <1>4, RegisterNowKeeps
  <1> QED BY <1>3, <1>4 DEF EnsureRegistered

LEMMA DeletePinKeeps ==
  ASSUME IndInv, NEW c \in Call, NEW k \in Token, DeletePin(c, k)
  PROVE  IndInv' /\ AsksOnce(c)
  <1>1. /\ c \in Task /\ pc[c] = "idle" /\ TypeOK
        /\ UNCHANGED <<up, stopped, sid, token, registered, acked, asked, known>>
    BY LockOfCall DEF DeletePin, Begin, linkVars, ghostVars, IndInv
  <1>2. op' \in [Call -> CallTypes] /\ acked' \in SUBSET Task
    BY <1>1 DEF DeletePin, Begin, TypeOK, CallTypes
  <1>3. CASE Settle(c, "error")
    BY <1>1, <1>2, <1>3, SettleKeeps
  <1>4. CASE Publish(c, "del", k)
    <2>1. "del" \in AckTypes /\ "del" # "reg"
      BY DEF AckTypes
    <2>2. /\ pc'[c] \in {"del", "idle", "error"}
          /\ \A u \in Task \ {c} : pc'[u] = pc[u] /\ arg'[u] = arg[u]
      BY <1>1, <1>4, <2>1, PublishTypes DEF TypeOK
    <2>3. TypeOK'
      BY <1>1, <1>2, <1>4, <2>1, PublishTypes DEF TypeOK
    <2>4. IndInv'
      BY <1>1, <2>2, <2>3, MoveKeeps
    <2> QED BY <2>2, <2>4 DEF Asks, AsksOnce
  <1> QED BY <1>3, <1>4 DEF DeletePin

LEMMA ReplaceKeeps ==
  ASSUME IndInv, ResetEnabled, NEW c \in Call, NEW k \in Token, ReplaceHaPinToken(c, k)
  PROVE  IndInv' /\ AsksOnce(c)
  <1> DEFINE l == Target[c]
  <1>1. /\ c \in Task /\ LockOf(c) = l /\ l \in Lock /\ pc[c] = "idle" /\ TypeOK
        /\ UNCHANGED <<up, stopped, sid, acked, known>>
        /\ <<l, k>> \notin asked \cup known
    BY LockOfCall DEF ReplaceHaPinToken, Begin, linkVars, Fresh, IndInv
  <1>2. /\ token' = [token EXCEPT ![l] = k] /\ registered' = registered \ {l}
        /\ token'[l] = k /\ \A m \in Lock \ {l} : token'[m] = token[m]
    BY <1>1 DEF ReplaceHaPinToken, TypeOK
  <1>3. /\ op' \in [Call -> CallTypes] /\ token' \in [Lock -> Token]
        /\ registered' \in SUBSET Lock
    BY <1>1, <1>2 DEF ReplaceHaPinToken, Begin, TypeOK, CallTypes
  <1>4. CASE pc'[c] = "reg"
    <2>1. RegisterNow(c, k)
      BY <1>1, <1>4 DEF ReplaceHaPinToken, Settle, TypeOK
    <2>2. TypeOK'
      BY <1>1, <1>3, <2>1, RegisterNowTypes DEF TypeOK
    <2>3. /\ arg'[c] = k /\ ~Contended(l) /\ asked' = asked \cup {<<l, k>>}
          /\ \A u \in Task \ {c} : pc'[u] = pc[u] /\ arg'[u] = arg[u]
      BY <1>1, <1>4, <2>1, RegisterNowTypes
    <2>4. ~Registering(l)
      BY <2>3 DEF Registering, Contended
    <2>5. IndInv'
      BY <1>1, <1>2, <1>4, <2>2, <2>3, <2>4, AskKeeps
    <2> QED BY <1>1, <2>3, <2>5 DEF AsksOnce
  <1>5. CASE pc'[c] # "reg"
    <2>1. /\ asked' = asked /\ pc' \in [Task -> AtTypes]
          /\ arg' \in [Task -> Token \cup {NoToken}]
          /\ \A u \in Task \ {c} : pc'[u] = pc[u] /\ arg'[u] = arg[u]
      <3>1. CASE Settle(c, "error") /\ asked' = asked
        BY <1>1, <3>1, SettleTypes
      <3>2. CASE RegisterNow(c, k)
        BY <1>1, <1>5, <3>2, RegisterNowTypes
      <3> QED BY <3>1, <3>2 DEF ReplaceHaPinToken
    <2>2. TypeOK'
      BY <1>1, <1>3, <2>1 DEF TypeOK
    <2>3. \A m \in Lock : Registering(m)' <=> Registering(m)
      BY <1>1, <1>5, <2>1 DEF Registering
    <2>4. Exclusive'
      BY <1>1, <1>5, <2>1 DEF IndInv, Exclusive
    <2>5. AskedSettled'
      BY <1>1, <1>2, <2>1, <2>3 DEF IndInv, AskedSettled
    <2>6. RegisteredKnown' /\ CommandTokenKnown'
      BY DEF RegisteredKnown, CommandTokenKnown, ResetEnabled
    <2>7. StoppedIsDown'
      BY <1>1 DEF IndInv, StoppedIsDown
    <2> QED BY <1>5, <2>1, <2>2, <2>4, <2>5, <2>6, <2>7 DEF IndInv, AsksOnce, Asks
  <1> QED BY <1>4, <1>5

(* What a REST answer shows. *)
LEMMA RestKeeps ==
  ASSUME IndInv, NEW l \in Lock, NEW k \in Token, AdoptToken(l, k) \/ MarkRegistered(l, k)
  PROVE  IndInv'
  <1>1. UNCHANGED <<up, stopped, sid, pc, op, arg, acked, asked>>
    BY DEF AdoptToken, MarkRegistered, linkVars, taskVars
  <1>2. /\ token' \in [Lock -> Token]
        /\ \A m \in Lock \ {l} : token'[m] = token[m]
        /\ registered' = registered \cup {l} /\ known' = known \cup {<<l, k>>}
    BY DEF AdoptToken, MarkRegistered, IndInv, TypeOK
  <1>3. TypeOK'
    BY <1>1, <1>2 DEF IndInv, TypeOK
  <1>4. \A m \in Lock : Registering(m)' <=> Registering(m)
    BY <1>1 DEF Registering
  <1>5. StoppedIsDown' /\ Exclusive' /\ AskedSettled' /\ CommandTokenKnown'
    BY <1>1, <1>2, <1>4 DEF IndInv, StoppedIsDown, Exclusive, AskedSettled, CommandTokenKnown
  <1>6. ~ResetEnabled => <<l, token'[l]>> \in asked' \cup known'
    <2>1. CASE AdoptToken(l, k)
      BY <1>2, <2>1 DEF AdoptToken, IndInv, TypeOK
    <2>2. CASE MarkRegistered(l, k)
      BY <1>1, <1>2, <2>2 DEF MarkRegistered, IndInv, RegisteredKnown
    <2> QED BY <2>1, <2>2
  <1>7. RegisteredKnown'
    BY <1>1, <1>2, <1>4, <1>6 DEF IndInv, RegisteredKnown
  <1> QED BY <1>3, <1>5, <1>7 DEF IndInv

LEMMA PurposeType == ASSUME IndInv, NEW t \in Task PROVE Purpose(t) \in CallTypes
  BY DEF Purpose, Task, IndInv, TypeOK, CallTypes

LEMMA AcquireKeeps ==
  ASSUME IndInv, NEW t \in Task, Acquire(t)
  PROVE  IndInv' /\ AsksOnce(t)
  <1> DEFINE l == LockOf(t)
  <1>1. /\ l \in Lock /\ token[l] \in Token /\ pc[t] = "wait" /\ TypeOK /\ ~Registering(l)
        /\ UNCHANGED <<up, stopped, sid, token, registered, op, acked, known>>
    BY LockOfType DEF Acquire, linkVars, IndInv, TypeOK
  <1>2. CASE l \in registered /\ Command(t, Purpose(t))
    <2>1. op' \in [Call -> CallTypes]
      BY <1>1 DEF TypeOK
    <2> QED BY <1>1, <1>2, <2>1, PurposeType, CommandKeeps
  <1>3. CASE l \notin registered /\ RegisterLocked(t, token[l])
    <2>1. TypeOK'
      BY <1>1, <1>3, RegisterLockedTypes DEF TypeOK
    <2>2. CASE pc'[t] = "reg"
      <3>1. /\ up /\ arg'[t] = token[l] /\ asked' = asked \cup {<<l, token[l]>>}
            /\ \A u \in Task \ {t} : pc'[u] = pc[u] /\ arg'[u] = arg[u]
        BY <1>1, <1>3, <2>2, RegisterLockedTypes
      <3>2. IndInv'
        BY <1>1, <2>1, <2>2, <3>1, AskKeeps
      <3>3. ~CancelEnabled => <<l, arg'[t]>> \notin asked \cup known
        BY <1>1, <1>3, <3>1 DEF IndInv, StoppedIsDown, AskedSettled
      <3> QED BY <3>1, <3>2, <3>3 DEF AsksOnce
    <2>3. CASE pc'[t] # "reg"
      <3>1. /\ asked' = asked /\ pc'[t] \notin {"wake", "set"}
            /\ \A u \in Task \ {t} : pc'[u] = pc[u] /\ arg'[u] = arg[u]
        BY <1>1, <1>3, <2>3, RegisterLockedTypes
      <3>2. IndInv'
        BY <1>1, <2>1, <2>3, <3>1, MoveKeeps
      <3> QED BY <2>3, <3>1, <3>2 DEF Asks, AsksOnce
    <2> QED BY <2>2, <2>3
  <1> QED BY <1>2, <1>3 DEF Acquire

(* The registration of t is over.  Its lock becomes registered in the same    *)
(* step, so AskedSettled survives the mutex being left, and the command that  *)
(* may follow carries the token that RegisteredKnown vouches for.             *)
LEMMA ResumeRegKeeps ==
  ASSUME IndInv, NEW t \in Task, ResumeReg(t)
  PROVE  IndInv' /\ AsksOnce(t)
  <1> DEFINE l == LockOf(t)
  <1>1. /\ l \in Lock /\ pc[t] = "reg" /\ TypeOK /\ Registering(l)
        /\ UNCHANGED <<up, stopped, sid, token, op, known>>
        /\ registered' = registered \cup {l} /\ acked' = acked \ {t}
        /\ Command(t, Purpose(t))
    BY LockOfType DEF ResumeReg, linkVars, IndInv, Registering
  <1>2. /\ pc' \in [Task -> AtTypes] /\ arg' \in [Task -> Token \cup {NoToken}]
        /\ asked' = asked
        /\ pc'[t] \in {"idle", "ok", "error", "wake", "set"}
        /\ pc'[t] \in {"wake", "set"} => arg'[t] = token[l]
        /\ \A u \in Task \ {t} : pc'[u] = pc[u] /\ arg'[u] = arg[u]
    BY <1>1, PurposeType, CommandTypes
  <1>3. TypeOK'
    BY <1>1, <1>2 DEF TypeOK
  <1>4. \A m \in Lock \ {l} : Registering(m)' <=> Registering(m)
    BY <1>2 DEF Registering
  <1>5. StoppedIsDown' /\ Exclusive'
    BY <1>1, <1>2 DEF IndInv, StoppedIsDown, Exclusive
  <1>6. AskedSettled'
    BY <1>1, <1>2, <1>4 DEF IndInv, AskedSettled
  <1>7. RegisteredKnown'
    BY <1>1, <1>2, <1>4 DEF IndInv, RegisteredKnown
  <1>8. CommandTokenKnown'
    BY <1>1, <1>2 DEF IndInv, CommandTokenKnown, RegisteredKnown
  <1>9. ~Asks(t)
    BY <1>1 DEF Asks
  <1> QED BY <1>3, <1>5, <1>6, <1>7, <1>8, <1>9, <1>2 DEF IndInv, AsksOnce

LEMMA ResumeWakeLastKeeps ==
  ASSUME IndInv, NEW t \in Task, ResumeWake(t) \/ ResumeLast(t)
  PROVE  IndInv' /\ AsksOnce(t)
  <1>1. PICK r \in {"ok", "error"} : Settle(t, r)
    BY DEF ResumeWake, ResumeLast
  <1>2. /\ pc[t] # "reg" /\ UNCHANGED <<up, stopped, sid, token, registered, op, asked, known>>
        /\ acked' = acked \ {t}
    BY DEF ResumeWake, ResumeLast, linkVars, ghostVars
  <1>3. op' \in [Call -> CallTypes] /\ acked' \in SUBSET Task
    BY <1>2 DEF IndInv, TypeOK
  <1> QED BY <1>1, <1>2, <1>3, SettleKeeps

LEMMA ReturnKeeps ==
  ASSUME IndInv, NEW c \in Call, Return(c)
  PROVE  IndInv' /\ AsksOnce(c)
  <1>1. /\ c \in Task /\ pc[c] \in {"ok", "error"} /\ TypeOK
        /\ UNCHANGED <<up, stopped, sid, token, registered, arg, acked, asked, known>>
    BY LockOfCall DEF Return, linkVars, ghostVars, IndInv
  <1>2. pc'[c] = "idle" /\ \A u \in Task \ {c} : pc'[u] = pc[u] /\ arg'[u] = arg[u]
    BY <1>1 DEF Return, TypeOK
  <1>3. TypeOK'
    BY <1>1 DEF Return, TypeOK, AtTypes, CallTypes
  <1>4. IndInv'
    BY <1>1, <1>2, <1>3, MoveKeeps
  <1> QED BY <1>2, <1>4 DEF Asks, AsksOnce

(* A cancelled call may leave the mutex with its key asked for and the lock   *)
(* unregistered: AskedSettled then claims nothing.                            *)
LEMMA CancelKeeps ==
  ASSUME IndInv, NEW c \in Call, Cancel(c)
  PROVE  IndInv' /\ AsksOnce(c)
  <1>1. /\ c \in Task /\ CancelEnabled /\ Settle(c, "error") /\ TypeOK
        /\ UNCHANGED <<up, stopped, sid, token, registered, op, asked, known>>
        /\ acked' = acked \ {c}
    BY LockOfCall DEF Cancel, linkVars, ghostVars, IndInv
  <1>2. /\ pc'[c] \in {"idle", "ok", "error"}
        /\ \A u \in Task \ {c} : pc'[u] = pc[u] /\ arg'[u] = arg[u]
    BY <1>1, SettleTypes
  <1>3. TypeOK'
    BY <1>1, SettleTypes DEF TypeOK
  <1>4. \A l \in Lock : Registering(l)' => Registering(l)
    BY <1>2 DEF Registering
  <1>5. StoppedIsDown' /\ Exclusive' /\ RegisteredKnown' /\ CommandTokenKnown'
    BY <1>1, <1>2, <1>4 DEF IndInv, StoppedIsDown, Exclusive, RegisteredKnown, CommandTokenKnown
  <1>6. AskedSettled'
    BY <1>1 DEF AskedSettled, CancelEnabled
  <1> QED BY <1>1, <1>2, <1>3, <1>5, <1>6 DEF IndInv, AsksOnce

-----------------------------------------------------------------------------

LEMMA NextKeeps == ASSUME IndInv, [Next]_vars PROVE IndInv'
  <1>1. CASE Connect \/ Drop \/ UNCHANGED vars
    BY <1>1, LinkKeeps
  <1>2. CASE Stop
    BY <1>2, StopKeeps
  <1>3. CASE Crash
    BY <1>3, CrashKeeps
  <1>4. ASSUME NEW toks \in [Lock -> Token], NEW already \in SUBSET Lock, NewClient(toks, already)
        PROVE  IndInv'
    BY <1>4, NewClientKeeps
  <1>5. ASSUME NEW l \in Lock, NEW hasSid \in BOOLEAN,
               NEW acks \in {{}} \cup {{t} : t \in Task}, HandleMessage(l, hasSid, acks)
        PROVE  IndInv'
    <2>1. acks \in SUBSET Task
      OBVIOUS
    <2> QED BY <1>5, <2>1, HandleMessageKeeps
  <1>6. ASSUME NEW c \in Call, AsyncUnlock(c) \/ AsyncSetMode(c) \/ Return(c) \/ Cancel(c)
        PROVE  IndInv'
    BY <1>6, RequestKeeps, ReturnKeeps, CancelKeeps DEF AsyncUnlock, AsyncSetMode
  <1>7. CASE Refresh
    BY <1>7, EnsureRegisteredKeeps, RestKeeps DEF Refresh
  <1>8. CASE Reset
    BY <1>8, DeletePinKeeps, ReplaceKeeps DEF Reset
  <1>9. ASSUME NEW t \in Task, Acquire(t) \/ Resume(t)
        PROVE  IndInv'
    BY <1>9, AcquireKeeps, ResumeRegKeeps, ResumeWakeLastKeeps DEF Resume
  <1> QED BY <1>1, <1>2, <1>3, <1>4, <1>5, <1>6, <1>7, <1>8, <1>9 DEF Next

(* The invariant holds in every reachable state. *)
THEOREM Invariance == Spec => []IndInv
  <1>1. Init => IndInv
    BY InitInv
  <1>2. IndInv /\ [Next]_vars => IndInv'
    BY NextKeeps
  <1> QED BY <1>1, <1>2, PTL DEF Spec

(* Every variable of the client keeps its type. *)
THEOREM TypeCorrect == Spec => []TypeOK
  <1>1. IndInv => TypeOK
    BY DEF IndInv
  <1> QED BY <1>1, Invariance, PTL

(* asyncio's per-lock mutex, derived here from the tasks' own guards, keeps   *)
(* registrations of one lock apart, with any number of calls and locks.       *)
THEOREM RegistrationsExclude == Spec => []Exclusive
  <1>1. IndInv => Exclusive
    BY DEF IndInv
  <1> QED BY <1>1, Invariance, PTL

(* As long as no call is cancelled, a lock that was asked to take the token   *)
(* in force is registered or will be by a registration that is running, with  *)
(* resets and without: what every guard on _registered relies on.             *)
THEOREM AskedAreSettled == Spec => []AskedSettled
  <1>1. IndInv => AskedSettled
    BY DEF IndInv
  <1> QED BY <1>1, Invariance, PTL

(* Without resets a registered lock was asked for, or seen with, the very     *)
(* token in force.                                                            *)
THEOREM RegisteredMeansKnown == Spec => []RegisteredKnown
  <1>1. IndInv => RegisteredKnown
    BY DEF IndInv
  <1> QED BY <1>1, Invariance, PTL

(* Commands carry keys the lock was asked to register or was seen to have. *)
THEOREM CommandsCarryKnownKeys == Spec => []CommandTokenKnown
  <1>1. IndInv => CommandTokenKnown
    BY DEF IndInv
  <1> QED BY <1>1, Invariance, PTL

(* A step that no task of its own takes publishes no 408. *)
LEMMA QuietSteps ==
  ASSUME IndInv, NEW u \in Task,
         \/ Connect \/ Drop \/ Stop \/ Crash
         \/ \E toks \in [Lock -> Token], already \in SUBSET Lock : NewClient(toks, already)
         \/ \E l \in Lock, hasSid \in BOOLEAN, acks \in {{}} \cup {{t} : t \in Task} :
                HandleMessage(l, hasSid, acks)
         \/ \E l \in Lock, k \in Token : AdoptToken(l, k) \/ MarkRegistered(l, k)
  PROVE  ~Asks(u)
  <1>1. pc \in [Task -> AtTypes]
    BY DEF IndInv, TypeOK
  <1>2. pc'[u] \in {pc[u], "idle", "wait"}
    BY <1>1 DEF Connect, Drop, Stop, Crash, NewClient, HandleMessage, AdoptToken, MarkRegistered, taskVars
  <1> QED BY <1>2 DEF Asks

LEMMA NextAsksOnce ==
  ASSUME IndInv, Next, NEW u \in Task, Asks(u)
  PROVE  ~CancelEnabled => <<LockOf(u), arg'[u]>> \notin asked \cup known
  <1>1. ASSUME NEW t \in Task, AsksOnce(t)
        PROVE  ~CancelEnabled => <<LockOf(u), arg'[u]>> \notin asked \cup known
    BY <1>1 DEF AsksOnce, Asks
  <1>2. CASE \E t \in Task : AsksOnce(t)
    BY <1>1, <1>2
  <1>3. ASSUME NEW c \in Call, AsyncUnlock(c) \/ AsyncSetMode(c) \/ Return(c) \/ Cancel(c)
        PROVE  \E t \in Task : AsksOnce(t)
    BY <1>3, LockOfCall, RequestKeeps, ReturnKeeps, CancelKeeps DEF AsyncUnlock, AsyncSetMode
  <1>4. ASSUME NEW c \in Call, EnsureRegistered(c)
        PROVE  \E t \in Task : AsksOnce(t)
    BY <1>4, LockOfCall, EnsureRegisteredKeeps
  <1>5. CASE Reset
    BY <1>2, <1>5, LockOfCall, DeletePinKeeps, ReplaceKeeps DEF Reset
  <1>6. ASSUME NEW t \in Task, Acquire(t) \/ Resume(t)
        PROVE  AsksOnce(t)
    BY <1>6, AcquireKeeps, ResumeRegKeeps, ResumeWakeLastKeeps DEF Resume
  <1> QED BY <1>2, <1>3, <1>4, <1>5, <1>6, QuietSteps DEF Next, Refresh

(* No self-heal, unlock, mode switch or refresh asks the lock for a key this  *)
(* client asked for before or saw there, however many of them overlap.        *)
THEOREM KeysAskedForOnce == Spec => NeverAskedTwice
  <1>1. IndInv /\ [Next]_vars =>
            [\A t \in Task : Asks(t) /\ ~CancelEnabled
                 => <<LockOf(t), arg'[t]>> \notin asked \cup known]_vars
    BY NextAsksOnce
  <1> QED BY <1>1, Invariance, PTL DEF Spec, NeverAskedTwice

-----------------------------------------------------------------------------
(* RelayClient implements KeyCustody for every set of locks, calls and tokens, *)
(* as long as no call is cancelled and no reset replaces a token.              *)

(* What KeyCustody sees of a live client. *)
Asking == {<<LockOf(t), t>> : t \in {u \in Task : pc[u] = "reg"}}
InUse == {<<LockOf(t), arg[t]>> : t \in {u \in Task : pc[u] \in {"wake", "set"}}}
Trusted == asked \cup known

CustodyStep == [Custody!CustodyNext]_(Custody!custodyVars)

(* No step of a client that is stopped and stays so is seen. *)
LEMMA StoppedIsUnseen ==
  ASSUME stopped, stopped'
  PROVE  CustodyStep
  BY DEF CustodyStep, Custody!custodyVars

LEMMA Unseen ==
  ASSUME ~stopped, ~stopped', UNCHANGED <<token, registered, Trusted, Asking, InUse>>
  PROVE  CustodyStep
  BY DEF CustodyStep, Custody!custodyVars, Trusted, Asking, InUse

LEMMA SeenAsk ==
  ASSUME ~stopped, ~stopped', NEW t \in Task, NEW l \in Lock, l = LockOf(t),
         l \notin registered, <<l, token[l]>> \notin Trusted, ~Registering(l),
         Asking' = Asking \cup {<<l, t>>}, Trusted' = Trusted \cup {<<l, token[l]>>},
         UNCHANGED <<token, registered, InUse>>
  PROVE  CustodyStep
  <1>1. \A q \in Task : <<l, q>> \notin Asking
    BY DEF Asking, Registering
  <1>2. Custody!Ask(l, t)
    BY <1>1 DEF Custody!Ask, Custody!Current, Trusted, Asking, InUse
  <1> QED BY <1>2 DEF CustodyStep, Custody!CustodyNext

LEMMA SeenHold ==
  ASSUME ~stopped, ~stopped', NEW t \in Task, NEW l \in Lock,
         <<l, t>> \in Asking, Asking' = Asking \ {<<l, t>>},
         registered' = registered \cup {l},
         InUse' \in {InUse, InUse \cup {<<l, token[l]>>}},
         UNCHANGED <<token, Trusted>>
  PROVE  CustodyStep
  <1>1. Custody!Hold(l, t)
    BY DEF Custody!Hold, Custody!Current, Trusted, Asking, InUse
  <1> QED BY <1>1 DEF CustodyStep, Custody!CustodyNext

LEMMA SeenUse ==
  ASSUME ~stopped, ~stopped', NEW l \in Lock, l \in registered, <<l, token[l]>> \in Trusted,
         InUse' = InUse \cup {<<l, token[l]>>},
         UNCHANGED <<token, registered, Trusted, Asking>>
  PROVE  CustodyStep
  <1>1. Custody!Use(l)
    BY DEF Custody!Use, Custody!Current, Trusted, Asking, InUse
  <1> QED BY <1>1 DEF CustodyStep, Custody!CustodyNext

LEMMA SeenDone ==
  ASSUME ~stopped, ~stopped', \E key \in InUse : InUse' = InUse \ {key},
         UNCHANGED <<token, registered, Trusted, Asking>>
  PROVE  CustodyStep
  <1>1. Custody!Done
    BY DEF Custody!Done, Trusted, Asking, InUse
  <1> QED BY <1>1 DEF CustodyStep, Custody!CustodyNext

LEMMA SeenLearn ==
  ASSUME ~stopped, ~stopped', NEW l \in Lock, NEW k \in Token,
         token' \in {token, [token EXCEPT ![l] = k]}, token'[l] = k \/ l \in registered,
         registered' = registered \cup {l}, Trusted' = Trusted \cup {<<l, k>>},
         UNCHANGED <<Asking, InUse>>
  PROVE  CustodyStep
  <1>1. Custody!Learn(l, k)
    BY DEF Custody!Learn, Trusted, Asking, InUse
  <1> QED BY <1>1 DEF CustodyStep, Custody!CustodyNext

LEMMA SeenStart ==
  ASSUME stopped, ~stopped', NEW toks \in [Lock -> Token], NEW found \in SUBSET Lock,
         token' = toks, registered' = found, Trusted' = {<<l, toks[l]>> : l \in found},
         Asking' = {}, InUse' = {}
  PROVE  CustodyStep
  <1>1. Custody!Start(toks, found)
    BY DEF Custody!Start, Trusted, Asking, InUse
  <1> QED BY <1>1 DEF CustodyStep, Custody!CustodyNext

LEMMA SeenEnd ==
  ASSUME ~stopped, stopped'
  PROVE  CustodyStep
  <1>1. Custody!End
    BY DEF Custody!End, Custody!NoClient
  <1> QED BY <1>1 DEF CustodyStep, Custody!CustodyNext

-----------------------------------------------------------------------------
(* Task t alone moves. *)
LEMMA MoveAsking ==
  ASSUME NEW t \in Task, \A u \in Task \ {t} : pc'[u] = pc[u]
  PROVE  /\ pc[t] # "reg" /\ pc'[t] # "reg" => Asking' = Asking
         /\ pc'[t] = "reg" => Asking' = Asking \cup {<<LockOf(t), t>>}
         /\ pc[t] = "reg" => <<LockOf(t), t>> \in Asking
         /\ pc[t] = "reg" /\ pc'[t] # "reg" => Asking' = Asking \ {<<LockOf(t), t>>}
  BY DEF Asking

LEMMA MoveInUse ==
  ASSUME NEW t \in Task, \A u \in Task \ {t} : pc'[u] = pc[u] /\ arg'[u] = arg[u]
  PROVE  /\ pc[t] \notin {"wake", "set"} /\ pc'[t] \notin {"wake", "set"} => InUse' = InUse
         /\ pc[t] \notin {"wake", "set"} /\ pc'[t] \in {"wake", "set"}
                => InUse' = InUse \cup {<<LockOf(t), arg'[t]>>}
         /\ pc[t] \in {"wake", "set"} /\ pc'[t] \notin {"wake", "set"}
                => InUse' = InUse \/ \E key \in InUse : InUse' = InUse \ {key}
  <1> DEFINE key == <<LockOf(t), arg[t]>>
  <1>1. pc[t] \notin {"wake", "set"} /\ pc'[t] \notin {"wake", "set"} => InUse' = InUse
    BY DEF InUse
  <1>2. pc[t] \notin {"wake", "set"} /\ pc'[t] \in {"wake", "set"}
            => InUse' = InUse \cup {<<LockOf(t), arg'[t]>>}
    BY DEF InUse
  <1>3. ASSUME pc[t] \in {"wake", "set"}, pc'[t] \notin {"wake", "set"}
        PROVE  InUse' = InUse \/ (key \in InUse /\ InUse' = InUse \ {key})
    BY <1>3 DEF InUse
  <1> QED BY <1>1, <1>2, <1>3

-----------------------------------------------------------------------------
(* The steps of a live client without resets and cancelled calls.             *)

Plain == ~ResetEnabled /\ ~CancelEnabled

(* Task t publishes a 408 or does not get to it. *)
LEMMA RegisterSeen ==
  ASSUME IndInv, Plain, ~stopped, ~stopped', NEW t \in Task, pc[t] \notin {"reg", "wake", "set"},
         LockOf(t) \notin registered,
         \/ /\ pc'[t] = "reg" /\ ~Registering(LockOf(t))
            /\ asked' = asked \cup {<<LockOf(t), token[LockOf(t)]>>}
         \/ pc'[t] \in {"idle", "error", "wait"} /\ asked' = asked,
         \A u \in Task \ {t} : pc'[u] = pc[u] /\ arg'[u] = arg[u],
         UNCHANGED <<token, registered, known>>
  PROVE  CustodyStep
  <1> DEFINE l == LockOf(t)
  <1>1. InUse' = InUse /\ l \in Lock
    BY MoveInUse, LockOfType
  <1>2. CASE pc'[t] = "reg"
    <2>1. <<l, token[l]>> \notin Trusted
      BY <1>1, <1>2 DEF IndInv, AskedSettled, Plain, Trusted
    <2>2. Asking' = Asking \cup {<<l, t>>} /\ Trusted' = Trusted \cup {<<l, token[l]>>}
      BY <1>2, MoveAsking DEF Trusted
    <2> QED BY <1>1, <1>2, <2>1, <2>2, SeenAsk
  <1>3. CASE pc'[t] # "reg"
    <2>1. Asking' = Asking /\ Trusted' = Trusted
      BY <1>3, MoveAsking DEF Trusted
    <2> QED BY <1>1, <2>1, Unseen
  <1> QED BY <1>2, <1>3

LEMMA RegisterNowSeen ==
  ASSUME IndInv, Plain, ~stopped, ~stopped', NEW t \in Task, pc[t] = "idle",
         LockOf(t) \notin registered, RegisterNow(t, token[LockOf(t)]),
         UNCHANGED <<token, registered, known>>
  PROVE  CustodyStep
  <1>1. TypeOK /\ token[LockOf(t)] \in Token
    BY LockOfType DEF IndInv, TypeOK
  <1>2. /\ \/ /\ pc'[t] = "reg" /\ ~Registering(LockOf(t))
              /\ asked' = asked \cup {<<LockOf(t), token[LockOf(t)]>>}
           \/ pc'[t] \in {"idle", "error", "wait"} /\ asked' = asked
        /\ \A u \in Task \ {t} : pc'[u] = pc[u] /\ arg'[u] = arg[u]
    BY <1>1, RegisterNowTypes DEF Registering, Contended
  <1> QED BY <1>2, RegisterSeen

(* A command on a registered lock, with the token in force. *)
LEMMA CommandSeen ==
  ASSUME IndInv, Plain, ~stopped, ~stopped', NEW t \in Task, pc[t] \notin {"reg", "wake", "set"},
         NEW o \in CallTypes, Command(t, o), LockOf(t) \in registered,
         UNCHANGED <<token, registered, known>>
  PROVE  CustodyStep
  <1> DEFINE l == LockOf(t)
  <1>1. /\ asked' = asked /\ pc'[t] \in {"idle", "ok", "error", "wake", "set"}
        /\ pc'[t] \in {"wake", "set"} => arg'[t] = token[l]
        /\ \A u \in Task \ {t} : pc'[u] = pc[u] /\ arg'[u] = arg[u]
    BY CommandTypes DEF IndInv
  <1>2. Asking' = Asking /\ Trusted' = Trusted /\ l \in Lock
    BY <1>1, MoveAsking, LockOfType DEF Trusted
  <1>3. CASE pc'[t] \in {"wake", "set"}
    <2>1. <<l, token[l]>> \in Trusted
      BY <1>2 DEF IndInv, RegisteredKnown, Plain, Trusted
    <2>2. InUse' = InUse \cup {<<l, token[l]>>}
      BY <1>1, <1>3, MoveInUse
    <2> QED BY <1>2, <2>1, <2>2, SeenUse
  <1>4. CASE pc'[t] \notin {"wake", "set"}
    <2>1. InUse' = InUse
      BY <1>1, <1>4, MoveInUse
    <2> QED BY <1>2, <2>1, Unseen
  <1> QED BY <1>3, <1>4

(* A task outside "reg" ends: with a command, if it had one. *)
LEMMA SettleSeen ==
  ASSUME IndInv, ~stopped, ~stopped', NEW t \in Task, pc[t] # "reg",
         NEW r \in {"ok", "error"}, Settle(t, r), UNCHANGED <<token, registered, asked, known>>
  PROVE  CustodyStep
  <1>1. /\ pc'[t] \in {"idle", "ok", "error"}
        /\ \A u \in Task \ {t} : pc'[u] = pc[u] /\ arg'[u] = arg[u]
    BY SettleTypes DEF IndInv
  <1>2. Asking' = Asking /\ Trusted' = Trusted
    BY <1>1, MoveAsking DEF Trusted
  <1>3. InUse' = InUse \/ \E key \in InUse : InUse' = InUse \ {key}
    BY <1>1, MoveInUse
  <1> QED BY <1>2, <1>3, Unseen, SeenDone

LEMMA ResumeRegSeen ==
  ASSUME IndInv, ~stopped, NEW t \in Task, ResumeReg(t)
  PROVE  CustodyStep
  <1> DEFINE l == LockOf(t)
  <1>1. /\ l \in Lock /\ pc[t] = "reg" /\ TypeOK /\ ~stopped'
        /\ UNCHANGED <<token, known>> /\ registered' = registered \cup {l}
        /\ Command(t, Purpose(t))
    BY LockOfType DEF ResumeReg, linkVars, IndInv
  <1>2. /\ asked' = asked /\ pc'[t] \in {"idle", "ok", "error", "wake", "set"}
        /\ pc'[t] \in {"wake", "set"} => arg'[t] = token[l]
        /\ \A u \in Task \ {t} : pc'[u] = pc[u] /\ arg'[u] = arg[u]
    BY <1>1, PurposeType, CommandTypes
  <1>3. <<l, t>> \in Asking /\ Asking' = Asking \ {<<l, t>>} /\ Trusted' = Trusted
    BY <1>1, <1>2, MoveAsking DEF Trusted
  <1>4. InUse' \in {InUse, InUse \cup {<<l, token[l]>>}}
    BY <1>1, <1>2, MoveInUse
  <1> QED BY <1>1, <1>3, <1>4, SeenHold

LEMMA AcquireSeen ==
  ASSUME IndInv, Plain, ~stopped, NEW t \in Task, Acquire(t)
  PROVE  CustodyStep
  <1> DEFINE l == LockOf(t)
  <1>1. /\ l \in Lock /\ token[l] \in Token /\ pc[t] = "wait" /\ TypeOK /\ ~Registering(l)
        /\ ~stopped' /\ UNCHANGED <<token, registered, known>>
    BY LockOfType DEF Acquire, linkVars, IndInv, TypeOK
  <1>2. CASE l \in registered /\ Command(t, Purpose(t))
    BY <1>1, <1>2, PurposeType, CommandSeen
  <1>3. CASE l \notin registered /\ RegisterLocked(t, token[l])
    <2>1. /\ \/ pc'[t] = "reg" /\ asked' = asked \cup {<<l, token[l]>>}
             \/ pc'[t] \in {"idle", "error"} /\ asked' = asked
          /\ \A u \in Task \ {t} : pc'[u] = pc[u] /\ arg'[u] = arg[u]
      BY <1>1, <1>3, RegisterLockedTypes
    <2> QED BY <1>1, <1>3, <2>1, RegisterSeen
  <1> QED BY <1>2, <1>3 DEF Acquire

LEMMA ResumeWakeLastSeen ==
  ASSUME IndInv, ~stopped, NEW t \in Task, ResumeWake(t) \/ ResumeLast(t)
  PROVE  CustodyStep
  <1>1. PICK r \in {"ok", "error"} : Settle(t, r)
    BY DEF ResumeWake, ResumeLast
  <1>2. pc[t] # "reg" /\ ~stopped' /\ UNCHANGED <<token, registered, asked, known>>
    BY DEF ResumeWake, ResumeLast, linkVars, ghostVars
  <1> QED BY <1>1, <1>2, SettleSeen

LEMMA CallSeen ==
  ASSUME IndInv, Plain, ~stopped, NEW c \in Call,
         AsyncUnlock(c) \/ AsyncSetMode(c) \/ EnsureRegistered(c)
  PROVE  CustodyStep
  <1>1. /\ c \in Task /\ LockOf(c) = Target[c] /\ pc[c] = "idle" /\ ~stopped'
        /\ UNCHANGED <<token, registered, known>>
    BY LockOfCall DEF AsyncUnlock, AsyncSetMode, Request, EnsureRegistered, Begin, linkVars
  <1>2. CASE asked' = asked /\ (Settle(c, "ok") \/ Settle(c, "error"))
    BY <1>1, <1>2, SettleSeen
  <1>3. CASE Target[c] \in registered /\ (Command(c, "unlock") \/ Command(c, "setmode"))
    <2>1. "unlock" \in CallTypes /\ "setmode" \in CallTypes
      BY DEF CallTypes
    <2> QED BY <1>1, <1>3, <2>1, CommandSeen
  <1>4. CASE Target[c] \notin registered /\ RegisterNow(c, token[Target[c]])
    BY <1>1, <1>4, RegisterNowSeen
  <1> QED BY <1>2, <1>3, <1>4 DEF AsyncUnlock, AsyncSetMode, Request, EnsureRegistered

LEMMA RestSeen ==
  ASSUME IndInv, Plain, ~stopped, NEW l \in Lock, NEW k \in Token,
         AdoptToken(l, k) \/ MarkRegistered(l, k)
  PROVE  CustodyStep
  <1>1. /\ ~stopped' /\ UNCHANGED <<pc, arg, asked>>
        /\ registered' = registered \cup {l} /\ known' = known \cup {<<l, k>>}
    BY DEF AdoptToken, MarkRegistered, linkVars, taskVars
  <1>2. UNCHANGED <<Asking, InUse>> /\ Trusted' = Trusted \cup {<<l, k>>}
    BY <1>1 DEF Asking, InUse, Trusted
  <1>3. token' \in {token, [token EXCEPT ![l] = k]} /\ (token'[l] = k \/ l \in registered)
    BY DEF AdoptToken, MarkRegistered, IndInv, TypeOK, Plain
  <1> QED BY <1>1, <1>2, <1>3, SeenLearn

(* Connection, messages and returns change nothing that KeyCustody sees. *)
LEMMA OthersUnseen ==
  ASSUME ~stopped, ~stopped', UNCHANGED <<token, registered, asked, known, arg>>,
         \A t \in Task : pc'[t] = pc[t] \/ {pc[t], pc'[t]} \cap {"reg", "wake", "set"} = {}
  PROVE  CustodyStep
  <1>1. UNCHANGED <<Asking, InUse, Trusted>>
    BY DEF Asking, InUse, Trusted
  <1> QED BY <1>1, Unseen

LEMMA HandleMessageSeen ==
  ASSUME IndInv, NEW l \in Lock, NEW hasSid \in BOOLEAN, NEW acks \in SUBSET Task,
         HandleMessage(l, hasSid, acks)
  PROVE  CustodyStep
  <1>1. /\ ~stopped /\ ~stopped' /\ UNCHANGED <<token, registered, asked, known, arg>>
    BY DEF HandleMessage, linkVars, ghostVars
  <1>2. \A t \in Task : pc'[t] = pc[t] \/ {pc[t], pc'[t]} \cap {"reg", "wake", "set"} = {}
    BY DEF HandleMessage, IndInv, TypeOK
  <1> QED BY <1>1, <1>2, OthersUnseen

LEMMA NewClientSeen ==
  ASSUME IndInv, NEW toks \in [Lock -> Token], NEW already \in SUBSET Lock, NewClient(toks, already)
  PROVE  CustodyStep
  <1>1. /\ stopped /\ ~stopped' /\ token' = toks /\ registered' = already
        /\ Trusted' = {<<l, toks[l]>> : l \in already}
    BY DEF NewClient, Trusted
  <1>2. \A t \in Task : pc'[t] \in Settled
    BY DEF NewClient, NothingInFlight, taskVars
  <1>3. Asking' = {} /\ InUse' = {}
    BY <1>2 DEF Asking, InUse, Settled
  <1> QED BY <1>1, <1>3, SeenStart

(* One case per action: the steps that begin and end a client, those of a      *)
(* stopped one, and those of a live one.                                       *)
LEMMA StepSeen ==
  ASSUME IndInv, Plain, [Next]_vars
  PROVE  CustodyStep
  <1>1. CASE stopped /\ stopped'
    BY <1>1, StoppedIsUnseen
  <1>2. CASE ~stopped /\ stopped'
    BY <1>2, SeenEnd
  <1>3. ASSUME NEW toks \in [Lock -> Token], NEW already \in SUBSET Lock, NewClient(toks, already)
        PROVE  CustodyStep
    BY <1>3, NewClientSeen
  <1>4. CASE Connect \/ Drop \/ UNCHANGED vars
    <2>1. UNCHANGED <<stopped, token, registered, asked, known, pc, arg>>
      BY <1>4 DEF Connect, Drop, vars, taskVars, ghostVars
    <2> QED BY <1>1, <2>1, OthersUnseen
  <1>5. CASE Stop \/ Crash
    BY <1>1, <1>2, <1>5 DEF Stop, Crash
  <1>6. ASSUME NEW l \in Lock, NEW hasSid \in BOOLEAN,
               NEW acks \in {{}} \cup {{t} : t \in Task}, HandleMessage(l, hasSid, acks)
        PROVE  CustodyStep
    <2>1. acks \in SUBSET Task
      OBVIOUS
    <2> QED BY <1>6, <2>1, HandleMessageSeen
  <1>7. ASSUME NEW c \in Call, Return(c)
        PROVE  CustodyStep
    <2>1. UNCHANGED <<stopped, token, registered, asked, known, arg>>
      BY <1>7 DEF Return, linkVars, ghostVars
    <2>2. \A t \in Task : pc'[t] = pc[t] \/ {pc[t], pc'[t]} \cap {"reg", "wake", "set"} = {}
      BY <1>7 DEF Return, IndInv, TypeOK
    <2> QED BY <1>1, <2>1, <2>2, OthersUnseen
  <1>8. ASSUME NEW c \in Call, AsyncUnlock(c) \/ AsyncSetMode(c) \/ EnsureRegistered(c)
        PROVE  CustodyStep
    <2>1. stopped' = stopped
      BY <1>8 DEF AsyncUnlock, AsyncSetMode, Request, EnsureRegistered, linkVars
    <2> QED BY <1>1, <1>8, <2>1, CallSeen
  <1>9. ASSUME NEW l \in Lock, NEW k \in Token, AdoptToken(l, k) \/ MarkRegistered(l, k)
        PROVE  CustodyStep
    <2>1. stopped' = stopped
      BY <1>9 DEF AdoptToken, MarkRegistered, linkVars
    <2> QED BY <1>1, <1>9, <2>1, RestSeen
  <1>10. ASSUME NEW t \in Task, Acquire(t) \/ Resume(t)
         PROVE  CustodyStep
    <2>1. stopped' = stopped
      BY <1>10 DEF Acquire, Resume, ResumeReg, ResumeWake, ResumeLast, linkVars
    <2> QED BY <1>1, <1>10, <2>1, AcquireSeen, ResumeRegSeen, ResumeWakeLastSeen DEF Resume
  <1>11. ~Reset /\ \A c \in Call : ~Cancel(c)
    BY DEF Reset, Cancel, Plain
  <1> QED BY <1>3, <1>4, <1>5, <1>6, <1>7, <1>8, <1>9, <1>10, <1>11 DEF Next, Refresh

LEMMA InitSeen == Init => Custody!NoClient
  BY DEF Init, Custody!NoClient

(* RelayClient keeps the promises of KeyCustody with any number of locks, calls *)
(* and tokens, as long as no call is cancelled and no key is reset: however     *)
(* self-heal, unlocks, mode switches, refreshes, reconnections and reloads      *)
(* overlap, each lock is asked once for a key, by one task at a time, and every *)
(* command carries a key the lock was asked to take or was seen to hold.        *)
THEOREM ClientKeepsCustody ==
  ASSUME Plain
  PROVE  Spec => KeepsCustody
  <1>1. Init => Custody!NoClient
    BY InitSeen
  <1>2. IndInv /\ [Next]_vars => [Custody!CustodyNext]_(Custody!custodyVars)
    BY StepSeen DEF CustodyStep
  <1> QED BY <1>1, <1>2, Invariance, PTL DEF Spec, KeepsCustody, Custody!CustodySpec

=============================================================================
