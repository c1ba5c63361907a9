------------------------------ MODULE RelayClient ------------------------------
(***************************************************************************)
(* The relay client of the integration (relay_client.py, class             *)
(* RelayClient): which door locks it believes to hold Home Assistant's     *)
(* permanent key, and the asyncio tasks that register that key (func 408), *)
(* open the door (508, then 407), set a security mode (401) or delete a    *)
(* key (420) over one MQTT connection to the relay's observer.             *)
(*                                                                         *)
(* A task runs alone from one await to the next, so an action is the code  *)
(* between two awaits: from the call to the first publication, or from the *)
(* ACK (or its timeout) to the next publication or the end of the call.    *)
(*                                                                         *)
(* _registry_seed_ok (80-84, 266-269, 290) decides only whether line 322   *)
(* writes a warning and is left out.  Session callbacks (112-115, 126-147, *)
(* 179-181) and the state callback (183-185) belong to other components.   *)
(***************************************************************************)
CONSTANTS
    Lock,     \* the tracked tpIds; the self-heal task of lock l is also named l
    Call,     \* slots for concurrent calls made by entities and buttons
    Target,   \* Target[c]: the lock that the calls made in slot c are about
    Token,    \* pin tokens
    NoToken,  \* no token captured
    Ops       \* which operations the rest of the integration uses, see OpNames

OpNames == {"unlock", "setmode", "refresh", "reset", "cancel"}

ASSUME CallAssumption == Call \cap Lock = {}
ASSUME TargetAssumption == Target \in [Call -> Lock]
ASSUME TokenAssumption == NoToken \notin Token
ASSUME OpsAssumption == Ops \subseteq OpNames

Task == Call \cup Lock

LockOf(t) == IF t \in Lock THEN t ELSE Target[t]

VARIABLES
    up,          \* _client is set: the observer is connected
    stopped,     \* _stop is set
    sid,         \* locks with an entry in _sid_by_tpid
    token,       \* _ha_pin_tokens
    registered,  \* _registered
    pc,          \* where each task is suspended, see AtTypes
    op,          \* what a call was made for
    arg,         \* the pin token the suspended task has put in its publication
    acked,       \* tasks whose future in _pending_acks has its result
    asked,       \* ghost: <<lock, token>> pairs this client has published a 408 for
    known        \* ghost: <<lock, token>> pairs a REST answer showed to this client

taskVars == <<pc, op, arg, acked>>
linkVars == <<up, stopped>>
ghostVars == <<asked, known>>
vars == <<up, stopped, sid, token, registered, pc, op, arg, acked, asked, known>>

(* "wait" is a task waiting for the lock's asyncio.Lock (or a heal task not  *)
(* yet started), the next four a task that awaits the ACK of its 408, 508,   *)
(* 401 or 420, and "ok" and "error" a call whose caller has not yet resumed. *)
AckTypes == {"reg", "wake", "set", "del"}
AtTypes == {"idle", "wait", "ok", "error"} \cup AckTypes
CallTypes == {"none", "unlock", "setmode", "ensure", "delete"}

ResetEnabled == "reset" \in Ops
CancelEnabled == "cancel" \in Ops

-----------------------------------------------------------------------------
(* The per-lock asyncio.Lock of _register_now, read off the tasks.          *)

Registering(l) == \E t \in Task : LockOf(t) = l /\ pc[t] = "reg"

Contended(l) == \E t \in Task : LockOf(t) = l /\ pc[t] \in {"reg", "wait"}

Settled == {"idle", "ok", "error"}

NothingInFlight == \A t \in Task : pc[t] \in Settled

-----------------------------------------------------------------------------
(* Pieces of a task's step.  Each fixes pc', arg' and asked'.               *)

(* The task ends; a heal task logs its error and is gone (168-170, 306-310). *)
Settle(t, result) ==
    /\ pc' = [pc EXCEPT ![t] = IF t \in Lock THEN "idle" ELSE result]
    /\ arg' = [arg EXCEPT ![t] = NoToken]

(* publish raises when there is no connection; otherwise the task waits for  *)
(* the ACK.  A connection already broken but not yet noticed raises MqttError *)
(* from the same line: Drop has then happened before this step.              *)
Publish(t, at, k) ==
    \/ up /\ pc' = [pc EXCEPT ![t] = at] /\ arg' = [arg EXCEPT ![t] = k]
    \/ ~up /\ Settle(t, "error")

(* Publish the 408 for token k, inside the lock's mutex. *)
RegisterLocked(t, k) ==
    /\ Publish(t, "reg", k)
    /\ asked' = IF up THEN asked \cup {<<LockOf(t), k>>} ELSE asked

(* Mutant: without the mutex. *)
BugRegisterNow(t, k) == RegisterLocked(t, k)

(* Enter the mutex at once when nobody holds it or waits for it. *)
RegisterNow(t, k) ==
    \/ /\ Contended(LockOf(t))
       /\ pc' = [pc EXCEPT ![t] = "wait"]
       /\ UNCHANGED <<arg, asked>>
    \/ /\ ~Contended(LockOf(t))
       /\ RegisterLocked(t, k)

(* What is left of operation o of task t once the lock counts as registered: *)
(* the token is read now (225, 249), not when the call was made.             *)
Command(t, o) ==
    /\ \/ o = "unlock" /\ Publish(t, "wake", token[LockOf(t)])
       \/ o = "setmode" /\ Publish(t, "set", token[LockOf(t)])
       \/ o = "ensure" /\ Settle(t, "ok")
    /\ UNCHANGED asked

(* A heal task wants nothing but the registration, as ensure_registered does. *)
Purpose(t) == IF t \in Lock THEN "ensure" ELSE op[t]

(* A call of slot c begins, for operation o. *)
Begin(c, o) ==
    /\ c \in Call /\ pc[c] = "idle"
    /\ op' = [op EXCEPT ![c] = o]

-----------------------------------------------------------------------------
(* The connection, and the life of the client.                              *)

(* Before the first setup there is no client, which is as if it had stopped. *)
Init ==
    /\ up = FALSE /\ stopped = TRUE
    /\ sid = {}
    /\ token \in [Lock -> Token]
    /\ registered = {}
    /\ pc = [t \in Task |-> "idle"]
    /\ op = [c \in Call |-> "none"]
    /\ arg = [t \in Task |-> NoToken]
    /\ acked = {}
    /\ asked = {}
    /\ known = {}

Connect ==
    /\ ~up /\ ~stopped
    /\ up' = TRUE
    /\ UNCHANGED <<stopped, sid, token, registered, taskVars, ghostVars>>

(* The connection is lost: _client = None once run notices. *)
Drop ==
    /\ up
    /\ up' = FALSE
    /\ UNCHANGED <<stopped, sid, token, registered, taskVars, ghostVars>>

(* Unload: stop sets the flag and cancels the heal tasks, and run is cancelled *)
(* before a task that is not due yet gets a turn (one that is runs as if it had *)
(* before): it disconnects, so that no message is read and every publication   *)
(* raises from now on.                                                        *)
Stop ==
    /\ ~stopped
    /\ stopped' = TRUE /\ up' = FALSE
    /\ pc' = [t \in Task |-> IF t \in Lock THEN "idle" ELSE pc[t]]
    /\ arg' = [t \in Task |-> IF t \in Lock THEN NoToken ELSE arg[t]]
    /\ acked' = acked \ Lock
    /\ UNCHANGED <<sid, token, registered, op, ghostVars>>

(* The next setup builds a new client.  A call left over from the stopped one *)
(* keeps the old object, which can no longer publish: it has ended before.    *)
(* already: the locks whose key a REST answer showed to this setup.           *)
NewClient(toks, already) ==
    /\ stopped /\ NothingInFlight
    /\ stopped' = FALSE
    /\ sid' = {}
    /\ token' = toks
    /\ registered' = already
    /\ asked' = {}
    /\ known' = {<<l, toks[l]>> : l \in already}
    /\ UNCHANGED <<up, taskVars>>

(* The process dies: no call survives, and the next client is a new one. *)
Crash ==
    /\ up' = FALSE /\ stopped' = TRUE
    /\ pc' = [t \in Task |-> "idle"]
    /\ op' = [c \in Call |-> "none"]
    /\ arg' = [t \in Task |-> NoToken]
    /\ acked' = {}
    /\ UNCHANGED <<sid, token, registered, ghostVars>>

-----------------------------------------------------------------------------
(* The message loop.                                                        *)

(* Mutant: no self-heal. *)
BugHandleMessage(l, hasSid, acks) ==
    /\ up /\ ~stopped
    /\ sid' = IF hasSid THEN sid \cup {l} ELSE sid
    /\ acked' = acked \cup {t \in acks : pc[t] \in AckTypes}
    /\ UNCHANGED <<linkVars, token, registered, pc, op, arg, ghostVars>>

(* One message about lock l.  hasSid: it carries an sId; acks: the task whose *)
(* msgId it acknowledges, if any (172-177).  The sId of an unregistered lock  *)
(* with no heal task yet starts one; it runs when the loop lets it (Acquire). *)
HandleMessage(l, hasSid, acks) ==
    /\ up /\ ~stopped
    /\ sid' = IF hasSid THEN sid \cup {l} ELSE sid
    /\ pc' = IF hasSid /\ l \notin registered /\ pc[l] = "idle"
             THEN [pc EXCEPT ![l] = "wait"] ELSE pc
    /\ acked' = acked \cup {t \in acks : pc[t] \in AckTypes}
    /\ UNCHANGED <<linkVars, token, registered, op, arg, ghostVars>>

-----------------------------------------------------------------------------
(* Calls: from the call to its first await.                                 *)

(* Mutant: a command is sent without a look at _registered. *)
BugRequest(c, o) ==
    /\ o \in Ops /\ ~stopped
    /\ Begin(c, o)
    /\ \/ Target[c] \notin sid /\ Settle(c, "error") /\ UNCHANGED asked
       \/ Target[c] \in sid /\ Command(c, o)
    /\ UNCHANGED <<linkVars, sid, token, registered, acked, known>>

Request(c, o) ==
    /\ o \in Ops /\ ~stopped
    /\ Begin(c, o)
    /\ \/ Target[c] \notin sid /\ Settle(c, "error") /\ UNCHANGED asked
       \/ /\ Target[c] \in sid
          /\ \/ Target[c] \in registered /\ Command(c, o)
             \/ Target[c] \notin registered /\ RegisterNow(c, token[Target[c]])
    /\ UNCHANGED <<linkVars, sid, token, registered, acked, known>>

AsyncUnlock(c) == Request(c, "unlock")

AsyncSetMode(c) == Request(c, "setmode")

(* After a REST answer without the key: register unless already registered. *)
EnsureRegistered(c) ==
    /\ Begin(c, "ensure")
    /\ \/ Target[c] \in registered /\ Settle(c, "ok") /\ UNCHANGED asked
       \/ /\ Target[c] \notin registered /\ Target[c] \notin sid
          /\ Settle(c, "error") /\ UNCHANGED asked
       \/ /\ Target[c] \notin registered /\ Target[c] \in sid
          /\ RegisterNow(c, token[Target[c]])
    /\ UNCHANGED <<linkVars, sid, token, registered, acked, known>>

DeletePin(c, k) ==
    /\ Begin(c, "delete")
    /\ \/ Target[c] \notin sid /\ Settle(c, "error")
       \/ Target[c] \in sid /\ Publish(c, "del", k)
    /\ UNCHANGED <<linkVars, sid, token, registered, acked, ghostVars>>

(* The token has been drawn at random (64 bits): it is none this client knows. *)
Fresh(l, k) == k # token[l] /\ <<l, k>> \notin asked \cup known

(* The end of a key reset: replace_ha_pin_token and, with no await between,   *)
(* ensure_registered for the new token.                                       *)
ReplaceHaPinToken(c, k) ==
    LET l == Target[c] IN
    /\ Fresh(l, k)
    /\ Begin(c, "ensure")
    /\ token' = [token EXCEPT ![l] = k]
    /\ registered' = registered \ {l}
    /\ \/ l \notin sid /\ Settle(c, "error") /\ UNCHANGED asked
       \/ l \in sid /\ RegisterNow(c, k)
    /\ UNCHANGED <<linkVars, sid, acked, known>>

(* Mutant: the other key counts as registered and is not used. *)
BugAdoptToken(l, k) ==
    /\ registered' = registered \cup {l}
    /\ known' = known \cup {<<l, k>>}
    /\ UNCHANGED <<linkVars, sid, token, taskVars, asked>>

(* A REST answer shows another key of ours on the lock: use that one. *)
AdoptToken(l, k) ==
    /\ token' = [token EXCEPT ![l] = k]
    /\ registered' = registered \cup {l}
    /\ known' = known \cup {<<l, k>>}
    /\ UNCHANGED <<linkVars, sid, taskVars, asked>>

(* Mutant: the token goes into the set of locks. *)
BugMarkRegistered(l, k) ==
    /\ ResetEnabled \/ k = token[l] \/ l \in registered
    /\ registered' = registered \cup {k}
    /\ known' = known \cup {<<l, k>>}
    /\ UNCHANGED <<linkVars, sid, token, taskVars, asked>>

(* A REST answer shows the key k that the caller took for ours.  Only a reset *)
(* that ran since the caller looked it up can make k another than token[l]    *)
(* while the lock is unregistered.                                            *)
MarkRegistered(l, k) ==
    /\ ResetEnabled \/ k = token[l] \/ l \in registered
    /\ registered' = registered \cup {l}
    /\ known' = known \cup {<<l, k>>}
    /\ UNCHANGED <<linkVars, sid, token, taskVars, asked>>

-----------------------------------------------------------------------------
(* Tasks resuming.                                                          *)

(* Mutant: no second look at _registered inside the mutex. *)
BugAcquire(t) ==
    LET l == LockOf(t) IN
    /\ pc[t] = "wait" /\ ~Registering(l)
    /\ RegisterLocked(t, token[l])
    /\ UNCHANGED <<linkVars, sid, token, registered, op, acked, known>>

(* A waiting task gets the mutex and looks again whether the lock has been    *)
(* registered meanwhile.  The mutex is FIFO; here any waiter may be next.     *)
Acquire(t) ==
    LET l == LockOf(t) IN
    /\ pc[t] = "wait" /\ ~Registering(l)
    /\ \/ l \in registered /\ Command(t, Purpose(t))
       \/ l \notin registered /\ RegisterLocked(t, token[l])
    /\ UNCHANGED <<linkVars, sid, token, registered, op, acked, known>>

(* Mutant: the lock does not count as registered. *)
BugResumeReg(t) ==
    /\ pc[t] = "reg"
    /\ Command(t, Purpose(t))
    /\ acked' = acked \ {t}
    /\ UNCHANGED <<linkVars, sid, token, registered, op, known>>

(* Mutant: no time limit on the ACK. *)
BugResumeRegWaits(t) ==
    /\ pc[t] = "reg" /\ t \in acked
    /\ registered' = registered \cup {LockOf(t)}
    /\ Command(t, Purpose(t))
    /\ acked' = acked \ {t}
    /\ UNCHANGED <<linkVars, sid, token, op, known>>

(* The 408 is acknowledged, or 1.5 s have passed: both continue alike         *)
(* (204-207), the lock counts as registered and the operation goes on.        *)
ResumeReg(t) ==
    /\ pc[t] = "reg"
    /\ registered' = registered \cup {LockOf(t)}
    /\ Command(t, Purpose(t))
    /\ acked' = acked \ {t}
    /\ UNCHANGED <<linkVars, sid, token, op, known>>

(* The wake-up is acknowledged or timed out: publish the trigger (407), which *)
(* waits for no ACK, with the token read before the wake-up.                  *)
ResumeWake(t) ==
    /\ pc[t] = "wake"
    /\ Settle(t, IF up THEN "ok" ELSE "error")
    /\ acked' = acked \ {t}
    /\ UNCHANGED <<linkVars, sid, token, registered, op, ghostVars>>

ResumeLast(t) ==
    /\ pc[t] \in {"set", "del"}
    /\ Settle(t, "ok")
    /\ acked' = acked \ {t}
    /\ UNCHANGED <<linkVars, sid, token, registered, op, ghostVars>>

Resume(t) == ResumeReg(t) \/ ResumeWake(t) \/ ResumeLast(t)

(* The caller (an entity's service call, a button, a script) resumes. *)
Return(c) ==
    /\ pc[c] \in {"ok", "error"}
    /\ pc' = [pc EXCEPT ![c] = "idle"]
    /\ op' = [op EXCEPT ![c] = "none"]
    /\ UNCHANGED <<linkVars, sid, token, registered, arg, acked, ghostVars>>

(* The script or automation that made the call is stopped or restarted: the   *)
(* call is cancelled at its await and leaves the mutex.                       *)
Cancel(c) ==
    /\ CancelEnabled /\ pc[c] \notin Settled
    /\ Settle(c, "error")
    /\ acked' = acked \ {c}
    /\ UNCHANGED <<linkVars, sid, token, registered, op, ghostVars>>

-----------------------------------------------------------------------------
(* Calls that only a refresh or a reset of the integration makes. *)
Refresh ==
    /\ "refresh" \in Ops
    /\ \/ \E c \in Call : EnsureRegistered(c)
       \/ \E l \in Lock, k \in Token : AdoptToken(l, k) \/ MarkRegistered(l, k)

Reset ==
    /\ ResetEnabled
    /\ \E c \in Call, k \in Token : DeletePin(c, k) \/ ReplaceHaPinToken(c, k)

Next ==
    \/ Connect \/ Drop \/ Stop \/ Crash
    \/ \E toks \in [Lock -> Token], already \in SUBSET Lock : NewClient(toks, already)
    \/ \E l \in Lock, hasSid \in BOOLEAN, acks \in {{}} \cup {{t} : t \in Task} :
           HandleMessage(l, hasSid, acks)
    \/ \E c \in Call : AsyncUnlock(c) \/ AsyncSetMode(c) \/ Return(c) \/ Cancel(c)
    \/ Refresh \/ Reset
    \/ \E t \in Task : Acquire(t) \/ Resume(t)

(* The event loop runs every task that is ready, a wait for an ACK is over    *)
(* after 1.5 s, and the mutex serves its waiters in order.  A lock sends its  *)
(* status again and again, each message with its sId.                         *)
Fairness ==
    /\ \A t \in Task : WF_vars(Resume(t)) /\ SF_vars(Acquire(t))
    /\ \A l \in Lock : WF_vars(HandleMessage(l, TRUE, {}))

Spec == Init /\ [][Next]_vars /\ Fairness

-----------------------------------------------------------------------------
(* Properties.                                                              *)

(* Every variable has its type. *)
TypeOK ==
    /\ up \in BOOLEAN /\ stopped \in BOOLEAN
    /\ sid \in SUBSET Lock
    /\ token \in [Lock -> Token]
    /\ registered \in SUBSET Lock
    /\ pc \in [Task -> AtTypes]
    /\ op \in [Call -> CallTypes]
    /\ arg \in [Task -> Token \cup {NoToken}]
    /\ acked \in SUBSET Task
    /\ asked \in SUBSET (Lock \X Token)
    /\ known \in SUBSET (Lock \X Token)

(* A stopped client is disconnected for good. *)
StoppedIsDown == stopped => ~up

(* The mutex of _register_now: two tasks never register the same lock at once. *)
Exclusive ==
    \A t, u \in Task :
        pc[t] = "reg" /\ pc[u] = "reg" /\ LockOf(t) = LockOf(u) => t = u

(* A step in which task t publishes a 408. *)
Asks(t) == pc[t] # "reg" /\ pc'[t] = "reg"

(* As long as no call is cancelled, a client never asks the lock to register  *)
(* a key that it has asked for before or has seen on it: the self-heal task,  *)
(* unlocks, mode switches and refreshes that all find the lock unregistered   *)
(* register one key between them (85-89, 312-315).                            *)
NeverAskedTwice ==
    [][\A t \in Task : Asks(t) /\ ~CancelEnabled
           => <<LockOf(t), arg'[t]>> \notin asked \cup known]_vars

(* What _registered is for.  While the client lives, a lock that was asked to *)
(* take the token now in force, or was seen to have it, is registered or has  *)
(* a registration running that will make it so.                               *)
AskedSettled ==
    ~stopped /\ ~CancelEnabled =>
        \A l \in Lock : <<l, token[l]>> \in asked \cup known => l \in registered \/ Registering(l)

(* Without resets a lock counts as registered, or is being registered, only   *)
(* for the token in force: no adoption of another key falls between.          *)
RegisteredKnown ==
    ~ResetEnabled =>
        \A l \in Lock : l \in registered \/ Registering(l) => <<l, token[l]>> \in asked \cup known

(* An unlock or a mode switch carries a key that this client has asked the    *)
(* lock to register or has seen on it, never one the lock cannot know, as the *)
(* docstring of async_set_mode has it (238-239).  A key reset breaks this: it *)
(* replaces the token while a registration of the old one is in flight.      *)
CommandTokenKnown ==
    ~ResetEnabled =>
        \A t \in Task : pc[t] \in {"wake", "set"} => <<LockOf(t), arg[t]>> \in asked \cup known

(* The state of KeyCustody.  A lock's key may be held while a registration that  *)
(* began before is still running.                                                *)
Custody == INSTANCE KeyCustody WITH
    Requester <- Task,
    live <- ~stopped,
    token <- IF stopped THEN [l \in Lock |-> NoToken] ELSE token,
    held <- IF stopped THEN {} ELSE registered,
    asking <- IF stopped THEN {} ELSE {<<LockOf(t), t>> : t \in {u \in Task : pc[u] = "reg"}},
    trusted <- IF stopped THEN {} ELSE asked \cup known,
    inUse <- IF stopped THEN {}
             ELSE {<<LockOf(t), arg[t]>> : t \in {u \in Task : pc[u] \in {"wake", "set"}}}

(* Without resets and cancelled calls the client keeps the promises of           *)
(* KeyCustody, however its tasks, refreshes, reconnections and reloads overlap:  *)
(* one request for each key and lock, commands with trusted keys, none before    *)
(* the registration it waits for is over (85-92, 193-231).                       *)
KeepsCustody == Custody!CustodySpec

(* A connected client registers an unregistered lock that sends traffic without *)
(* waiting for an unlock (80-82, 164-170), though the task that tries may find  *)
(* the mutex taken and a cancelled call may leave it unfinished.               *)
SelfHeals ==
    \A l \in Lock : up /\ ~stopped /\ l \notin registered
                     ~> l \in registered \/ ~up \/ stopped

(* Every task that begins ends, whatever the connection does: no registration *)
(* is waited for by a task that holds it up.                                  *)
TasksEnd == \A t \in Task : pc[t] \notin Settled ~> pc[t] \in Settled

=============================================================================
