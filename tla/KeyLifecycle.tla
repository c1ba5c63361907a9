----------------------------- MODULE KeyLifecycle -----------------------------
(***************************************************************************)
(* The life of Home Assistant's permanent key on a door lock: the config   *)
(* entry and its setup, the refresh and reset buttons (__init__.py) around *)
(* the relay client (RelayClient), with the lock, the vendor's cloud and   *)
(* the messages between them.                                              *)
(*                                                                         *)
(* A coroutine of the integration runs alone from one await to the next.   *)
(* The client and the entry share hass.data: a refresh or a reset that is  *)
(* waiting for the cloud when the entry reloads goes on with the objects   *)
(* of the generation it began in ("stale" below).                          *)
(***************************************************************************)
EXTENDS RelayClient, Naturals, Sequences

CONSTANTS
    Faults,     \* what may go wrong, see FaultNames
    MaxNet,     \* bound on the commands in flight to one lock
    MaxCopies,  \* keys of one token that a lock is counted to hold, at most
    NoTask      \* the sender of a command whose ACK nobody waits for

(* loss: a command or its ACK is lost;  late: an ACK comes after the 1.5 s;  *)
(* lag: the cloud's key list is behind the lock;  restfail: a REST call      *)
(* fails;  crash: Home Assistant dies;  reload: the user reloads the entry   *)
(* or changes its options;  hasty: setup reads the key list while commands   *)
(* of the previous client are in flight;  appdelete: the owner deletes a key *)
(* in the vendor's app.                                                      *)
FaultNames == {"loss", "late", "lag", "restfail", "crash", "reload", "hasty", "appdelete"}

ASSUME FaultsAssumption == Faults \subseteq FaultNames
ASSUME BoundsAssumption == MaxNet \in Nat \ {0} /\ MaxCopies \in Nat \ {0}
ASSUME NoTaskAssumption == NoTask \notin Call \cup Lock

VARIABLES
    entry,    \* the tokens in entry.data
    disk,     \* the tokens in the entry as last saved
    locks,    \* the tokens in hass.data[DOMAIN][entry_id]["locks"]
    old,      \* the same dictionary of the generation before
    base,     \* the tokens the running setup has taken from the entry
    seeding,  \* a setup is waiting for the cloud
    reload,   \* a change of the entry has scheduled a reload
    flow,     \* the refresh or reset running in a call slot, see FlowTypes
    seen,     \* the token in the lock_info that a refresh captured
    todo,     \* the tokens a reset still has to delete
    stale,    \* flows of a generation that has been unloaded
    net,      \* commands on their way to each lock
    inbox,    \* tasks whose ACK is on its way to the client
    pins,     \* how many keys of ours with each token the lock holds
    cloud     \* the same, as the cloud's key list has it

entryVars == <<entry, disk, locks, old, base, seeding, reload>>
flowVars == <<flow, seen, todo, stale>>
netVars == <<net, inbox>>
doorVars == <<pins, cloud>>
allVars == <<vars, entryVars, flowVars, netVars, doorVars>>

(* "refresh" and "reset" wait for the cloud, "delete" is a reset at its         *)
(* deletions; "ensure" is a refresh, "renew" a reset in ensure_registered.      *)
FlowTypes == {"none", "refresh", "reset", "delete", "ensure", "renew"}

Message == [func : AckTypes \cup {"trigger"}, tok : Token, by : Task \cup {NoTask}]

-----------------------------------------------------------------------------
(* Messages.                                                                *)

(* The tasks in ts no longer wait for an ACK: a late one finds no future. *)
Forget(ts, q) ==
    [i \in DOMAIN q |-> IF q[i].by \in ts THEN [q[i] EXCEPT !.by = NoTask] ELSE q[i]]

ForgetAll(ts) == [l \in Lock |-> Forget(ts, net[l])]

(* What the current step of task t publishes.  The 407 that ends an unlock is *)
(* followed by no wait.                                                       *)
Publication(t) ==
    IF pc'[t] \in AckTypes \ {pc[t]} THEN <<[func |-> pc'[t], tok |-> arg'[t], by |-> t]>>
    ELSE IF pc[t] = "wake" /\ pc'[t] = "ok"
         THEN <<[func |-> "trigger", tok |-> arg[t], by |-> NoTask]>>
         ELSE <<>>

(* The network's part of a step of task t. *)
Transmit(t) ==
    /\ net' = [net EXCEPT ![LockOf(t)] = Forget({t}, @) \o Publication(t)]
    /\ Len(net'[LockOf(t)]) <= MaxNet
    /\ inbox' = inbox \ {t}

(* The ACK of task t can still arrive. *)
OnItsWay(t) ==
    /\ up /\ ~stopped
    /\ t \in inbox \/ \E i \in DOMAIN net[LockOf(t)] : net[LockOf(t)][i].by = t

-----------------------------------------------------------------------------
(* Tokens and the cloud's key list.                                         *)

(* The keys on lock l named HA_PIN_NAME, as getdoorkeys lists them. *)
Listed(l) == {k \in Token : cloud[l][k] > 0}

OnLock(l) == {k \in Token : pins[l][k] > 0}

(* secrets.token_hex(8) never repeats a token. *)
Unused(k) ==
    /\ \A l \in Lock : /\ k \notin {entry[l], disk[l], locks[l], old[l], base[l]}
                       /\ k \notin OnLock(l) \cup Listed(l)
                       /\ \A i \in DOMAIN net[l] : net[l][i].tok # k
    /\ \A t \in Task : arg[t] # k
    /\ \A c \in Call : seen[c] # k /\ k \notin todo[c]
    /\ ~stopped => \A l \in Lock : k # token[l] /\ <<l, k>> \notin asked \cup known

(* async_update_entry: a change notifies the update listener, which the entry *)
(* has only while it is loaded.                                               *)
UpdateEntry(toks) ==
    /\ entry' = toks
    /\ reload' = (reload \/ (~stopped /\ toks # entry))

-----------------------------------------------------------------------------

Nowhere == [l \in Lock |-> NoToken]

(* A first installation, or one whose lock already holds a key of ours. *)
KeyInit ==
    /\ Init
    /\ entry = Nowhere /\ disk = Nowhere /\ locks = Nowhere /\ old = Nowhere /\ base = Nowhere
    /\ seeding = FALSE /\ reload = FALSE
    /\ flow = [c \in Call |-> "none"]
    /\ seen = [c \in Call |-> NoToken]
    /\ todo = [c \in Call |-> {}]
    /\ stale = {}
    /\ net = [l \in Lock |-> <<>>]
    /\ inbox = {}
    /\ pins \in {[l \in Lock |-> [k \in Token |-> IF k \in ks THEN 1 ELSE 0]] :
                     ks \in {{}} \cup {{k} : k \in Token}}
    /\ cloud = pins

-----------------------------------------------------------------------------
(* The client's own steps, in this environment.                             *)

Online == Connect /\ UNCHANGED <<entryVars, flowVars, netVars, doorVars>>

(* The observer connection does not queue: ACKs on their way are lost. *)
Offline ==
    /\ Drop
    /\ inbox' = {}
    /\ UNCHANGED <<entryVars, flowVars, net, doorVars>>

Traffic(l) == HandleMessage(l, TRUE, {}) /\ UNCHANGED <<entryVars, flowVars, netVars, doorVars>>

AckArrives(t) ==
    /\ t \in inbox
    /\ HandleMessage(LockOf(t), TRUE, {t})
    /\ inbox' = inbox \ {t}
    /\ UNCHANGED <<entryVars, flowVars, net, doorVars>>

Unlock(c) ==
    /\ flow[c] = "none" /\ AsyncUnlock(c) /\ Transmit(c)
    /\ UNCHANGED <<entryVars, flowVars, doorVars>>

SetMode(c) ==
    /\ flow[c] = "none" /\ AsyncSetMode(c) /\ Transmit(c)
    /\ UNCHANGED <<entryVars, flowVars, doorVars>>

CallReturns(c) ==
    /\ flow[c] = "none" /\ Return(c)
    /\ UNCHANGED <<entryVars, flowVars, netVars, doorVars>>

Acquires(t) ==
    /\ Acquire(t) /\ Transmit(t)
    /\ UNCHANGED <<entryVars, flowVars, doorVars>>

(* Unless ACKs may be late, the 1.5 s are over only when none can come. *)
Resumes(t) ==
    /\ t \in acked \/ "late" \in Faults \/ ~OnItsWay(t)
    /\ Resume(t) /\ Transmit(t)
    /\ UNCHANGED <<entryVars, flowVars, doorVars>>

-----------------------------------------------------------------------------
(* The refresh button: async_refresh_cloud_data.                            *)

EndFlow(c) ==
    /\ flow' = [flow EXCEPT ![c] = "none"]
    /\ seen' = [seen EXCEPT ![c] = NoToken]
    /\ todo' = [todo EXCEPT ![c] = {}]
    /\ stale' = stale \ {c}

(* Mutant: the lock's id instead of its token. *)
BugRefreshBegins(c) ==
    /\ "refresh" \in Ops /\ ~stopped
    /\ flow[c] = "none" /\ pc[c] = "idle"
    /\ flow' = [flow EXCEPT ![c] = "refresh"]
    /\ seen' = [seen EXCEPT ![c] = Target[c]]
    /\ UNCHANGED <<todo, stale, vars, entryVars, netVars, doorVars>>

(* Everything up to the answer of fetch_pin_registry; lock_info is read now.  *)
RefreshBegins(c) ==
    /\ "refresh" \in Ops /\ ~stopped
    /\ flow[c] = "none" /\ pc[c] = "idle"
    /\ flow' = [flow EXCEPT ![c] = "refresh"]
    /\ seen' = [seen EXCEPT ![c] = locks[Target[c]]]
    /\ UNCHANGED <<todo, stale, vars, entryVars, netVars, doorVars>>

(* Login or one of the requests fails, and the button's press raises; or the   *)
(* press is cancelled while it waits for the cloud.                            *)
CloudFails(c) ==
    /\ "restfail" \in Faults \/ CancelEnabled
    /\ flow[c] \in {"refresh", "reset"}
    /\ EndFlow(c)
    /\ UNCHANGED <<vars, entryVars, netVars, doorVars>>

(* The token that lock_info had is on the lock: mark_registered. *)
RefreshConfirms(c) ==
    /\ flow[c] = "refresh" /\ seen[c] \in Listed(Target[c])
    /\ EndFlow(c)
    /\ IF c \in stale THEN UNCHANGED vars ELSE MarkRegistered(Target[c], seen[c])
    /\ UNCHANGED <<entryVars, netVars, doorVars>>

(* data["locks"] of the flow's own generation, with token k for its lock, goes *)
(* back to data and, whole, to the entry.                                      *)
StoreToken(c, k) ==
    /\ IF c \in stale
       THEN old' = [old EXCEPT ![Target[c]] = k] /\ UpdateEntry(old') /\ UNCHANGED locks
       ELSE locks' = [locks EXCEPT ![Target[c]] = k] /\ UpdateEntry(locks') /\ UNCHANGED old
    /\ UNCHANGED <<disk, base, seeding>>

(* Another key of ours is on the lock: use it from now on. *)
RefreshAdopts(c, k) ==
    /\ flow[c] = "refresh" /\ seen[c] \notin Listed(Target[c]) /\ k \in Listed(Target[c])
    /\ EndFlow(c)
    /\ StoreToken(c, k)
    /\ IF c \in stale THEN UNCHANGED vars ELSE AdoptToken(Target[c], k)
    /\ UNCHANGED <<netVars, doorVars>>

(* No key of ours is on the lock: ensure_registered.  On a stopped client it   *)
(* can only return at once or raise.                                           *)
RefreshEnsures(c) ==
    /\ flow[c] = "refresh" /\ Listed(Target[c]) = {}
    /\ IF c \in stale
       THEN EndFlow(c) /\ UNCHANGED <<vars, netVars>>
       ELSE /\ EnsureRegistered(c) /\ Transmit(c)
            /\ flow' = [flow EXCEPT ![c] = "ensure"]
            /\ UNCHANGED <<seen, todo, stale>>
    /\ UNCHANGED <<entryVars, doorVars>>

(* A service call or a press is cancelled at the client: nobody waits for its  *)
(* ACK any more, and what the flow still had to do is not done.                *)
CallCancelled(c) ==
    /\ Cancel(c) /\ Transmit(c)
    /\ EndFlow(c)
    /\ UNCHANGED <<entryVars, doorVars>>

(* ensure_registered has returned or raised.  After a reset the key list is    *)
(* read once more, for the entities only.                                      *)
EnsureReturns(c) ==
    /\ flow[c] \in {"ensure", "renew"} /\ Return(c)
    /\ EndFlow(c)
    /\ UNCHANGED <<entryVars, netVars, doorVars>>

-----------------------------------------------------------------------------
(* The reset button: async_reset_ha_pins.                                   *)

(* (Bound: pressed only while a token is left to replace the one in force.) *)
ResetBegins(c) ==
    /\ ResetEnabled /\ ~stopped
    /\ \E k \in Token : Unused(k)
    /\ flow[c] = "none" /\ pc[c] = "idle"
    /\ flow' = [flow EXCEPT ![c] = "reset"]
    /\ UNCHANGED <<seen, todo, stale, vars, entryVars, netVars, doorVars>>

(* The key list names the keys to delete; two keys with one token are deleted *)
(* by one command here.                                                       *)
ResetLists(c) ==
    /\ flow[c] = "reset"
    /\ flow' = [flow EXCEPT ![c] = "delete"]
    /\ todo' = [todo EXCEPT ![c] = Listed(Target[c])]
    /\ UNCHANGED <<seen, stale, vars, entryVars, netVars, doorVars>>

ResetDeletes(c, k) ==
    /\ flow[c] = "delete" /\ pc[c] = "idle" /\ k \in todo[c]
    /\ IF c \in stale
       THEN EndFlow(c) /\ UNCHANGED <<vars, netVars>>
       ELSE /\ DeletePin(c, k) /\ Transmit(c)
            /\ todo' = [todo EXCEPT ![c] = @ \ {k}]
            /\ UNCHANGED <<flow, seen, stale>>
    /\ UNCHANGED <<entryVars, doorVars>>

(* delete_pin has returned: go on; or raised: the reset ends half done. *)
DeleteReturns(c) ==
    /\ flow[c] = "delete" /\ Return(c)
    /\ IF pc[c] = "error" THEN EndFlow(c) ELSE UNCHANGED flowVars
    /\ UNCHANGED <<entryVars, netVars, doorVars>>

(* A new token: into data and entry, then to the client, which registers it,   *)
(* all before the reload that the change of the entry schedules.               *)
ResetReplaces(c, k) ==
    /\ flow[c] = "delete" /\ pc[c] = "idle" /\ todo[c] = {}
    /\ Unused(k)
    /\ StoreToken(c, k)
    /\ IF c \in stale
       THEN EndFlow(c) /\ UNCHANGED <<vars, netVars>>
       ELSE /\ ReplaceHaPinToken(c, k) /\ Transmit(c)
            /\ flow' = [flow EXCEPT ![c] = "renew"]
            /\ UNCHANGED <<seen, todo, stale>>
    /\ UNCHANGED doorVars

-----------------------------------------------------------------------------
(* Setup, unload and the process.                                           *)

(* Mutant: the heal tasks are not cancelled and the connection stays. *)
BugUnload ==
    /\ reload \/ "reload" \in Faults
    /\ stale = {}
    /\ ~stopped /\ stopped' = TRUE
    /\ stale' = {c \in Call : flow[c] # "none"}
    /\ old' = locks
    /\ reload' = FALSE
    /\ net' = ForgetAll(Lock) /\ inbox' = {}
    /\ UNCHANGED <<up, sid, token, registered, taskVars, ghostVars>>
    /\ UNCHANGED <<entry, disk, locks, base, seeding, flow, seen, todo, doorVars>>

(* async_unload_entry, of a reload or by the user.  Flows still waiting belong *)
(* to the old generation.  (Bound: none is left from the one before that.)     *)
Unload ==
    /\ reload \/ "reload" \in Faults
    /\ stale = {}
    /\ Stop
    /\ stale' = {c \in Call : flow[c] # "none"}
    /\ old' = locks
    /\ reload' = FALSE
    /\ net' = ForgetAll(Lock) /\ inbox' = {}
    /\ UNCHANGED <<entry, disk, locks, base, seeding, flow, seen, todo, doorVars>>

(* _ensure_ha_pin_tokens, up to the await of the cloud: a lock without a token *)
(* in the entry gets a new one.                                                *)
SetupBegins(toks) ==
    /\ stopped /\ ~seeding
    /\ \A l \in Lock : IF entry[l] = NoToken THEN Unused(toks[l]) ELSE toks[l] = entry[l]
    /\ seeding' = TRUE
    /\ base' = toks
    /\ UpdateEntry(toks)
    /\ UNCHANGED <<disk, locks, old, vars, flowVars, netVars, doorVars>>

(* The tokens the new client may start with, when the key lists of the locks   *)
(* in read were read: the entry's where it is listed or nothing is, otherwise  *)
(* one that is listed.                                                         *)
Adopted(l, read) ==
    IF l \notin read \/ Listed(l) = {} \/ base[l] \in Listed(l) THEN {base[l]} ELSE Listed(l)

(* Mutants: an adopted key is not counted; every lock that was read is. *)
BugAlreadyRegistered(read) == {l \in read : base[l] \in Listed(l)}

BugAllRegistered(read) == read

(* The locks whose key list shows a key of ours. *)
AlreadyRegistered(read) == {l \in read : Listed(l) # {}}

(* Mutant: adopted tokens are not written to the entry. *)
BugSetupEnds(read, toks) ==
    /\ seeding
    /\ read = Lock \/ "restfail" \in Faults
    /\ "hasty" \in Faults \/ \A l \in Lock : net[l] = <<>>
    /\ \A l \in Lock : toks[l] \in Adopted(l, read)
    /\ NewClient(toks, AlreadyRegistered(read))
    /\ seeding' = FALSE
    /\ locks' = toks
    /\ base' = Nowhere
    /\ UNCHANGED <<entry, disk, old, reload, flowVars, netVars, doorVars>>

(* The rest of async_setup_entry, once _fetch_initial_cloud_state is over.  A  *)
(* failing request or the time limit leaves the locks after it unread; entry   *)
(* is written only when a token was adopted, and no listener is there yet.     *)
SetupEnds(read, toks) ==
    /\ seeding
    /\ read = Lock \/ "restfail" \in Faults
    /\ "hasty" \in Faults \/ \A l \in Lock : net[l] = <<>>
    /\ \A l \in Lock : toks[l] \in Adopted(l, read)
    /\ NewClient(toks, AlreadyRegistered(read))
    /\ seeding' = FALSE
    /\ entry' = IF toks # base THEN toks ELSE entry
    /\ locks' = toks
    /\ base' = Nowhere
    /\ UNCHANGED <<disk, old, reload, flowVars, netVars, doorVars>>

(* Home Assistant writes a changed entry to disk after a delay. *)
Save ==
    /\ "crash" \in Faults
    /\ disk # entry
    /\ disk' = entry
    /\ UNCHANGED <<entry, locks, old, base, seeding, reload, vars, flowVars, netVars, doorVars>>

(* The process dies and starts again with what was saved.  (A restart in good  *)
(* order is Save, then this.)                                                  *)
ProcessDies ==
    /\ "crash" \in Faults
    /\ Crash
    /\ entry' = disk /\ locks' = Nowhere /\ old' = Nowhere /\ base' = Nowhere
    /\ seeding' = FALSE /\ reload' = FALSE
    /\ flow' = [c \in Call |-> "none"] /\ seen' = [c \in Call |-> NoToken]
    /\ todo' = [c \in Call |-> {}] /\ stale' = {}
    /\ net' = ForgetAll(Task) /\ inbox' = {}
    /\ UNCHANGED <<disk, doorVars>>

-----------------------------------------------------------------------------
(* The lock, the network and the cloud (outside the repository).            *)

(* The lock's keys after command m: a 408 adds a key even when one with that   *)
(* token is there, a 420 deletes by token.                                     *)
KeysAfter(m, keys) ==
    IF m.func = "reg"
    THEN [keys EXCEPT ![m.tok] = IF @ < MaxCopies THEN @ + 1 ELSE @]
    ELSE IF m.func = "del" THEN [keys EXCEPT ![m.tok] = 0] ELSE keys

(* The lock carries out the next command and acknowledges it with its msgId. *)
Execute(l) ==
    /\ net[l] # <<>>
    /\ net' = [net EXCEPT ![l] = Tail(@)]
    /\ pins' = [pins EXCEPT ![l] = KeysAfter(Head(net[l]), @)]
    /\ cloud' = IF "lag" \in Faults THEN cloud ELSE pins'
    /\ inbox' = IF up /\ ~stopped /\ Head(net[l]).by # NoTask
                THEN inbox \cup {Head(net[l]).by} ELSE inbox
    /\ UNCHANGED <<vars, entryVars, flowVars>>

CloudCatchesUp ==
    /\ cloud # pins
    /\ cloud' = pins
    /\ UNCHANGED <<vars, entryVars, flowVars, netVars, pins>>

(* A command or an ACK is lost (QoS 0, or the lock was not connected). *)
Loses(l) ==
    /\ "loss" \in Faults
    /\ \/ net[l] # <<>> /\ net' = [net EXCEPT ![l] = Tail(@)] /\ UNCHANGED inbox
       \/ \E t \in inbox : inbox' = inbox \ {t} /\ UNCHANGED net
    /\ UNCHANGED <<vars, entryVars, flowVars, doorVars>>

AppDeletes(l, k) ==
    /\ "appdelete" \in Faults
    /\ pins[l][k] > 0
    /\ pins' = [pins EXCEPT ![l][k] = 0]
    /\ cloud' = IF "lag" \in Faults THEN cloud ELSE pins'
    /\ UNCHANGED <<vars, entryVars, flowVars, netVars>>

-----------------------------------------------------------------------------

ClientSteps ==
    \/ Online \/ Offline
    \/ \E l \in Lock : Traffic(l)
    \/ \E t \in Task : AckArrives(t) \/ Acquires(t) \/ Resumes(t)
    \/ \E c \in Call : Unlock(c) \/ SetMode(c) \/ CallReturns(c)

FlowProgress(c) ==
    \/ RefreshConfirms(c) \/ RefreshEnsures(c) \/ EnsureReturns(c)
    \/ ResetLists(c) \/ DeleteReturns(c)
    \/ \E k \in Token : RefreshAdopts(c, k) \/ ResetDeletes(c, k) \/ ResetReplaces(c, k)

FlowSteps ==
    \E c \in Call :
        RefreshBegins(c) \/ ResetBegins(c) \/ CloudFails(c) \/ CallCancelled(c) \/ FlowProgress(c)

SetupSteps ==
    \E toks \in [Lock -> Token] :
        SetupBegins(toks) \/ \E read \in SUBSET Lock : SetupEnds(read, toks)

EntrySteps == SetupSteps \/ Unload \/ Save \/ ProcessDies

OutsideSteps ==
    \/ CloudCatchesUp
    \/ \E l \in Lock : Execute(l) \/ Loses(l) \/ \E k \in Token : AppDeletes(l, k)

KeyNext == ClientSteps \/ FlowSteps \/ EntrySteps \/ OutsideSteps

KeySpec == KeyInit /\ [][KeyNext]_allVars

(* Tasks run and waits end as in RelayClient; the connection is retried, the   *)
(* lock keeps sending its status and carries out what reaches it, cloud        *)
(* requests end one way or the other, a scheduled reload and a begun setup run *)
(* to their end.  Nobody has to press a button, and nothing has to fail.       *)
KeyFairness ==
    /\ WF_allVars(Online)
    /\ \A l \in Lock : WF_allVars(Traffic(l)) /\ WF_allVars(Execute(l))
    /\ \A t \in Task : /\ WF_allVars(AckArrives(t)) /\ WF_allVars(Resumes(t))
                       /\ SF_allVars(Acquires(t))
    /\ \A c \in Call : WF_allVars(FlowProgress(c) \/ CallReturns(c))
    /\ WF_allVars(reload /\ Unload)
    /\ WF_allVars(SetupSteps)

KeyLiveSpec == KeySpec /\ KeyFairness

-----------------------------------------------------------------------------
(* Properties.                                                              *)

(* Every variable has its type. *)
KeyTypeOK ==
    /\ TypeOK
    /\ \A toks \in {entry, disk, locks, old, base} : toks \in [Lock -> Token \cup {NoToken}]
    /\ seeding \in BOOLEAN /\ reload \in BOOLEAN
    /\ flow \in [Call -> FlowTypes]
    /\ seen \in [Call -> Token \cup {NoToken}]
    /\ todo \in [Call -> SUBSET Token]
    /\ stale \subseteq Call
    /\ \A l \in Lock : Len(net[l]) <= MaxNet /\ \A i \in DOMAIN net[l] : net[l][i] \in Message
    /\ inbox \subseteq Task
    /\ pins \in [Lock -> [Token -> 0 .. MaxCopies]]
    /\ cloud \in [Lock -> [Token -> 0 .. MaxCopies]]

(* After an unload (stop, 121-124, and the cancelled run) nothing more is put on *)
(* the way to a lock until the next setup has made its client: not the trigger   *)
(* of an unlock suspended at its wake-up, not the command of a call that waited  *)
(* for the mutex or its 408, and not the 408 of a heal task or of a waiter that   *)
(* gets the mutex late.  A 408 that left later could be missing in the key list   *)
(* of the next setup, which would then register another key.                      *)
NothingAfterUnload ==
    [][stopped => \A l \in Lock : Len(net'[l]) <= Len(net[l])]_allVars

(* An unlock or a mode switch that reaches the lock finds its key there.  It    *)
(* holds through reloads, crashes, failing or lagging cloud answers and late    *)
(* ACKs, as long as no command is lost and nobody deletes keys.                 *)
CommandFindsKey ==
    \A l \in Lock : net[l] # <<>> /\ Head(net[l]).func \in {"set", "trigger"}
                        => Head(net[l]).tok \in OnLock(l)

Copies(l) == {p \in Token \X (1 .. MaxCopies) : p[2] <= pins[l][p[1]]}

(* No two keys of ours on a lock, whatever overlaps and however often the       *)
(* entry reloads or the process dies: what _registered, the adoption of a       *)
(* listed key and mark_registered are there for (219-222, 259-263).             *)
AtMostOneKey == \A l \in Lock : \A a, b \in Copies(l) : a = b

(* While the entry is loaded and no reload is due, the client, hass.data and    *)
(* the entry agree on each lock's token.                                        *)
TokensAgree == ~stopped /\ ~reload => token = locks /\ locks = entry

(* A reset has failed between two deletions. *)
HalfReset == \E c \in Call : flow[c] = "delete" /\ pc[c] = "error"

(* A setup reads the key list while a deletion of the client before is not      *)
(* carried out yet, and so may adopt the key that is about to go.               *)
ReadsBeforeDeletion ==
    seeding /\ \E l \in Lock : \E i \in DOMAIN net[l] : net[l][i].func = "del"

(* Once the client stays connected, each lock comes to hold the key that the    *)
(* client uses, and keeps it: after a first installation, a setup without the   *)
(* cloud, a reload in the middle of a registration, or a reset that overlaps    *)
(* one, because the reload that the new token schedules repairs what the two do *)
(* to each other.  A reset that fails between two deletions is repaired by the  *)
(* next setup, however that comes about; without one the key is lost for good.  *)
KeyRecovers ==
    <>[]up /\ (HalfReset ~> stopped) /\ []~ReadsBeforeDeletion
        => <>[](\A l \in Lock : token[l] \in OnLock(l))

(* Docstring of async_refresh_cloud_data (299-300): when the refresh sees no    *)
(* key of ours on the lock it registers one right away.  Here: it asks, waits   *)
(* for a registration under way, or fails visibly.                              *)
RefreshReRegisters ==
    [][\A c \in Call : flow[c] = "refresh" /\ flow'[c] = "ensure" => pc'[c] # "ok"]_allVars

=============================================================================
