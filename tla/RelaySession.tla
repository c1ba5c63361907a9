------------------------------ MODULE RelaySession ------------------------------
(***************************************************************************)
(* Whether a door lock is attached to the relay, as Home Assistant knows it *)
(* and shows it: the reconnect loop and the session messages of RelayClient *)
(* (relay_client.py), _handle_relay_session with its timers (__init__.py)   *)
(* and the availability of the entities (entity.py).                        *)
(*                                                                         *)
(* Time passes in ticks; RELAY_OFFLINE_GRACE is Grace ticks.  The relay is  *)
(* outside the repository: it lists its sessions to a new observer and      *)
(* announces each change, in order, and replays messages it retained (only  *)
(* if Features says so).                                                    *)
(***************************************************************************)
EXTENDS Naturals, Sequences

CONSTANTS
    Lock,      \* the tracked tpIds
    Grace,     \* RELAY_OFFLINE_GRACE in ticks
    MaxQueue,  \* bound on the messages between relay and client
    Features   \* of the relay, see FeatureNames

(* sessions: it lists and announces its sessions (0.1.7 and later);  retain: a  *)
(* new observer is sent a lock's last message again, before the list.  (Both    *)
(* answer one subscription to "#"; the order is the relay's.)                   *)
FeatureNames == {"sessions", "retain"}

ASSUME GraceAssumption == Grace \in Nat \ {0}
ASSUME MaxQueueAssumption == MaxQueue \in Nat \ {0, 1}
ASSUME FeaturesAssumption == Features \subseteq FeatureNames

VARIABLES
    attached,   \* locks with a session at the relay
    link,       \* the connection between observer and client exists
    conn,       \* _client is set
    queue,      \* messages from the observer not handled yet
    connected,  \* relay_connected: "unknown" (None), "on" or "off"
    since,      \* ticks since relay_changed_at, while it matters ("off")
    timers,     \* for each lock, the ticks its _recheck_available timers have left
    shown       \* locks whose entities were last written as available

relayVars == <<attached, link>>
stateVars == <<connected, since, timers, shown>>
vars == <<attached, link, conn, queue, connected, since, timers, shown>>

Message == [kind : {"list", "on", "off", "traffic"}, locks : SUBSET Lock]

-----------------------------------------------------------------------------
(* The coordinator.                                                         *)

(* available: an unknown lock counts as available, an offline one for Grace. *)
Available(l) == connected[l] # "off" \/ since[l] < Grace

(* Every update of the coordinator makes all entities write their state. *)
WriteStates == shown' = {l \in Lock : Available(l)'}

(* Mutant: no new timer while one is running. *)
BugHandleRelaySession(online) ==
    LET changed == {l \in DOMAIN online : connected[l] # online[l]} IN
    /\ connected' = [l \in Lock |-> IF l \in changed THEN online[l] ELSE connected[l]]
    /\ since' = [l \in Lock |-> IF l \in changed THEN 0 ELSE since[l]]
    /\ timers' = [l \in Lock |-> IF l \in changed /\ online[l] = "off" /\ timers[l] = {}
                                 THEN {Grace + 1} ELSE timers[l]]
    /\ IF changed = {} THEN UNCHANGED shown ELSE WriteStates

(* _handle_relay_session for the locks in online's domain: only a change is    *)
(* stamped, and one to offline sets a timer.  (A changed peer address is left  *)
(* out: it causes one more WriteStates.)                                       *)
HandleRelaySession(online) ==
    LET changed == {l \in DOMAIN online : connected[l] # online[l]} IN
    /\ connected' = [l \in Lock |-> IF l \in changed THEN online[l] ELSE connected[l]]
    /\ since' = [l \in Lock |-> IF l \in changed THEN 0 ELSE since[l]]
    /\ timers' = [l \in Lock |-> IF l \in changed /\ online[l] = "off"
                                 THEN timers[l] \cup {Grace + 1} ELSE timers[l]]
    /\ IF changed = {} THEN UNCHANGED shown ELSE WriteStates

(* Mutant: the timer takes the lock down without another look. *)
BugRecheckAvailable(l) ==
    /\ 0 \in timers[l]
    /\ timers' = [timers EXCEPT ![l] = @ \ {0}]
    /\ shown' = shown \ {l}
    /\ UNCHANGED <<relayVars, conn, queue, connected, since>>

(* The timer of an earlier time offline may find the lock back, or away anew.  *)
RecheckAvailable(l) ==
    /\ 0 \in timers[l]
    /\ timers' = [timers EXCEPT ![l] = @ \ {0}]
    /\ UNCHANGED <<relayVars, conn, queue, connected, since>>
    /\ WriteStates

(* Mutant: a timer that is due is missed. *)
BugTick ==
    /\ since' = [l \in Lock |-> IF connected[l] = "off" /\ since[l] <= Grace
                                THEN since[l] + 1 ELSE since[l]]
    /\ timers' = [l \in Lock |-> {t - 1 : t \in timers[l]}]
    /\ UNCHANGED <<relayVars, conn, queue, connected, shown>>

(* A timer that is due fires before more time passes.  (Bound: ticks are       *)
(* counted up to the end of the grace time.)                                   *)
Tick ==
    /\ \A l \in Lock : 0 \notin timers[l]
    /\ since' = [l \in Lock |-> IF connected[l] = "off" /\ since[l] <= Grace
                                THEN since[l] + 1 ELSE since[l]]
    /\ timers' = [l \in Lock |-> {t - 1 : t \in timers[l]}]
    /\ UNCHANGED <<relayVars, conn, queue, connected, shown>>

-----------------------------------------------------------------------------
(* The client: run, _handle_session, _handle_message.                       *)

All(value) == [l \in Lock |-> value]

(* Mutant: a list says nothing of the locks that are not in it. *)
BugMeaning(m) == [l \in m.locks |-> IF m.kind = "off" THEN "off" ELSE "on"]

(* What a message tells about the locks it is about: the list covers all of    *)
(* them, and traffic of a lock counts as proof that it is attached.            *)
Meaning(m) ==
    IF m.kind = "list" THEN [l \in Lock |-> IF l \in m.locks THEN "on" ELSE "off"]
    ELSE [l \in m.locks |-> IF m.kind = "off" THEN "off" ELSE "on"]

(* Traffic may change other things in the coordinator too. *)
HandleNext ==
    /\ conn /\ queue # <<>>
    /\ queue' = Tail(queue)
    /\ \/ HandleRelaySession(Meaning(Head(queue)))
       \/ /\ Head(queue).kind = "traffic"
          /\ \A l \in Head(queue).locks : connected[l] = "on"
          /\ UNCHANGED <<connected, since, timers>> /\ WriteStates
    /\ UNCHANGED <<relayVars, conn>>

(* The finally of run: every lock counts as offline from now on. *)
NoticesLoss ==
    /\ conn /\ ~link
    /\ conn' = FALSE /\ queue' = <<>>
    /\ HandleRelaySession(All("off"))
    /\ UNCHANGED relayVars

(* A connection that breaks at the subscription has set _client already.       *)
SubscribeFails ==
    /\ ~conn
    /\ HandleRelaySession(All("off"))
    /\ UNCHANGED <<relayVars, conn, queue>>

SessionList == IF "sessions" \in Features THEN <<[kind |-> "list", locks |-> attached]>> ELSE <<>>

Replays == {<<>>} \cup IF "retain" \in Features
                       THEN {<<[kind |-> "traffic", locks |-> {l}]>> : l \in Lock} ELSE {}

(* Connected and subscribed; the relay sends its list and what it retained. *)
Connects ==
    /\ ~conn
    /\ conn' = TRUE /\ link' = TRUE
    /\ \E replay \in Replays :
           queue' = replay \o SessionList
    /\ UNCHANGED <<attached, stateVars>>

(* The entry reloads: new coordinator, new client, and on_unload has cancelled *)
(* the timers.                                                                 *)
Reload ==
    /\ conn' = FALSE /\ link' = FALSE /\ queue' = <<>>
    /\ connected' = All("unknown") /\ since' = All(0) /\ timers' = All({})
    /\ shown' = Lock
    /\ UNCHANGED attached

-----------------------------------------------------------------------------
(* The relay (outside the repository).                                      *)

Sends(kind, l) ==
    IF link
    THEN Len(queue) < MaxQueue /\ queue' = Append(queue, [kind |-> kind, locks |-> {l}])
    ELSE UNCHANGED queue

Announces(kind, l) == IF "sessions" \in Features THEN Sends(kind, l) ELSE UNCHANGED queue

Attach(l) ==
    /\ l \notin attached
    /\ attached' = attached \cup {l}
    /\ Announces("on", l)
    /\ UNCHANGED <<link, conn, stateVars>>

Detach(l) ==
    /\ l \in attached
    /\ attached' = attached \ {l}
    /\ Announces("off", l)
    /\ UNCHANGED <<link, conn, stateVars>>

LockSends(l) ==
    /\ l \in attached /\ link
    /\ Sends("traffic", l)
    /\ UNCHANGED <<relayVars, conn, stateVars>>

LinkBreaks ==
    /\ link
    /\ link' = FALSE
    /\ UNCHANGED <<attached, conn, queue, stateVars>>

-----------------------------------------------------------------------------

Init ==
    /\ attached \in SUBSET Lock
    /\ link = FALSE /\ conn = FALSE /\ queue = <<>>
    /\ connected = All("unknown") /\ since = All(0) /\ timers = All({})
    /\ shown = Lock

Next ==
    \/ Tick \/ Connects \/ SubscribeFails \/ NoticesLoss \/ HandleNext \/ Reload
    \/ LinkBreaks
    \/ \E l \in Lock : RecheckAvailable(l) \/ Attach(l) \/ Detach(l) \/ LockSends(l)

Spec == Init /\ [][Next]_vars

-----------------------------------------------------------------------------
(* Properties.                                                              *)

(* Every variable has its type. *)
TypeOK ==
    /\ attached \subseteq Lock /\ shown \subseteq Lock
    /\ link \in BOOLEAN /\ conn \in BOOLEAN
    /\ Len(queue) <= MaxQueue /\ \A i \in DOMAIN queue : queue[i] \in Message
    /\ connected \in [Lock -> {"unknown", "on", "off"}]
    /\ since \in [Lock -> 0 .. Grace + 1]
    /\ timers \in [Lock -> SUBSET (0 .. Grace + 1)]

(* A lock that is unknown, online, or offline for less than the grace time is  *)
(* never shown as unavailable, however it goes on and off (entity.py:33-42).   *)
KeepsAvailable == \A l \in Lock : Available(l) => l \in shown

(* A lock offline for longer than the grace time is shown as unavailable, as    *)
(* soon as the timers due have fired: each time it went offline left a timer   *)
(* that fires late enough, in whatever order the times and timers overlap      *)
(* (526-532).                                                                  *)
GoesUnavailable ==
    \A l \in Lock : connected[l] = "off" /\ since[l] > Grace /\ 0 \notin timers[l]
                        => l \notin shown

(* With a relay that announces its sessions, a connected client that has read  *)
(* everything knows of each lock whether it is attached, whatever it missed    *)
(* while it was not connected; and then it takes none for attached (112-115,   *)
(* 140-147).                                                                   *)
SettledAgrees ==
    \A l \in Lock :
        /\ conn /\ link /\ queue = <<>> => connected[l] = IF l \in attached THEN "on" ELSE "off"
        /\ ~conn => connected[l] # "on"

=============================================================================
