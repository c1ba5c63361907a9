# A TLA+ model of zigbang_doorlock

`zigbang_doorlock` is a Home Assistant integration for the door locks of one vendor. A
lock speaks MQTT over TLS to a *relay* that stands between it and the vendor's server;
the integration connects to the relay's *observer* port, where it sees the lock's
messages and can publish commands. To open the door it registers one permanent pin
token of its own on the lock, "Home Assistant's key", and uses that key from then on.

These modules model the parts of the program whose correctness depends on the order in
which things happen: asyncio tasks that overlap, buttons pressed while something is in
flight, reloads and crashes, late and lost messages, a cloud that answers late or not
at all, a child process and its supervisor. TLC checks them on small instances;
TLAPS proves, for every size of the instances, what TLC checks of states and steps; what
must eventually happen is TLC's alone.

Paths below are relative to `src/custom_components/zigbang_doorlock/` unless they say
otherwise.

## 1. The system

| component | state it keeps | operations | what is hard about it |
|---|---|---|---|
| relay client, `relay_client.py` | `_client`, `_stop`, `_sid_by_tpid`, `_ha_pin_tokens`, `_registered`, `_registration_locks`, `_pending_acks`, self-heal tasks | `run`, `_handle_message`, `async_unlock`, `async_set_mode`, `delete_pin`, `ensure_registered`, `replace_ha_pin_token`, `adopt_token`, `mark_registered`, `stop` | tasks of several origins register the same key; an ACK can only be read by the loop that would be blocked by waiting for it; ACKs are late or lost; the token can change while it is on its way |
| life of the key, `__init__.py`, `button.py`, `lock.py`, `switch.py` | `entry.data`, `hass.data[DOMAIN][entry_id]`, the update listener | `async_setup_entry`, `_fetch_initial_cloud_state`, `async_refresh_cloud_data`, `async_reset_ha_pins`, `async_unload_entry` | five copies of the truth about a key (lock, cloud, entry, `hass.data`, client), each updated at another moment, with awaits and reloads between |
| embedded relay, `embedded_relay.py` | `hass.data[...]["relay"]`, `["users"]`, `["lock"]`; per relay `_proc`, `_supervisor`, `_stopping` | `async_acquire`, `async_release`, `start`, `_supervise`, `stop`, the STOP listener | reference counting over reloads, a supervisor that restarts what somebody else stops, Home Assistant's own shutdown order |
| relay session and availability, `relay_client.py`, `__init__.py`, `entity.py`, `binary_sensor.py` | `relay_connected`, `relay_changed_at`, timers, what entities last wrote | `_handle_session`, `_notify_offline`, `_handle_relay_session`, `_recheck_available`, `available` | missed events, timers of several offline times, messages replayed by the relay |
| state merge and activity events, `__init__.py`, `protocol.py`, `event.py`, `sensor.py` | `coordinator.data`, the registry of pins | `_handle_relay_message`, `_merge_state`, `_merge_pin_registry`, `_replace_pin_registry`, `extract_*` | partial messages, a replay that has the header of one message and the data of all, a REST answer older than the messages beside it, pinIds that clash |
| cloud REST client, `api.py` | one login, made anew for each use | login, key list, status | answers that are old when they are used |
| config and options flows, `config_flow.py`, and the choice of the relay in `__init__.py` | `entry.data`, `entry.options`, the form in progress | user, relay and options steps; `_async_relay_endpoint`, `_relay_target` | an entry that is changed while it is set up or loaded, two dictionaries for one choice, two relays for the same ports |
| `helper/manage_pins.py` (outside the integration) | the file of IMEIs | list and delete keys | processes that share a file, keys that change between list and command, a list that lags |
| relay rules, `docker/rules/` | – | scripts the relay runs | the relay's source is not in the repository |

How they interact. `async_setup_entry` reads the cloud through `api.py`, builds the
coordinator and one `RelayClient`, and starts `RelayClient.run` as a background task.
The client reports through three callbacks: every lock message
(`_handle_relay_message`), every session change (`_handle_relay_session`) and its
self-heal tasks (`hass.async_create_task`). Entities and buttons call the client and
the flows of `__init__.py` directly. A changed token is written to `entry.data`, whose
update listener reloads the entry: the reset's own last step unloads the client it is
about to use. In embedded mode the setup acquires the relay before all this and an
`on_unload` callback releases it.

Everything runs on one event loop. A coroutine runs alone from one await to the next,
so **an action of these modules is the code between two awaits**, and every interleaving
of such pieces is explored. What else acts is the lock, the cloud, the relay, the
network, the operating system and the user.

### What makes each component correct

* Relay client: one registration of a lock at a time; a key is not asked for twice; a
  command never carries a key the lock cannot have; every task ends; an unregistered
  lock gets its key without an unlock.
* Life of the key: one key of ours on the lock, whatever restarts and overlaps; entry,
  `hass.data` and client agree; the key that the client uses is (again) on the lock in
  the end; a client that was stopped sends nothing more, whoever still waits in it.
* Embedded relay: at most one process; a loaded entry is never without its relay; no
  process without an owner, also after Home Assistant has gone; a relay that died comes
  back; every setup gets its answer.
* Session: entities become unavailable after the grace time and not before; a client
  that is connected and has read everything agrees with the relay.
* State merge: a client that has read everything shows what the lock has reported, though
  it missed messages, and that the bolt is jammed when that was its last word; an opening is
  put down to nobody but the owner of the key that was used, and to its owner by name when
  the name is known, though the lock gives its slots away again.
* Config and options flows: a loaded entry uses the relay that was chosen last; no use of
  the embedded relay leaks; its ports come free when nobody wants it any more.
* `manage_pins.py`: one IMEI for an account; only the key that was named is deleted; a
  deletion that is reported has happened.

## 2. Modules

| module | models | state and actions |
|---|---|---|
| `RelayClient` | `relay_client.py`: connection, sIds, tokens, `_registered`, the mutex, ACKs, calls | one `pc` per task. `Connect`/`Drop`/`Stop`/`NewClient`/`Crash`: life of the client; `HandleMessage`: an MQTT message with its sId, its ACK and the self-heal task it starts; `AsyncUnlock`, `AsyncSetMode`, `EnsureRegistered`, `DeletePin`: calls up to their first publication; `Acquire`: the mutex with the second look at `_registered`; `ResumeReg`/`ResumeWake`/`ResumeLast`: after the ACK or its timeout; `ReplaceHaPinToken`, `AdoptToken`, `MarkRegistered`; `Return`, `Cancel`: the caller |
| `KeyCustody` | abstract: what the client promises about its key | `Ask`, `Hold`, `Learn`, `Use`, with neither tasks nor a mutex; `RelayClient` implements it (`KeepsCustody`) |
| `KeyLifecycle` | EXTENDS `RelayClient`; `__init__.py` around it, and the lock, the cloud and the network | `SetupBegins`/`SetupEnds` around the REST seeding, `Unload`, `Save`, `ProcessDies`; the refresh (`RefreshBegins`, `RefreshConfirms`, `RefreshAdopts`, `RefreshEnsures`) and the reset (`ResetBegins`, `ResetLists`, `ResetDeletes`, `ResetReplaces`) as flows in a call slot; `CallCancelled`: a call or press that is cancelled; `Execute`, `Loses`, `CloudCatchesUp`, `AppDeletes` outside |
| `EmbeddedRelay` | `embedded_relay.py` | a queue at `shared["lock"]` whose head runs `AcquireStarts`, `PrepareEnds`, `Spawns`, `GraceEnds`, ..., `ReleaseStops`; one supervisor per relay (`Supervise`); processes that end, obey SIGTERM or lose their ports; `HaStops`, `OnStopEnds`, `HaExits` |
| `SharedRelay` | abstract: the embedded relay as its entries see it | one service with its members: `Starts`, `Serves`, `Joins`, `Leaves`, `LastLeaves`, `Stopped`; `EmbeddedRelay` implements it (`IsShared`), `RelayChoice` uses it |
| `RelayChoice` | `config_flow.py`, `_async_relay_endpoint`, `_relay_target`, setup, unload and reload as far as they are about the relay; composed with `SharedRelay` and an external relay | `SubmitsNew`, `SubmitsOptions`, `CheckPasses`, `Save`: the dialogs; `Setup`, `AcquireJoins`, `AcquireStarts`, ..., `Loads`: a setup; `Unload`, `Release`; `EmbeddedComes`, `ExternalComes`: who has the ports |
| `ManagePins` | `helper/manage_pins.py`, the lock and the cloud's list | one `pc` per process: `ImeiFound`, `ImeiGenerated`, `WriteBegins`/`WriteEnds` on the file; `Login`, `Picks`, `Publishes`, `Rechecks`; `Killed` for every way to end early; outside keys come and go, commands are lost and the list lags |
| `RelaySession` | the session messages from the reconnect loop to the entities | `Connects`, `HandleNext`, `NoticesLoss`, `SubscribeFails`, `Reload`, `Tick`, `RecheckAvailable`; the relay and its locks outside |
| `StateMerge` | `_handle_relay_message`, the extractors of `protocol.py`, the merges and the REST answers of setup and refresh, for one lock | `HandleNext` is the whole handler; `CloudAnswersStatus`, `MergesStatus`, `CloudAnswersList`, `ReplacesRegistry`, `RefreshFails`: a refresh with the moment at which the cloud answered; `Setup`: a reload or restart; the lock (`OpenedWith`, `MovedWithoutKey`, `DoorNotClosed`, `KeyAdded`, `KeyRemoved`, `ModeChanges`, `Dump`) and the relay's retained message (`Retain`, `Connects`, `Drops`) outside |
| `MC*` | instances: which lock each call slot works on, symmetry | – |
| `*Proofs` | the theorems of section 4, one module for each of the above that has any | – |

`PROJECT.json` maps every definition to the lines it stands for. Definitions named
`Bug...` are mutated forms of the definition that follows them: each property has
one that must break it, so that no property holds merely by the shape of the model.

### Choices a reader should know

* *Tasks.* The self-heal task of lock `l` is named `l`; the other tasks are the
  `Call` slots, each of which can make any number of calls, one after the other.
* *Timeouts.* `ResumeReg` needs no ACK: an ACK and the end of the 1.5 s do the same
  (`relay_client.py` 204-207), so the model only has to let both happen. In
  `KeyLifecycle` a timeout while the ACK can still come is the fault `late`.
* *Clients.* `Stop` followed by `NewClient` is a reload. Calls still suspended in a
  stopped client go on, find no connection and fail; they publish nothing, because the
  cancelled `run` has left its `async with` before any of them resumes.
* *Flows of an unloaded generation.* A refresh or reset suspended in a REST request
  keeps the dictionaries and the client it captured. `stale`, `old` and `seen` are those
  objects: the stale refresh's writes reach `entry.data` but not the new client.
* *Tokens.* `secrets.token_hex(8)` is a token that nothing uses (`Unused`, `Fresh`).
* *Ghosts.* `asked` and `known` (`RelayClient`) record which keys a client published a
  408 for and which a REST answer showed; `outdated` (`StateMerge`) the fields over which
  a REST answer older than the lock was merged, or whose message was missed for good, and
  `"jam"` when a 652 or 622 was; `reused` (`StateMerge`) the slots that another owner was given,
  until the registry is the cloud's newer list and no older name can come; `key` and `by` of a
  message which key opened the door, and whose it was then; `missed` (`RelayChoice`) the entries
  whose options were saved during a setup that had read the old ones; `disturbed`, `removed` and the `named` of a
  command (`ManagePins`) what the file and the keys went through. No guard of the code reads them.
* *Data of `StateMerge`.* A field is on, off or not said; `locked` and `flag` stand for the
  fields of `_ATTR_FIELD_MAP`, `away` for the mode that is not in it. A key is known by its
  slot, `<<pinType, pinId>>`, and named after its owner: a registry entry is absent, without a
  name, or an owner. A free slot may be given to anybody. When a
  remote opening (`SVR`) has a pinId that several keys share, the code takes the first of
  its dictionary; the model takes any.
* *The queue of the embedded relay is first come, first served*, as `asyncio.Lock` is:
  Home Assistant waits at most 10 s for an unload's tasks, so that an entry's new
  acquire can stand behind its own release. In any other order the release would take
  the relay from under the loaded entry.
* *One dialog at a time* is checked and saved (`RelayChoice`). A form that is merely open
  reads nothing: the options flow looks at the entry when a form is submitted.
* *Refinements.* `KeyCustody` and `SharedRelay` are stated without tasks, queue or
  supervisor. While the client is stopped, or Home Assistant is not running, their state
  is the empty one; what a stopping Home Assistant does to the process is `NoneSurvives`.
* *Home Assistant's shutdown*: the STOP event and the cancellation of background tasks
  (supervisors) are one step, `HaStops`; `HaExits` is the final cancellation of what
  still runs. Between them setups and releases that have begun go on.

## 3. Runs

Bounds are small because the code treats locks separately (every dictionary is keyed by
tpId, each lock has its mutex) and because each call slot is used again and again.
One lock is enough since only its own tasks interact; two call slots and the self-heal
task give every pair of operations, three give a waiter behind a waiter. Two tokens
give a change of token, three a change while a registration of the first is in flight and
another is listed. Two messages in flight (`MaxNet`) give every reordering of an old
generation's command with the next one's; two copies of a key (`MaxCopies`) already
violate `AtMostOneKey`.

| run | question | instance | result |
|---|---|---|---|
| `client` | do overlapping heals, unlocks, mode switches, refreshes exclude one another and register once? | 1 lock, 3 calls, 2 tokens | `TypeOK`, `AskedSettled`, `RegisteredKnown`, `CommandTokenKnown`, `NeverAskedTwice` hold; it implements `KeyCustody` (`KeepsCustody`) |
| `client_liveness` | does every task end, is the lock registered without an unlock, with resets and with calls that are cancelled? | 1 lock, 2 calls, 2 tokens | `TasksEnd`, `SelfHeals` hold |
| `key_restarts` | does the lock collect keys over reloads, crashes, late and lost ACKs, deletions in the app? does anything leave a client that was stopped? | 1 lock, 2 calls, 3 tokens; cloud current | `KeyTypeOK`, `AtMostOneKey`, `TokensAgree`, `NothingAfterUnload` hold |
| `key_commands` | does every command find its key? | 1 lock, 2 calls, 2 tokens; lagging and failing cloud, crashes, setups that overtake old commands, late ACKs, cancelled calls; nothing lost | `CommandFindsKey` holds |
| `key_recovery` | do client and lock come to agree on a key, whatever resets and registrations do to each other, and whatever half a reset has deleted? | 1 lock, 1 call, 3 tokens; failing cloud, hasty setup, late ACKs, resets | `KeyRecovers` holds |
| `refresh_doc` | what a docstring promises of a refresh | 1 lock, 1 call, 2 tokens | **violated**, section 5 |
| `embedded` | one process, served entries, nothing left behind, nothing that outlives Home Assistant, restarts, every acquire answered | 3 entries, 2 relay objects | `TypeOK`, `OneProcess`, `LoadedIsServed`, `NothingLeftBehind`, `NoneSurvives`, `Restarts`, `AcquireAnswers` hold; it implements `SharedRelay` (`IsShared`) |
| `choice` | is a loaded entry connected to the relay chosen last, with its settings in force or a warning; does no use leak; do the ports come free? | 2 entries; one switches between an external relay on this machine and two settings of the embedded one, the other between a distant relay and the embedded one; failing setups | `TypeOK`, `TargetIsChosen`, `InForceOrWarned`, `NoUseLeaks`, `PortsAreFreed` hold |
| `switch_doc` | what a comment promises of the switch from the embedded to an external relay | 1 entry, no failing setups | **violated**, section 5 |
| `pins` | one IMEI for an account, deletion of the right key, truth of what is reported | 2 processes, one that deletes, one that lists; 2 accounts, 3 IMEIs, 2 places with the same pinId, 2 keys, 1 command on its way | `TypeOK`, `OneImei`, `RightKey`, `ConfirmedGone` hold |
| `session` | unavailable after the grace time, not before; agreement with the relay | 2 locks, grace 2 ticks, 2 messages in flight; relay that announces sessions and replays retained messages before its list | `TypeOK`, `KeepsAvailable`, `GoesUnavailable`, `SettledAgrees` hold |
| `state` | does what is shown settle to what the lock reported, is an opening put down to the right owner? | 1 lock, locked at first, 2 slots with one pinId, 2 owners, 3 messages of which 2 in flight, any number of reconnections, reloads and refreshes | `TypeOK`, `SettledAgrees`, `SettledJam`, `NobodyElse`, `KnownAreNamed` hold |

Two relay objects are enough for `EmbeddedRelay` because at most two are referred to at
once (the one being stopped by the listener and the one an acquire starts); one that is
no longer referred to is used again. Three entries let one release while another waits
and a third holds the lock. A grace time of two ticks lets a lock go off, on and off
again within it, so that timers of both times overlap. Three messages of `StateMerge`
are one that is missed, one whose header hides it in the retained message, and one
more; the two slots have the same pinId and different types, the only way keys clash, and
two owners let a slot be given to another one, or both slots to the same. Two of the three
messages go into such a change, so that a name that comes late from before it, in a retained
message, needs a fourth: that case only the proof covers.
Two entries of `RelayChoice` are enough for every order of one that joins, one that leaves
and a start with other settings; two settings are what a warning needs, a third would
differ from the one in force in the same way. In `ManagePins` two keys let a place be
given away between list and command, three IMEIs let an account draw a second one while
another account has one; what a second deleting process would do to a key, `Somebody`
does.

Deadlock is checked in every run. Symmetry (tokens and call slots, entries and relays,
locks, owners and pin types) is used only in runs without liveness properties. A reset is pressed only while
a token is left (`ResetBegins`), a bound that the finite set of tokens needs.

### Fairness

* `RelayClient`: a resumed task runs (`WF(Resume)`: the event loop runs what is ready
  and a wait for an ACK ends after 1.5 s); the mutex serves each waiter although others
  come and go (`SF(Acquire)`: `asyncio.Lock` is first come, first served, the model lets
  any waiter go next); a lock sends its status again and again with its sId
  (`WF(HandleMessage)`). Nothing makes a connection succeed, so `SelfHeals` allows the
  connection to break.
* `KeyLifecycle`: the same, and reconnects are retried for ever, the lock carries out
  what reaches it, REST requests end with an answer or a failure, scheduled reloads and
  begun setups complete. No button press, no failure and no deletion is fair.
  `KeyRecovers` additionally assumes `<>[]up`, a connection that holds in the end.
* `EmbeddedRelay`: the waits of `start`, `_supervise` and `stop` all have time limits
  (2 s grace, backoff of at most a minute, kill after 5 s); a package installation ends.
  Restart is stated up to the next spawn, since a port taken for good prevents more.
* `RelayChoice`: begun setups and releases go on, Home Assistant sets up what is to be set
  up and carries out the reload that a listener asked for, a process told to end does, and
  an external relay tries again for ever (`restart=always`). No dialog, no reload by the
  user and no failure is fair.

## 4. Proofs

Each theorem holds for any value of the constants: any numbers of locks, calls, tokens,
entries, relays, hosts, keys, processes and messages, any grace time, any choice of
operations, features and faults, as far as the row does not say otherwise. The modules about `RelayClient`,
`EmbeddedRelay`, `RelayChoice`, `ManagePins`, `RelaySession` and `StateMerge` each have a theorem
`Invariance`, `Spec => []IndInv`, and `TypeCorrect`, `Spec => []TypeOK`. The others:

| module | theorem | states |
|---|---|---|
| `RelayClientProofs` | `RegistrationsExclude` | `Spec => []Exclusive` |
| | `AskedAreSettled` | `Spec => []AskedSettled` |
| | `RegisteredMeansKnown` | `Spec => []RegisteredKnown` |
| | `CommandsCarryKnownKeys` | `Spec => []CommandTokenKnown` |
| | `KeysAskedForOnce` | `Spec => NeverAskedTwice`, an action property |
| | `ClientKeepsCustody` | `Spec => KeepsCustody`: `RelayClient` implements `KeyCustody`, without resets and cancelled calls |
| `KeyLifecycleProofs` | `LifecycleKeepsClient` | `KeySpec => [](TypeOK /\ Exclusive /\ AskedSettled /\ CommandTokenKnown)` |
| | `LifecycleInvariance`, `LifecycleTypeCorrect` | `KeySpec => []KeyInv`, `KeySpec => []KeyTypeOK` |
| | `DataAndClientAgree` | `KeySpec => [](DataAgrees /\ SeenIsInForce)` |
| `KeySafetyProofs` | `CommandsFindTheirKey` | `KeySpec => []CommandFindsKey`, without the faults `"loss"` and `"appdelete"` and without resets |
| | `OneKeyAtMost` | `KeySpec => []AtMostOneKey`, without the faults `"lag"`, `"restfail"` and `"hasty"`, without resets and cancelled calls |
| | `TokensStayEqual` | `KeySpec => []TokensAgree`, without the faults `"lag"`, `"restfail"` and `"hasty"` and without resets |
| | `NothingLeavesAfterUnload` | `KeySpec => NothingAfterUnload`, an action property |
| | `LifecycleAsksOnce` | `KeySpec => NeverAskedTwice`, an action property |
| | `LifecycleKeepsCustody` | `KeySpec => KeepsCustody`: the composition implements `KeyCustody`, without resets and cancelled calls |
| `EmbeddedRelayProofs` | `AtMostOneProcess` | `Spec => []OneProcess` |
| | `LoadedAreServed` | `Spec => []LoadedIsServed` |
| | `NothingIsLeft` | `Spec => []NothingLeftBehind` |
| | `NothingSurvives` | `Spec => []NoneSurvives` |
| | `RelayIsShared` | `Spec => IsShared`: `EmbeddedRelay` implements `SharedRelay` |
| `RelayChoiceProofs` | `LoadedWhereChosen` | `Spec => []TargetIsChosen` |
| | `SettingsInForceOrWarned` | `Spec => []InForceOrWarned` |
| | `UsesAreGivenBack` | `Spec => []NoUseLeaks` |
| `ManagePinsProofs` | `ImeiStays` | `Spec => []OneImei` |
| | `DeletesWhatWasNamed` | `Spec => []RightKey` |
| | `ConfirmedIsGone` | `Spec => []ConfirmedGone` |
| `RelaySessionProofs` | `StaysAvailable` | `Spec => []KeepsAvailable` |
| | `LateTimersSuffice` | `Spec => []GoesUnavailable` |
| | `SessionsAgree` | `Spec => []SettledAgrees`, for a relay that announces sessions |
| `StateMergeProofs` | `FieldsAgree`, `JamAgrees` | `Spec => []SettledAgrees`, `Spec => []SettledJam` |
| | `RightUser` | `Spec => NobodyElse`, an action property |
| | `NamesAreKept` | `Spec => KnownAreNamed`, an action property |

Assumptions are named in the module that declares the constant, and TLC evaluates them in
every run: sets that are disjoint (call slots and locks; hosts and settings), "none" values
that are in no set (`NoToken`, `NoTask`, `NoRelay`, `None`, `Nothing`), bounds that are
positive, a slot of a key that is a pair of a type, which is none of the accesses without a
key (`SVR`, `INDOOR`, `AUTO`), and a pinId (`SlotAssumption`), and owners who are not called
like the two entries without a name (`OwnerAssumption`).

### The arguments

*The client.* `Exclusive` is inductive by itself: `RegisterLocked` is reached only
where no task of the lock is at `"reg"`. `NeverAskedTwice` is a property of steps, and
needs what is true of the states they start from: the code guards a 408 by "the lock
is not in `_registered` and nobody holds the mutex", so it must be shown that a lock
that was asked for its token in force is in one of the two situations. That is
`AskedSettled`. It survives a change of the token because a replaced token is fresh and
an adopted one becomes registered in the same step, and it survives the end of a
registration because `ResumeReg` adds the lock to `_registered` *whether or not the ACK
came*. It does not survive a cancelled call, which leaves the mutex without that, hence
`~CancelEnabled`. `CommandTokenKnown` needs the converse, `RegisteredKnown`: a
registered lock was asked for, or seen with, exactly the token in force. Resets break
it: a reset replaces the token while a registration of the old one is in flight, whose end
(329) then adds the lock to `_registered` for a token it was never sent; a command that
waited goes out with that token, although `async_set_mode` (238-239) says its token is
always confirmed. `AskedSettled`, and with it `NeverAskedTwice`, holds with resets too.

*The custody of a key* is seen in the client as: who is at `"reg"` asks, who waits for the
lock to wake or to switch uses. A step of the client is one of `KeyCustody`, or is not seen.
The guard of `Ask` is where the invariant of the client is needed. The abstract client asks
once and never replaces its token, which is why the theorem takes no resets; `AskedSettled`
and `NeverAskedTwice` say what holds with them.

*The life of the key.* Each setup, refresh and reset calls the client; the only thing to be known
is that a flow under way is one that `Ops` allows. Each action of `KeyLifecycle` is built on one
of `RelayClient`, so that every step is a step of the client (the lemma `ClientSafety`, true by
construction) and the client's invariant carries over (`LifecycleKeepsClient`). `KeyInv` adds the types of what is
around it, and that the client and `hass.data` have the same tokens: each change of one is a
change of the other in the same step. Hence the guard of `MarkRegistered`, whose code does not say
for which token it is called, holds back no refresh (`SeenIsInForce`).

*What the lock sees* (`KeySafetyProofs`). The first three theorems rest on one lemma, `StepKinds`: without
resets, every step of the composition is a publication to one lock (`Sends`: the 408 of the token in
force for an unregistered lock, or a command with a trusted token), a cloud answer that is believed
(`Sees`), the end of a setup, the end of a client, a step of lock, cloud or network, or none that
concerns client, lock or network. A key is *coming* to a lock when it is there or in a 408 on its way.

- `CommandsFindTheirKey`: what the client trusts is coming (`TrustedComes`). For a command this is
  not enough, since it could overtake the 408; but a command is published after what it relies on
  and the network keeps the order, so that the 408 is ahead of it (`KeyGoesFirst`). The token a
  refresh or a setup trusts is there because the cloud, however late, lists no key that has gone
  (`ListIsTrue`), which needs that no key ever goes (`NoDeletion`, no `"appdelete"`). Losses break
  it: a lock counts as registered whether or not the 408 came.
- `OneKeyAtMost`: a lock has a key, or one 408 is on its way, or neither (`OneAt`). A 408 is published
  only for a lock that is not registered and was not asked, and `NoneBeforeAsked` says that to such
  a lock no key is coming. It is true when the client starts: the setup has read the list, the list
  is the lock's (`CurrentList`), nothing of the client before is in flight (no `"hasty"`), and a lock
  with a key counts as registered. A cancelled call breaks it, since the next one asks again.
- `TokensStayEqual` does not need that a key comes only once, but that all that comes to a lock is one
  token (`OneToken`), while a client runs its own (`OnlyToken`): so a refresh or a setup that reads
  the list finds nothing or the token in force, and adopting it changes nothing. `RefreshSees` says
  that of a refresh that waits for the cloud across a reload, `BaseIsEntry` and `EntryIsUsed` that
  nobody writes the entry beside a setup that waits, or without the client.

- `NothingLeavesAfterUnload` needs no assumption: a stopped client is not connected
  (`StoppedIsDown`), and no piece of a task puts anything on the way without a connection, the
  408 of a waiter that gets the mutex late included (`StepSilent`). Were the heal tasks left
  running and the connection open at the unload, a 408 could leave after the next setup had
  read the key list: that is its mutant.

The assumptions on `Faults` leave out the faults that the runs `key_commands` and `key_restarts` leave
out, for the reasons given in section 5; the operations, and all sizes, are open.
`LifecycleAsksOnce` and `LifecycleKeepsCustody` are what the theorems about the client say of
one that this integration runs.

*The embedded relay.* `IndInv` says who may be where while someone else waits at
`shared["lock"]`: an acquire has nothing of its own entry behind it (`QueueOK`); a relay in
hand is the holder's, with none stored (`HolderOK`); one that is stopped has been told to end
and has no supervisor that is about to bring it back (`RelayOK`); what the STOP listener
leaves was under way at the stop (`HaOK`); users are loaded, being set up or in the queue
(`UsersOK`). `RelayIsShared` reads the abstract service off what the holder does; every piece
of a start, a stop or a restart is one abstract step or none.

*The choice of the relay.* The lemma that carries it is `SetupReadsChosen`: key by key, out of
options and data, the setup reads what was saved last as one. `IndInv` adds that what a
setup has read is the choice, unless the entry is owed a reload or was missed, and that a
user of the service keeps it up.

*The session.* Of the timers of a lock offline, one ends when the grace time does: `t + since =
Grace + 1` (`TimerOK`), whatever others are running. For `SettledAgrees` the last word on a lock in
the queue is true, or there is none and the client knows (`HeardOK`).

*The state merge.* The same argument for fields: what the relay retains of a field is what the lock
has (`CacheOK`), and the last message in the queue about it says so (`QueueOK`); without one
the field is shown as it is, unless it is outdated (`ShownOK`). The queue ends with the message
that is retained, so that the last word on the jam, retained or in the queue, is the lock's; without
one it is shown as it is, unless it was missed behind a later message (`JamOK`). For openings,
nothing known or on its way has a name for a slot but its owner's, unless the slot was
reused (`NamesOK`), and a message names the owner at the time, who is the present one of
a slot that was not (`OpenersOK`). `OnlyTheKey` does the rest: the entries found for an
opening with a key are that key's alone, by type and pinId, or, for a remote one, since no other
known key has the pinId; for one without a key there are none.

*The keys on the command line.* Undisturbed there is one writer of the file, who read what is in it,
and the cloud has seen no IMEI but the one in the file (`CacheOK`). A key that was picked was
named alone, and while it is on the lock the list has it at its place (`TargetOK`).

### Only model-checked

Liveness: `TasksEnd`, `SelfHeals`, `KeyRecovers`, `Restarts`, `AcquireAnswers` and `PortsAreFreed`
hold under fairness, which is out of the prover's reach.

## 5. Where the code and its comments disagree

1. *An entry created with the embedded relay cannot be switched to an external one*
   (`switch_doc`). The comment in `config_flow.py` (238-241) describes the switch: after
   the reload the embedded relay goes down, the external one comes up, the client connects.
   `_relay_target` (`__init__.py` 397) is `entry.options.get(CONF_HOST,
   entry.data[CONF_HOST])`, whose default is evaluated even when the options have a host;
   such an entry has none in its data (`config_flow.py` 245), so that every setup after the
   switch fails with a `KeyError`. Entries created with an external relay can be switched
   both ways: `choice` checks them.
2. *A refresh does not register again* (`refresh_doc`). The docstring (`__init__.py`
   299-300) says that a key deleted in the app is registered again by a refresh; the
   lock is still in `_registered`, so `ensure_registered` returns at once. (The user
   documentation, `src/README.md`, only promises it for the next start.)

### Limits of what holds

The fault sets of the passing runs are the largest under which their properties hold:

* *A reset may register nothing.* When a registration of the old token is in flight,
  `ensure_registered` of the reset waits for the mutex, finds the lock "registered"
  (`relay_client.py` 314, 329) and returns: the press ends without an error and without the
  new key that the docstring (`__init__.py` 345-346) promises. The reload that the new token
  schedules repairs it (`key_recovery`).
* `NoneSurvives` excepts a stop that meets a setup: the STOP listener is registered
  (`embedded_relay.py` 293) only after `start` has returned (283), and an event in between is
  missed.
* *An event may be repeated.* The docstring of `event.py` (3-4) says that the activity
  entity is sent one new event per signal. A relay replays its retained message to every
  new observer (`__init__.py` 422-427); when that is an `IDPEVENT`,
  `_handle_relay_message` sends its event again (511), without a look at `msgDate`.
* `TargetIsChosen` and `PortsAreFreed` except an entry whose options are saved while it is
  being set up: the update listener is added at the end (`__init__.py` 140), so that nobody
  is told, and the entry uses the relay chosen before until its next setup. `InForceOrWarned`
  says no more than that there was a warning: the settings of whoever started the relay stay
  in force as long as anybody uses it, even when all entries agree on others by then.
* `OneImei` needs first runs that do not overlap and are not killed while they write: the
  file is read, changed and written back without a lock (`manage_pins.py` 61-68), and a torn
  file counts as empty, for every account.
* `AtMostOneKey` excepts cancelled calls and resets. A 408 whose wait is cancelled has been
  published, but `_registered` does not say so (329): the next command registers the same token
  once more. A reset that reads the list before a 408 of the old token has been carried out does
  not delete that key. And it needs a cloud list that is current and read (no `lag`, `restfail`) and no
  setup that overtakes old commands (`hasty`): otherwise a new generation cannot know of
  the key that the previous one has just registered. The code knows and warns
  (`__init__.py` 279-290).
* `CommandFindsKey` fails when a command is lost (a 408 without an ACK counts as a
  registration after 1.5 s, `relay_client.py` 205-207, 329) or a key is deleted in the app.
* `TokensAgree` fails when a refresh of an unloaded generation gets its answer late enough
  to adopt another token during the next setup: it writes the entry beside it. So does a reset of
  an unloaded generation.
* `KeyRecovers` excepts a reload that a reset schedules and that reads a list which still
  shows the deleted key: it adopts that (a lagging cloud list, `lag`, does the same and is
  not in that run). A reset that fails between two deletions (`__init__.py` 363-364) leaves
  the lock in `_registered` without a key; the next setup repairs it, and `KeyRecovers`
  takes it that there is one.
* `SettledAgrees` of `RelaySession` needs a relay that has a session list and sends it
  after its retained messages. The client takes each message of a lock for a sign that it
  is attached (`relay_client.py` 179-181), so that a replay after the list, or without
  one, leaves a lock that is away counted as attached.
* `SettledAgrees` of `StateMerge` excepts two things. A refresh may put a status over a
  newer message (`__init__.py` 311-313), until the next message about that field. And the
  away mode is reported only by 638, which is no attribute field (`protocol.py` 33-40,
  141-142): a 638 that was missed is not brought back by a retained message of another
  category, and the switch stays as it was until a refresh or the next 638.
* `SettledJam` excepts what the retained message cannot bring back: it has one header, that of
  the latest message, and the jam is in no other field (`protocol.py` 99-144). A 622 that was
  missed behind a later message leaves the lock shown as jammed, a 652 missed in this way is
  not shown; and a setup shows no jam (`__init__.py` 86-110), though a 652 came before it, unless that is
  still the retained header. Each lasts until the next 652 or 622 is read; a setup also ends a
  jam that is shown wrongly.
  Without this exception TLC finds a 652 that is missed behind an attribute group.
* `NobodyElse` excepts two things, without either of which TLC violates it. Among known keys
  that share a pinId a remote opening may show the wrong owner, as the comment at
  `__init__.py` 463-465 admits; the registry keeps deleted keys, which count here too. And
  `_merge_pin_registry` (545-564) takes nothing away: when a key is deleted and its slot
  given to somebody else, an opening with the new key shows the owner of the old one, until
  a message brings the new name or a refresh or setup replaces the registry. The
  exception ends with that replacement, if it has the new owner (or no key at all) and
  neither the queue nor the retained message has the older name.
* *A second key* (`__init__.py` 243). A setup that reads the key list while a 408 of the client
  before is still on its way finds no key and registers once more. With `hasty` TLC finds
  that within 14 steps of the instance of `key_restarts`; the code warns of the two keys at
  the next refresh or setup (279-290) and leaves it at that: they stay until a
  reset, the app or `manage_pins.py` removes them.
* `Restarts` says that a relay that is down is spawned again, not that it then serves: the
  observer port is chosen once (`embedded_relay.py` 164), and if another program keeps it
  every restart fails its grace time, for ever.
* `NothingAfterUnload` takes it that the cancelled `run` leaves its connection before any
  suspended call resumes (section 2).

## 6. Not modelled, and why

* `_registry_seed_ok` decides one log line. Peer addresses, names, battery and other
  displayed values do not influence control.
* The relay's configuration file, log pruning and backoff lengths.
* `run`'s TLS setup and the contents of envelopes; a command is its function, token and
  sender.
* Login, headers and hashes of `api.py`: each use builds a client and logs in, so that no
  session is shared or renewed. `config_flow.py` draws an IMEI for each submitted form (168), though
  `api.py` (200) speaks of once; only the one of the form that succeeds is kept.
* Forms, defaults, the relay's user name and password, and the choice among several locks
  and the search for the sId in `manage_pins.py`.
* `sensor.py` and the other entities that only show a field of the coordinator.
* The relay itself and the rules it runs: not in the repository; its behaviour appears as
  outside actions.

## 7. Plan

Done: `RelayClient` and its proofs, `KeyLifecycle` over it, `EmbeddedRelay`,
`RelaySession`, `StateMerge`, then `KeyCustody` and `SharedRelay` with the refinements that
`RelayClient` and `EmbeddedRelay` are, `RelayChoice` over `SharedRelay`, `ManagePins`; the
proofs of all of them.

The runs are few on purpose, each for one question: new properties go into the run whose
instance has the situation, and a run that a stronger one covers is dropped.

Next, modelling: `ManagePins` and the reset as two deleters of one lock, in `KeyLifecycle`;
a relay object per settings in `EmbeddedRelay`.

Next, proving: what holds of the life of the key with resets (`OneKeyAtMost` and `TokensStayEqual`
up to the first reset of an unloaded generation, or to the reload after it).

## 8. Running

    tlc -config RelayClient.cfg MCRelayClient.tla
    tlapm RelayClientProofs.tla      # and every other *Proofs.tla

Each configuration names its module in `PROJECT.json` ("runs"), together with the
mutants, the map to the source and the list of hazards.
