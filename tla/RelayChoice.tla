------------------------------ MODULE RelayChoice ------------------------------
(***************************************************************************)
(* Which relay a config entry is connected to: the dialogs of               *)
(* config_flow.py that create an entry and change its options, and the      *)
(* setup, unload and reload of __init__.py that follow the choice, with the *)
(* embedded relay (SharedRelay) and an external one on the same machine     *)
(* that needs the same ports.                                               *)
(*                                                                         *)
(* An entry is an account, which is its unique id: an account that is       *)
(* configured gets no second entry (181-182).  Forms, defaults and the      *)
(* relay's user name and password are left out.                             *)
(***************************************************************************)
CONSTANTS
    Entry,      \* config entries, one for each account
    Host,       \* observers of external relays
    Local,      \* the one on this machine
    Config,     \* settings of the embedded relay
    Nothing,    \* a key that is not in a dictionary; no target
    Forms,      \* what can be typed for an entry
    Faults      \* "setup": a setup may fail after it has got its relay

ASSUME HostAssumption == Local \in Host /\ Host \cap Config = {}
ASSUME NothingAssumption == Nothing \notin Host \cup Config \cup {"external", "embedded"}

VARIABLES
    data,       \* entry.data, as far as it is about the relay
    options,    \* entry.options
    dialog,     \* what is being checked, and for which entry; one at a time
    entry,      \* see EntryStates
    target,     \* what the setup has read: the host, or the settings for the embedded relay
    due,        \* entries whose update listener has been told of a change
    releasing,  \* entries whose async_release has not had the lock yet
    running,    \* the settings with which the embedded relay was started
    warned,     \* entries told that their settings are ignored
    external,   \* the external relay on this machine has its ports
    missed,     \* ghost: entries changed during a setup that had read them
    service, members, alive   \* the embedded relay, see SharedRelay

Shared == INSTANCE SharedRelay

entryVars == <<entry, target, due, releasing, warned, missed>>
settingVars == <<data, options, dialog>>
sharedVars == <<service, members, alive>>
vars == <<settingVars, entryVars, running, external, sharedVars>>

(* "out": HA is going to set it up;  "acquire": waiting for shared["lock"];      *)
(* "start": starting the relay;  "cloud": the rest of the setup;  "retry" after  *)
(* ConfigEntryNotReady, "error" after any other exception.                       *)
EntryStates == {"absent", "out", "acquire", "start", "cloud", "loaded", "retry", "error"}

Key == {"mode", "host", "config"}
Empty == [k \in Key |-> Nothing]
External(h) == [mode |-> "external", host |-> h, config |-> Nothing]
Embedded(c) == [mode |-> "embedded", host |-> Nothing, config |-> c]
Typed == {External(h) : h \in Host} \cup {Embedded(c) : c \in Config}

ASSUME FormsAssumption == Forms \in [Entry -> SUBSET Typed]

Closed == [of |-> Nothing, typed |-> Empty]

(* {**data, **options} *)
Merged(e) == [k \in Key |-> IF options[e][k] # Nothing THEN options[e][k] ELSE data[e][k]]

-----------------------------------------------------------------------------
(* The dialogs: a submitted form is checked, by a connection to the host or a    *)
(* look at the certificate files, and then saved.  The login before the first    *)
(* form changes nothing but the form; it stops an account that is configured.    *)

(* A new entry is set up; an existing one gets new options, of which only a     *)
(* loaded one is told: the listener is the setup's last step but one (140).     *)
Save(e, typed) ==
    /\ dialog' = Closed
    /\ IF entry[e] = "absent"
       THEN /\ data' = [data EXCEPT ![e] = typed]
            /\ entry' = [entry EXCEPT ![e] = "out"]
            /\ UNCHANGED <<options, due, missed>>
       ELSE /\ options' = [options EXCEPT ![e] = typed]
            /\ LET new == options[e] # typed IN
               /\ due' = IF new /\ entry[e] = "loaded" THEN due \cup {e} ELSE due
               /\ missed' = IF new /\ entry[e] \in {"acquire", "start", "cloud"}
                            THEN missed \cup {e} ELSE missed
            /\ UNCHANGED <<data, entry>>
    /\ UNCHANGED <<target, releasing, warned, running, external, sharedVars>>

Checks(e, typed) ==
    /\ dialog' = [of |-> e, typed |-> typed]
    /\ UNCHANGED <<data, options, entryVars, running, external, sharedVars>>

(* The config flow's async_step_embedded and async_step_external. *)
SubmitsNew(e, typed) ==
    /\ dialog = Closed /\ entry[e] = "absent"
    /\ Checks(e, typed)

(* Mutant: the mode is not saved with the form. *)
BugSubmitsOptions(e, typed) ==
    /\ dialog = Closed /\ entry[e] # "absent"
    /\ Checks(e, [typed EXCEPT !.mode = Nothing])

(* Those of the options flow.  From embedded to external there is no test: the  *)
(* external relay can have the ports only when the embedded one is gone (237).  *)
SubmitsOptions(e, typed) ==
    /\ dialog = Closed /\ entry[e] # "absent"
    /\ IF typed.mode = "external" /\ Merged(e).mode = "embedded"
       THEN Save(e, typed)
       ELSE Checks(e, typed)

CheckPasses ==
    /\ dialog # Closed
    /\ dialog.typed.host = Local => external
    /\ Save(dialog.of, dialog.typed)

(* Unreachable or no such files: the form again. *)
CheckFails ==
    /\ dialog # Closed
    /\ dialog' = Closed
    /\ UNCHANGED <<data, options, entryVars, running, external, sharedVars>>

Dialogs ==
    \/ CheckPasses \/ CheckFails
    \/ \E e \in Entry : \E typed \in Forms[e] : SubmitsNew(e, typed) \/ SubmitsOptions(e, typed)

-----------------------------------------------------------------------------
(* async_setup_entry and _async_relay_endpoint.                               *)

Goes(e, state) == entry' = [entry EXCEPT ![e] = state]

(* _relay_target. *)
RelayTarget(e) == IF options[e].host # Nothing THEN options[e].host ELSE data[e].host

(* The mode decides.  _relay_target looks up data["host"] even when the options *)
(* have a host (397): without one in data the setup fails with a KeyError.      *)
Setup(e) ==
    /\ entry[e] \in {"out", "retry"}
    /\ \/ /\ Merged(e).mode # "embedded" /\ data[e].host = Nothing
          /\ Goes(e, "error") /\ UNCHANGED target
       \/ /\ Merged(e).mode # "embedded" /\ data[e].host # Nothing
          /\ Goes(e, "cloud") /\ target' = [target EXCEPT ![e] = RelayTarget(e)]
       \/ /\ Merged(e).mode = "embedded"
          /\ Goes(e, "acquire") /\ target' = [target EXCEPT ![e] = Merged(e).config]
    /\ missed' = missed \ {e} /\ warned' = warned \ {e}
    /\ UNCHANGED <<due, releasing, settingVars, running, external, sharedVars>>

(* ConfigEntryNotReady or worse. *)
GivesUp(e, state) ==
    /\ Goes(e, state)
    /\ target' = [target EXCEPT ![e] = Nothing]
    /\ missed' = missed \ {e} /\ warned' = warned \ {e}

(* The lock is free, and the entry's own release has come first (FIFO).  *)
HasLock(e) == entry[e] = "acquire" /\ e \notin releasing

(* Mutant: nobody is warned. *)
BugAcquireJoins(e) ==
    /\ HasLock(e) /\ Shared!Joins(e)
    /\ Goes(e, "cloud")
    /\ UNCHANGED <<target, due, releasing, missed, warned, settingVars, running, external>>

(* Whoever started it, its settings stay in force. *)
AcquireJoins(e) ==
    /\ HasLock(e) /\ Shared!Joins(e)
    /\ Goes(e, "cloud")
    /\ warned' = IF running # target[e] THEN warned \cup {e} ELSE warned
    /\ UNCHANGED <<target, due, releasing, missed, settingVars, running, external>>

AcquireStarts(e) ==
    /\ HasLock(e) /\ Shared!Starts
    /\ Goes(e, "start")
    /\ running' = target[e]
    /\ UNCHANGED <<target, due, releasing, warned, missed, settingVars, external>>

AcquireEnds(e) ==
    /\ entry[e] = "start" /\ Shared!Serves(e)
    /\ Goes(e, "cloud")
    /\ UNCHANGED <<target, due, releasing, warned, missed, settingVars, running, external>>

(* No certificate files, no package, no ports, no process. *)
AcquireFails(e) ==
    /\ entry[e] = "start" /\ Shared!StartFails
    /\ GivesUp(e, "retry")
    /\ UNCHANGED <<due, releasing, settingVars, running, external>>

Loads(e) ==
    /\ entry[e] = "cloud"
    /\ Goes(e, "loaded")
    /\ UNCHANGED <<target, due, releasing, warned, missed, settingVars, running, external, sharedVars>>

(* async_release is among the callbacks that are called after an unload and     *)
(* after a setup that failed alike.                                             *)
OnUnload(e) == releasing' = IF target[e] \in Config THEN releasing \cup {e} ELSE releasing

(* Mutant: what a failed setup has acquired is not released. *)
BugSetupFails(e) ==
    /\ "setup" \in Faults /\ entry[e] = "cloud"
    /\ GivesUp(e, "error")
    /\ UNCHANGED <<due, releasing, settingVars, running, external, sharedVars>>

SetupFails(e) ==
    /\ "setup" \in Faults /\ entry[e] = "cloud"
    /\ OnUnload(e) /\ GivesUp(e, "error")
    /\ UNCHANGED <<due, settingVars, running, external, sharedVars>>

(* Mutant: the change waits for the next reload. *)
BugUnload(e) ==
    /\ entry[e] = "loaded" /\ e \notin due
    /\ OnUnload(e) /\ GivesUp(e, "out")
    /\ due' = due \ {e}
    /\ UNCHANGED <<settingVars, running, external, sharedVars>>

(* A reload, by the listener or by the user. *)
Unload(e) ==
    /\ entry[e] = "loaded"
    /\ OnUnload(e) /\ GivesUp(e, "out")
    /\ due' = due \ {e}
    /\ UNCHANGED <<settingVars, running, external, sharedVars>>

(* The user reloads an entry that has failed. *)
Reload(e) ==
    /\ entry[e] = "error"
    /\ Goes(e, "out")
    /\ UNCHANGED <<target, due, releasing, warned, missed, settingVars, running, external, sharedVars>>

(* async_release, when it has the lock. *)
Release(e) ==
    /\ e \in releasing
    /\ Shared!Leaves(e) \/ Shared!LastLeaves(e)
    /\ releasing' = releasing \ {e}
    /\ UNCHANGED <<entry, target, due, warned, missed, settingVars, running, external>>

SetupSteps(e) ==
    \/ Setup(e) \/ AcquireJoins(e) \/ AcquireStarts(e) \/ AcquireEnds(e) \/ AcquireFails(e)
    \/ Loads(e) \/ SetupFails(e)

-----------------------------------------------------------------------------
(* The relays.                                                                *)

EmbeddedComes ==
    /\ ~external /\ Shared!ProcessComes
    /\ UNCHANGED <<settingVars, entryVars, running, external>>

EmbeddedEnds ==
    /\ Shared!ProcessEnds
    /\ UNCHANGED <<settingVars, entryVars, running, external>>

EmbeddedStopped ==
    /\ Shared!Stopped
    /\ running' = Nothing
    /\ UNCHANGED <<settingVars, entryVars, external>>

(* restart=always: it comes up when the ports are free. *)
ExternalComes ==
    /\ ~external /\ ~alive
    /\ external' = TRUE
    /\ UNCHANGED <<settingVars, entryVars, running, sharedVars>>

ExternalEnds ==
    /\ external /\ external' = FALSE
    /\ UNCHANGED <<settingVars, entryVars, running, sharedVars>>

Relays == EmbeddedComes \/ EmbeddedEnds \/ EmbeddedStopped \/ ExternalComes \/ ExternalEnds

-----------------------------------------------------------------------------

Init ==
    /\ data = [e \in Entry |-> Empty] /\ options = [e \in Entry |-> Empty]
    /\ dialog = Closed
    /\ entry = [e \in Entry |-> "absent"] /\ target = [e \in Entry |-> Nothing]
    /\ due = {} /\ releasing = {} /\ warned = {} /\ missed = {}
    /\ running = Nothing /\ external \in BOOLEAN
    /\ Shared!Down

Next ==
    \/ Dialogs \/ Relays
    \/ \E e \in Entry : SetupSteps(e) \/ Release(e) \/ Unload(e) \/ Reload(e)

(* Home Assistant sets up what is to be set up and reloads what has changed, a  *)
(* process told to end does, and the external relay tries again and again.      *)
Fairness ==
    /\ \A e \in Entry : WF_vars(SetupSteps(e)) /\ WF_vars(Release(e)) /\ WF_vars(e \in due /\ Unload(e))
    /\ WF_vars(service = "stopping" /\ EmbeddedEnds) /\ WF_vars(EmbeddedStopped)
    /\ WF_vars(ExternalComes)

Spec == Init /\ [][Next]_vars /\ Fairness

-----------------------------------------------------------------------------
(* Properties.                                                                *)

(* Every variable has its type. *)
TypeOK ==
    /\ data \in [Entry -> Typed \cup {Empty}] /\ options \in [Entry -> Typed \cup {Empty}]
    /\ dialog \in [of : Entry, typed : Typed] \cup {Closed}
    /\ entry \in [Entry -> EntryStates]
    /\ target \in [Entry -> Host \cup Config \cup {Nothing}]
    /\ \A es \in {due, releasing, warned, missed, members} : es \subseteq Entry
    /\ running \in Config \cup {Nothing}
    /\ external \in BOOLEAN /\ alive \in BOOLEAN
    /\ service \in {"down", "starting", "up", "stopping"}

(* What the user has saved last: a host or the settings of the embedded relay. *)
Chosen(e) ==
    LET s == IF options[e] # Empty THEN options[e] ELSE data[e]
    IN IF s.mode = "embedded" THEN s.config ELSE s.host

Settled(e) == entry[e] = "loaded" /\ e \notin due \cup missed

(* A loaded entry's client is connected to the relay that the user chose last,  *)
(* though each key is looked up in options, data or both: to the chosen host,   *)
(* or to the embedded relay, of which the entry is then a user and which is not *)
(* going down.  Excepted is a choice saved while a setup that had read the one  *)
(* before was under way: no listener is there yet (69, 140).                    *)
TargetIsChosen ==
    \A e \in Entry : Settled(e) =>
        /\ target[e] = Chosen(e)
        /\ target[e] \in Config => e \in members /\ service = "up"

(* The embedded relay runs with the entry's settings, or the entry was warned   *)
(* that it does not (294-295), whoever else has come and gone since.            *)
InForceOrWarned ==
    \A e \in Entry : Settled(e) /\ target[e] \in Config => running = target[e] \/ e \in warned

(* No use of the embedded relay leaks (comment 390): whoever is counted is      *)
(* loaded or on the way to it, or a release is on its way.                      *)
NoUseLeaks ==
    \A e \in members :
        e \in releasing \/ (entry[e] \in {"cloud", "loaded"} /\ target[e] \in Config)

WantsEmbedded(e) == entry[e] # "absent" /\ Chosen(e) \in Config

(* When no entry is to use the embedded relay any more it goes down and its     *)
(* ports are free, whatever setups, reloads and failures are under way (comment *)
(* 238-240), unless a change of mind has been missed.                           *)
PortsAreFreed ==
    (\A e \in Entry : ~WantsEmbedded(e)) /\ missed = {}
        ~> service = "down" \/ missed # {} \/ \E e \in Entry : WantsEmbedded(e)

(* Comment 238-241 on the change from embedded to external: after the reload    *)
(* the embedded relay goes down and the client connects to the external one.    *)
SwitchReconnects ==
    \A e \in Entry : entry[e] # "absent" /\ Chosen(e) = Local
        ~> \/ entry[e] = "loaded" /\ target[e] = Local
           \/ Chosen(e) # Local
           \/ missed # {}

=============================================================================
