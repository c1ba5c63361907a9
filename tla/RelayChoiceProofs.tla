--------------------------- MODULE RelayChoiceProofs ---------------------------
(* What holds of RelayChoice for every set of entries, hosts and settings and  *)
(* whatever is typed for each entry: a settled entry is connected to the relay *)
(* chosen last, the settings of the embedded relay are in force or a warning   *)
(* was given, and no use of it leaks.                                          *)
EXTENDS RelayChoice, TLAPS

-----------------------------------------------------------------------------
(* Settings.                                                                  *)

(* The two kinds of settings, told apart by the mode. *)
LEMMA TypedParts ==
  ASSUME NEW s \in Typed
  PROVE  /\ s # Empty /\ s.mode \in {"external", "embedded"}
         /\ s.mode = "external" => s.host \in Host /\ s.config = Nothing
         /\ s.mode = "embedded" => s.host = Nothing /\ s.config \in Config
  <1>1. CASE \E h \in Host : s = External(h)
    BY <1>1, NothingAssumption DEF External, Empty, Key
  <1>2. CASE \E c \in Config : s = Embedded(c)
    BY <1>2, NothingAssumption DEF Embedded, Empty, Key
  <1> QED BY <1>1, <1>2 DEF Typed

LEMMA EmptyParts == Empty.mode = Nothing /\ Empty.host = Nothing /\ Empty.config = Nothing
  BY DEF Empty, Key

(* Key by key, out of options and data, the setup reads what was saved last as  *)
(* one: no mixture of an old and a new choice comes out.                        *)
LEMMA SetupReadsChosen ==
  ASSUME NEW e \in Entry, data[e] \in Typed, options[e] \in Typed \cup {Empty}
  PROVE  /\ Merged(e).mode = "embedded" => Merged(e).config = Chosen(e) /\ Chosen(e) \in Config
         /\ Merged(e).mode # "embedded" => RelayTarget(e) = Chosen(e) /\ Chosen(e) \in Host
  <1>1. /\ Merged(e).mode = IF options[e].mode # Nothing THEN options[e].mode ELSE data[e].mode
        /\ Merged(e).config = IF options[e].config # Nothing THEN options[e].config ELSE data[e].config
    BY DEF Merged, Key
  <1>2. CASE options[e] = Empty
    BY <1>1, <1>2, TypedParts, EmptyParts, NothingAssumption DEF Chosen, RelayTarget
  <1>3. CASE options[e] \in Typed
    BY <1>1, <1>3, TypedParts, NothingAssumption DEF Chosen, RelayTarget
  <1> QED BY <1>2, <1>3

-----------------------------------------------------------------------------
(* The inductive invariant.                                                   *)

Setting == {"acquire", "start", "cloud", "loaded"}

(* A setup has a target from its beginning to the unload. *)
TargetIffSetting ==
    \A e \in Entry : entry[e] \notin Setting => target[e] = Nothing

WaitsForEmbedded ==
    \A e \in Entry : entry[e] \in {"acquire", "start"} => target[e] \in Config

Saved == \A e \in Entry : entry[e] # "absent" => data[e] \in Typed

(* TargetIsChosen from the moment the settings are read. *)
ReadLast ==
    \A e \in Entry : entry[e] \in Setting /\ e \notin due \cup missed => target[e] = Chosen(e)

(* An entry past its acquire is counted, and no release of its is under way, so *)
(* that nobody else's release is the last; InForceOrWarned, settled or not.     *)
Counted ==
    \A e \in Entry : entry[e] \in {"cloud", "loaded"} /\ target[e] \in Config
        => /\ e \in members /\ e \notin releasing
           /\ running = target[e] \/ e \in warned

OneStarts ==
    \A e \in Entry : entry[e] = "start" =>
        /\ service = "starting" /\ running = target[e] /\ e \notin releasing
        /\ \A f \in Entry : entry[f] = "start" => f = e

UpForMembers == members # {} => service = "up"

IndInv ==
    /\ TypeOK /\ TargetIffSetting /\ WaitsForEmbedded /\ Saved /\ ReadLast
    /\ Counted /\ OneStarts /\ UpForMembers /\ NoUseLeaks

LEMMA InitHolds == Init => IndInv
  BY DEF Init, IndInv, TypeOK, TargetIffSetting, WaitsForEmbedded, Saved, ReadLast, Counted,
         OneStarts, UpForMembers, NoUseLeaks, Shared!Down, EntryStates, Closed, Setting

-----------------------------------------------------------------------------
(* The dialogs.                                                               *)

LEMMA SaveKeeps ==
  ASSUME IndInv, NEW e \in Entry, NEW typed \in Typed, Save(e, typed)
  PROVE  IndInv'
  <1> USE DEF IndInv, Save, sharedVars, TypeOK
  <1>1. TypeOK'
    BY DEF EntryStates
  <1>2. TargetIffSetting' /\ WaitsForEmbedded'
    BY DEF TargetIffSetting, WaitsForEmbedded, Setting
  <1>3. Saved'
    BY DEF Saved
  <1>4. ReadLast'
    BY DEF ReadLast, Chosen, Setting
  <1>5. Counted' /\ OneStarts' /\ UpForMembers' /\ NoUseLeaks'
    BY DEF Counted, OneStarts, UpForMembers, NoUseLeaks
  <1> QED BY <1>1, <1>2, <1>3, <1>4, <1>5

(* Only the dialog changes. *)
LEMMA DialogKeeps ==
  ASSUME IndInv, dialog' \in [of : Entry, typed : Typed] \cup {Closed},
         UNCHANGED <<data, options, entryVars, running, external, sharedVars>>
  PROVE  IndInv'
  <1>1. TypeOK'
    BY DEF IndInv, TypeOK, entryVars, sharedVars
  <1> QED BY <1>1 DEF IndInv, entryVars, sharedVars, TargetIffSetting, WaitsForEmbedded, Saved,
                      ReadLast, Chosen, Counted, OneStarts, UpForMembers, NoUseLeaks

LEMMA DialogsKeep ==
  ASSUME IndInv, Dialogs
  PROVE  IndInv'
  <1>1. CASE CheckPasses
    <2>1. dialog.of \in Entry /\ dialog.typed \in Typed
      BY <1>1 DEF CheckPasses, IndInv, TypeOK
    <2> QED BY <1>1, <2>1, SaveKeeps DEF CheckPasses
  <1>2. CASE CheckFails
    BY <1>2, DialogKeeps DEF CheckFails
  <1>3. ASSUME NEW e \in Entry, NEW typed \in Forms[e],
               SubmitsNew(e, typed) \/ SubmitsOptions(e, typed)
        PROVE  IndInv'
    <2>1. typed \in Typed
      BY FormsAssumption
    <2>2. CASE Save(e, typed)
      BY <2>1, <2>2, SaveKeeps
    <2>3. CASE Checks(e, typed)
      BY <2>1, <2>3, DialogKeeps DEF Checks
    <2> QED BY <1>3, <2>2, <2>3 DEF SubmitsNew, SubmitsOptions
  <1> QED BY <1>1, <1>2, <1>3 DEF Dialogs

-----------------------------------------------------------------------------
(* The setup.                                                                 *)

LEMMA SetupKeeps ==
  ASSUME IndInv, NEW e \in Entry, Setup(e)
  PROVE  IndInv'
  <1> USE DEF IndInv
  <1>1. data[e] \in Typed /\ options[e] \in Typed \cup {Empty}
    BY DEF Setup, Saved, TypeOK
  <1>2. \/ /\ entry' = [entry EXCEPT ![e] = "error"] /\ target' = target
        \/ /\ entry' = [entry EXCEPT ![e] = "cloud"] /\ Chosen(e) \in Host
           /\ target' = [target EXCEPT ![e] = Chosen(e)]
        \/ /\ entry' = [entry EXCEPT ![e] = "acquire"] /\ Chosen(e) \in Config
           /\ target' = [target EXCEPT ![e] = Chosen(e)]
    BY <1>1, SetupReadsChosen DEF Setup, Goes
  <1>3. /\ entry[e] \in {"out", "retry"} /\ missed' = missed \ {e} /\ warned' = warned \ {e}
        /\ UNCHANGED <<data, options, dialog, due, releasing, running, external, service, members, alive>>
    BY DEF Setup, settingVars, sharedVars
  <1>4. TypeOK'
    BY <1>2, <1>3 DEF TypeOK, EntryStates
  <1>5. TargetIffSetting' /\ WaitsForEmbedded' /\ Saved'
    BY <1>2, <1>3 DEF TypeOK, TargetIffSetting, WaitsForEmbedded, Saved, Setting
  <1>6. ReadLast'
    BY <1>2, <1>3 DEF TypeOK, ReadLast, Chosen, Setting
  <1>7. Counted'
    BY <1>2, <1>3, HostAssumption DEF TypeOK, Counted
  <1>8. OneStarts' /\ UpForMembers' /\ NoUseLeaks'
    BY <1>2, <1>3 DEF TypeOK, OneStarts, UpForMembers, NoUseLeaks
  <1> QED BY <1>4, <1>5, <1>6, <1>7, <1>8

LEMMA AcquireJoinsKeeps ==
  ASSUME IndInv, NEW e \in Entry, AcquireJoins(e)
  PROVE  IndInv'
  <1> USE DEF IndInv, TypeOK, settingVars, AcquireJoins, HasLock, Goes, Shared!Joins
  <1>1. TypeOK'
    BY DEF EntryStates
  <1>2. TargetIffSetting' /\ WaitsForEmbedded'
    BY DEF TargetIffSetting, WaitsForEmbedded, Setting
  <1>3. Saved' /\ ReadLast'
    BY DEF Saved, ReadLast, Chosen, Setting
  <1>4. Counted' /\ OneStarts'
    BY DEF Counted, OneStarts, UpForMembers
  <1>5. UpForMembers' /\ NoUseLeaks'
    BY DEF WaitsForEmbedded, UpForMembers, NoUseLeaks
  <1> QED BY <1>1, <1>2, <1>3, <1>4, <1>5

LEMMA AcquireStartsKeeps ==
  ASSUME IndInv, NEW e \in Entry, AcquireStarts(e)
  PROVE  IndInv'
  <1> USE DEF IndInv, TypeOK, settingVars, AcquireStarts, HasLock, Goes, Shared!Starts
  <1>1. TypeOK'
    BY DEF WaitsForEmbedded, EntryStates
  <1>2. TargetIffSetting' /\ WaitsForEmbedded'
    BY DEF TargetIffSetting, WaitsForEmbedded, Setting
  <1>3. Saved' /\ ReadLast'
    BY DEF Saved, ReadLast, Chosen, Setting
  <1>4. Counted' /\ OneStarts'
    BY DEF Counted, OneStarts, UpForMembers
  <1>5. UpForMembers' /\ NoUseLeaks'
    BY DEF UpForMembers, NoUseLeaks
  <1> QED BY <1>1, <1>2, <1>3, <1>4, <1>5

LEMMA AcquireEndsKeeps ==
  ASSUME IndInv, NEW e \in Entry, AcquireEnds(e)
  PROVE  IndInv'
  <1> USE DEF IndInv, TypeOK, settingVars, AcquireEnds, Goes, Shared!Serves
  <1>1. TypeOK'
    BY DEF EntryStates
  <1>2. TargetIffSetting' /\ WaitsForEmbedded'
    BY DEF TargetIffSetting, WaitsForEmbedded, Setting
  <1>3. Saved' /\ ReadLast'
    BY DEF Saved, ReadLast, Chosen, Setting
  <1>4. Counted' /\ OneStarts'
    BY DEF Counted, OneStarts, UpForMembers
  <1>5. UpForMembers' /\ NoUseLeaks'
    BY DEF OneStarts, WaitsForEmbedded, UpForMembers, NoUseLeaks
  <1> QED BY <1>1, <1>2, <1>3, <1>4, <1>5

LEMMA AcquireFailsKeeps ==
  ASSUME IndInv, NEW e \in Entry, AcquireFails(e)
  PROVE  IndInv'
  <1> USE DEF IndInv, TypeOK, settingVars, AcquireFails, GivesUp, Goes, Shared!StartFails
  <1>1. TypeOK'
    BY DEF EntryStates
  <1>2. TargetIffSetting' /\ WaitsForEmbedded'
    BY DEF TargetIffSetting, WaitsForEmbedded, Setting
  <1>3. Saved' /\ ReadLast'
    BY DEF Saved, ReadLast, Chosen, Setting
  <1>4. Counted' /\ OneStarts'
    BY DEF Counted, OneStarts, UpForMembers
  <1>5. UpForMembers' /\ NoUseLeaks'
    BY DEF OneStarts, UpForMembers, NoUseLeaks
  <1> QED BY <1>1, <1>2, <1>3, <1>4, <1>5

LEMMA LoadsKeeps ==
  ASSUME IndInv, NEW e \in Entry, Loads(e)
  PROVE  IndInv'
  <1> USE DEF IndInv, TypeOK, settingVars, sharedVars, Loads, Goes
  <1>1. TypeOK'
    BY DEF EntryStates
  <1>2. TargetIffSetting' /\ WaitsForEmbedded'
    BY DEF TargetIffSetting, WaitsForEmbedded, Setting
  <1>3. Saved' /\ ReadLast'
    BY DEF Saved, ReadLast, Chosen, Setting
  <1>4. Counted' /\ OneStarts'
    BY DEF Counted, OneStarts, UpForMembers
  <1>5. UpForMembers' /\ NoUseLeaks'
    BY DEF UpForMembers, NoUseLeaks
  <1> QED BY <1>1, <1>2, <1>3, <1>4, <1>5

(* What it has acquired is released. *)
LEMMA SetupFailsKeeps ==
  ASSUME IndInv, NEW e \in Entry, SetupFails(e)
  PROVE  IndInv'
  <1> USE DEF IndInv, TypeOK, settingVars, sharedVars, SetupFails, OnUnload, GivesUp, Goes
  <1>1. TypeOK'
    BY DEF EntryStates
  <1>2. TargetIffSetting' /\ WaitsForEmbedded'
    BY DEF TargetIffSetting, WaitsForEmbedded, Setting
  <1>3. Saved' /\ ReadLast'
    BY DEF Saved, ReadLast, Chosen, Setting
  <1>4. Counted' /\ OneStarts'
    BY DEF Counted, OneStarts, UpForMembers
  <1>5. UpForMembers' /\ NoUseLeaks'
    BY DEF UpForMembers, NoUseLeaks
  <1> QED BY <1>1, <1>2, <1>3, <1>4, <1>5

-----------------------------------------------------------------------------
(* Unloads, releases and the relays.                                          *)

LEMMA UnloadKeeps ==
  ASSUME IndInv, NEW e \in Entry, Unload(e)
  PROVE  IndInv'
  <1> USE DEF IndInv, TypeOK, settingVars, sharedVars, Unload, OnUnload, GivesUp, Goes
  <1>1. TypeOK'
    BY DEF EntryStates
  <1>2. TargetIffSetting' /\ WaitsForEmbedded'
    BY DEF TargetIffSetting, WaitsForEmbedded, Setting
  <1>3. Saved' /\ ReadLast'
    BY DEF Saved, ReadLast, Chosen, Setting
  <1>4. Counted' /\ OneStarts'
    BY DEF Counted, OneStarts, UpForMembers
  <1>5. UpForMembers' /\ NoUseLeaks'
    BY DEF UpForMembers, NoUseLeaks
  <1> QED BY <1>1, <1>2, <1>3, <1>4, <1>5

LEMMA ReloadKeeps ==
  ASSUME IndInv, NEW e \in Entry, Reload(e)
  PROVE  IndInv'
  <1> USE DEF IndInv, TypeOK, settingVars, sharedVars, Reload, Goes
  <1>1. TypeOK'
    BY DEF EntryStates
  <1>2. TargetIffSetting' /\ WaitsForEmbedded'
    BY DEF TargetIffSetting, WaitsForEmbedded, Setting
  <1>3. Saved' /\ ReadLast'
    BY DEF Saved, ReadLast, Chosen, Setting
  <1>4. Counted' /\ OneStarts'
    BY DEF Counted, OneStarts, UpForMembers
  <1>5. UpForMembers' /\ NoUseLeaks'
    BY DEF UpForMembers, NoUseLeaks
  <1> QED BY <1>1, <1>2, <1>3, <1>4, <1>5

(* It is the last only when no entry past its acquire is left. *)
LEMMA ReleaseKeeps ==
  ASSUME IndInv, NEW e \in Entry, Release(e)
  PROVE  IndInv'
  <1> USE DEF IndInv, TypeOK, settingVars, Release, Shared!Leaves, Shared!LastLeaves
  <1>1. TypeOK'
    BY DEF EntryStates
  <1>2. TargetIffSetting' /\ WaitsForEmbedded'
    BY DEF TargetIffSetting, WaitsForEmbedded, Setting
  <1>3. Saved' /\ ReadLast'
    BY DEF Saved, ReadLast, Chosen, Setting
  <1>4. Counted' /\ OneStarts'
    BY DEF Counted, OneStarts, UpForMembers
  <1>5. UpForMembers' /\ NoUseLeaks'
    BY DEF UpForMembers, NoUseLeaks
  <1> QED BY <1>1, <1>2, <1>3, <1>4, <1>5

LEMMA RelaysKeep ==
  ASSUME IndInv, Relays
  PROVE  IndInv'
  <1>1. /\ UNCHANGED <<settingVars, entryVars, members>> /\ alive' \in BOOLEAN /\ external' \in BOOLEAN
        /\ \/ UNCHANGED <<service, running>>
           \/ service = "stopping" /\ service' = "down" /\ running' = Nothing
    BY DEF Relays, EmbeddedComes, EmbeddedEnds, EmbeddedStopped, ExternalComes, ExternalEnds,
       sharedVars,
           Shared!ProcessComes, Shared!ProcessEnds, Shared!Stopped, IndInv, TypeOK
  <1> USE <1>1 DEF IndInv, settingVars, entryVars
  <1>2. TypeOK'
    BY DEF TypeOK
  <1>3. TargetIffSetting' /\ WaitsForEmbedded' /\ Saved' /\ ReadLast'
    BY DEF TargetIffSetting, WaitsForEmbedded, Saved, ReadLast, Chosen
  <1>4. Counted' /\ OneStarts' /\ UpForMembers' /\ NoUseLeaks'
    BY DEF Counted, OneStarts, UpForMembers, NoUseLeaks
  <1> QED BY <1>2, <1>3, <1>4

-----------------------------------------------------------------------------

LEMMA StepKeeps == IndInv /\ [Next]_vars => IndInv'
  <1> SUFFICES ASSUME IndInv, [Next]_vars PROVE IndInv'
    OBVIOUS
  <1>1. CASE Dialogs
    BY <1>1, DialogsKeep
  <1>2. CASE Relays
    BY <1>2, RelaysKeep
  <1>3. ASSUME NEW e \in Entry, SetupSteps(e)
        PROVE  IndInv'
    BY <1>3, SetupKeeps, AcquireJoinsKeeps, AcquireStartsKeeps, AcquireEndsKeeps, AcquireFailsKeeps,
       LoadsKeeps, SetupFailsKeeps DEF SetupSteps
  <1>4. ASSUME NEW e \in Entry, Release(e) \/ Unload(e) \/ Reload(e)
        PROVE  IndInv'
    BY <1>4, ReleaseKeeps, UnloadKeeps, ReloadKeeps
  <1>5. CASE UNCHANGED vars
    <2>1. dialog' \in [of : Entry, typed : Typed] \cup {Closed}
      BY <1>5 DEF vars, settingVars, IndInv, TypeOK
    <2> QED BY <1>5, <2>1, DialogKeeps DEF vars, settingVars
  <1> QED BY <1>1, <1>2, <1>3, <1>4, <1>5 DEF Next

(* The inductive invariant holds in every reachable state. *)
THEOREM Invariance == Spec => []IndInv
  BY InitHolds, StepKeeps, PTL DEF Spec

(* Every variable of __init__.py's setup and of the dialogs keeps its type: in  *)
(* particular nothing but a host or settings of the embedded relay is read.     *)
THEOREM TypeCorrect == Spec => []TypeOK
  <1>1. IndInv => TypeOK
    BY DEF IndInv
  <1> QED BY <1>1, Invariance, PTL

(* _async_relay_endpoint and _relay_target look each key up in options, data or *)
(* both, yet a loaded entry that is owed no reload is connected to what was     *)
(* saved last, and the embedded relay it uses is not going down.                *)
THEOREM LoadedWhereChosen == Spec => []TargetIsChosen
  <1>1. IndInv => TargetIsChosen
    BY DEF IndInv, ReadLast, Counted, UpForMembers, TargetIsChosen, Settled, Setting
  <1> QED BY <1>1, Invariance, PTL

(* async_acquire (294-295) warns everybody whose settings are not those of the  *)
(* relay that runs, however entries come, go and start it anew.                 *)
THEOREM SettingsInForceOrWarned == Spec => []InForceOrWarned
  <1>1. IndInv => InForceOrWarned
    BY DEF IndInv, Counted, InForceOrWarned, Settled
  <1> QED BY <1>1, Invariance, PTL

(* Every use that async_acquire counts is given back by the unload or the       *)
(* failure of the setup (comment 390 of __init__.py).                           *)
THEOREM UsesAreGivenBack == Spec => []NoUseLeaks
  <1>1. IndInv => NoUseLeaks
    BY DEF IndInv
  <1> QED BY <1>1, Invariance, PTL

=============================================================================
