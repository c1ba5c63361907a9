----------------------------- MODULE EmbeddedRelay -----------------------------
(***************************************************************************)
(* The relay that Home Assistant runs as a child process                    *)
(* (embedded_relay.py): config entries acquire and release it by reference  *)
(* count under one asyncio.Lock, a supervisor task per EmbeddedRelay object *)
(* restarts a process that ended, and a listener takes it down when Home    *)
(* Assistant stops, which unloads no entry.                                 *)
(*                                                                         *)
(* The lock's queue is kept in order because the code relies on it: an      *)
(* entry that reloads may queue its acquire behind its own release, which   *)
(* Home Assistant waits for no longer than 10 s.                            *)
(*                                                                         *)
(* Left out: log lines (223-231), the content of the configuration          *)
(* (125-148; a second entry's differing one is only warned about, 294-295), *)
(* and the length of the backoff (60, 243).                                 *)
(***************************************************************************)
EXTENDS Sequences, FiniteSets

CONSTANTS
    Entry,      \* config entries in embedded mode
    Relay,      \* EmbeddedRelay objects; one that is no longer used is used again
    NoRelay

ASSUME NoRelayAssumption == NoRelay \notin Relay

VARIABLES
    ha,        \* "running", "stopping" once the STOP event has fired, "exited"
    foreign,   \* another program holds one of the relay's ports
    entry,     \* config entries: "out", "setup" (in async_acquire) or "loaded"
    shared,    \* shared["relay"]
    users,     \* shared["users"]
    queue,     \* async_acquire and async_release calls at shared["lock"]; the first holds it
    step,      \* where the holder is, see StepTypes
    mine,      \* the relay that the holder is starting or stopping
    onstop,    \* the relay that the STOP listener is stopping
    busy,      \* ghost: an entry was being set up when Home Assistant was stopped
    proc,      \* the process of a relay: "none", "bound", or "unbound" without its ports
    told,      \* relays whose process has been sent SIGTERM
    sup,       \* where the supervisor of a relay is, see SupTypes
    stopping   \* relays whose _stopping is set

haVars == <<ha, onstop, busy>>
entryVars == <<entry, users>>
lockVars == <<queue, step, mine>>
procVars == <<proc, told>>
supVars == <<sup, stopping>>
vars == <<ha, foreign, entry, shared, users, queue, step, mine, onstop, busy,
          proc, told, sup, stopping>>

(* "prepare": start up to the spawn; "exec": in create_subprocess_exec;       *)
(* "grace": reading stderr for 2 s; "cleanup": start has failed, _terminate;  *)
(* "stop": in relay.stop.                                                     *)
StepTypes == {"enter", "prepare", "exec", "grace", "cleanup", "stop"}
SupTypes == {"none", "reading", "backoff", "exec", "grace"}

-----------------------------------------------------------------------------
(* Processes.                                                               *)

Alive(r) == proc[r] # "none"

CanBind(r) == ~foreign /\ \A s \in Relay \ {r} : proc[s] # "bound"

(* A process comes up.  Without its ports it exits at once (relay 0.1.6) or   *)
(* stays, having said FAIL (0.1.5); or it cannot be executed at all.          *)
Spawn(r) ==
    /\ proc' = [proc EXCEPT ![r] = IF CanBind(r) THEN "bound" ELSE "unbound"]
       \/ proc' = [proc EXCEPT ![r] = "none"]
    /\ told' = told \ {r}

(* _terminate, up to its wait: only a process that is still alive is told.    *)
Terminate(r) == told' = IF Alive(r) THEN told \cup {r} ELSE told

(* A process ends by itself, after SIGTERM, or killed 5 s after that. *)
Ends(r) ==
    /\ Alive(r)
    /\ proc' = [proc EXCEPT ![r] = "none"]
    /\ told' = told \ {r}
    /\ UNCHANGED <<haVars, foreign, entryVars, shared, lockVars, supVars>>

Obeys(r) == r \in told /\ Ends(r)

(* Some other program takes or frees a port. *)
PortsTaken ==
    /\ foreign' = ~foreign
    /\ foreign' => \A r \in Relay : proc[r] # "bound"
    /\ UNCHANGED <<haVars, entryVars, shared, lockVars, procVars, supVars>>

-----------------------------------------------------------------------------
(* relay.stop.  With a process to wait for it takes two steps; otherwise, and *)
(* above all when the supervisor is about to have a new one (exec), the       *)
(* supervisor is cancelled at once, and asyncio kills what exec was creating. *)

StopBegins(r) ==
    /\ stopping' = stopping \cup {r}
    /\ Terminate(r)
    /\ sup' = IF Alive(r) THEN sup ELSE [sup EXCEPT ![r] = "none"]

(* The process has ended; the supervisor is cancelled. *)
StopEnds(r) ==
    /\ ~Alive(r)
    /\ sup' = [sup EXCEPT ![r] = "none"]
    /\ stopping' = stopping \ {r}
    /\ UNCHANGED told

-----------------------------------------------------------------------------
(* Config entries.                                                          *)

Setup(e) ==
    /\ ha = "running" /\ entry[e] = "out"
    /\ entry' = [entry EXCEPT ![e] = "setup"]
    /\ queue' = Append(queue, <<"acquire", e>>)
    /\ UNCHANGED <<haVars, foreign, users, shared, step, mine, procVars, supVars>>

(* Unloading, or a setup that fails after it has acquired the relay: on_unload *)
(* is called in both cases.                                                    *)
Unload(e) ==
    /\ ha # "exited" /\ entry[e] = "loaded"
    /\ entry' = [entry EXCEPT ![e] = "out"]
    /\ queue' = Append(queue, <<"release", e>>)
    /\ UNCHANGED <<haVars, foreign, users, shared, step, mine, procVars, supVars>>

-----------------------------------------------------------------------------
(* async_acquire, by the holder of the lock.                                *)

At(kind, e, s) == queue # <<>> /\ Head(queue) = <<kind, e>> /\ step = s

(* The holder returns or raises. *)
Leave == queue' = Tail(queue) /\ step' = "enter" /\ mine' = NoRelay

Unused(r) ==
    /\ r \notin {shared, mine, onstop}
    /\ ~Alive(r) /\ sup[r] = "none" /\ r \notin stopping

AcquireShared(e) ==
    /\ At("acquire", e, "enter") /\ shared # NoRelay
    /\ Leave
    /\ users' = users \cup {e}
    /\ entry' = [entry EXCEPT ![e] = "loaded"]
    /\ UNCHANGED <<haVars, foreign, shared, procVars, supVars>>

AcquireStarts(e) ==
    /\ At("acquire", e, "enter") /\ shared = NoRelay
    /\ \E r \in Relay : Unused(r) /\ mine' = r
    /\ step' = "prepare"
    /\ UNCHANGED <<haVars, foreign, entryVars, shared, queue, procVars, supVars>>

(* Certificate files, the relay's package, directories, a free observer port. *)
PrepareEnds(e) ==
    /\ At("acquire", e, "prepare")
    /\ step' = "exec"
    /\ UNCHANGED <<haVars, foreign, entryVars, shared, queue, mine, procVars, supVars>>

PrepareFails(e) ==
    /\ At("acquire", e, "prepare")
    /\ Leave
    /\ entry' = [entry EXCEPT ![e] = "out"]
    /\ UNCHANGED <<haVars, foreign, users, shared, procVars, supVars>>

Spawns(e) ==
    /\ At("acquire", e, "exec")
    /\ Spawn(mine)
    /\ step' = "grace"
    /\ UNCHANGED <<haVars, foreign, entryVars, shared, queue, mine, supVars>>

(* Two seconds without a FAIL: the supervisor starts, the relay is stored, and *)
(* the listener for the STOP event is in place.                                *)
GraceEnds(e) ==
    /\ At("acquire", e, "grace") /\ proc[mine] = "bound"
    /\ Leave
    /\ shared' = mine
    /\ sup' = [sup EXCEPT ![mine] = "reading"]
    /\ users' = users \cup {e}
    /\ entry' = [entry EXCEPT ![e] = "loaded"]
    /\ UNCHANGED <<haVars, foreign, procVars, stopping>>

(* Mutant: a relay that failed to start is not taken down. *)
BugGraceFails(e) ==
    /\ At("acquire", e, "grace") /\ proc[mine] # "bound"
    /\ Leave
    /\ entry' = [entry EXCEPT ![e] = "out"]
    /\ UNCHANGED <<haVars, foreign, users, shared, procVars, supVars>>

(* Mutant: waited for without being told to end. *)
BugGraceFailsWaits(e) ==
    /\ At("acquire", e, "grace") /\ proc[mine] # "bound"
    /\ step' = "cleanup"
    /\ UNCHANGED <<haVars, foreign, entryVars, shared, queue, mine, procVars, supVars>>

(* A FAIL line or an early end: start takes down what is left and raises. *)
GraceFails(e) ==
    /\ At("acquire", e, "grace") /\ proc[mine] # "bound"
    /\ Terminate(mine)
    /\ step' = "cleanup"
    /\ UNCHANGED <<haVars, foreign, entryVars, shared, queue, mine, proc, supVars>>

AcquireFails(e) ==
    /\ At("acquire", e, "cleanup") /\ ~Alive(mine)
    /\ Leave
    /\ entry' = [entry EXCEPT ![e] = "out"]
    /\ UNCHANGED <<haVars, foreign, users, shared, procVars, supVars>>

-----------------------------------------------------------------------------
(* async_release, by the holder of the lock.                                *)

(* Others use the relay, or the STOP listener has taken it. *)
ReleaseOnly(e) ==
    /\ At("release", e, "enter")
    /\ shared = NoRelay \/ users \ {e} # {}
    /\ Leave
    /\ users' = users \ {e}
    /\ UNCHANGED <<haVars, foreign, entry, shared, procVars, supVars>>

(* Mutant: the relay is stopped whoever uses it. *)
BugReleaseStops(e) ==
    /\ At("release", e, "enter") /\ shared # NoRelay
    /\ users' = users \ {e}
    /\ shared' = NoRelay /\ mine' = shared
    /\ step' = "stop"
    /\ StopBegins(shared)
    /\ UNCHANGED <<haVars, foreign, entry, queue, proc>>

(* The last user: the listener is removed with shared["relay"]. *)
ReleaseStops(e) ==
    /\ At("release", e, "enter")
    /\ shared # NoRelay /\ users \ {e} = {}
    /\ users' = users \ {e}
    /\ shared' = NoRelay /\ mine' = shared
    /\ step' = "stop"
    /\ StopBegins(shared)
    /\ UNCHANGED <<haVars, foreign, entry, queue, proc>>

(* Mutant: the lock is given up before the process has ended. *)
BugReleaseEnds(e) ==
    /\ At("release", e, "stop")
    /\ Leave
    /\ UNCHANGED <<haVars, foreign, entryVars, shared, procVars, supVars>>

ReleaseEnds(e) ==
    /\ At("release", e, "stop")
    /\ StopEnds(mine)
    /\ Leave
    /\ UNCHANGED <<haVars, foreign, entryVars, shared, proc>>

-----------------------------------------------------------------------------
(* The supervisor.                                                          *)

(* Mutant: a failed restart is taken for a start. *)
BugSupGraceOver(r) ==
    /\ sup[r] = "grace"
    /\ sup' = [sup EXCEPT ![r] = "reading"]
    /\ UNCHANGED <<haVars, foreign, entryVars, shared, lockVars, procVars, stopping>>

(* Back to reading, after _terminate if the restart has failed. *)
SupGraceOver(r) ==
    /\ sup[r] = "grace"
    /\ IF proc[r] = "bound" THEN UNCHANGED told ELSE Terminate(r)
    /\ sup' = [sup EXCEPT ![r] = "reading"]
    /\ UNCHANGED <<haVars, foreign, entryVars, shared, lockVars, proc, stopping>>

(* stderr is at its end and the process has been waited for. *)
SupSeesEnd(r) ==
    /\ sup[r] = "reading" /\ ~Alive(r)
    /\ sup' = [sup EXCEPT ![r] = IF r \in stopping THEN "none" ELSE "backoff"]
    /\ UNCHANGED <<haVars, foreign, entryVars, shared, lockVars, procVars, stopping>>

SupWakes(r) ==
    /\ sup[r] = "backoff"
    /\ sup' = [sup EXCEPT ![r] = IF r \in stopping THEN "none" ELSE "exec"]
    /\ UNCHANGED <<haVars, foreign, entryVars, shared, lockVars, procVars, stopping>>

SupSpawns(r) ==
    /\ sup[r] = "exec"
    /\ Spawn(r)
    /\ sup' = [sup EXCEPT ![r] = "grace"]
    /\ UNCHANGED <<haVars, foreign, entryVars, shared, lockVars, stopping>>

Supervise(r) == SupSeesEnd(r) \/ SupWakes(r) \/ SupSpawns(r) \/ SupGraceOver(r)

-----------------------------------------------------------------------------
(* Home Assistant stops.  It first cancels its background tasks, supervisors  *)
(* among them, and fires the STOP event, for which there is a listener when a *)
(* relay is stored (_on_stop).  It runs at once, up to its wait, without      *)
(* shared["lock"].                                                            *)

(* Mutant: no listener. *)
BugHaStops ==
    /\ ha = "running"
    /\ ha' = "stopping"
    /\ busy' = \E e \in Entry : entry[e] = "setup"
    /\ sup' = [r \in Relay |-> "none"]
    /\ UNCHANGED <<foreign, entryVars, shared, lockVars, onstop, procVars, stopping>>

HaStops ==
    /\ ha = "running"
    /\ ha' = "stopping"
    /\ busy' = \E e \in Entry : entry[e] = "setup"
    /\ onstop' = shared /\ shared' = NoRelay
    /\ users' = IF shared = NoRelay THEN users ELSE {}
    /\ sup' = [r \in Relay |-> "none"]
    /\ IF shared = NoRelay
       THEN UNCHANGED <<told, stopping>>
       ELSE Terminate(shared) /\ stopping' = stopping \cup {shared}
    /\ UNCHANGED <<foreign, entry, lockVars, proc>>

OnStopEnds ==
    /\ onstop # NoRelay
    /\ StopEnds(onstop)
    /\ onstop' = NoRelay
    /\ UNCHANGED <<ha, busy, foreign, entryVars, shared, lockVars, proc>>

(* What is still running is cancelled, a supervisor begun after the STOP event *)
(* too.  start, cancelled, tells its process to end (167-172).                 *)
(* Mutant: told although it may be none. *)
BugHaExits ==
    /\ ha = "stopping" /\ onstop = NoRelay
    /\ ha' = "exited"
    /\ queue' = <<>> /\ step' = "enter" /\ mine' = NoRelay
    /\ entry' = [e \in Entry |-> "out"]
    /\ sup' = [r \in Relay |-> "none"]
    /\ told' = told \cup {mine}
    /\ UNCHANGED <<foreign, users, shared, onstop, busy, proc, stopping>>

HaExits ==
    /\ ha = "stopping" /\ onstop = NoRelay
    /\ ha' = "exited"
    /\ queue' = <<>> /\ step' = "enter" /\ mine' = NoRelay
    /\ entry' = [e \in Entry |-> "out"]
    /\ sup' = [r \in Relay |-> "none"]
    /\ IF mine = NoRelay THEN UNCHANGED told ELSE Terminate(mine)
    /\ UNCHANGED <<foreign, users, shared, onstop, busy, proc, stopping>>

-----------------------------------------------------------------------------

Init ==
    /\ ha = "running" /\ foreign \in BOOLEAN
    /\ entry = [e \in Entry |-> "out"]
    /\ shared = NoRelay /\ users = {}
    /\ queue = <<>> /\ step = "enter" /\ mine = NoRelay /\ onstop = NoRelay /\ busy = FALSE
    /\ proc = [r \in Relay |-> "none"]
    /\ told = {}
    /\ sup = [r \in Relay |-> "none"]
    /\ stopping = {}

Acquire(e) ==
    \/ AcquireShared(e) \/ AcquireStarts(e) \/ PrepareEnds(e) \/ PrepareFails(e)
    \/ Spawns(e) \/ GraceEnds(e) \/ GraceFails(e) \/ AcquireFails(e)

Release(e) == ReleaseOnly(e) \/ ReleaseStops(e) \/ ReleaseEnds(e)

Next ==
    \/ \E e \in Entry : Setup(e) \/ Unload(e) \/ Acquire(e) \/ Release(e)
    \/ \E r \in Relay : Ends(r) \/ Supervise(r)
    \/ PortsTaken
    \/ HaStops \/ OnStopEnds \/ HaExits

(* Every wait in the code ends: requests for the package fail or succeed,      *)
(* the grace time and the backoff pass, and a process told to end is killed    *)
(* after 5 s.  Nothing has to be set up, unloaded, crash or be stopped.        *)
Fairness ==
    /\ \A e \in Entry : WF_vars(Acquire(e)) /\ WF_vars(Release(e))
    /\ \A r \in Relay : WF_vars(Supervise(r)) /\ WF_vars(Obeys(r))
    /\ WF_vars(OnStopEnds)

Spec == Init /\ [][Next]_vars /\ Fairness

-----------------------------------------------------------------------------
(* Properties.                                                              *)

(* Every variable has its type. *)
TypeOK ==
    /\ ha \in {"running", "stopping", "exited"} /\ foreign \in BOOLEAN /\ busy \in BOOLEAN
    /\ entry \in [Entry -> {"out", "setup", "loaded"}]
    /\ {shared, mine, onstop} \subseteq Relay \cup {NoRelay}
    /\ users \subseteq Entry
    /\ queue \in Seq({"acquire", "release"} \X Entry)
    /\ step \in StepTypes
    /\ proc \in [Relay -> {"none", "bound", "unbound"}]
    /\ told \subseteq Relay /\ stopping \subseteq Relay
    /\ sup \in [Relay -> SupTypes]

(* While Home Assistant runs, at most one relay process exists: a new relay    *)
(* starts only when the one before is gone with its ports, and no supervisor   *)
(* brings a stopped one back (241-247, 266-272).                               *)
OneProcess ==
    ha = "running" => \A r, s \in Relay : Alive(r) /\ Alive(s) => r = s

(* A loaded entry is a user of a relay that is not being stopped, however its  *)
(* release and its next acquire, or those of other entries, are queued.        *)
LoadedIsServed ==
    ha = "running" =>
        \A e \in Entry : entry[e] = "loaded"
            => e \in users /\ shared # NoRelay /\ shared \notin stopping

(* A process that nobody uses is on its way out: a process or a supervisor      *)
(* belongs to the stored relay, to the one that the holder of the lock starts   *)
(* or stops, or to the one the STOP listener stops, and with no entry left the  *)
(* stored relay has a release queued for it.                                    *)
NothingLeftBehind ==
    ha # "exited" =>
        /\ \A r \in Relay : Alive(r) \/ sup[r] # "none" => r \in {shared, mine, onstop}
        /\ shared # NoRelay => \E e \in Entry : \/ entry[e] = "loaded"
                                                \/ \E i \in DOMAIN queue : queue[i] = <<"release", e>>

(* A process that lives has been told to end. *)
AllToldToEnd == \A r \in Relay : Alive(r) => r \in told

(* When Home Assistant is stopped with no setup under way, nothing outlives it: *)
(* not the stored relay, which the STOP listener takes down, nor one that a     *)
(* release is stopping, an earlier failure has left, or a restart was about to  *)
(* bring up (284-292, 167-172).                                                 *)
NoneSurvives == ha = "exited" /\ ~busy => AllToldToEnd

(* The state of SharedRelay: what the holder of the lock is doing, or has done. *)
Shared == INSTANCE SharedRelay WITH
    service <- IF ha # "running" THEN "over" ELSE IF shared # NoRelay THEN "up"
               ELSE IF mine = NoRelay THEN "down"
               ELSE IF step = "stop" THEN "stopping" ELSE "starting",
    members <- IF ha = "running" THEN users ELSE {},
    alive <- ha = "running" /\ \E r \in Relay : Alive(r)

(* Until Home Assistant stops, the entries share one service that is started by *)
(* the first, stopped by the last and gone before the next start, though        *)
(* acquires and releases queue up, starts fail, processes end and come back     *)
(* and a stop meets the supervisor (comment 9-11, 276-313).                     *)
IsShared == Shared!SharedSpec

(* A stored relay whose process has ended, or runs without its ports, is        *)
(* started again, as often as that takes (239-253).                             *)
Restarts ==
    \A r \in Relay : shared = r /\ proc[r] # "bound"
                        ~> sup[r] = "exec" \/ shared # r \/ ha = "exited"

(* An entry's setup gets its answer: nothing keeps shared["lock"] for good. *)
AcquireAnswers == \A e \in Entry : entry[e] = "setup" ~> entry[e] # "setup"

=============================================================================
