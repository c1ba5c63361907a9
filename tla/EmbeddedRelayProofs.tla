-------------------------- MODULE EmbeddedRelayProofs --------------------------
(* The properties of EmbeddedRelay for any number of config entries and relay  *)
(* objects, and that it implements SharedRelay.  All of them follow from one   *)
(* inductive invariant, which says who may be where while someone else waits.  *)
EXTENDS EmbeddedRelay, Integers, TLAPS

StartSteps == {"prepare", "exec", "grace", "cleanup"}

(* An entry that waits to acquire is being set up and has nothing behind that  *)
(* call, so that no release overtakes it; a loaded entry has nothing queued.   *)
QueueOK ==
    /\ \A i \in DOMAIN queue : queue[i][1] = "acquire" => entry[queue[i][2]] = "setup"
    /\ \A i, j \in DOMAIN queue : i < j /\ queue[i][1] = "acquire" => queue[i][2] # queue[j][2]
    /\ \A i \in DOMAIN queue : entry[queue[i][2]] # "loaded"

(* A relay is started or stopped only by the holder of the lock, while no other *)
(* is stored; one that is started has no supervisor yet.                        *)
HolderOK ==
    /\ mine = NoRelay <=> step = "enter"
    /\ mine # NoRelay => queue # <<>> /\ shared = NoRelay /\ mine # onstop
    /\ step \in StartSteps => Head(queue)[1] = "acquire" /\ sup[mine] = "none"
    /\ step \in {"prepare", "exec"} => ~Alive(mine)
    /\ step = "stop" => Head(queue)[1] = "release" /\ mine \in stopping

(* A relay that is being stopped has been told to end and is waited for, no     *)
(* supervisor is about to bring it back, and every process has its owner.       *)
RelayOK ==
    /\ \A r \in stopping : Alive(r) => r \in told
    /\ \A r \in Relay : sup[r] \in {"backoff", "exec"} => ~Alive(r) /\ r \notin stopping
    /\ ha # "exited" => \A r \in stopping : r = onstop \/ (r = mine /\ step = "stop")
    /\ ha # "exited" => \A r \in Relay : Alive(r) \/ sup[r] # "none" => r \in {shared, mine, onstop}

(* What the STOP listener leaves: unless a setup was under way nothing can be   *)
(* stored after it, and what lives at the end has been told to end.             *)
HaOK ==
    /\ onstop # NoRelay => ha = "stopping" /\ onstop \in stopping /\ onstop # shared
    /\ ha = "exited" => queue = <<>> /\ \A r \in Relay : sup[r] = "none"
    /\ ha # "running" /\ ~busy =>
           /\ shared = NoRelay /\ \A e \in Entry : entry[e] # "setup"
           /\ ha = "exited" => \A r \in Relay : Alive(r) => r \in told

Queued(c) == \E i \in DOMAIN queue : queue[i] = c

(* There is a relay exactly while it has users, and each user is loaded or has  *)
(* its release queued.                                                          *)
UsersOK ==
    /\ ha = "running" => \A e \in Entry : entry[e] = "loaded" => e \in users /\ shared # NoRelay
    /\ ha # "exited" /\ shared = NoRelay => users = {}
    /\ ha # "exited" /\ shared # NoRelay => users # {}
    /\ ha # "exited" => \A e \in users : entry[e] = "loaded" \/ Queued(<<"release", e>>)

IndInv == TypeOK /\ QueueOK /\ HolderOK /\ RelayOK /\ HaOK /\ UsersOK

LEMMA Consequences == IndInv => OneProcess /\ LoadedIsServed /\ NothingLeftBehind /\ NoneSurvives
  <1> SUFFICES ASSUME IndInv PROVE OneProcess /\ LoadedIsServed /\ NothingLeftBehind /\ NoneSurvives
    OBVIOUS
  <1>1. OneProcess
    BY NoRelayAssumption DEF IndInv, OneProcess, RelayOK, HolderOK, HaOK, TypeOK
  <1>2. LoadedIsServed
    BY DEF IndInv, LoadedIsServed, RelayOK, UsersOK, HolderOK, HaOK, TypeOK
  <1>3. NothingLeftBehind
    BY DEF IndInv, NothingLeftBehind, RelayOK, UsersOK, TypeOK, Queued
  <1>4. NoneSurvives
    BY DEF IndInv, NoneSurvives, AllToldToEnd, HaOK
  <1> QED BY <1>1, <1>2, <1>3, <1>4

LEMMA InitHolds == Init => IndInv
  <1> SUFFICES ASSUME Init PROVE IndInv
    OBVIOUS
  <1>1. TypeOK
    <2>1. queue \in Seq({"acquire", "release"} \X Entry)
      BY DEF Init
    <2> QED BY <2>1 DEF Init, TypeOK, StepTypes, SupTypes
  <1>2. DOMAIN queue = {}
    BY DEF Init
  <1>3. QueueOK /\ UsersOK
    BY <1>2 DEF Init, QueueOK, UsersOK
  <1>4. HolderOK /\ RelayOK /\ HaOK
    BY DEF Init, HolderOK, RelayOK, HaOK, StartSteps, Alive
  <1> QED BY <1>1, <1>3, <1>4 DEF IndInv

-----------------------------------------------------------------------------
(* What appending to the queue and leaving it do to its members. *)

LEMMA QueueParts ==
  ASSUME TypeOK
  PROVE  /\ DOMAIN queue = 1 .. Len(queue) /\ Len(queue) \in Nat
         /\ \A i \in DOMAIN queue : queue[i] \in {"acquire", "release"} \X Entry
         /\ queue # <<>> => /\ 1 \in DOMAIN queue /\ Head(queue) = queue[1]
                            /\ Tail(queue) \in Seq({"acquire", "release"} \X Entry)
                            /\ \A i \in DOMAIN Tail(queue) : i + 1 \in DOMAIN queue /\ Tail(queue)[i] = queue[i + 1]
                            /\ \A i \in DOMAIN queue \ {1} : i - 1 \in DOMAIN Tail(queue) /\ Tail(queue)[i - 1] = queue[i]
  BY DEF TypeOK

LEMMA AppendParts ==
  ASSUME TypeOK, NEW c \in {"acquire", "release"} \X Entry
  PROVE  /\ Append(queue, c) \in Seq({"acquire", "release"} \X Entry)
         /\ DOMAIN Append(queue, c) = DOMAIN queue \cup {Len(queue) + 1}
         /\ \A i \in DOMAIN queue : Append(queue, c)[i] = queue[i] /\ i < Len(queue) + 1
         /\ Append(queue, c)[Len(queue) + 1] = c
         /\ queue # <<>> => Head(Append(queue, c)) = Head(queue)
         /\ Append(queue, c) # <<>>
  <1> DEFINE S == {"acquire", "release"} \X Entry
             q == Append(queue, c)
  <1>1. queue \in Seq(S) /\ q \in Seq(S) /\ Len(q) = Len(queue) + 1 /\ Len(queue) \in Nat
    BY DEF TypeOK
  <1>2. /\ \A i \in 1 .. Len(queue) : q[i] = queue[i]
        /\ q[Len(queue) + 1] = c
    BY DEF TypeOK
  <1>3. DOMAIN queue = 1 .. Len(queue) /\ DOMAIN q = 1 .. Len(q)
    BY <1>1
  <1>4. DOMAIN q = DOMAIN queue \cup {Len(queue) + 1}
    BY <1>1, <1>3
  <1>5. queue # <<>> => Head(q) = Head(queue)
    BY <1>1, <1>2
  <1>6. q # <<>>
    BY <1>1
  <1> QED BY <1>1, <1>2, <1>3, <1>4, <1>5, <1>6

LEMMA TailQueued ==
  ASSUME TypeOK, queue # <<>>, queue' = Tail(queue), NEW c, c # Head(queue), Queued(c)
  PROVE  Queued(c)'
  BY QueueParts DEF Queued

LEMMA AppendQueued ==
  ASSUME TypeOK, NEW d \in {"acquire", "release"} \X Entry, queue' = Append(queue, d)
  PROVE  /\ Queued(d)'
         /\ \A c : Queued(c) => Queued(c)'
  BY AppendParts DEF Queued

-----------------------------------------------------------------------------
(* One lemma per action, with one step per part of the invariant. *)

LEMMA SetupKeeps ==
  ASSUME IndInv, NEW e \in Entry, Setup(e)
  PROVE  IndInv'
  <1> USE NoRelayAssumption DEF IndInv, TypeOK, Setup,
          haVars, entryVars, lockVars, procVars, supVars
  <1>1. TypeOK'
    BY QueueParts, AppendParts DEF StepTypes, SupTypes, HolderOK
  <1>2. QueueOK'
    BY QueueParts, AppendParts DEF QueueOK
  <1>3. HolderOK'
    BY QueueParts, AppendParts DEF HolderOK, HaOK, RelayOK, StartSteps, Alive
  <1>4. RelayOK'
    BY QueueParts, AppendParts DEF RelayOK, HolderOK, HaOK, StartSteps, Alive
  <1>5. HaOK'
    BY QueueParts, AppendParts DEF HaOK, RelayOK, HolderOK, QueueOK, StartSteps, Alive
  <1>6. UsersOK'
    BY QueueParts, AppendQueued DEF UsersOK, HolderOK, HaOK, QueueOK, StartSteps
  <1> QED BY <1>1, <1>2, <1>3, <1>4, <1>5, <1>6

LEMMA UnloadKeeps ==
  ASSUME IndInv, NEW e \in Entry, Unload(e)
  PROVE  IndInv'
  <1> USE NoRelayAssumption DEF IndInv, TypeOK, Unload,
          haVars, entryVars, lockVars, procVars, supVars
  <1>1. TypeOK'
    BY QueueParts, AppendParts DEF StepTypes, SupTypes, HolderOK
  <1>2. QueueOK'
    BY QueueParts, AppendParts DEF QueueOK
  <1>3. HolderOK'
    BY QueueParts, AppendParts DEF HolderOK, HaOK, RelayOK, StartSteps, Alive
  <1>4. RelayOK'
    BY QueueParts, AppendParts DEF RelayOK, HolderOK, HaOK, StartSteps, Alive
  <1>5. HaOK'
    BY QueueParts, AppendParts DEF HaOK, RelayOK, HolderOK, QueueOK, StartSteps, Alive
  <1>6. UsersOK'
    BY QueueParts, AppendQueued DEF UsersOK, HolderOK, HaOK, QueueOK, StartSteps
  <1> QED BY <1>1, <1>2, <1>3, <1>4, <1>5, <1>6

LEMMA AcquireSharedKeeps ==
  ASSUME IndInv, NEW e \in Entry, AcquireShared(e)
  PROVE  IndInv'
  <1> USE NoRelayAssumption DEF IndInv, TypeOK, AcquireShared, At, Leave,
          haVars, entryVars, lockVars, procVars, supVars
  <1>1. TypeOK'
    BY QueueParts DEF StepTypes, SupTypes, HolderOK
  <1>2. QueueOK'
    BY QueueParts DEF QueueOK
  <1>3. HolderOK'
    BY QueueParts DEF HolderOK, HaOK, RelayOK, StartSteps, Alive
  <1>4. RelayOK'
    BY QueueParts DEF RelayOK, HolderOK, HaOK, StartSteps, Alive
  <1>5. HaOK'
    BY QueueParts DEF HaOK, RelayOK, HolderOK, QueueOK, StartSteps, Alive
  <1>6. UsersOK'
    BY QueueParts, TailQueued DEF UsersOK, HolderOK, HaOK, QueueOK, StartSteps
  <1> QED BY <1>1, <1>2, <1>3, <1>4, <1>5, <1>6

LEMMA PrepareFailsKeeps ==
  ASSUME IndInv, NEW e \in Entry, PrepareFails(e)
  PROVE  IndInv'
  <1> USE NoRelayAssumption DEF IndInv, TypeOK, PrepareFails, At, Leave,
          haVars, entryVars, lockVars, procVars, supVars
  <1>1. TypeOK'
    BY QueueParts DEF StepTypes, SupTypes, HolderOK
  <1>2. QueueOK'
    BY QueueParts DEF QueueOK
  <1>3. HolderOK'
    BY QueueParts DEF HolderOK, HaOK, RelayOK, StartSteps, Alive
  <1>4. RelayOK'
    BY QueueParts DEF RelayOK, HolderOK, HaOK, StartSteps, Alive
  <1>5. HaOK'
    BY QueueParts DEF HaOK, RelayOK, HolderOK, QueueOK, StartSteps, Alive
  <1>6. UsersOK'
    BY QueueParts, TailQueued DEF UsersOK, HolderOK, HaOK, QueueOK, StartSteps
  <1> QED BY <1>1, <1>2, <1>3, <1>4, <1>5, <1>6

LEMMA GraceEndsKeeps ==
  ASSUME IndInv, NEW e \in Entry, GraceEnds(e)
  PROVE  IndInv'
  <1> USE NoRelayAssumption DEF IndInv, TypeOK, GraceEnds, At, Leave,
          haVars, entryVars, lockVars, procVars, supVars
  <1>1. TypeOK'
    BY QueueParts DEF StepTypes, SupTypes, HolderOK
  <1>2. QueueOK'
    BY QueueParts DEF QueueOK
  <1>3. HolderOK'
    BY QueueParts DEF HolderOK, HaOK, RelayOK, StartSteps, Alive
  <1>4. RelayOK'
    BY QueueParts DEF RelayOK, HolderOK, HaOK, StartSteps, Alive
  <1>5. HaOK'
    BY QueueParts DEF HaOK, RelayOK, HolderOK, QueueOK, StartSteps, Alive
  <1>6. UsersOK'
    BY QueueParts, TailQueued DEF UsersOK, HolderOK, HaOK, QueueOK, StartSteps
  <1> QED BY <1>1, <1>2, <1>3, <1>4, <1>5, <1>6

LEMMA AcquireFailsKeeps ==
  ASSUME IndInv, NEW e \in Entry, AcquireFails(e)
  PROVE  IndInv'
  <1> USE NoRelayAssumption DEF IndInv, TypeOK, AcquireFails, At, Leave,
          haVars, entryVars, lockVars, procVars, supVars
  <1>1. TypeOK'
    BY QueueParts DEF StepTypes, SupTypes, HolderOK
  <1>2. QueueOK'
    BY QueueParts DEF QueueOK
  <1>3. HolderOK'
    BY QueueParts DEF HolderOK, HaOK, RelayOK, StartSteps, Alive
  <1>4. RelayOK'
    BY QueueParts DEF RelayOK, HolderOK, HaOK, StartSteps, Alive
  <1>5. HaOK'
    BY QueueParts DEF HaOK, RelayOK, HolderOK, QueueOK, StartSteps, Alive
  <1>6. UsersOK'
    BY QueueParts, TailQueued DEF UsersOK, HolderOK, HaOK, QueueOK, StartSteps
  <1> QED BY <1>1, <1>2, <1>3, <1>4, <1>5, <1>6

LEMMA ReleaseOnlyKeeps ==
  ASSUME IndInv, NEW e \in Entry, ReleaseOnly(e)
  PROVE  IndInv'
  <1> USE NoRelayAssumption DEF IndInv, TypeOK, ReleaseOnly, At, Leave,
          haVars, entryVars, lockVars, procVars, supVars
  <1>1. TypeOK'
    BY QueueParts DEF StepTypes, SupTypes, HolderOK
  <1>2. QueueOK'
    BY QueueParts DEF QueueOK
  <1>3. HolderOK'
    BY QueueParts DEF HolderOK, HaOK, RelayOK, StartSteps, Alive
  <1>4. RelayOK'
    BY QueueParts DEF RelayOK, HolderOK, HaOK, StartSteps, Alive
  <1>5. HaOK'
    BY QueueParts DEF HaOK, RelayOK, HolderOK, QueueOK, StartSteps, Alive
  <1>6. UsersOK'
    BY QueueParts, TailQueued DEF UsersOK, HolderOK, HaOK, QueueOK, StartSteps
  <1> QED BY <1>1, <1>2, <1>3, <1>4, <1>5, <1>6

LEMMA ReleaseEndsKeeps ==
  ASSUME IndInv, NEW e \in Entry, ReleaseEnds(e)
  PROVE  IndInv'
  <1> USE NoRelayAssumption DEF IndInv, TypeOK, ReleaseEnds, At, Leave, StopEnds,
          haVars, entryVars, lockVars, procVars, supVars
  <1>1. TypeOK'
    BY QueueParts DEF StepTypes, SupTypes, HolderOK
  <1>2. QueueOK'
    BY QueueParts DEF QueueOK
  <1>3. HolderOK'
    BY QueueParts DEF HolderOK, HaOK, RelayOK, StartSteps, Alive
  <1>4. RelayOK'
    <2>1. mine \in Relay /\ ~Alive(mine) /\ mine # onstop /\ sup'[mine] = "none" /\ mine' = NoRelay
      BY DEF HolderOK
    <2>2. UNCHANGED <<ha, shared, onstop, proc, told>> /\ stopping' = stopping \ {mine}
      OBVIOUS
    <2>3. \A r \in Relay \ {mine} : sup'[r] = sup[r]
      OBVIOUS
    <2> QED BY <2>1, <2>2, <2>3 DEF RelayOK, Alive
  <1>5. HaOK'
    BY QueueParts DEF HaOK, RelayOK, HolderOK, QueueOK, StartSteps, Alive
  <1>6. UsersOK'
    BY QueueParts, TailQueued DEF UsersOK, HolderOK, HaOK, QueueOK, StartSteps
  <1> QED BY <1>1, <1>2, <1>3, <1>4, <1>5, <1>6

LEMMA AcquireStartsKeeps ==
  ASSUME IndInv, NEW e \in Entry, AcquireStarts(e)
  PROVE  IndInv'
  <1> USE NoRelayAssumption DEF IndInv, TypeOK, AcquireStarts, At, Unused,
          haVars, entryVars, lockVars, procVars, supVars
  <1>1. TypeOK'
    BY DEF StepTypes, SupTypes, HolderOK
  <1>2. QueueOK'
    BY DEF QueueOK
  <1>3. HolderOK'
    BY DEF HolderOK, HaOK, RelayOK, StartSteps, Alive
  <1>4. RelayOK'
    BY DEF RelayOK, HolderOK, HaOK, StartSteps, Alive
  <1>5. HaOK'
    BY DEF HaOK, RelayOK, HolderOK, QueueOK, StartSteps, Alive
  <1>6. UsersOK'
    BY DEF UsersOK, HolderOK, HaOK, QueueOK, StartSteps, Queued
  <1> QED BY <1>1, <1>2, <1>3, <1>4, <1>5, <1>6

LEMMA PrepareEndsKeeps ==
  ASSUME IndInv, NEW e \in Entry, PrepareEnds(e)
  PROVE  IndInv'
  <1> USE NoRelayAssumption DEF IndInv, TypeOK, PrepareEnds, At,
          haVars, entryVars, lockVars, procVars, supVars
  <1>1. TypeOK'
    BY DEF StepTypes, SupTypes, HolderOK
  <1>2. QueueOK'
    BY DEF QueueOK
  <1>3. HolderOK'
    BY DEF HolderOK, HaOK, RelayOK, StartSteps, Alive
  <1>4. RelayOK'
    BY DEF RelayOK, HolderOK, HaOK, StartSteps, Alive
  <1>5. HaOK'
    BY DEF HaOK, RelayOK, HolderOK, QueueOK, StartSteps, Alive
  <1>6. UsersOK'
    BY DEF UsersOK, HolderOK, HaOK, QueueOK, StartSteps, Queued
  <1> QED BY <1>1, <1>2, <1>3, <1>4, <1>5, <1>6

LEMMA SpawnsKeeps ==
  ASSUME IndInv, NEW e \in Entry, Spawns(e)
  PROVE  IndInv'
  <1> USE NoRelayAssumption DEF IndInv, TypeOK, Spawns, At, Spawn,
          haVars, entryVars, lockVars, procVars, supVars
  <1>1. TypeOK'
    BY DEF StepTypes, SupTypes, HolderOK
  <1>2. QueueOK'
    BY DEF QueueOK
  <1>3. HolderOK'
    BY DEF HolderOK, HaOK, RelayOK, StartSteps, Alive
  <1>4. RelayOK'
    BY DEF RelayOK, HolderOK, HaOK, StartSteps, Alive
  <1>5. HaOK'
    BY DEF HaOK, RelayOK, HolderOK, QueueOK, StartSteps, Alive
  <1>6. UsersOK'
    BY DEF UsersOK, HolderOK, HaOK, QueueOK, StartSteps, Queued
  <1> QED BY <1>1, <1>2, <1>3, <1>4, <1>5, <1>6

LEMMA GraceFailsKeeps ==
  ASSUME IndInv, NEW e \in Entry, GraceFails(e)
  PROVE  IndInv'
  <1> USE NoRelayAssumption DEF IndInv, TypeOK, GraceFails, At, Terminate,
          haVars, entryVars, lockVars, procVars, supVars
  <1>1. TypeOK'
    BY DEF StepTypes, SupTypes, HolderOK
  <1>2. QueueOK'
    BY DEF QueueOK
  <1>3. HolderOK'
    BY DEF HolderOK, HaOK, RelayOK, StartSteps, Alive
  <1>4. RelayOK'
    BY DEF RelayOK, HolderOK, HaOK, StartSteps, Alive
  <1>5. HaOK'
    BY DEF HaOK, RelayOK, HolderOK, QueueOK, StartSteps, Alive
  <1>6. UsersOK'
    BY DEF UsersOK, HolderOK, HaOK, QueueOK, StartSteps, Queued
  <1> QED BY <1>1, <1>2, <1>3, <1>4, <1>5, <1>6

LEMMA ReleaseStopsKeeps ==
  ASSUME IndInv, NEW e \in Entry, ReleaseStops(e)
  PROVE  IndInv'
  <1> USE NoRelayAssumption DEF IndInv, TypeOK, ReleaseStops, At, StopBegins, Terminate,
          haVars, entryVars, lockVars, procVars, supVars
  <1>1. TypeOK'
    BY QueueParts DEF StepTypes, SupTypes, HolderOK
  <1>2. QueueOK'
    BY QueueParts DEF QueueOK
  <1>3. HolderOK'
    BY QueueParts DEF HolderOK, HaOK, RelayOK, StartSteps, Alive
  <1>4. RelayOK'
    BY QueueParts DEF RelayOK, HolderOK, HaOK, StartSteps, Alive
  <1>5. HaOK'
    BY QueueParts DEF HaOK, RelayOK, HolderOK, QueueOK, StartSteps, Alive
  <1>6. UsersOK'
    BY QueueParts, TailQueued DEF UsersOK, HolderOK, HaOK, QueueOK, StartSteps
  <1> QED BY <1>1, <1>2, <1>3, <1>4, <1>5, <1>6

LEMMA EndsKeeps ==
  ASSUME IndInv, NEW r \in Relay, Ends(r)
  PROVE  IndInv'
  <1> USE NoRelayAssumption DEF IndInv, TypeOK, Ends, haVars, entryVars, lockVars, procVars, supVars
  <1>1. TypeOK'
    BY DEF StepTypes, SupTypes, HolderOK
  <1>2. QueueOK'
    BY DEF QueueOK
  <1>3. HolderOK'
    BY DEF HolderOK, HaOK, RelayOK, StartSteps, Alive
  <1>4. RelayOK'
    BY DEF RelayOK, HolderOK, HaOK, StartSteps, Alive
  <1>5. HaOK'
    BY DEF HaOK, RelayOK, HolderOK, QueueOK, StartSteps, Alive
  <1>6. UsersOK'
    BY DEF UsersOK, HolderOK, HaOK, QueueOK, StartSteps, Queued
  <1> QED BY <1>1, <1>2, <1>3, <1>4, <1>5, <1>6

LEMMA SupSeesEndKeeps ==
  ASSUME IndInv, NEW r \in Relay, SupSeesEnd(r)
  PROVE  IndInv'
  <1> USE NoRelayAssumption DEF IndInv, TypeOK, SupSeesEnd,
          haVars, entryVars, lockVars, procVars, supVars
  <1>1. TypeOK'
    BY DEF StepTypes, SupTypes, HolderOK
  <1>2. QueueOK'
    BY DEF QueueOK
  <1>3. HolderOK'
    BY DEF HolderOK, HaOK, RelayOK, StartSteps, Alive
  <1>4. RelayOK'
    BY DEF RelayOK, HolderOK, HaOK, StartSteps, Alive
  <1>5. HaOK'
    BY DEF HaOK, RelayOK, HolderOK, QueueOK, StartSteps, Alive
  <1>6. UsersOK'
    BY DEF UsersOK, HolderOK, HaOK, QueueOK, StartSteps, Queued
  <1> QED BY <1>1, <1>2, <1>3, <1>4, <1>5, <1>6

LEMMA SupWakesKeeps ==
  ASSUME IndInv, NEW r \in Relay, SupWakes(r)
  PROVE  IndInv'
  <1> USE NoRelayAssumption DEF IndInv, TypeOK, SupWakes,
          haVars, entryVars, lockVars, procVars, supVars
  <1>1. TypeOK'
    BY DEF StepTypes, SupTypes, HolderOK
  <1>2. QueueOK'
    BY DEF QueueOK
  <1>3. HolderOK'
    BY DEF HolderOK, HaOK, RelayOK, StartSteps, Alive
  <1>4. RelayOK'
    BY DEF RelayOK, HolderOK, HaOK, StartSteps, Alive
  <1>5. HaOK'
    BY DEF HaOK, RelayOK, HolderOK, QueueOK, StartSteps, Alive
  <1>6. UsersOK'
    BY DEF UsersOK, HolderOK, HaOK, QueueOK, StartSteps, Queued
  <1> QED BY <1>1, <1>2, <1>3, <1>4, <1>5, <1>6

LEMMA SupSpawnsKeeps ==
  ASSUME IndInv, NEW r \in Relay, SupSpawns(r)
  PROVE  IndInv'
  <1> USE NoRelayAssumption DEF IndInv, TypeOK, SupSpawns, Spawn,
          haVars, entryVars, lockVars, procVars, supVars
  <1>1. TypeOK'
    BY DEF StepTypes, SupTypes, HolderOK
  <1>2. QueueOK'
    BY DEF QueueOK
  <1>3. HolderOK'
    BY DEF HolderOK, HaOK, RelayOK, StartSteps, Alive
  <1>4. RelayOK'
    BY DEF RelayOK, HolderOK, HaOK, StartSteps, Alive
  <1>5. HaOK'
    BY DEF HaOK, RelayOK, HolderOK, QueueOK, StartSteps, Alive
  <1>6. UsersOK'
    BY DEF UsersOK, HolderOK, HaOK, QueueOK, StartSteps, Queued
  <1> QED BY <1>1, <1>2, <1>3, <1>4, <1>5, <1>6

LEMMA SupGraceOverKeeps ==
  ASSUME IndInv, NEW r \in Relay, SupGraceOver(r)
  PROVE  IndInv'
  <1> USE NoRelayAssumption DEF IndInv, TypeOK, SupGraceOver, Terminate,
          haVars, entryVars, lockVars, procVars, supVars
  <1>1. TypeOK'
    BY DEF StepTypes, SupTypes, HolderOK
  <1>2. QueueOK'
    BY DEF QueueOK
  <1>3. HolderOK'
    BY DEF HolderOK, HaOK, RelayOK, StartSteps, Alive
  <1>4. RelayOK'
    BY DEF RelayOK, HolderOK, HaOK, StartSteps, Alive
  <1>5. HaOK'
    BY DEF HaOK, RelayOK, HolderOK, QueueOK, StartSteps, Alive
  <1>6. UsersOK'
    BY DEF UsersOK, HolderOK, HaOK, QueueOK, StartSteps, Queued
  <1> QED BY <1>1, <1>2, <1>3, <1>4, <1>5, <1>6

LEMMA PortsTakenKeeps ==
  ASSUME IndInv, PortsTaken
  PROVE  IndInv'
  <1> USE NoRelayAssumption DEF IndInv, TypeOK, PortsTaken,
          haVars, entryVars, lockVars, procVars, supVars
  <1>1. TypeOK'
    BY DEF StepTypes, SupTypes, HolderOK
  <1>2. QueueOK'
    BY DEF QueueOK
  <1>3. HolderOK'
    BY DEF HolderOK, HaOK, RelayOK, StartSteps, Alive
  <1>4. RelayOK'
    BY DEF RelayOK, HolderOK, HaOK, StartSteps, Alive
  <1>5. HaOK'
    BY DEF HaOK, RelayOK, HolderOK, QueueOK, StartSteps, Alive
  <1>6. UsersOK'
    BY DEF UsersOK, HolderOK, HaOK, QueueOK, StartSteps, Queued
  <1> QED BY <1>1, <1>2, <1>3, <1>4, <1>5, <1>6

LEMMA OnStopEndsKeeps ==
  ASSUME IndInv, OnStopEnds
  PROVE  IndInv'
  <1> USE NoRelayAssumption DEF IndInv, TypeOK, OnStopEnds, StopEnds,
          haVars, entryVars, lockVars, procVars, supVars
  <1>1. TypeOK'
    BY DEF StepTypes, SupTypes, HolderOK
  <1>2. QueueOK'
    BY DEF QueueOK
  <1>3. HolderOK'
    BY DEF HolderOK, HaOK, RelayOK, StartSteps, Alive
  <1>4. RelayOK'
    BY DEF RelayOK, HolderOK, HaOK, StartSteps, Alive
  <1>5. HaOK'
    BY DEF HaOK, RelayOK, HolderOK, QueueOK, StartSteps, Alive
  <1>6. UsersOK'
    BY DEF UsersOK, HolderOK, HaOK, QueueOK, StartSteps, Queued
  <1> QED BY <1>1, <1>2, <1>3, <1>4, <1>5, <1>6

LEMMA HaExitsKeeps ==
  ASSUME IndInv, HaExits
  PROVE  IndInv'
  <1> USE NoRelayAssumption DEF IndInv, TypeOK, HaExits, Terminate,
          haVars, entryVars, lockVars, procVars, supVars
  <1>1. TypeOK'
    BY DEF StepTypes, SupTypes, HolderOK
  <1>2. QueueOK'
    BY DEF QueueOK
  <1>3. HolderOK'
    BY DEF HolderOK, HaOK, RelayOK, StartSteps, Alive
  <1>4. RelayOK'
    BY DEF RelayOK, HolderOK, HaOK, StartSteps, Alive
  <1>5. HaOK'
    BY DEF HaOK, RelayOK, HolderOK, QueueOK, StartSteps, Alive
  <1>6. UsersOK'
    BY DEF UsersOK, HolderOK, HaOK, QueueOK, StartSteps, Queued
  <1> QED BY <1>1, <1>2, <1>3, <1>4, <1>5, <1>6

LEMMA StutterKeeps ==
  ASSUME IndInv, UNCHANGED vars
  PROVE  IndInv'
  <1> USE NoRelayAssumption DEF IndInv, TypeOK, vars, haVars, entryVars, lockVars, procVars, supVars
  <1>1. TypeOK'
    BY DEF StepTypes, SupTypes, HolderOK
  <1>2. QueueOK'
    BY DEF QueueOK
  <1>3. HolderOK'
    BY DEF HolderOK, HaOK, RelayOK, StartSteps, Alive
  <1>4. RelayOK'
    BY DEF RelayOK, HolderOK, HaOK, StartSteps, Alive
  <1>5. HaOK'
    BY DEF HaOK, RelayOK, HolderOK, QueueOK, StartSteps, Alive
  <1>6. UsersOK'
    BY DEF UsersOK, HolderOK, HaOK, QueueOK, StartSteps, Queued
  <1> QED BY <1>1, <1>2, <1>3, <1>4, <1>5, <1>6

LEMMA HaStopsKeeps ==
  ASSUME IndInv, HaStops
  PROVE  IndInv'
  <1> USE NoRelayAssumption DEF IndInv, TypeOK, HaStops, Terminate,
          haVars, entryVars, lockVars, procVars, supVars
  <1>1. TypeOK'
    BY DEF StepTypes, SupTypes, HolderOK
  <1>2. QueueOK'
    BY DEF QueueOK
  <1>3. HolderOK'
    BY DEF HolderOK, HaOK, RelayOK, StartSteps, Alive
  <1>4. RelayOK'
    <2>1. onstop = NoRelay /\ onstop' = shared /\ shared' = NoRelay /\ UNCHANGED <<mine, step, proc>> /\ ha' = "stopping"
      BY DEF HaOK
    <2>2. \A r \in Relay : sup'[r] = "none"
      OBVIOUS
    <2>3. stopping' = stopping \cup ({shared} \cap Relay)
      OBVIOUS
    <2>4. UNCHANGED proc /\ \A r \in Relay : (r \in told => r \in told') /\ (r = shared /\ Alive(r) => r \in told')
      BY DEF Alive
    <2>5. \A r \in stopping' : Alive(r)' => r \in told'
      <3> SUFFICES ASSUME NEW r \in stopping', Alive(r)' PROVE r \in told'
        OBVIOUS
      <3>1. r \in Relay /\ Alive(r) /\ (r = shared \/ r \in stopping)
        BY <2>3, <2>4 DEF Alive
      <3>2. r \in stopping => r \in told
        BY <3>1 DEF RelayOK
      <3> QED BY <2>4, <3>1, <3>2
    <2> QED BY <2>1, <2>2, <2>3, <2>5 DEF RelayOK, Alive
  <1>5. HaOK'
    BY DEF HaOK, RelayOK, HolderOK, QueueOK, StartSteps, Alive
  <1>6. UsersOK'
    BY DEF UsersOK, HolderOK, HaOK, QueueOK, StartSteps, Queued
  <1> QED BY <1>1, <1>2, <1>3, <1>4, <1>5, <1>6

-----------------------------------------------------------------------------

LEMMA StepKeeps == IndInv /\ [Next]_vars => IndInv'
  <1> SUFFICES ASSUME IndInv, [Next]_vars PROVE IndInv'
    OBVIOUS
  <1>1. ASSUME NEW e \in Entry, Setup(e) \/ Unload(e) \/ Release(e)
        PROVE  IndInv'
    BY <1>1, SetupKeeps, UnloadKeeps, ReleaseOnlyKeeps, ReleaseStopsKeeps,
       ReleaseEndsKeeps DEF Release
  <1>2. ASSUME NEW e \in Entry, Acquire(e)
        PROVE  IndInv'
    BY <1>2, AcquireSharedKeeps, AcquireStartsKeeps, PrepareEndsKeeps, PrepareFailsKeeps,
       SpawnsKeeps,
       GraceEndsKeeps, GraceFailsKeeps, AcquireFailsKeeps DEF Acquire
  <1>3. ASSUME NEW r \in Relay, Ends(r) \/ Supervise(r)
        PROVE  IndInv'
    BY <1>3, EndsKeeps, SupSeesEndKeeps, SupWakesKeeps, SupSpawnsKeeps,
       SupGraceOverKeeps DEF Supervise
  <1>4. CASE PortsTaken \/ HaStops \/ OnStopEnds \/ HaExits
    BY <1>4, PortsTakenKeeps, HaStopsKeeps, OnStopEndsKeeps, HaExitsKeeps
  <1>5. CASE UNCHANGED vars
    BY <1>5, StutterKeeps
  <1> QED BY <1>1, <1>2, <1>3, <1>4, <1>5 DEF Next

(* The inductive invariant holds in every reachable state. *)
THEOREM Invariance == Spec => []IndInv
  BY InitHolds, StepKeeps, PTL DEF Spec

(* Every variable of the embedded relay keeps its type: in particular the lock  *)
(* is never given up with a relay still in hand, and nothing but relays is      *)
(* stored, supervised, told to end or stopped.                                  *)
THEOREM TypeCorrect == Spec => []TypeOK
  <1>1. IndInv => TypeOK
    BY DEF IndInv
  <1> QED BY <1>1, Invariance, PTL

(* However many entries come and go, the next relay is started only when the    *)
(* process before is gone, and no supervisor brings a stopped one back          *)
(* (embedded_relay.py 241-247, 266-272).                                        *)
THEOREM AtMostOneProcess == Spec => []OneProcess
  BY Consequences, Invariance, PTL

(* async_acquire and async_release queue up at one lock, yet no entry is loaded *)
(* while the relay it uses is being stopped or is not there.                    *)
THEOREM LoadedAreServed == Spec => []LoadedIsServed
  BY Consequences, Invariance, PTL

(* Every process and every supervisor has someone who will stop it, and the     *)
(* stored relay someone who uses it or has its release queued.                  *)
THEOREM NothingIsLeft == Spec => []NothingLeftBehind
  BY Consequences, Invariance, PTL

(* The STOP listener (284-292) and start, cancelled (167-172), tell every       *)
(* process to end, unless an entry was being set up when Home Assistant stopped. *)
THEOREM NothingSurvives == Spec => []NoneSurvives
  BY Consequences, Invariance, PTL

-----------------------------------------------------------------------------
(* EmbeddedRelay implements SharedRelay.                                    *)

SharedStep == [Shared!SharedNext]_(Shared!sharedVars)

SomeAlive == \E r \in Relay : Alive(r)

(* While Home Assistant runs, processes are those of the stored relay or of the *)
(* one in hand, there is only one of the two, and no relay means no users.      *)
LEMMA Running ==
  ASSUME IndInv, ha = "running"
  PROVE  /\ \A r \in Relay : Alive(r) \/ sup[r] # "none" => r \in {shared, mine} \ {NoRelay}
         /\ shared = NoRelay \/ mine = NoRelay
         /\ shared = NoRelay => users = {}
         /\ mine = NoRelay <=> step = "enter"
         /\ SomeAlive => \E r \in {shared, mine} : r # NoRelay /\ Alive(r)
  BY NoRelayAssumption DEF IndInv, TypeOK, RelayOK, HolderOK, HaOK, UsersOK, SomeAlive

LEMMA StoppedIsUnseen ==
  ASSUME ha # "running", ha' # "running"
  PROVE  SharedStep
  BY DEF SharedStep, Shared!sharedVars

LEMMA Unseen ==
  ASSUME ha = "running",
         UNCHANGED <<ha, shared, mine, users, SomeAlive>>, step' = "stop" <=> step = "stop"
  PROVE  SharedStep
  BY DEF SharedStep, Shared!sharedVars, SomeAlive

LEMMA AcquireSeen ==
  ASSUME IndInv, ha = "running", NEW e \in Entry, Acquire(e)
  PROVE  SharedStep
  <1> USE DEF SharedStep, Shared!SharedNext, SomeAlive, At, Leave,
          haVars, entryVars, lockVars, procVars
  <1>1. CASE AcquireShared(e)
    <2>1. Shared!Joins(e)
      BY <1>1, Running DEF AcquireShared, Shared!Joins, Alive
    <2> QED BY <2>1
  <1>2. CASE AcquireStarts(e)
    <2>1. Shared!Starts
      BY <1>2, Running, NoRelayAssumption DEF AcquireStarts, Shared!Starts, Alive
    <2> QED BY <2>1
  <1>3. CASE PrepareEnds(e) \/ GraceFails(e)
    BY <1>3, Unseen DEF PrepareEnds, GraceFails, Alive
  <1>4. CASE PrepareFails(e) \/ AcquireFails(e)
    <2>1. ~SomeAlive /\ UNCHANGED <<ha, shared, users, proc>> /\ shared = NoRelay /\ mine # NoRelay /\ step # "stop"
      BY <1>4, Running DEF PrepareFails, AcquireFails, IndInv, HolderOK
    <2>2. Shared!StartFails
      BY <1>4, <2>1 DEF PrepareFails, AcquireFails, Shared!StartFails, Alive
    <2> QED BY <2>2
  <1>5. CASE Spawns(e)
    <2>1. /\ ~SomeAlive /\ UNCHANGED <<ha, shared, users, mine>> /\ shared = NoRelay
          /\ mine # NoRelay /\ step # "stop" /\ step' # "stop"
      BY <1>5, Running DEF Spawns, IndInv, HolderOK
    <2>2. CASE SomeAlive'
      <3>1. Shared!ProcessComes
        BY <2>1, <2>2 DEF Shared!ProcessComes
      <3> QED BY <3>1
    <2>3. CASE ~SomeAlive'
      BY <2>1, <2>3, Unseen
    <2> QED BY <2>2, <2>3
  <1>6. CASE GraceEnds(e)
    <2>1. mine \in Relay /\ shared = NoRelay /\ users = {} /\ Alive(mine)
      BY <1>6, Running DEF GraceEnds, IndInv, TypeOK, Alive
    <2>2. Shared!Serves(e)
      BY <1>6, <2>1, NoRelayAssumption DEF GraceEnds, Shared!Serves, Alive
    <2> QED BY <2>2
  <1> QED BY <1>1, <1>2, <1>3, <1>4, <1>5, <1>6 DEF Acquire

LEMMA ReleaseSeen ==
  ASSUME IndInv, ha = "running", NEW e \in Entry, Release(e)
  PROVE  SharedStep
  <1> USE DEF SharedStep, Shared!SharedNext, SomeAlive, At, Leave,
          haVars, entryVars, lockVars, procVars
  <1>1. CASE ReleaseOnly(e) /\ shared = NoRelay
    BY <1>1, Running, Unseen DEF ReleaseOnly, Alive
  <1>2. CASE ReleaseOnly(e) /\ shared # NoRelay
    <2>1. Shared!Leaves(e)
      BY <1>2 DEF ReleaseOnly, Shared!Leaves, Alive
    <2> QED BY <2>1
  <1>3. CASE ReleaseStops(e)
    <2>1. Shared!LastLeaves(e)
      BY <1>3 DEF ReleaseStops, Shared!LastLeaves, Alive
    <2> QED BY <2>1
  <1>4. CASE ReleaseEnds(e)
    <2>1. ~SomeAlive /\ shared = NoRelay /\ mine # NoRelay
      BY <1>4, Running DEF ReleaseEnds, StopEnds, IndInv, HolderOK
    <2>2. Shared!Stopped
      BY <1>4, <2>1 DEF ReleaseEnds, Shared!Stopped, Alive
    <2> QED BY <2>2
  <1> QED BY <1>1, <1>2, <1>3, <1>4 DEF Release

LEMMA ProcessSeen ==
  ASSUME IndInv, ha = "running", NEW r \in Relay, Ends(r) \/ Supervise(r)
  PROVE  SharedStep
  <1> USE DEF SharedStep, Shared!SharedNext, haVars, entryVars, lockVars, procVars
  <1>1. CASE Ends(r)
    <2>1. SomeAlive /\ ~SomeAlive' /\ UNCHANGED <<ha, shared, mine, users, step>>
      BY <1>1, Running, Consequences DEF Ends, OneProcess, SomeAlive, Alive, IndInv, TypeOK
    <2>2. Shared!ProcessEnds
      BY <2>1 DEF Shared!ProcessEnds, SomeAlive
    <2> QED BY <2>2
  <1>2. CASE SupSpawns(r)
    <2>1. shared = r /\ shared # NoRelay /\ mine = NoRelay
      BY <1>2, Running DEF SupSpawns, IndInv, HolderOK, RelayOK, TypeOK, StepTypes, StartSteps
    <2>2. ~SomeAlive /\ UNCHANGED <<ha, shared, mine, users, step>>
      BY <1>2, <2>1, Running DEF SupSpawns, IndInv, RelayOK
    <2>3. CASE SomeAlive'
      <3>1. Shared!ProcessComes
        BY <2>1, <2>2, <2>3 DEF Shared!ProcessComes, SomeAlive
      <3> QED BY <3>1
    <2>4. CASE ~SomeAlive'
      BY <2>2, <2>4, Unseen DEF SomeAlive
    <2> QED BY <2>3, <2>4
  <1>3. CASE SupSeesEnd(r) \/ SupWakes(r) \/ SupGraceOver(r)
    BY <1>3, Unseen DEF SupSeesEnd, SupWakes, SupGraceOver, SomeAlive, Alive
  <1> QED BY <1>1, <1>2, <1>3 DEF Supervise

LEMMA StepSeen == IndInv /\ [Next]_vars => SharedStep
  <1> SUFFICES ASSUME IndInv, [Next]_vars PROVE SharedStep
    OBVIOUS
  <1> USE DEF vars, haVars, entryVars, lockVars, procVars
  <1>1. ha # "running" => ha' # "running"
    BY DEF Next, Setup, Unload, Acquire, Release, AcquireShared, AcquireStarts, PrepareEnds,
       PrepareFails,
       Spawns, GraceEnds, GraceFails, AcquireFails, ReleaseOnly, ReleaseStops, ReleaseEnds, Ends,
       Supervise, SupSeesEnd, SupWakes, SupSpawns, SupGraceOver, PortsTaken, HaStops, OnStopEnds, HaExits
  <1>2. CASE ha # "running"
    BY <1>1, <1>2, StoppedIsUnseen
  <1>3. CASE ha = "running" /\ HaStops
    <2>1. Shared!Over
      BY <1>3 DEF HaStops, Shared!Over
    <2> QED BY <2>1 DEF SharedStep, Shared!SharedNext
  <1>4. ASSUME ha = "running", NEW e \in Entry, Setup(e) \/ Unload(e)
        PROVE  SharedStep
    BY <1>4, Unseen DEF Setup, Unload, SomeAlive, Alive
  <1>5. CASE ha = "running" /\ (PortsTaken \/ UNCHANGED vars)
    BY <1>5, Unseen DEF PortsTaken, SomeAlive, Alive
  <1>6. ha = "running" => ~OnStopEnds /\ ~HaExits
    BY DEF OnStopEnds, HaExits, IndInv, HaOK
  <1> QED BY <1>2, <1>3, <1>4, <1>5, <1>6, AcquireSeen, ReleaseSeen, ProcessSeen DEF Next

LEMMA InitSeen == Init => Shared!Down
  <1> SUFFICES ASSUME Init PROVE Shared!Down
    OBVIOUS
  <1>1. ha = "running" /\ shared = NoRelay /\ mine = NoRelay /\ users = {} /\ \A r \in Relay : ~Alive(r)
    BY DEF Init, Alive
  <1> QED BY <1>1 DEF Shared!Down

(* For any number of entries and relay objects, the embedded relay is one       *)
(* shared service: the first entry starts it, the last one stops it, and it is  *)
(* gone before the next start, whatever queues up at shared["lock"].            *)
THEOREM RelayIsShared == Spec => IsShared
  <1>1. IndInv /\ [Next]_vars => [Shared!SharedNext]_(Shared!sharedVars)
    BY StepSeen DEF SharedStep
  <1> QED BY <1>1, InitSeen, Invariance, PTL DEF Spec, IsShared, Shared!SharedSpec

=============================================================================
