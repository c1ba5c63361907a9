---------------------------- MODULE ManagePinsProofs ----------------------------
(* The properties of ManagePins for any number of runs, accounts, keys and      *)
(* places.                                                                      *)
EXTENDS ManagePins, FiniteSetTheorems, TLAPS

(* A run that is under way has an account, one that has drawn an IMEI has it.   *)
RunOK ==
    \A p \in Run : /\ pc[p] \notin Ended => account[p] \in Account
                   /\ p \in Writers \/ pc[p] = "login" => imei[p] \in Imei

(* With contents f of the file, the cloud has seen no IMEI of an account but    *)
(* the one in f, and whoever logs in does so with that one.                     *)
Holds(f) ==
    /\ \A a \in Account : known[a] \subseteq {f[a]} \ {Nothing}
    /\ \A p \in Run : pc[p] = "login" => imei[p] = f[account[p]] /\ imei[p] # Nothing

(* Undisturbed there is one writer at most, who has read what is in the file or *)
(* was before it was truncated, and found no IMEI of its account in it.         *)
CacheOK ==
    ~disturbed =>
        /\ \A p, q \in Writers : p = q
        /\ file = Nothing <=> \E p \in Run : pc[p] = "writing"
        /\ \A p \in Writers : read[p][account[p]] = Nothing
        /\ \A p \in Run : pc[p] = "write" => file = read[p]
        /\ \A p \in Run : pc[p] = "writing" => Holds(read[p])
        /\ file # Nothing => Holds(file)

(* What the cloud lists is on the lock or was taken off it.                     *)
CloudOK == \A s \in Slot : cloud[s] # Nothing => cloud[s] = keys[s] \/ cloud[s] \in removed

(* A key that was picked was named alone, and the list has it at its place for  *)
(* as long as it is on the lock.                                                *)
TargetOK ==
    \A p \in Run : pc[p] \in {"confirm", "recheck", "gone", "there"} =>
        /\ target[p] \in [slot : Slot, token : Token, named : SUBSET Token]
        /\ target[p].named = {target[p].token}
        /\ \/ target[p].token \in removed
           \/ keys[target[p].slot] = target[p].token /\ cloud[target[p].slot] = target[p].token

IndInv == TypeOK /\ RunOK /\ CacheOK /\ CloudOK /\ TargetOK /\ RightKey /\ ConfirmedGone

LEMMA Consequences == IndInv => OneImei
  <1> SUFFICES ASSUME IndInv, ~disturbed, NEW a \in Account PROVE Cardinality(known[a]) <= 1
    BY DEF OneImei
  <1>1. \E x : known[a] \subseteq {x}
    BY DEF IndInv, CacheOK, Holds
  <1>2. PICK x : known[a] \subseteq {x}
    BY <1>1
  <1>3. known[a] = {} \/ known[a] = {x}
    BY <1>2
  <1>4. Cardinality({}) = 0 /\ Cardinality({x}) = 1
    BY FS_EmptySet, FS_Singleton
  <1> QED BY <1>3, <1>4

LEMMA InitHolds == Init => IndInv
  <1> SUFFICES ASSUME Init PROVE IndInv
    OBVIOUS
  <1> USE NothingAssumption DEF Init, NoImeis, NoKeys, NoTarget
  <1>1. file # Nothing /\ Writers = {}
    BY DEF Writers
  <1>2. TypeOK
    BY DEF TypeOK, Ended
  <1>3. RunOK /\ CacheOK
    BY <1>1 DEF RunOK, CacheOK, Holds, Ended
  <1>4. CloudOK /\ TargetOK /\ RightKey /\ ConfirmedGone
    BY DEF CloudOK, TargetOK, RightKey, ConfirmedGone
  <1> QED BY <1>2, <1>3, <1>4 DEF IndInv

-----------------------------------------------------------------------------
(* One lemma per action, with one step per part of the invariant. *)

LEMMA StartsKeeps ==
  ASSUME IndInv, NEW p \in Run, NEW a \in Account, NEW what \in Asks[p], Starts(p, a, what)
  PROVE  IndInv'
  <1> USE NothingAssumption DEF IndInv, TypeOK, Starts, Goes, Ended,
          fileVars, lockVars, runVars
  <1>1. TypeOK'
    BY AsksAssumption DEF NoImeis, NoTarget, Commands
  <1>2. RunOK'
    BY DEF RunOK, Writers
  <1>3. CacheOK'
    BY DEF CacheOK, Holds, RunOK, Writers
  <1>4. CloudOK'
    BY DEF CloudOK
  <1>5. TargetOK'
    BY DEF TargetOK, CloudOK
  <1>6. RightKey'
    BY DEF RightKey, TargetOK
  <1>7. ConfirmedGone'
    BY DEF ConfirmedGone, TargetOK
  <1> QED BY <1>1, <1>2, <1>3, <1>4, <1>5, <1>6, <1>7

LEMMA ImeiFoundKeeps ==
  ASSUME IndInv, NEW p \in Run, ImeiFound(p)
  PROVE  IndInv'
  <1> USE NothingAssumption DEF IndInv, TypeOK, ImeiFound, Cached, NoImeis, Goes, Ended,
          fileVars, lockVars, runVars
  <1>1. TypeOK'
    <2>1. account[p] \in Account /\ file # Nothing /\ file \in [Account -> Imei \cup {Nothing}]
      BY DEF RunOK
    <2> QED BY <2>1
  <1>2. RunOK'
    <2>1. account[p] \in Account /\ file \in [Account -> Imei \cup {Nothing}]
      BY DEF RunOK
    <2>2. imei'[p] \in Imei
      BY <2>1
    <2> QED BY <2>2 DEF RunOK, Writers
  <1>3. CacheOK'
    <2>1. /\ UNCHANGED <<file, read, disturbed, account, known>> /\ file # Nothing
          /\ \A q \in Run : pc'[q] \in {"write", "writing"} => q # p /\ pc'[q] = pc[q]
      BY DEF RunOK
    <2>2. \A q \in Run : pc[q] \in {"write", "writing"} => pc'[q] = pc[q]
      OBVIOUS
    <2>3. Writers' = Writers
      BY <2>1, <2>2 DEF Writers
    <2>4. imei'[p] = file[account[p]] /\ imei'[p] # Nothing
          /\ \A q \in Run \ {p} : imei'[q] = imei[q] /\ pc'[q] = pc[q]
      BY <2>1
    <2>5. Holds(file) => Holds(file)'
      BY <2>1, <2>4 DEF Holds
    <2> QED BY <2>1, <2>2, <2>3, <2>5 DEF CacheOK
  <1>4. CloudOK'
    BY DEF CloudOK
  <1>5. TargetOK'
    BY DEF TargetOK, CloudOK
  <1>6. RightKey'
    BY DEF RightKey, TargetOK
  <1>7. ConfirmedGone'
    BY DEF ConfirmedGone, TargetOK
  <1> QED BY <1>1, <1>2, <1>3, <1>4, <1>5, <1>6, <1>7

LEMMA ImeiGeneratedKeeps ==
  ASSUME IndInv, NEW p \in Run, ImeiGenerated(p)
  PROVE  IndInv'
  <1> USE NothingAssumption DEF IndInv, TypeOK, ImeiGenerated, Cached, Goes, Ended,
          fileVars, lockVars, runVars
  <1>1. TypeOK'
    BY DEF NoImeis, NoTarget, Commands
  <1>2. RunOK'
    BY DEF RunOK, Writers
  <1>3. CacheOK'
    <2> SUFFICES ASSUME ~disturbed' PROVE CacheOK'
      BY DEF CacheOK
    <2>1. ~disturbed /\ Writers = {} /\ \A q \in Run : pc[q] \notin {"write", "writing"}
      BY DEF Writers
    <2>2. file # Nothing /\ Holds(file)
      BY <2>1 DEF CacheOK
    <2>3. /\ UNCHANGED <<file, account, known>> /\ read'[p] = file /\ file[account[p]] = Nothing
          /\ pc'[p] = "write" /\ \A q \in Run \ {p} : pc'[q] = pc[q] /\ imei'[q] = imei[q]
      BY <2>2
    <2>4. Writers' = {p}
      BY <2>1, <2>3 DEF Writers
    <2>5. Holds(file)'
      BY <2>2, <2>3 DEF Holds
    <2> QED BY <2>1, <2>2, <2>3, <2>4, <2>5 DEF CacheOK
  <1>4. CloudOK'
    BY DEF CloudOK
  <1>5. TargetOK'
    BY DEF TargetOK, CloudOK
  <1>6. RightKey'
    BY DEF RightKey, TargetOK
  <1>7. ConfirmedGone'
    BY DEF ConfirmedGone, TargetOK
  <1> QED BY <1>1, <1>2, <1>3, <1>4, <1>5, <1>6, <1>7

LEMMA WriteBeginsKeeps ==
  ASSUME IndInv, NEW p \in Run, WriteBegins(p)
  PROVE  IndInv'
  <1> USE NothingAssumption DEF IndInv, TypeOK, WriteBegins, Goes, Ended,
          fileVars, lockVars, runVars
  <1>1. TypeOK'
    BY DEF NoImeis, NoTarget, Commands
  <1>2. RunOK'
    BY DEF RunOK, Writers
  <1>3. CacheOK'
    BY DEF CacheOK, Holds, RunOK, Writers
  <1>4. CloudOK'
    BY DEF CloudOK
  <1>5. TargetOK'
    BY DEF TargetOK, CloudOK
  <1>6. RightKey'
    BY DEF RightKey, TargetOK
  <1>7. ConfirmedGone'
    BY DEF ConfirmedGone, TargetOK
  <1> QED BY <1>1, <1>2, <1>3, <1>4, <1>5, <1>6, <1>7

LEMMA WriteEndsKeeps ==
  ASSUME IndInv, NEW p \in Run, WriteEnds(p)
  PROVE  IndInv'
  <1> USE NothingAssumption DEF IndInv, TypeOK, WriteEnds, Written, Goes, Ended,
          fileVars, lockVars, runVars
  <1>1. TypeOK'
    BY DEF NoImeis, NoTarget, Commands
  <1>2. RunOK'
    BY DEF RunOK, Writers
  <1>3. CacheOK'
    <2> SUFFICES ASSUME ~disturbed' PROVE CacheOK'
      BY DEF CacheOK
    <2>1. ~disturbed /\ pc[p] = "writing" /\ p \in Writers
      BY DEF Writers
    <2>2. file = Nothing /\ Writers = {p} /\ Holds(read[p]) /\ read[p][account[p]] = Nothing
      BY <2>1 DEF CacheOK
    <2>3. /\ file' = Written(p) /\ UNCHANGED <<account, known, imei>>
          /\ pc'[p] = "login" /\ \A q \in Run \ {p} : pc'[q] = pc[q]
      BY <2>2
    <2>4. \A q \in Run : pc'[q] \notin {"write", "writing"}
      BY <2>2, <2>3 DEF Writers
    <2>5. account[p] \in Account /\ imei[p] \in Imei
      BY <2>1 DEF RunOK
    <2>6. /\ Written(p) \in [Account -> Imei \cup {Nothing}] /\ Written(p)[account[p]] = imei[p]
          /\ \A a \in Account \ {account[p]} : Written(p)[a] = read[p][a]
      BY <2>5
    <2>7. Holds(file)'
      <3>1. ASSUME NEW a \in Account
            PROVE  known'[a] \subseteq {file'[a]} \ {Nothing}
        BY <2>2, <2>3, <2>6 DEF Holds
      <3>2. ASSUME NEW q \in Run, pc'[q] = "login"
            PROVE  imei'[q] = file'[account'[q]] /\ imei'[q] # Nothing
        <4>1. CASE q = p
          BY <2>3, <2>5, <2>6, <4>1
        <4>2. CASE q # p
          <5>1. pc[q] = "login" /\ imei[q] = read[p][account[q]] /\ imei[q] # Nothing
            BY <2>2, <2>3, <3>2, <4>2 DEF Holds
          <5>2. account[q] \in Account /\ account[q] # account[p]
            BY <2>2, <5>1 DEF RunOK
          <5> QED BY <2>3, <2>6, <5>1, <5>2
        <4> QED BY <4>1, <4>2
      <3> QED BY <3>1, <3>2 DEF Holds
    <2>8. file' \in [Account -> Imei \cup {Nothing}]
      BY <2>3, <2>6
    <2>9. file' # Nothing
      BY <2>8
    <2>10. Writers' = {}
      BY <2>4 DEF Writers
    <2> QED BY <2>3, <2>4, <2>7, <2>9, <2>10 DEF CacheOK
  <1>4. CloudOK'
    BY DEF CloudOK
  <1>5. TargetOK'
    BY DEF TargetOK, CloudOK
  <1>6. RightKey'
    BY DEF RightKey, TargetOK
  <1>7. ConfirmedGone'
    BY DEF ConfirmedGone, TargetOK
  <1> QED BY <1>1, <1>2, <1>3, <1>4, <1>5, <1>6, <1>7

LEMMA KilledKeeps ==
  ASSUME IndInv, NEW p \in Run, Killed(p)
  PROVE  IndInv'
  <1> USE NothingAssumption DEF IndInv, TypeOK, Killed, Ends, Goes, Ended,
          fileVars, lockVars, runVars
  <1>1. TypeOK'
    BY DEF NoImeis, NoTarget, Commands
  <1>2. RunOK'
    BY DEF RunOK, Writers
  <1>3. CacheOK'
    <2> SUFFICES ASSUME ~disturbed' PROVE CacheOK'
      BY DEF CacheOK
    <2>1. ~disturbed /\ pc[p] # "writing" /\ pc'[p] = "idle" /\ UNCHANGED <<file, known>>
      OBVIOUS
    <2>2. \A q \in Run \ {p} : /\ pc'[q] = pc[q] /\ imei'[q] = imei[q]
                              /\ account'[q] = account[q] /\ read'[q] = read[q]
      OBVIOUS
    <2>3. Writers' = Writers \ {p}
      BY <2>1, <2>2 DEF Writers
    <2>4. \A f : Holds(f) => /\ \A a \in Account : known'[a] \subseteq {f[a]} \ {Nothing}
                             /\ \A q \in Run : pc'[q] = "login" => imei'[q] = f[account'[q]] /\ imei'[q] # Nothing
      BY <2>1, <2>2 DEF Holds
    <2>5. file # Nothing => Holds(file)'
      BY <2>1, <2>4 DEF CacheOK, Holds
    <2>6. \A q \in Run : pc'[q] = "writing" => Holds(read[q])'
      BY <2>1, <2>2, <2>4 DEF CacheOK, Holds
    <2> QED BY <2>1, <2>2, <2>3, <2>5, <2>6 DEF CacheOK
  <1>4. CloudOK'
    BY DEF CloudOK
  <1>5. TargetOK'
    BY DEF TargetOK, CloudOK
  <1>6. RightKey'
    BY DEF RightKey, TargetOK
  <1>7. ConfirmedGone'
    BY DEF ConfirmedGone, TargetOK
  <1> QED BY <1>1, <1>2, <1>3, <1>4, <1>5, <1>6, <1>7

LEMMA LoginKeeps ==
  ASSUME IndInv, NEW p \in Run, Login(p)
  PROVE  IndInv'
  <1> USE NothingAssumption DEF IndInv, TypeOK, Login, NfcIssued, KeyAdded, FreshTokens, Goes, Ended,
          fileVars, lockVars, runVars
  <1>1. TypeOK'
    <2>1. account[p] \in Account /\ imei[p] \in Imei
      BY DEF RunOK
    <2>2. known' \in [Account -> SUBSET Imei]
      BY <2>1
    <2>3. keys' \in [Slot -> Token \cup {Nothing}]
      OBVIOUS
    <2> QED BY <2>2, <2>3
  <1>2. RunOK'
    BY DEF RunOK, Writers
  <1>3. CacheOK'
    BY DEF CacheOK, Holds, RunOK, Writers
  <1>4. CloudOK'
    BY DEF CloudOK
  <1>5. TargetOK'
    BY DEF TargetOK, CloudOK
  <1>6. RightKey'
    BY DEF RightKey, TargetOK
  <1>7. ConfirmedGone'
    BY DEF ConfirmedGone, TargetOK
  <1> QED BY <1>1, <1>2, <1>3, <1>4, <1>5, <1>6, <1>7

LEMMA PicksKeeps ==
  ASSUME IndInv, NEW p \in Run, Picks(p)
  PROVE  IndInv'
  <1> USE NothingAssumption DEF IndInv, TypeOK, Picks, Candidates, Goes, Ended,
          fileVars, lockVars, runVars
  <1>1. TypeOK'
    BY DEF NoImeis, NoTarget, Commands
  <1>2. RunOK'
    BY DEF RunOK, Writers
  <1>3. CacheOK'
    BY DEF CacheOK, Holds, RunOK, Writers
  <1>4. CloudOK'
    BY DEF CloudOK
  <1>5. TargetOK'
    BY DEF TargetOK, CloudOK
  <1>6. RightKey'
    BY DEF RightKey, TargetOK
  <1>7. ConfirmedGone'
    BY DEF ConfirmedGone, TargetOK
  <1> QED BY <1>1, <1>2, <1>3, <1>4, <1>5, <1>6, <1>7

LEMMA PicksNoneKeeps ==
  ASSUME IndInv, NEW p \in Run, PicksNone(p)
  PROVE  IndInv'
  <1> USE NothingAssumption DEF IndInv, TypeOK, PicksNone, Ends, Goes, Ended,
          fileVars, lockVars, runVars
  <1>1. TypeOK'
    BY DEF NoImeis, NoTarget, Commands
  <1>2. RunOK'
    BY DEF RunOK, Writers
  <1>3. CacheOK'
    BY DEF CacheOK, Holds, RunOK, Writers
  <1>4. CloudOK'
    BY DEF CloudOK
  <1>5. TargetOK'
    BY DEF TargetOK, CloudOK
  <1>6. RightKey'
    BY DEF RightKey, TargetOK
  <1>7. ConfirmedGone'
    BY DEF ConfirmedGone, TargetOK
  <1> QED BY <1>1, <1>2, <1>3, <1>4, <1>5, <1>6, <1>7

LEMMA PublishesKeeps ==
  ASSUME IndInv, NEW p \in Run, Publishes(p)
  PROVE  IndInv'
  <1> USE NothingAssumption DEF IndInv, TypeOK, Publishes, Command, Goes, Ended,
          fileVars, lockVars, runVars
  <1>1. TypeOK'
    <2>1. Command(p) \in Commands
      BY DEF TargetOK, Commands
    <2> QED BY <2>1
  <1>2. RunOK'
    BY DEF RunOK, Writers
  <1>3. CacheOK'
    BY DEF CacheOK, Holds, RunOK, Writers
  <1>4. CloudOK'
    BY DEF CloudOK
  <1>5. TargetOK'
    BY DEF TargetOK, CloudOK
  <1>6. RightKey'
    BY DEF RightKey, TargetOK
  <1>7. ConfirmedGone'
    BY DEF ConfirmedGone, TargetOK
  <1> QED BY <1>1, <1>2, <1>3, <1>4, <1>5, <1>6, <1>7

LEMMA RechecksKeeps ==
  ASSUME IndInv, NEW p \in Run, Rechecks(p)
  PROVE  IndInv'
  <1> USE NothingAssumption DEF IndInv, TypeOK, Rechecks, Ends, StillThere, Goes, Ended,
          fileVars, lockVars, runVars
  <1>1. TypeOK'
    BY DEF NoImeis, NoTarget, Commands
  <1>2. RunOK'
    BY DEF RunOK, Writers
  <1>3. CacheOK'
    BY DEF CacheOK, Holds, RunOK, Writers
  <1>4. CloudOK'
    BY DEF CloudOK
  <1>5. TargetOK'
    BY DEF TargetOK, CloudOK
  <1>6. RightKey'
    BY DEF RightKey, TargetOK
  <1>7. ConfirmedGone'
    BY DEF ConfirmedGone, TargetOK
  <1> QED BY <1>1, <1>2, <1>3, <1>4, <1>5, <1>6, <1>7

LEMMA SomebodyKeeps ==
  ASSUME IndInv, Somebody
  PROVE  IndInv'
  <1> USE NothingAssumption DEF IndInv, TypeOK, Somebody, KeyAdded, KeyRemoved, FreshTokens, Goes, Ended,
          fileVars, lockVars, runVars
  <1>1. TypeOK'
    BY DEF NoImeis, NoTarget, Commands
  <1>2. RunOK'
    BY DEF RunOK, Writers
  <1>3. CacheOK'
    BY DEF CacheOK, Holds, RunOK, Writers
  <1>4. CloudOK'
    BY DEF CloudOK
  <1>5. TargetOK'
    BY DEF TargetOK, CloudOK
  <1>6. RightKey'
    BY DEF RightKey, TargetOK
  <1>7. ConfirmedGone'
    BY DEF ConfirmedGone, TargetOK
  <1> QED BY <1>1, <1>2, <1>3, <1>4, <1>5, <1>6, <1>7

LEMMA CloudCatchesUpKeeps ==
  ASSUME IndInv, NEW s \in Slot, CloudCatchesUp(s)
  PROVE  IndInv'
  <1> USE NothingAssumption DEF IndInv, TypeOK, CloudCatchesUp, Goes, Ended,
          fileVars, lockVars, runVars
  <1>1. TypeOK'
    BY DEF NoImeis, NoTarget, Commands
  <1>2. RunOK'
    BY DEF RunOK, Writers
  <1>3. CacheOK'
    BY DEF CacheOK, Holds, RunOK, Writers
  <1>4. CloudOK'
    BY DEF CloudOK
  <1>5. TargetOK'
    BY DEF TargetOK, CloudOK
  <1>6. RightKey'
    BY DEF RightKey, TargetOK
  <1>7. ConfirmedGone'
    BY DEF ConfirmedGone, TargetOK
  <1> QED BY <1>1, <1>2, <1>3, <1>4, <1>5, <1>6, <1>7

LEMMA ExecutesKeeps ==
  ASSUME IndInv, NEW m \in net, Executes(m)
  PROVE  IndInv'
  <1> USE NothingAssumption DEF IndInv, TypeOK, Executes, KeyRemoved, Goes, Ended,
          fileVars, lockVars, runVars
  <1>1. TypeOK'
    BY DEF NoImeis, NoTarget, Commands
  <1>2. RunOK'
    BY DEF RunOK, Writers
  <1>3. CacheOK'
    BY DEF CacheOK, Holds, RunOK, Writers
  <1>4. CloudOK'
    BY DEF CloudOK
  <1>5. TargetOK'
    BY DEF TargetOK, CloudOK
  <1>6. RightKey'
    BY DEF RightKey, TargetOK
  <1>7. ConfirmedGone'
    BY DEF ConfirmedGone, TargetOK
  <1> QED BY <1>1, <1>2, <1>3, <1>4, <1>5, <1>6, <1>7

LEMMA LosesKeeps ==
  ASSUME IndInv, NEW m \in net, Loses(m)
  PROVE  IndInv'
  <1> USE NothingAssumption DEF IndInv, TypeOK, Loses, Goes, Ended,
          fileVars, lockVars, runVars
  <1>1. TypeOK'
    BY DEF NoImeis, NoTarget, Commands
  <1>2. RunOK'
    BY DEF RunOK, Writers
  <1>3. CacheOK'
    BY DEF CacheOK, Holds, RunOK, Writers
  <1>4. CloudOK'
    BY DEF CloudOK
  <1>5. TargetOK'
    BY DEF TargetOK, CloudOK
  <1>6. RightKey'
    BY DEF RightKey, TargetOK
  <1>7. ConfirmedGone'
    BY DEF ConfirmedGone, TargetOK
  <1> QED BY <1>1, <1>2, <1>3, <1>4, <1>5, <1>6, <1>7

LEMMA StutterKeeps ==
  ASSUME IndInv, UNCHANGED vars
  PROVE  IndInv'
  <1> USE NothingAssumption DEF IndInv, TypeOK, vars, Goes, Ended,
          fileVars, lockVars, runVars
  <1>1. TypeOK'
    BY DEF NoImeis, NoTarget, Commands
  <1>2. RunOK'
    BY DEF RunOK, Writers
  <1>3. CacheOK'
    BY DEF CacheOK, Holds, RunOK, Writers
  <1>4. CloudOK'
    BY DEF CloudOK
  <1>5. TargetOK'
    BY DEF TargetOK, CloudOK
  <1>6. RightKey'
    BY DEF RightKey, TargetOK
  <1>7. ConfirmedGone'
    BY DEF ConfirmedGone, TargetOK
  <1> QED BY <1>1, <1>2, <1>3, <1>4, <1>5, <1>6, <1>7

-----------------------------------------------------------------------------

LEMMA StepKeeps == IndInv /\ [Next]_vars => IndInv'
  <1> SUFFICES ASSUME IndInv, [Next]_vars PROVE IndInv'
    OBVIOUS
  <1>1. ASSUME NEW p \in Run, RunSteps(p)
        PROVE  IndInv'
    BY <1>1, StartsKeeps, ImeiFoundKeeps, ImeiGeneratedKeeps, WriteBeginsKeeps, WriteEndsKeeps, KilledKeeps,
       LoginKeeps, PicksKeeps, PicksNoneKeeps, PublishesKeeps, RechecksKeeps DEF RunSteps
  <1>2. ASSUME NEW m \in net, Executes(m) \/ Loses(m)
        PROVE  IndInv'
    BY <1>2, ExecutesKeeps, LosesKeeps
  <1>3. ASSUME NEW s \in Slot, CloudCatchesUp(s)
        PROVE  IndInv'
    BY <1>3, CloudCatchesUpKeeps
  <1>4. CASE Somebody \/ UNCHANGED vars
    BY <1>4, SomebodyKeeps, StutterKeeps
  <1> QED BY <1>1, <1>2, <1>3, <1>4 DEF Next

(* The inductive invariant holds in every reachable state. *)
THEOREM Invariance == Spec => []IndInv
  BY InitHolds, StepKeeps, PTL DEF Spec

(* Every variable of the runs, the file, the lock and the cloud keeps its type. *)
THEOREM TypeCorrect == Spec => []TypeOK
  <1>1. IndInv => TypeOK
    BY DEF IndInv
  <1> QED BY <1>1, Invariance, PTL

(* However many runs and accounts share the file, an account is known to the    *)
(* cloud by one IMEI, unless first runs overlap or one is killed while it       *)
(* writes (manage_pins.py 15-18, 56-69).                                        *)
THEOREM ImeiStays == Spec => []OneImei
  BY Consequences, Invariance, PTL

(* However many places and keys there are, and whatever happens to them between *)
(* the list and the answer to the question, the command that is sent removes    *)
(* the key that was named, and no other (213-214, 238-256).                     *)
THEOREM DeletesWhatWasNamed == Spec => []RightKey
  <1>1. IndInv => RightKey
    BY DEF IndInv
  <1> QED BY <1>1, Invariance, PTL

(* However far the list lags, a key that is missing from the place it had when  *)
(* it was picked has been taken off the lock (258-264).                         *)
THEOREM ConfirmedIsGone == Spec => []ConfirmedGone
  <1>1. IndInv => ConfirmedGone
    BY DEF IndInv
  <1> QED BY <1>1, Invariance, PTL

=============================================================================
