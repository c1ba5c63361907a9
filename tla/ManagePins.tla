------------------------------ MODULE ManagePins ------------------------------
(***************************************************************************)
(* helper/manage_pins.py: a command line script that lists the keys of a    *)
(* door lock and deletes one of them.  Several runs of it, for one account  *)
(* or for several, share the file of IMEIs and meet whoever else adds and   *)
(* removes keys of the lock: its keypad, the vendor's app, Home Assistant.  *)
(*                                                                         *)
(* One lock, which the accounts share.  The list command stands for the     *)
(* status command, too; runs with --imei are left out.                      *)
(***************************************************************************)
EXTENDS Naturals, FiniteSets

CONSTANTS
    Run,      \* processes
    Asks,     \* what each may be asked for: keys to delete, or Nothing to list them
    Account,  \* login IDs
    Imei,     \* bound on the IMEIs drawn
    Slot,     \* places of keys, as <<pinType, pinId>>
    Token,    \* bound on the keys there ever are
    MaxNet,   \* bound on the deletions on their way
    Nothing   \* no IMEI, no key, no --pin-type, no JSON

ASSUME NothingAssumption ==
    /\ Nothing \notin Imei \cup Token \cup Account \cup Slot
    /\ Nothing \notin [Account -> Imei \cup {Nothing}]

VARIABLES
    file,       \* the file of IMEIs: a function of the accounts, or Nothing when it is torn
    known,      \* the cloud: the IMEIs each account has logged in with
    keys,       \* the lock: slot -> token
    cloud,      \* the cloud's list of them, which lags
    net,        \* deletions on their way to the lock
    pc,         \* where a run is, or how it has ended
    account, imei,   \* of a run
    read,       \* what a run has read from the file
    wanted,     \* its --pin-id and --pin-type, or Nothing for the list command
    target,     \* the slot and the token that it deletes
    disturbed,  \* ghost: first runs overlapped, or one was killed while it wrote
    removed     \* ghost: tokens that were taken off the lock

fileVars == <<file, imei, read, disturbed>>
lockVars == <<known, keys, cloud, removed>>
runVars == <<account, wanted, target>>
vars == <<fileVars, lockVars, runVars, net, pc>>

Types == {s[1] : s \in Slot}
Ids == {s[2] : s \in Slot}
Criteria == [id : Ids, type : Types \cup {Nothing}]
ASSUME MaxNetAssumption == MaxNet \in Nat \ {0}
ASSUME AsksAssumption == Asks \in [Run -> SUBSET (Criteria \cup {Nothing})]

NoImeis == [a \in Account |-> Nothing]
NoKeys == [s \in Slot |-> Nothing]
NoTarget == [slot |-> Nothing, token |-> Nothing, named |-> {}]

Goes(p, where) == pc' = [pc EXCEPT ![p] = where]

Ended == {"idle", "gone", "there"}

(* sys.exit, an exception, or the end; "gone" and "there" are what is reported.  *)
Ends(p, how) ==
    /\ Goes(p, how)
    /\ account' = [account EXCEPT ![p] = Nothing] /\ imei' = [imei EXCEPT ![p] = Nothing]
    /\ wanted' = [wanted EXCEPT ![p] = Nothing] /\ read' = [read EXCEPT ![p] = NoImeis]
    /\ IF how = "idle" THEN target' = [target EXCEPT ![p] = NoTarget] ELSE UNCHANGED target
    /\ UNCHANGED <<file, lockVars, net>>

-----------------------------------------------------------------------------
(* main and cached_imei.                                                     *)

Starts(p, a, what) ==
    /\ pc[p] \in Ended
    /\ Goes(p, "cache")
    /\ account' = [account EXCEPT ![p] = a] /\ wanted' = [wanted EXCEPT ![p] = what]
    /\ target' = [target EXCEPT ![p] = NoTarget]
    /\ UNCHANGED <<fileVars, lockVars, net>>

(* A file that is not JSON counts as empty. *)
Cached == IF file = Nothing THEN NoImeis ELSE file

Writers == {p \in Run : pc[p] \in {"write", "writing"}}

ImeiFound(p) ==
    /\ pc[p] = "cache" /\ Cached[account[p]] # Nothing
    /\ imei' = [imei EXCEPT ![p] = Cached[account[p]]]
    /\ Goes(p, "login")
    /\ UNCHANGED <<file, read, disturbed, lockVars, runVars, net>>

DrawnImeis == UNION {known[a] \cup {Cached[a]} : a \in Account} \cup {imei[p] : p \in Run}

ImeiGenerated(p) ==
    /\ pc[p] = "cache" /\ Cached[account[p]] = Nothing
    /\ \E i \in Imei \ DrawnImeis : imei' = [imei EXCEPT ![p] = i]
    /\ read' = [read EXCEPT ![p] = Cached]
    /\ disturbed' = (disturbed \/ Writers # {})
    /\ Goes(p, "write")
    /\ UNCHANGED <<file, lockVars, runVars, net>>

(* write_text truncates the file before it writes. *)
WriteBegins(p) ==
    /\ pc[p] = "write"
    /\ file' = Nothing
    /\ Goes(p, "writing")
    /\ UNCHANGED <<imei, read, disturbed, lockVars, runVars, net>>

(* Mutant: only the account's own IMEI is written. *)
BugWritten(p) == [NoImeis EXCEPT ![account[p]] = imei[p]]

Written(p) == [read[p] EXCEPT ![account[p]] = imei[p]]

(* Over what another run has written meanwhile it may leave a mixture. *)
WriteEnds(p) ==
    /\ pc[p] = "writing"
    /\ file' \in {Written(p)} \cup (IF file = Nothing THEN {} ELSE {Nothing})
    /\ UNCHANGED imei
    /\ read' = [read EXCEPT ![p] = NoImeis]
    /\ Goes(p, "login")
    /\ UNCHANGED <<disturbed, lockVars, runVars, net>>

(* A refusal, a failed request or command, or an interruption ends a run anywhere. *)
Killed(p) ==
    /\ pc[p] \notin Ended
    /\ disturbed' = (disturbed \/ pc[p] = "writing")
    /\ Ends(p, "idle")

-----------------------------------------------------------------------------
(* The lock and the cloud (not in the repository).                            *)

FreshTokens == Token \ (removed \cup {keys[s] : s \in Slot})

(* Somebody adds a key at a free place. *)
KeyAdded(s) ==
    /\ keys[s] = Nothing
    /\ \E t \in FreshTokens : keys' = [keys EXCEPT ![s] = t]

(* Each IMEI that the cloud has not seen gets an NFC key (docstring 15-16). *)
NfcIssued ==
    IF \E s \in Slot : s[1] = "NFC" /\ keys[s] = Nothing /\ FreshTokens # {}
    THEN \E s \in Slot : s[1] = "NFC" /\ KeyAdded(s)
    ELSE UNCHANGED keys

KeyRemoved(s) ==
    /\ keys[s] # Nothing
    /\ keys' = [keys EXCEPT ![s] = Nothing]
    /\ removed' = removed \cup {keys[s]}

Somebody ==
    /\ \E s \in Slot : (KeyAdded(s) /\ UNCHANGED removed) \/ KeyRemoved(s)
    /\ UNCHANGED <<known, cloud, fileVars, runVars, net, pc>>

(* The list is brought up to date, one place at a time. *)
CloudCatchesUp(s) ==
    /\ cloud[s] # keys[s]
    /\ cloud' = [cloud EXCEPT ![s] = keys[s]]
    /\ UNCHANGED <<known, keys, removed, fileVars, runVars, net, pc>>

(* The lock removes the key with the token of a 420, wherever it is. *)
Executes(m) ==
    /\ m \in net /\ net' = net \ {m}
    /\ IF \E s \in Slot : keys[s] = m.token
       THEN \E s \in Slot : keys[s] = m.token /\ KeyRemoved(s)
       ELSE UNCHANGED <<keys, removed>>
    /\ UNCHANGED <<known, cloud, fileVars, runVars, pc>>

Loses(m) ==
    /\ m \in net /\ net' = net \ {m}
    /\ UNCHANGED <<fileVars, lockVars, runVars, pc>>

-----------------------------------------------------------------------------
(* pick_device, cmd_list and cmd_delete.                                      *)

Login(p) ==
    /\ pc[p] = "login"
    /\ Goes(p, "list")
    /\ LET a == account[p] IN
       /\ IF imei[p] \in known[a] THEN UNCHANGED keys ELSE NfcIssued
       /\ known' = [known EXCEPT ![a] = @ \cup {imei[p]}]
    /\ UNCHANGED <<cloud, removed, fileVars, runVars, net>>

(* The places that the criterion names in the list. *)
Candidates(p) ==
    {s \in Slot : cloud[s] # Nothing /\ s[2] = wanted[p].id /\ wanted[p].type \in {s[1], Nothing}}

(* Mutant: the first of several is taken. *)
BugPicks(p) ==
    /\ pc[p] = "list" /\ wanted[p] # Nothing
    /\ \E s \in Candidates(p) :
           target' = [target EXCEPT ![p] = [slot |-> s, token |-> cloud[s],
                                            named |-> {cloud[c] : c \in Candidates(p)}]]
    /\ Goes(p, "confirm")
    /\ UNCHANGED <<fileVars, lockVars, account, wanted, net>>

(* named is a ghost: what the criterion meant. *)
Picks(p) ==
    /\ pc[p] = "list" /\ wanted[p] # Nothing
    /\ \E s \in Slot :
           /\ Candidates(p) = {s}
           /\ target' = [target EXCEPT ![p] = [slot |-> s, token |-> cloud[s],
                                               named |-> {cloud[c] : c \in Candidates(p)}]]
    /\ Goes(p, "confirm")
    /\ UNCHANGED <<fileVars, lockVars, account, wanted, net>>

(* The list command is done, or nothing or too much is named. *)
PicksNone(p) ==
    /\ pc[p] = "list"
    /\ wanted[p] # Nothing => Cardinality(Candidates(p)) # 1
    /\ Ends(p, "idle") /\ UNCHANGED disturbed

(* Mutant: the token is looked up again by its place. *)
BugCommand(p) == [token |-> cloud[target[p].slot], named |-> target[p].named]

(* func 420 names a key by its token. *)
Command(p) == [token |-> target[p].token, named |-> target[p].named]

(* Confirmed, with an sId given or sniffed. *)
Publishes(p) ==
    /\ pc[p] = "confirm" /\ Cardinality(net) < MaxNet
    /\ net' = net \cup {Command(p)}
    /\ Goes(p, "recheck")
    /\ UNCHANGED <<fileVars, lockVars, runVars>>

(* Mutant: the type asked for, if any, is compared. *)
BugStillThere(p) == cloud[target[p].slot] # Nothing /\ target[p].slot[1] = wanted[p].type

StillThere(p) == cloud[target[p].slot] # Nothing

(* After 5 s. *)
Rechecks(p) ==
    /\ pc[p] = "recheck"
    /\ Ends(p, IF StillThere(p) THEN "there" ELSE "gone") /\ UNCHANGED disturbed

-----------------------------------------------------------------------------

Init ==
    /\ file = NoImeis /\ known = [a \in Account |-> {}]
    /\ keys = NoKeys /\ cloud = NoKeys /\ net = {}
    /\ pc = [p \in Run |-> "idle"]
    /\ account = [p \in Run |-> Nothing] /\ imei = [p \in Run |-> Nothing]
    /\ read = [p \in Run |-> NoImeis] /\ wanted = [p \in Run |-> Nothing]
    /\ target = [p \in Run |-> NoTarget]
    /\ disturbed = FALSE /\ removed = {}

RunSteps(p) ==
    \/ \E a \in Account, what \in Asks[p] : Starts(p, a, what)
    \/ ImeiFound(p) \/ ImeiGenerated(p) \/ WriteBegins(p) \/ WriteEnds(p) \/ Killed(p)
    \/ Login(p) \/ Picks(p) \/ PicksNone(p) \/ Publishes(p) \/ Rechecks(p)

Next ==
    \/ \E p \in Run : RunSteps(p)
    \/ Somebody
    \/ \E s \in Slot : CloudCatchesUp(s)
    \/ \E m \in net : Executes(m) \/ Loses(m)

Spec == Init /\ [][Next]_vars

-----------------------------------------------------------------------------
(* Properties.                                                                *)

Commands == [token : Token, named : SUBSET Token]

(* Every variable has its type. *)
TypeOK ==
    /\ file \in [Account -> Imei \cup {Nothing}] \cup {Nothing}
    /\ known \in [Account -> SUBSET Imei]
    /\ keys \in [Slot -> Token \cup {Nothing}] /\ cloud \in [Slot -> Token \cup {Nothing}]
    /\ net \subseteq Commands /\ removed \subseteq Token /\ disturbed \in BOOLEAN
    /\ pc \in [Run -> Ended \cup {"cache", "write", "writing", "login", "list", "confirm", "recheck"}]
    /\ account \in [Run -> Account \cup {Nothing}] /\ imei \in [Run -> Imei \cup {Nothing}]
    /\ read \in [Run -> [Account -> Imei \cup {Nothing}]]
    /\ wanted \in [Run -> Criteria \cup {Nothing}]
    /\ target \in [Run -> [slot : Slot, token : Token, named : SUBSET Token] \cup {NoTarget}]

(* An account keeps the IMEI of its first run, and with it the one NFC key that *)
(* the cloud issues for it (docstring 15-18), whatever accounts take turns:     *)
(* unless first runs overlap in cached_imei or one is killed while it writes.   *)
OneImei == ~disturbed => \A a \in Account : Cardinality(known[a]) <= 1

(* A deletion is irreversible (213-214): what is sent to the lock removes the   *)
(* key that the user's --pin-id and --pin-type named alone in the list that     *)
(* was shown, though keys have come and gone and places have been given away    *)
(* since.                                                                      *)
RightKey == \A m \in net : m.named = {m.token}

(* When a run reports the deletion as confirmed (262) the key has been taken    *)
(* off the lock, though the list lags and the command may have been lost.       *)
ConfirmedGone == \A p \in Run : pc[p] = "gone" => target[p].token \in removed

=============================================================================
