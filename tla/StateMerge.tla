------------------------------ MODULE StateMerge ------------------------------
(***************************************************************************)
(* What Home Assistant shows of a door lock, and how it is put together     *)
(* from partial messages: _handle_relay_message with the extractors of      *)
(* protocol.py, the merges into coordinator.data, and the REST answers of   *)
(* setup and refresh (__init__.py) that meet the messages in any order.     *)
(*                                                                         *)
(* One lock, since everything is kept by tpId.  The relay is outside the    *)
(* repository: to a new observer it sends one message again, which has the  *)
(* header of the lock's latest and the union of all data seen so far        *)
(* (__init__.py 422-424).                                                   *)
(*                                                                         *)
(* A key is known by its slot <<pinType, pinId>> and named after its owner. *)
(* A slot that has come free may be given to another owner, as the lock     *)
(* gives pinIds away again.  Battery, signal strength and labels are left   *)
(* out.                                                                    *)
(***************************************************************************)
EXTENDS Naturals, Sequences

CONSTANTS
    Slot,      \* the keys a lock can hold, as <<pinType, pinId>>
    Owner,     \* who can have a key, by name
    None,      \* no key, nobody
    MaxMessages,   \* bound on the messages of a lock
    MaxQueue   \* bound on the messages between relay and client

ASSUME NoneAssumption == None \notin Slot \cup Owner
(* Every slot is a pair; no pin type is called like an access without a key. *)
ASSUME SlotAssumption == \A s \in Slot : s = <<s[1], s[2]>> /\ s[1] \notin {"SVR", "INDOOR", "AUTO"}
ASSUME OwnerAssumption == Owner \cap {"absent", "nameless"} = {}
ASSUME MaxMessagesAssumption == MaxMessages \in Nat \ {0}
ASSUME MaxQueueAssumption == MaxQueue \in Nat \ {0}

PinType == {s[1] : s \in Slot}
PinId == {s[2] : s \in Slot}

(* access of an IDPEVENT 622: a pin type, or how else the door was moved. *)
Access == PinType \cup {"SVR", "INDOOR", "AUTO"}

(* "flag" stands for the modes of _ATTR_FIELD_MAP; "away" is reported by 638  *)
(* only.                                                                      *)
Field == {"locked", "flag", "away"}
AttrField == {"locked", "flag"}

(* What a message, a REST list or the registry says of a key: nothing, that it *)
(* is there, or its name.                                                      *)
Levels == {"absent", "nameless"} \cup Owner

VARIABLES
    door,      \* the lock: its fields
    keys,      \* the lock and the cloud: the slots in use
    owner,     \* whose key a slot holds or, if it is free, held last
    stuck,     \* the bolt did not close: the lock's last 652, until its next 622
    sent,      \* the number of its messages so far
    cache,     \* the relay's retained message
    conn,      \* the client is connected and subscribed
    queue,     \* messages not handled yet
    shown,     \* coordinator.data: the fields
    jammed,    \* coordinator.data: jammed
    registry,  \* coordinator.data: pin_registry
    user,      \* coordinator.data: last_user_name
    rest,      \* where a refresh is: "none", "status", "listing" or "list"
    answer,    \* the answer it is about to use
    outdated,  \* ghost: fields where a REST answer older than the lock was merged, or a
               \* 638 was missed, and "jam" when a 652 or 622 was
    reused     \* ghost: slots given to another owner, see Fits

lockVars == <<door, keys, owner, stuck, sent>>
relayVars == <<cache, conn, queue>>
dataVars == <<shown, jammed, registry, user>>
restVars == <<rest, answer>>
ghostVars == <<outdated, reused>>
vars == <<lockVars, relayVars, dataVars, restVars, ghostVars>>

(* "lock" 622, "notice" 626, 628, 648, "jam" 652, "away" 638; "attr" anything   *)
(* else: an attribute group, an ACK, 660-662, whose flag is an attribute too.  *)
Kinds == {"attr", "lock", "notice", "jam", "away"}
Values == {"on", "off", "none"}

(* key and by are ghosts: the key that opened the door, and whose it was. *)
Message ==
    [kind : Kinds, fields : [Field -> Values], pins : [Slot -> Levels],
     access : Access \cup {"none"}, pin : PinId \cup {0},
     key : Slot \cup {None}, by : Owner \cup {None}]

Blank == [f \in Field |-> "none"]
NoPins == [s \in Slot |-> "absent"]
Nothing == [kind |-> "attr", fields |-> Blank, pins |-> NoPins,
            access |-> "none", pin |-> 0, key |-> None, by |-> None]

-----------------------------------------------------------------------------
(* Merging.                                                                 *)

(* Mutant: an entry of the patch takes the place of the known one. *)
BugMergePins(known, patch) ==
    [s \in Slot |-> IF patch[s] # "absent" THEN patch[s] ELSE known[s]]

(* _merge_pin_registry: field by field, a name that is missing keeps the old. *)
MergePins(known, patch) ==
    [s \in Slot |-> IF patch[s] \in Owner \/ known[s] = "absent" THEN patch[s] ELSE known[s]]

(* The owner known of key s, None if it has no name. *)
Name(known, s) == IF known[s] \in Owner THEN known[s] ELSE None

(* The keys an opening may be put down to: that of its access and pinId or,    *)
(* for one triggered remotely, any with the pinId (the registry's order).      *)
Openers(m, known) ==
    {s \in Slot : known[s] # "absent" /\ s[2] = m.pin /\ m.access \in {s[1], "SVR"}}

(* Mutant: a key is looked up by its pinId alone. *)
BugUsers(m, known) ==
    LET found == {s \in Slot : known[s] # "absent" /\ s[2] = m.pin} IN
    IF found = {} THEN {None} ELSE {Name(known, s) : s \in found}

(* Mutant: a name that is missing is shown as if it were one. *)
BugNameless(m, known) ==
    LET found == Openers(m, known) IN
    IF found = {} THEN {None} ELSE {known[s] : s \in found}

(* last_user_name after message m. *)
Users(m, known) ==
    LET found == Openers(m, known) IN
    IF found = {} THEN {None} ELSE {Name(known, s) : s \in found}

IsOpening(m) == m.kind = "lock" /\ m.fields["locked"] = "off"

(* Mutant: attributes are taken from attribute groups only. *)
BugPatched(m) ==
    {f \in Field : m.fields[f] # "none" /\
        (m.kind = "attr" \/ (m.kind = "lock" /\ f = "locked") \/ (m.kind = "away" /\ f = "away"))}

(* The fields that a message sets: attributes whatever its header says. *)
Patched(m) == {f \in Field : m.fields[f] # "none" /\ (f \in AttrField \/ m.kind = f)}

(* Mutant: only a lock that reports itself locked is not jammed any more. *)
BugJammedAfter(m) ==
    IF m.kind = "jam" THEN TRUE ELSE jammed /\ ~(m.kind = "lock" /\ m.fields["locked"] = "on")

(* 652 has no counterpart that ends it: the next 622 does. *)
JammedAfter(m) == IF m.kind = "jam" THEN TRUE ELSE jammed /\ m.kind # "lock"

(* Ghost: what a message says that no retained message with another header does. *)
JamNews(m) == IF m.kind \in {"jam", "lock"} THEN {"jam"} ELSE {}
OnlyIn(m) == JamNews(m) \cup ({m.kind} \cap {"away"})

(* Ghost: no name of another owner than the present, or latest, one of slot s. *)
Fits(level, s) == level \in {"absent", "nameless", owner[s]}

(* _handle_relay_message.  The registry is merged before it is asked; a        *)
(* relocking leaves alone who opened the door.                                 *)
HandleNext ==
    /\ conn /\ queue # <<>>
    /\ LET m == Head(queue)
           known == MergePins(registry, m.pins)
       IN /\ registry' = known
          /\ shown' = [f \in Field |-> IF f \in Patched(m) THEN m.fields[f] ELSE shown[f]]
          /\ outdated' = outdated \ (Patched(m) \cup JamNews(m))
          /\ jammed' = JammedAfter(m)
          /\ IF IsOpening(m) THEN user' \in Users(m, known) ELSE UNCHANGED user
    /\ queue' = Tail(queue)
    /\ UNCHANGED <<lockVars, cache, conn, restVars, reused>>

-----------------------------------------------------------------------------
(* REST: async_refresh_cloud_data and the seeding of a setup.               *)

NamedKeys == [s \in Slot |-> IF s \in keys THEN owner[s] ELSE "absent"]

(* The cloud answers; the answer is used only when the coroutine resumes. *)
CloudAnswersStatus ==
    /\ rest = "none"
    /\ rest' = "status" /\ answer' = door
    /\ UNCHANGED <<lockVars, relayVars, dataVars, ghostVars>>

CloudAnswersList ==
    /\ rest = "listing"
    /\ rest' = "list" /\ answer' = NamedKeys
    /\ UNCHANGED <<lockVars, relayVars, dataVars, ghostVars>>

MergesStatus ==
    /\ rest = "status"
    /\ rest' = "listing" /\ answer' = {}
    /\ shown' = answer
    /\ outdated' = {f \in Field : answer[f] # door[f]} \cup (outdated \cap {"jam"})
    /\ UNCHANGED <<lockVars, relayVars, jammed, registry, user, reused>>

(* _replace_pin_registry: keys that the list does not have are gone.  A list     *)
(* with the new owner settles a reused slot, unless older messages are to come.  *)
ReplacesRegistry ==
    /\ rest = "list"
    /\ rest' = "none" /\ answer' = {}
    /\ registry' = answer
    /\ reused' = {s \in reused : queue # <<>> \/ ~Fits(answer[s], s) \/ ~Fits(cache.pins[s], s)}
    /\ UNCHANGED <<lockVars, relayVars, shown, jammed, user, outdated>>

RefreshFails ==
    /\ rest # "none"
    /\ rest' = "none" /\ answer' = {}
    /\ UNCHANGED <<lockVars, relayVars, dataVars, ghostVars>>

(* A reload or a restart: state from REST, or from the entry's old snapshot of  *)
(* locked when the status could not be read, and a new client that is still to *)
(* connect.  A refresh of the generation before writes into a state that nobody*)
(* sees.                                                                       *)
Setup ==
    /\ conn' = FALSE /\ queue' = <<>>
    /\ LET jam == IF stuck THEN {"jam"} ELSE {} IN
       \/ shown' = door /\ registry' \in {NamedKeys, NoPins} /\ outdated' = jam
       \/ /\ shown' \in {[Blank EXCEPT !["locked"] = v] : v \in {"on", "off"}} /\ registry' = NoPins
          /\ outdated' = jam \cup {"away"}
    /\ jammed' = FALSE /\ user' = None
    /\ reused' = {s \in reused : ~Fits(cache.pins[s], s)}
    /\ rest' = "none" /\ answer' = {}
    /\ UNCHANGED <<lockVars, cache>>

-----------------------------------------------------------------------------
(* The lock and the relay (outside the repository).                         *)

(* The relay's union: the header of m, and m's data over those seen before. *)
Retain(m) ==
    [m EXCEPT !.fields = [f \in Field |-> IF m.fields[f] # "none" THEN m.fields[f] ELSE cache.fields[f]],
              !.pins = [s \in Slot |-> IF m.pins[s] # "absent" THEN m.pins[s] ELSE cache.pins[s]]]

(* The lock sends m. *)
Publish(m) ==
    /\ sent < MaxMessages /\ sent' = sent + 1
    /\ cache' = Retain(m)
    /\ IF conn
       THEN Len(queue) < MaxQueue /\ queue' = Append(queue, m) /\ UNCHANGED outdated
       ELSE outdated' = outdated \cup OnlyIn(m) /\ UNCHANGED queue
    /\ UNCHANGED <<conn, dataVars, restVars>>

Reports(f, v) == [Blank EXCEPT ![f] = v]

(* pinInfoXXX of one key, which an opening carries without the name or not at all. *)
PinInfos(s) == {NoPins, [NoPins EXCEPT ![s] = "nameless"]}

(* Opened with key s, by hand with its pin or remotely with its token. *)
OpenedWith(s) ==
    /\ s \in keys
    /\ door' = [door EXCEPT !["locked"] = "off"] /\ stuck' = FALSE
    /\ \E access \in {s[1], "SVR"}, pins \in PinInfos(s) :
           Publish([kind |-> "lock", fields |-> Reports("locked", "off"), pins |-> pins,
                    access |-> access, pin |-> s[2], key |-> s, by |-> owner[s]])
    /\ UNCHANGED <<keys, owner, reused>>

(* Opened from inside or locked again, with some pinId to fill the field. *)
MovedWithoutKey ==
    /\ stuck' = FALSE
    /\ \E v \in {"on", "off"}, pin \in PinId :
           /\ door' = [door EXCEPT !["locked"] = v]
           /\ Publish([Nothing EXCEPT !.kind = "lock", !.fields = Reports("locked", v), !.pin = pin,
                                      !.access = IF v = "on" THEN "AUTO" ELSE "INDOOR"])
    /\ UNCHANGED <<keys, owner, reused>>

DoorNotClosed ==
    /\ stuck' = TRUE
    /\ Publish([Nothing EXCEPT !.kind = "jam"])
    /\ UNCHANGED <<door, keys, owner, reused>>

(* A key for o in a free slot, be it o's old one or somebody else's. *)
KeyAdded(s, o) ==
    /\ s \notin keys /\ keys' = keys \cup {s}
    /\ owner' = [owner EXCEPT ![s] = o]
    /\ reused' = IF owner[s] \in {None, o} THEN reused ELSE reused \cup {s}
    /\ Publish([Nothing EXCEPT !.kind = "notice"])
    /\ UNCHANGED <<door, stuck>>

KeyRemoved(s) ==
    /\ s \in keys /\ keys' = keys \ {s}
    /\ Publish([Nothing EXCEPT !.kind = "notice"])
    /\ UNCHANGED <<door, owner, stuck, reused>>

ModeChanges(f) ==
    /\ \E v \in {"on", "off"} \ {door[f]} :
           /\ door' = [door EXCEPT ![f] = v]
           /\ Publish([Nothing EXCEPT !.kind = IF f = "away" THEN "away" ELSE "attr",
                                      !.fields = Reports(f, v)])
    /\ UNCHANGED <<keys, owner, stuck, reused>>

(* A full attribute group, with the names or without. *)
Dump ==
    /\ \E pins \in {NamedKeys, [s \in Slot |-> IF s \in keys THEN "nameless" ELSE "absent"]} :
           Publish([Nothing EXCEPT !.fields = [door EXCEPT !["away"] = "none"], !.pins = pins])
    /\ UNCHANGED <<door, keys, owner, stuck, reused>>

Connects ==
    /\ ~conn /\ conn' = TRUE
    /\ queue' = IF cache = Nothing THEN <<>> ELSE <<cache>>
    /\ UNCHANGED <<lockVars, cache, dataVars, restVars, ghostVars>>

Drops ==
    /\ conn /\ conn' = FALSE
    /\ queue' = <<>>
    /\ outdated' = outdated \cup UNION {OnlyIn(queue[i]) : i \in DOMAIN queue}
    /\ UNCHANGED <<lockVars, cache, dataVars, restVars, reused>>

-----------------------------------------------------------------------------

(* After a first setup that could read everything. *)
Init ==
    /\ door \in [Field -> {"on", "off"}] /\ stuck = FALSE /\ sent = 0
    /\ owner \in [Slot -> Owner \cup {None}] /\ keys = {s \in Slot : owner[s] # None}
    /\ cache = Nothing /\ conn = FALSE /\ queue = <<>>
    /\ shown = door /\ jammed = FALSE
    /\ registry = NamedKeys /\ user = None
    /\ rest = "none" /\ answer = {} /\ outdated = {} /\ reused = {}

LockActs ==
    \/ MovedWithoutKey \/ DoorNotClosed \/ Dump
    \/ \E s \in Slot : OpenedWith(s) \/ KeyRemoved(s) \/ \E o \in Owner : KeyAdded(s, o)
    \/ \E f \in {"flag", "away"} : ModeChanges(f)

RestActs == CloudAnswersStatus \/ CloudAnswersList \/ MergesStatus \/ ReplacesRegistry \/ RefreshFails

Next == HandleNext \/ Connects \/ Drops \/ Setup \/ RestActs \/ LockActs

Spec == Init /\ [][Next]_vars

-----------------------------------------------------------------------------
(* Properties.                                                              *)

(* Every variable has its type. *)
TypeOK ==
    /\ door \in [Field -> {"on", "off"}] /\ stuck \in BOOLEAN /\ sent \in 0 .. MaxMessages
    /\ owner \in [Slot -> Owner \cup {None}] /\ keys \subseteq {s \in Slot : owner[s] # None}
    /\ cache \in Message /\ conn \in BOOLEAN
    /\ Len(queue) <= MaxQueue /\ \A i \in DOMAIN queue : queue[i] \in Message
    /\ shown \in [Field -> Values] /\ jammed \in BOOLEAN
    /\ registry \in [Slot -> Levels]
    /\ user \in Owner \cup {None}
    /\ rest \in {"none", "status", "listing", "list"}
    /\ outdated \subseteq Field \cup {"jam"} /\ reused \subseteq Slot

(* A client that has read everything shows each field as the lock has it,      *)
(* though it missed messages while it was away and the relay's retained one    *)
(* has any header (422-435): unless a refresh has put an answer over it that   *)
(* was older than the last message, or a 638 was missed, which only a retained *)
(* 638 brings back, and nothing about the field has come since.                *)
SettledAgrees ==
    conn /\ queue = <<>> =>
        \A f \in Field \ outdated : cache.fields[f] # "none" => shown[f] = door[f]

(* A client that has read everything shows a lock as jammed exactly when the    *)
(* lock's own last word is a 652 (652 comment of extract_idpevent, 452-456),    *)
(* also when that word was missed and came back as the retained message's       *)
(* header.  Excepted, until the next 652 or 622 is read: one missed behind a    *)
(* later message, and a 652 from before a setup.                                *)
SettledJam == conn /\ queue = <<>> /\ "jam" \notin outdated => jammed = stuck

(* A step that handles a message. *)
Handles == conn /\ conn' /\ queue # <<>> /\ queue' = Tail(queue)

(* No other key with the pinId of opening m is known. *)
Unambiguous(m) ==
    \A s \in Slot \ {m.key} : s[2] = m.pin => registry[s] = "absent" /\ m.pins[s] = "absent"

ShownOpened ==
    LET m == Head(queue) IN
    /\ Handles /\ IsOpening(m)
    /\ m.key \notin reused /\ (m.access = "SVR" => Unambiguous(m))
    => user' \in {None, m.by}

(* Nobody is shown as the one who opened the door but the owner of the key that *)
(* did.  PinIds clash between pin types (463-471) and fill the field when there *)
(* was no key at all; the registry keeps deleted keys, and learns of others     *)
(* late.  Excepted are what the code cannot tell: remote openings with a pinId  *)
(* that another known key has, and slots that another owner has been given,     *)
(* until a refresh or a setup after that, with no older name still to come.     *)
NobodyElse == [][ShownOpened]_vars

KnownIsNamed ==
    LET m == Head(queue) IN
    \A s \in Slot : Handles /\ IsOpening(m) /\ registry[s] \in Owner /\ m.access = s[1] /\ m.pin = s[2]
        => user' \in {registry[s], m.pins[s]} \cap Owner

(* An opening with a key whose name is known shows that name, though its own    *)
(* message may bring the key without one (docstring of _merge_pin_registry).    *)
KnownAreNamed == [][KnownIsNamed]_vars

=============================================================================
