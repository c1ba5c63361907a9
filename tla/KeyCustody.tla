------------------------------ MODULE KeyCustody ------------------------------
(***************************************************************************)
(* What a relay client promises about Home Assistant's key, with neither    *)
(* tasks nor a mutex: it asks each lock at most once for the key in force,  *)
(* one request at a time, and uses no key that the lock was not asked to    *)
(* take or was not seen to hold.  RelayClient implements this as long as no *)
(* call is cancelled and no reset replaces a token behind a registration.   *)
(***************************************************************************)
CONSTANTS Lock, Token, NoToken, Requester

VARIABLES
    live,      \* a client exists that may use the connection
    token,     \* the key in force for each lock, NoToken without a client
    held,      \* locks that count as holding the key in force
    asking,    \* <<lock, requester>> pairs of requests that are not over
    trusted,   \* <<lock, token>> pairs the lock was asked to take or was seen to hold
    inUse      \* <<lock, token>> pairs in commands on their way

custodyVars == <<live, token, held, asking, trusted, inUse>>

Current(l) == <<l, token[l]>>

NoClient ==
    /\ live = FALSE
    /\ token = [l \in Lock |-> NoToken]
    /\ held = {} /\ asking = {} /\ trusted = {} /\ inUse = {}

(* A client is built, with the locks whose key was found to be there already. *)
Start(toks, found) ==
    /\ ~live /\ live' = TRUE
    /\ token' = toks
    /\ held' = found
    /\ trusted' = {<<l, toks[l]>> : l \in found}
    /\ UNCHANGED <<asking, inUse>>

(* It is stopped or dies. *)
End == live /\ NoClient'

Ask(l, r) ==
    /\ live /\ l \notin held /\ Current(l) \notin trusted
    /\ \A q \in Requester : <<l, q>> \notin asking
    /\ asking' = asking \cup {<<l, r>>}
    /\ trusted' = trusted \cup {Current(l)}
    /\ UNCHANGED <<live, token, held, inUse>>

(* The lock has answered or not in time.  The command that was waiting for it  *)
(* goes out at once, or there was none.                                        *)
Hold(l, r) ==
    /\ live /\ <<l, r>> \in asking
    /\ asking' = asking \ {<<l, r>>}
    /\ held' = held \cup {l}
    /\ inUse' \in {inUse, inUse \cup {Current(l)}}
    /\ UNCHANGED <<live, token, trusted>>

(* The key k is seen on the lock: it is the one in force from now on, unless a  *)
(* key is held already.                                                         *)
Learn(l, k) ==
    /\ live
    /\ token' \in {token, [token EXCEPT ![l] = k]}
    /\ token'[l] = k \/ l \in held
    /\ held' = held \cup {l}
    /\ trusted' = trusted \cup {<<l, k>>}
    /\ UNCHANGED <<live, asking, inUse>>

Use(l) ==
    /\ live /\ l \in held /\ Current(l) \in trusted
    /\ inUse' = inUse \cup {Current(l)}
    /\ UNCHANGED <<live, token, held, asking, trusted>>

(* A command has done its work. *)
Done ==
    /\ \E key \in inUse : inUse' = inUse \ {key}
    /\ UNCHANGED <<live, token, held, asking, trusted>>

CustodyNext ==
    \/ \E toks \in [Lock -> Token], found \in SUBSET Lock : Start(toks, found)
    \/ End \/ Done
    \/ \E l \in Lock : \/ Use(l)
                       \/ \E r \in Requester : Ask(l, r) \/ Hold(l, r)
                       \/ \E k \in Token : Learn(l, k)

CustodySpec == NoClient /\ [][CustodyNext]_custodyVars

=============================================================================
