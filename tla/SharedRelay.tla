------------------------------ MODULE SharedRelay ------------------------------
(***************************************************************************)
(* What the embedded relay is to the config entries that use it: one        *)
(* service that the first of them starts and the last of them stops, and    *)
(* that is gone, process and ports, before it is started again.             *)
(* EmbeddedRelay implements it; RelayChoice uses it.                        *)
(***************************************************************************)
CONSTANT Entry

VARIABLES
    service,   \* "down", "starting", "up", "stopping", or "over" with Home Assistant
    members,   \* the entries that use it
    alive      \* a process of it exists

sharedVars == <<service, members, alive>>

Down == service = "down" /\ members = {} /\ alive = FALSE

(* The first entry finds no relay. *)
Starts ==
    /\ service = "down" /\ service' = "starting"
    /\ UNCHANGED <<members, alive>>

Serves(e) ==
    /\ service = "starting" /\ alive
    /\ service' = "up" /\ members' = {e}
    /\ UNCHANGED alive

(* Nothing of a start that failed is left. *)
StartFails ==
    /\ service = "starting" /\ ~alive
    /\ service' = "down"
    /\ UNCHANGED <<members, alive>>

Joins(e) ==
    /\ service = "up"
    /\ members' = members \cup {e}
    /\ UNCHANGED <<service, alive>>

Leaves(e) ==
    /\ service = "up" /\ members \ {e} # {}
    /\ members' = members \ {e}
    /\ UNCHANGED <<service, alive>>

LastLeaves(e) ==
    /\ service = "up" /\ members \ {e} = {}
    /\ service' = "stopping" /\ members' = {}
    /\ UNCHANGED alive

(* Only then may the next start begin. *)
Stopped ==
    /\ service = "stopping" /\ ~alive
    /\ service' = "down"
    /\ UNCHANGED <<members, alive>>

(* The process comes up or ends, at a start, by itself or by the supervisor's   *)
(* hand; once the service is being stopped it only ends.                        *)
ProcessComes ==
    /\ service \in {"starting", "up"} /\ ~alive
    /\ alive' = TRUE
    /\ UNCHANGED <<service, members>>

ProcessEnds ==
    /\ alive /\ alive' = FALSE
    /\ UNCHANGED <<service, members>>

(* Home Assistant stops; what becomes of the process is not said here.  *)
Over ==
    /\ service # "over" /\ service' = "over"
    /\ members' = {} /\ alive' = FALSE

SharedNext ==
    \/ Starts \/ StartFails \/ Stopped \/ ProcessComes \/ ProcessEnds \/ Over
    \/ \E e \in Entry : Serves(e) \/ Joins(e) \/ Leaves(e) \/ LastLeaves(e)

SharedSpec == Down /\ [][SharedNext]_sharedVars

=============================================================================
