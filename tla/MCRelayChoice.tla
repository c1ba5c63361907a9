---------------------------- MODULE MCRelayChoice ----------------------------
(* Instances of RelayChoice for TLC. *)
EXTENDS RelayChoice, TLC

CONSTANTS e1, e2, a, b, far

(* One user changes the settings of the embedded relay, too. *)
MCForms == (e1 :> {External(Local), Embedded(a), Embedded(b)}) @@ (e2 :> {External(far), Embedded(b)})

MCOneUser == e1 :> {External(Local), Embedded(a)}

=============================================================================
