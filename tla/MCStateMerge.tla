---------------------------- MODULE MCStateMerge ----------------------------
(* An instance of StateMerge for TLC: two slots of different types that share *)
(* a pinId.                                                                   *)
EXTENDS StateMerge, TLC

CONSTANTS RFC, FGP

TwoSlots == {<<RFC, 1>>, <<FGP, 1>>}

(* Nothing in StateMerge tells one owner, or one pin type, from another. *)
Alike == Permutations(Owner) \cup Permutations({RFC, FGP})

(* A locked door with its modes on, to save states: every field changes by itself. *)
LockedFirst == Init /\ door = [f \in Field |-> "on"]

LockedSpec == LockedFirst /\ [][Next]_vars

=============================================================================
