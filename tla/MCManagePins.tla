----------------------------- MODULE MCManagePins -----------------------------
(* Instances of ManagePins for TLC. *)
EXTENDS ManagePins, TLC

CONSTANTS p1, p2

TwoTypes == {<<"RFC", 1>>, <<"NFC", 1>>}

(* One run deletes, a card or whatever has the pinId; the other lists. *)
OneDeletes == p1 :> {c \in Criteria : c.type \in {"RFC", Nothing}} @@ p2 :> {Nothing}

Symmetry == Permutations(Account) \cup Permutations(Imei) \cup Permutations(Token)

=============================================================================
