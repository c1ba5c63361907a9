--------------------------- MODULE MCKeyLifecycle ---------------------------
(* Instances of KeyLifecycle for TLC. *)
EXTENDS KeyLifecycle, TLC

CONSTANTS l1, l2, c1, c2, c3

OneLock == [c \in Call |-> l1]

TwoLocks == c1 :> l1 @@ c2 :> l2

Symmetry == Permutations(Token) \cup Permutations(Call)

=============================================================================
