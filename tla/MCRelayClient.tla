---------------------------- MODULE MCRelayClient ----------------------------
(* Instances of RelayClient for TLC: which lock each call slot works on, and *)
(* the symmetries between slots and between tokens.                          *)
EXTENDS RelayClient, TLC

CONSTANTS l1, l2, c1, c2, c3

OneLock == [c \in Call |-> l1]

TwoLocks == c1 :> l1 @@ c2 :> l2

Symmetry == Permutations(Token) \cup Permutations(Call)

TokenSymmetry == Permutations(Token)

=============================================================================
