---------------------------- MODULE MCEmbeddedRelay ----------------------------
(* Instances of EmbeddedRelay for TLC. *)
EXTENDS EmbeddedRelay, TLC

Symmetry == Permutations(Entry) \cup Permutations(Relay)

=============================================================================
