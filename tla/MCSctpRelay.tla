----------------------------- MODULE MCSctpRelay -----------------------------
(* Instances of SctpRelay for TLC. *)
EXTENDS SctpRelay, TLC

Symmetry == Permutations(Endpoints) \cup Permutations(Conns) \cup Permutations(Dialers)
=============================================================================
