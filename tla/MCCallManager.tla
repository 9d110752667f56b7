---------------------------- MODULE MCCallManager ----------------------------
(* Instances of CallManager for TLC. *)
EXTENDS CallManager, TLC

Symmetry == Permutations(Clients) \cup Permutations(Devices) \cup Permutations(Relays)
=============================================================================
