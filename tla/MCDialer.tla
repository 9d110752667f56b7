------------------------------- MODULE MCDialer -------------------------------
(* Instances of Dialer for TLC. *)
EXTENDS Dialer, TLC

CONSTANTS j1, j2

\* One request with a batch of two leads.
OneBatch == [j \in Jobs |-> IF j = j1 THEN 0 ELSE 1]

Symmetry == Permutations(Instances) \cup Permutations(Loops) \cup Permutations(Workers)
=============================================================================
