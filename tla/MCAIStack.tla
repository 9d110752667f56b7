----------------------------- MODULE MCAIStack -----------------------------
(* Instances of AIStack for TLC. *)
EXTENDS AIStack
=============================================================================
