---------------------------- MODULE MCActivityGate ----------------------------
(* Instances of ActivityGate for TLC. *)
EXTENDS ActivityGate
=============================================================================
