----------------------------- MODULE MCRecordLoader -----------------------------
(* Instances of RecordLoader for TLC. *)
EXTENDS RecordLoader
=============================================================================
