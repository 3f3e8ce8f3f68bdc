----------------------------- MODULE MCAsyncMutex -----------------------------
(* Instances of AsyncMutex for TLC. *)
EXTENDS AsyncMutex
=============================================================================
