------------------------------- MODULE Clients -------------------------------
(***************************************************************************)
(* Who asks for a lock or a transaction: threads, which block, and         *)
(* coroutines, which suspend and can be destroyed while they wait.         *)
(***************************************************************************)

CONSTANTS Threads, Coros

Clients == Threads \cup Coros

=============================================================================
