------------------------ MODULE MCTransactionProfileMap ------------------------
(* Instances of TransactionProfileMap for TLC. *)
EXTENDS TransactionProfileMap
=============================================================================
