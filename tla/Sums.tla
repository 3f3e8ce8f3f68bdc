-------------------------------- MODULE Sums --------------------------------
(* Sums over finite sets. *)
EXTENDS Integers, FiniteSets, FiniteSetsExt

SumOver(f, S) == MapThenSumSet(LAMBDA x : f[x], S)

=============================================================================
