-------------------------- MODULE MCRocksDBProfileMap --------------------------
(* Instances of RocksDBProfileMap for TLC: which operations, on which keys,   *)
(* in which buckets.                                                          *)
EXTENDS RocksDBProfileMap, TLC

CONSTANTS a, b, c,        \* operations
          k1,             \* the key
          w1, w2          \* workers

Save == (a :> "save")
SaveGet == (a :> "save" @@ b :> "get")

\* A save, a get that may touch what it finds, and a remove: with all three on
\* one key, what a stale touch or an overtaken write needs.
SaveGetRemove == (a :> "save" @@ b :> "get" @@ c :> "remove")

WorkerSymmetry == Permutations(Workers)

OneKey == [o \in Ops |-> k1]

OneBucket == [k \in Keys |-> 0]

=============================================================================
