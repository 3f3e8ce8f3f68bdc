----------------------------- MODULE BatchingQueue -----------------------------
(***************************************************************************)
(* What RocksDBBatchingProcessorQueue takes out of its buckets.  An entry  *)
(* is [op, type, key, val, stamp]: the operation, with its enqueue_time.   *)
(* A queue is a set of entries.  The entries of one kind (read or write)   *)
(* and one key are a group, whose enqueue_time is its earliest stamp; the  *)
(* groups of a bucket are kept in that order.                              *)
(***************************************************************************)
EXTENDS Integers, FiniteSets, FiniteSetsExt

CONSTANTS Keys,
          Bucket,        \* hash(key) % enqueue_buckets_.size(), for each key
          BucketCount,   \* enqueue_buckets_.size()
          BatchSize      \* batch_size_

ASSUME BatchingQueueAssumption ==
  /\ BucketCount \in Nat \ {0}
  /\ BatchSize \in Nat \ {0}
  /\ Bucket \in [Keys -> 0 .. BucketCount - 1]

IsWrite(e) == e.type \in {"touch", "save", "remove"}

Group(q, write, k) == {e \in q : e.key = k /\ IsWrite(e) = write}

Stamps(S) == {e.stamp : e \in S}

GroupTime(q, write, k) == Min(Stamps(Group(q, write, k)))

\* Mutant: a write group does not wait for the reads of its key.
KeyFreeOfWrites(inRead, inWrite, write, k) == inWrite[k] = 0

\* A read waits for the writes of its key in flight, a write for everything.
KeyFree(inRead, inWrite, write, k) ==
  inWrite[k] = 0 /\ (write => inRead[k] = 0)

\* The keys whose group find_ready_group_i_() and collect_from_queue_i_() accept.
ReadyKeys(q, inRead, inWrite, write) ==
  {k \in Keys : Group(q, write, k) # {} /\ KeyFree(inRead, inWrite, write, k)}

\* How many buckets after next_bucket_index_ the bucket of k is visited.
Offset(next, k) == (Bucket[k] + BucketCount - next) % BucketCount

\* The first bucket with a ready group decides whether reads or writes are
\* collected: its earliest ready write group, unless a ready read group is older.
SelectWrites(q, inRead, inWrite, next) ==
  LET writes == ReadyKeys(q, inRead, inWrite, TRUE)
      reads  == ReadyKeys(q, inRead, inWrite, FALSE)
      first  == Min({Offset(next, k) : k \in writes \cup reads})
      oldest(write, ks) ==
        Min({GroupTime(q, write, k) : k \in {j \in ks : Offset(next, j) = first}})
      inFirst(ks) == \E k \in ks : Offset(next, k) = first
  IN  /\ inFirst(writes)
      /\ inFirst(reads) => oldest(TRUE, writes) <= oldest(FALSE, reads)

\* The order in which groups are visited: by bucket, then by enqueue_time.
Before(q, write, next, j, k) ==
  \/ Offset(next, j) < Offset(next, k)
  \/ /\ Offset(next, j) = Offset(next, k)
     /\ GroupTime(q, write, j) < GroupTime(q, write, k)

\* The first BatchSize ready groups of the selected kind.
SelectedKeys(q, inRead, inWrite, write, next) ==
  LET ready == ReadyKeys(q, inRead, inWrite, write)
  IN  {k \in ready :
         Cardinality({j \in ready : Before(q, write, next, j, k)}) < BatchSize}

\* next_bucket_index_: behind the last bucket that gave something.
NextBucket(next, ks) ==
  (next + Max({Offset(next, k) : k \in ks}) + 1) % BucketCount

\* Mutant: the newest write wins, a touch like any other.
LatestOfAll(group) == CHOOSE e \in group : e.stamp = Max(Stamps(group))

\* enqueue_operations_i_() keeps the write that shall win at the end of its
\* group, and process_write_batch_() takes the last one that is not a touch: the
\* newest save or remove or, without any, the newest touch.
Latest(group) ==
  LET real == {e \in group : e.type # "touch"}
      from == IF real # {} THEN real ELSE group
  IN  CHOOSE e \in from : e.stamp = Max(Stamps(from))

=============================================================================
