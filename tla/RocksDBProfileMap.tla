--------------------------- MODULE RocksDBProfileMap ---------------------------
(***************************************************************************)
(* RocksDBBatchingProfileMapImpl with its RocksDBBatchingProcessorQueue    *)
(* and RocksDBProfileMapProcessor.  Callers submit operations through the  *)
(* submission gate (what ActivityGate promises) into the queue; workers    *)
(* take batches of them out, run them against the database and call the    *)
(* callbacks; the owner closes the map and waits for it.  The steps are    *)
(* the accesses to the atomics of the queue and the critical sections of   *)
(* its state_lock_ and of the processor's ready_lock_.  One map is shown;  *)
(* the processor is its own, or shared with maps that are not shown.       *)
(***************************************************************************)
EXTENDS BatchingQueue

CONSTANTS Ops,            \* the operations of the callers, each submitted once
          OpType,         \* "get", "check", "save" or "remove"
          OpKey,
          Workers,
          Delayed,        \* max_delay_ is not zero
          OwnsProcessor,  \* owns_processor_
          Failures,       \* the database may report errors
          Owner,          \* the thread that activated the map
          NoOne,          \* state_lock_ is free
          Absent,         \* no profile
          Pending         \* no result yet

ASSUME ProfileMapAssumption ==
  /\ IsFiniteSet(Ops) /\ IsFiniteSet(Workers)
  /\ OpType \in [Ops -> {"get", "check", "save", "remove"}]
  /\ OpKey \in [Ops -> Keys]
  /\ {Delayed, OwnsProcessor, Failures} \subseteq BOOLEAN
  /\ NoOne \notin Workers
  /\ Pending \notin Ops \cup {Absent, "ok", "error", "found", "missing"}
  /\ Owner \notin Ops \cup Workers /\ Ops \cap Workers = {}

VARIABLES
  open,        \* submission_gate_ lets submissions in
  queue,       \* the operations in the enqueue buckets
  next,        \* next_bucket_index_
  pending,     \* pending_operations_
  published,   \* ready_published_
  inRead,      \* in_flight_read_keys_
  inWrite,     \* in_flight_write_keys_
  active,      \* active_workers_
  stateLock,   \* who holds state_lock_ across steps
  ready,       \* the map in ready_: "no", "later" (ready_time ahead) or "now"
  registered,  \* the map is in registrations_
  stopping,    \* the processor's stopping_
  db,          \* the RocksDB column family
  clock,       \* time of day, as the number of enqueue() calls so far
  spc,         \* where each submission is
  wpc,         \* where each worker is
  opc,         \* where the owner is
  stamp,       \* enqueue_time the actor has taken
  forced,      \* actors whose request_ready_i_() is a force_update
  claim,       \* the ReadyState an actor is about to apply, "none" if none
  batch,       \* the batch of each worker
  touches,     \* touch operations a worker is enqueuing
  result,      \* what the callback of each operation is told
  calls,       \* how often each callback was called
  before       \* submissions that had returned when this one began (history)

queueVars == <<queue, next, pending, published, inRead, inWrite>>
readyVars == <<ready, registered, stopping>>
callVars  == <<result, calls, before>>
vars == <<open, queueVars, active, stateLock, readyVars, db, clock, spc, wpc,
          opc, stamp, forced, claim, batch, touches, callVars>>

Actors == Ops \cup Workers \cup {Owner}

Init ==
  /\ open = TRUE
  /\ queue = {} /\ next = 0 /\ pending = 0 /\ published = FALSE
  /\ inRead = [k \in Keys |-> 0] /\ inWrite = [k \in Keys |-> 0]
  /\ active = 0
  /\ stateLock = NoOne
  /\ ready = "no" /\ registered = TRUE /\ stopping = FALSE
  /\ db = [k \in Keys |-> Absent]
  /\ clock = 0
  /\ spc = [o \in Ops |-> "new"]
  /\ wpc = [w \in Workers |-> "loop"]
  /\ opc = "running"
  /\ stamp = [a \in Actors |-> 0]
  /\ forced = {}
  /\ claim = [a \in Actors |-> "none"]
  /\ batch = [w \in Workers |-> {}]
  /\ touches = [w \in Workers |-> {}]
  /\ result = [o \in Ops |-> Pending]
  /\ calls = [o \in Ops |-> 0]
  /\ before = [o \in Ops |-> {}]

-----------------------------------------------------------------------------
(* The ready index of the processor *)

Sleeping == {w \in Workers : wpc[w] \in {"asleep", "timed"}}

\* The places the workers may be at when one of them has been notified.
NotifyOne(pcs) ==
  IF Sleeping = {} THEN {pcs} ELSE {[pcs EXCEPT ![w] = "loop"] : w \in Sleeping}

\* operation_ready_time_i_(): a full batch, or a map without delay, is due.
ReadyTime(n) == IF ~Delayed \/ n >= BatchSize THEN "now" ELSE "later"

\* request_ready_i_(has, force): publish, and make a ReadyState when the map was
\* not published yet or force asks for a new one.
RequestReady(a, n, force) ==
  /\ published' = (published \/ n # 0)
  /\ claim' = [claim EXCEPT ![a] =
                 IF n # 0 /\ (~published \/ force) THEN ReadyTime(n) ELSE "none"]

\* apply_ready_(): the entry of the map in ready_ moves forward, never back.
Indexed(state) ==
  IF state = "now" \/ ready = "no" THEN state ELSE ready

\* apply_ready_() and the notify_one() that follows when it returns true; pcs is
\* where the workers are otherwise.
ApplyReady(a, pcs) ==
  LET state   == claim[a]
      applied == state # "none" /\ registered
  IN  /\ ready' = IF applied THEN Indexed(state) ELSE ready
      /\ wpc' \in IF applied /\ Indexed(state) # ready THEN NotifyOne(pcs) ELSE {pcs}
      /\ claim' = [claim EXCEPT ![a] = "none"]
      /\ UNCHANGED <<registered, stopping>>

-----------------------------------------------------------------------------
(* RocksDBBatchingProcessorQueue::enqueue(), for one submitting actor *)

\* enqueue_time is read and pending_operations_ grows by n.
AddPending(a, n) ==
  /\ stamp' = [stamp EXCEPT ![a] = clock]
  /\ clock' = clock + 1
  /\ pending' = pending + n
  /\ LET fills == Delayed /\ pending < BatchSize /\ pending + n >= BatchSize
     IN  forced' = IF pending = 0 \/ fills THEN forced \cup {a} ELSE forced

(* A submission: *_profile_async() and enqueue_async_operation_(). *)

Entry(o) == [op |-> o, type |-> OpType[o], key |-> OpKey[o], val |-> o,
             stamp |-> stamp[o]]

Returned == {o \in Ops : spc[o] = "submitted"}

\* check_background_error_() passes and the gate is open.  A background error
\* closes the gate, so that open stands for both.
Enter(o) ==
  /\ spc[o] = "new"
  /\ open
  /\ spc' = [spc EXCEPT ![o] = "entered"]
  /\ before' = [before EXCEPT ![o] = Returned]
  /\ UNCHANGED <<open, queueVars, active, stateLock, readyVars, db, clock, wpc,
                 opc, stamp, forced, claim, batch, touches, result, calls>>

\* The operation is failed through its callback, on the caller's thread.
Refuse(o) ==
  /\ spc[o] = "new"
  /\ ~open
  /\ spc' = [spc EXCEPT ![o] = "refused"]
  /\ result' = [result EXCEPT ![o] = "error"]
  /\ calls' = [calls EXCEPT ![o] = @ + 1]
  /\ UNCHANGED <<open, queueVars, active, stateLock, readyVars, db, clock, wpc,
                 opc, stamp, forced, claim, batch, touches, before>>

CountOp(o) ==
  /\ spc[o] = "entered"
  /\ AddPending(o, 1)
  /\ spc' = [spc EXCEPT ![o] = "counted"]
  /\ UNCHANGED <<open, queue, next, published, inRead, inWrite, active, stateLock,
                 readyVars, db, wpc, opc, claim, batch, touches, callVars>>

InsertOp(o) ==
  /\ spc[o] = "counted"
  /\ queue' = queue \cup {Entry(o)}
  /\ stamp' = [stamp EXCEPT ![o] = 0]
  /\ spc' = [spc EXCEPT ![o] = "inserted"]
  /\ UNCHANGED <<open, next, pending, published, inRead, inWrite, active, stateLock,
                 readyVars, db, clock, wpc, opc, forced, claim, batch, touches,
                 callVars>>

\* request_ready_i_(true, ...): whatever pending_operations_ is by now.
RequestOp(o) ==
  /\ spc[o] = "inserted"
  /\ published' = TRUE
  /\ claim' = [claim EXCEPT ![o] =
                 IF ~published \/ o \in forced THEN ReadyTime(pending) ELSE "none"]
  /\ forced' = forced \ {o}
  /\ spc' = [spc EXCEPT ![o] = "requested"]
  /\ UNCHANGED <<open, queue, next, pending, inRead, inWrite, active, stateLock,
                 readyVars, db, clock, wpc, opc, stamp, batch, touches, callVars>>

\* apply_ready_(), and then the guard of the gate is dropped.
ApplyOp(o) ==
  /\ spc[o] = "requested"
  /\ ApplyReady(o, wpc)
  /\ spc' = [spc EXCEPT ![o] = "submitted"]
  /\ UNCHANGED <<open, queueVars, active, stateLock, db, clock, opc, stamp, forced,
                 batch, touches, callVars>>

-----------------------------------------------------------------------------
(* worker_loop_() and pop_batch_() *)

Goto(w, place) == wpc' = [wpc EXCEPT ![w] = place]

\* Nothing is ready: sleep, or end when the processor stops.
Idle(w) ==
  /\ wpc[w] = "loop"
  /\ ready = "no"
  /\ Goto(w, IF stopping THEN "exit" ELSE "asleep")
  /\ UNCHANGED <<open, queueVars, active, stateLock, readyVars, db, clock, spc, opc,
                 stamp, forced, claim, batch, touches, callVars>>

\* The first map is not due: wait_until(ready_time).
WaitUntil(w) ==
  /\ wpc[w] = "loop"
  /\ ready = "later" /\ ~stopping
  /\ Goto(w, "timed")
  /\ UNCHANGED <<open, queueVars, active, stateLock, readyVars, db, clock, spc, opc,
                 stamp, forced, claim, batch, touches, callVars>>

TimePasses ==
  /\ ready = "later"
  /\ ready' = "now"
  /\ wpc' = [w \in Workers |-> IF wpc[w] = "timed" THEN "loop" ELSE wpc[w]]
  /\ UNCHANGED <<open, queueVars, active, stateLock, registered, stopping, db, clock,
                 spc, opc, stamp, forced, claim, batch, touches, callVars>>

\* The map is taken out of ready_ and, still under ready_lock_, start_batch().
StartBatch(w) ==
  /\ wpc[w] = "loop"
  /\ ready = "now" \/ (ready = "later" /\ stopping)
  /\ active' = active + 1
  /\ ready' = "no"
  /\ Goto(w, "selected")
  /\ UNCHANGED <<open, queueVars, stateLock, registered, stopping, db, clock, spc,
                 opc, stamp, forced, claim, batch, touches, callVars>>

(* collect_batch(), under state_lock_ *)

CollectBegin(w) ==
  /\ wpc[w] = "selected"
  /\ stateLock = NoOne
  /\ published' = FALSE
  /\ IF pending = 0
       THEN /\ Goto(w, "finishing")
            /\ UNCHANGED stateLock
       ELSE /\ Goto(w, "collecting")
            /\ stateLock' = w
  /\ UNCHANGED <<open, queue, next, pending, inRead, inWrite, active, readyVars, db,
                 clock, spc, opc, stamp, forced, claim, batch, touches, callVars>>

Count(S, k) == Cardinality({e \in S : e.key = k})

\* What collect_batch_i_() moves from the buckets to the batch.
Collected ==
  LET write == SelectWrites(queue, inRead, inWrite, next)
      ks    == SelectedKeys(queue, inRead, inWrite, write, next)
  IN  UNION {Group(queue, write, k) : k \in ks}

SomeReady == \E write \in BOOLEAN : ReadyKeys(queue, inRead, inWrite, write) # {}

Scan(w) ==
  /\ wpc[w] = "collecting"
  /\ SomeReady
  /\ LET taken == Collected
         write == \E e \in taken : IsWrite(e)
     IN  /\ queue' = queue \ taken
         /\ batch' = [batch EXCEPT ![w] = taken]
         /\ next' = NextBucket(next, {e.key : e \in taken})
         /\ inWrite' = [k \in Keys |-> inWrite[k] + IF write THEN Count(taken, k) ELSE 0]
         /\ inRead' = [k \in Keys |-> inRead[k] + IF write THEN 0 ELSE Count(taken, k)]
  /\ Goto(w, "scanned")
  /\ UNCHANGED <<open, pending, published, active, stateLock, readyVars, db, clock,
                 spc, opc, stamp, forced, claim, touches, callVars>>

\* Every group waits for its key, or the operation counted is not inserted yet:
\* nothing is published, whoever completes or enqueues next will do it.
ScanNothing(w) ==
  /\ wpc[w] = "collecting"
  /\ ~SomeReady
  /\ stateLock' = NoOne
  /\ Goto(w, "finishing")
  /\ UNCHANGED <<open, queueVars, active, readyVars, db, clock, spc, opc, stamp,
                 forced, claim, batch, touches, callVars>>

CollectSub(w) ==
  /\ wpc[w] = "scanned"
  /\ pending' = pending - Cardinality(batch[w])
  /\ Goto(w, "subtracted")
  /\ UNCHANGED <<open, queue, next, published, inRead, inWrite, active, stateLock,
                 readyVars, db, clock, spc, opc, stamp, forced, claim, batch,
                 touches, callVars>>

CollectEnd(w) ==
  /\ wpc[w] = "subtracted"
  /\ RequestReady(w, pending, FALSE)
  /\ stateLock' = NoOne
  /\ Goto(w, "collected")
  /\ UNCHANGED <<open, queue, next, pending, inRead, inWrite, active, readyVars, db,
                 clock, spc, opc, stamp, forced, batch, touches, callVars>>

ApplyCollected(w) ==
  /\ wpc[w] = "collected"
  /\ ApplyReady(w, [wpc EXCEPT ![w] = "processing"])
  /\ UNCHANGED <<open, queueVars, active, stateLock, db, clock, spc, opc, stamp,
                 forced, batch, touches, callVars>>

-----------------------------------------------------------------------------
(* process_batch_() *)

WriteBatch(w) == \E e \in batch[w] : IsWrite(e)

BatchKeys(w) == {e.key : e \in batch[w]}

BatchOps(w) == {e.op : e \in {f \in batch[w] : f.type # "touch"}}

ReadValue(o) ==
  IF OpType[o] = "get" THEN db[OpKey[o]]
  ELSE IF db[OpKey[o]] = Absent THEN "missing" ELSE "found"

\* should_touch_ttl() is left open: it depends on the age of the profile.
Touchable(w, bad) ==
  {k \in BatchKeys(w) \ bad :
     db[k] # Absent /\ \E e \in batch[w] : e.key = k /\ e.type = "get"}

\* process_read_batch_() up to the callbacks: MultiGet, with an error for the
\* keys in bad, and the choice of the profiles to touch.  When the gate is shut
\* the touches are dropped.
ReadBatch(w, bad, touch) ==
  /\ wpc[w] = "processing"
  /\ ~WriteBatch(w)
  /\ touch \subseteq Touchable(w, bad)
  /\ result' = [o \in Ops |->
                  IF o \notin BatchOps(w) THEN result[o]
                  ELSE IF OpKey[o] \in bad THEN "error" ELSE ReadValue(o)]
  /\ LET kept == IF open THEN touch ELSE {}
     IN  /\ touches' = [touches EXCEPT ![w] = {<<k, db[k]>> : k \in kept}]
         /\ Goto(w, IF kept = {} THEN "answering" ELSE "touching")
  /\ UNCHANGED <<open, queueVars, active, stateLock, readyVars, db, clock, spc, opc,
                 stamp, forced, claim, batch, calls, before>>

(* enqueue_operations_() of the touches, through the gate *)

CountTouches(w) ==
  /\ wpc[w] = "touching"
  /\ AddPending(w, Cardinality(touches[w]))
  /\ Goto(w, "inserting")
  /\ UNCHANGED <<open, queue, next, published, inRead, inWrite, active, stateLock,
                 readyVars, db, spc, opc, claim, batch, touches, callVars>>

TouchEntry(w, t) == [op |-> w, type |-> "touch", key |-> t[1], val |-> t[2],
                     stamp |-> stamp[w]]

InsertTouch(w, t) ==
  /\ wpc[w] = "inserting"
  /\ t \in touches[w]
  /\ queue' = queue \cup {TouchEntry(w, t)}
  /\ touches' = [touches EXCEPT ![w] = @ \ {t}]
  /\ UNCHANGED <<open, next, pending, published, inRead, inWrite, active, stateLock,
                 readyVars, db, clock, spc, wpc, opc, stamp, forced, claim, batch,
                 callVars>>

RequestTouches(w) ==
  /\ wpc[w] = "inserting"
  /\ touches[w] = {}
  /\ published' = TRUE
  /\ claim' = [claim EXCEPT ![w] =
                 IF ~published \/ w \in forced THEN ReadyTime(pending) ELSE "none"]
  /\ forced' = forced \ {w}
  /\ stamp' = [stamp EXCEPT ![w] = 0]
  /\ Goto(w, "requested")
  /\ UNCHANGED <<open, queue, next, pending, inRead, inWrite, active, stateLock,
                 readyVars, db, clock, spc, opc, batch, touches, callVars>>

ApplyTouches(w) ==
  /\ wpc[w] = "requested"
  /\ ApplyReady(w, [wpc EXCEPT ![w] = "answering"])
  /\ UNCHANGED <<open, queueVars, active, stateLock, db, clock, spc, opc, stamp,
                 forced, batch, touches, callVars>>

\* process_write_batch_(): one write per key, in one rocksdb::WriteBatch.
Winner(w, k) == Latest(Group(batch[w], TRUE, k))

WriteOk(w) ==
  /\ wpc[w] = "processing"
  /\ WriteBatch(w)
  /\ db' = [k \in Keys |->
              IF k \notin BatchKeys(w) THEN db[k]
              ELSE IF Winner(w, k).type = "remove" THEN Absent ELSE Winner(w, k).val]
  /\ result' = [o \in Ops |-> IF o \in BatchOps(w) THEN "ok" ELSE result[o]]
  /\ Goto(w, "answering")
  /\ UNCHANGED <<open, queueVars, active, stateLock, readyVars, clock, spc, opc,
                 stamp, forced, claim, batch, touches, calls, before>>

\* The write fails: set_background_error_() shuts the gate, and then the
\* callbacks are told.
WriteFails(w) ==
  /\ Failures
  /\ wpc[w] = "processing"
  /\ WriteBatch(w)
  /\ open' = FALSE
  /\ result' = [o \in Ops |-> IF o \in BatchOps(w) THEN "error" ELSE result[o]]
  /\ Goto(w, "answering")
  /\ UNCHANGED <<queueVars, active, stateLock, readyVars, db, clock, spc, opc, stamp,
                 forced, claim, batch, touches, calls, before>>

\* The callbacks of the batch, one after the other on the worker's thread.
CallBack(w) ==
  /\ wpc[w] = "answering"
  /\ calls' = [o \in Ops |-> calls[o] + IF o \in BatchOps(w) THEN 1 ELSE 0]
  /\ Goto(w, "completing")
  /\ UNCHANGED <<open, queueVars, active, stateLock, readyVars, db, clock, spc, opc,
                 stamp, forced, claim, batch, touches, result, before>>

-----------------------------------------------------------------------------
(* complete_batch_() *)

\* Mutant: what waited for the keys of the batch is not made ready.
CompleteBatchQuietly(w) ==
  /\ wpc[w] = "completing"
  /\ stateLock = NoOne
  /\ LET done(k, write) == IF WriteBatch(w) = write THEN Count(batch[w], k) ELSE 0
     IN  /\ inWrite' = [k \in Keys |-> inWrite[k] - done(k, TRUE)]
         /\ inRead' = [k \in Keys |-> inRead[k] - done(k, FALSE)]
  /\ batch' = [batch EXCEPT ![w] = {}]
  /\ Goto(w, "completed")
  /\ UNCHANGED <<open, queue, next, pending, published, active, stateLock, readyVars,
                 db, clock, spc, opc, stamp, forced, claim, touches, callVars>>

CompleteBatch(w) ==
  /\ wpc[w] = "completing"
  /\ stateLock = NoOne
  /\ LET done(k, write) == IF WriteBatch(w) = write THEN Count(batch[w], k) ELSE 0
     IN  /\ inWrite' = [k \in Keys |-> inWrite[k] - done(k, TRUE)]
         /\ inRead' = [k \in Keys |-> inRead[k] - done(k, FALSE)]
  /\ RequestReady(w, pending, FALSE)
  /\ batch' = [batch EXCEPT ![w] = {}]
  /\ Goto(w, "completed")
  /\ UNCHANGED <<open, queue, next, pending, active, stateLock, readyVars, db, clock,
                 spc, opc, stamp, forced, touches, callVars>>

ApplyCompleted(w) ==
  /\ wpc[w] = "completed"
  /\ ApplyReady(w, [wpc EXCEPT ![w] = "finishing"])
  /\ UNCHANGED <<open, queueVars, active, stateLock, db, clock, spc, opc, stamp,
                 forced, batch, touches, callVars>>

\* Mutant: the last worker notifies nobody.
FinishBatchQuietly(w) ==
  /\ wpc[w] = "finishing"
  /\ active' = active - 1
  /\ Goto(w, "loop")
  /\ UNCHANGED <<open, queueVars, stateLock, readyVars, db, clock, spc, opc, stamp,
                 forced, claim, batch, touches, callVars>>

\* finish_batch(): the last worker, when the queue is empty, goes on to notify.
FinishBatch(w) ==
  /\ wpc[w] = "finishing"
  /\ active' = active - 1
  /\ Goto(w, IF active = 1 /\ pending = 0 THEN "draining" ELSE "loop")
  /\ UNCHANGED <<open, queueVars, stateLock, readyVars, db, clock, spc, opc, stamp,
                 forced, claim, batch, touches, callVars>>

\* Mutant: an empty queue is drained, whoever still works on a batch.
IsEmpty == pending = 0

IsDrained == pending = 0 /\ active = 0

NotifyDrained(w) ==
  /\ wpc[w] = "draining"
  /\ stateLock = NoOne
  /\ opc' = IF IsDrained /\ opc = "asleep" THEN "waiting" ELSE opc
  /\ Goto(w, "loop")
  /\ UNCHANGED <<open, queueVars, active, stateLock, readyVars, db, clock, spc, stamp,
                 forced, claim, batch, touches, callVars>>

-----------------------------------------------------------------------------
(* The owner: deactivate_object_() and wait_object_() of the map *)

Deactivate ==
  /\ opc = "running"
  /\ open' = FALSE
  /\ opc' = "deactivated"
  /\ UNCHANGED <<queueVars, active, stateLock, readyVars, db, clock, spc, wpc, stamp,
                 forced, claim, batch, touches, callVars>>

Submitting ==
  \/ \E o \in Ops : spc[o] \in {"entered", "counted", "inserted", "requested"}
  \/ \E w \in Workers : wpc[w] \in {"touching", "inserting", "requested"}

\* submission_gate_.wait_object()
GateDrained ==
  /\ opc = "deactivated"
  /\ ~Submitting
  /\ opc' = "flushing"
  /\ UNCHANGED <<open, queueVars, active, stateLock, readyVars, db, clock, spc, wpc,
                 stamp, forced, claim, batch, touches, callVars>>

\* wait_pending_operations_(): what is pending becomes due at once,
FlushPending ==
  /\ opc = "flushing"
  /\ stateLock = NoOne
  /\ published' = (published \/ pending # 0)
  /\ claim' = [claim EXCEPT ![Owner] = IF pending # 0 THEN "now" ELSE "none"]
  /\ opc' = "flushed"
  /\ UNCHANGED <<open, queue, next, pending, inRead, inWrite, active, stateLock,
                 readyVars, db, clock, spc, wpc, stamp, forced, batch, touches,
                 callVars>>

\* all the workers are notified,
ApplyFlush ==
  /\ opc = "flushed"
  /\ LET applied == claim[Owner] # "none" /\ registered /\ ready # "now"
     IN  /\ ready' = IF applied THEN "now" ELSE ready
         /\ wpc' = IF applied
                     THEN [w \in Workers |-> IF w \in Sleeping THEN "loop" ELSE wpc[w]]
                     ELSE wpc
  /\ claim' = [claim EXCEPT ![Owner] = "none"]
  /\ opc' = "waiting"
  /\ UNCHANGED <<open, queueVars, active, stateLock, registered, stopping, db, clock,
                 spc, stamp, forced, batch, touches, callVars>>

\* and wait_drained() sleeps until the queue is empty and no worker is active.
WaitDrained ==
  /\ opc = "waiting"
  /\ stateLock = NoOne
  /\ opc' = IF IsDrained THEN "drained" ELSE "asleep"
  /\ UNCHANGED <<open, queueVars, active, stateLock, readyVars, db, clock, spc, wpc,
                 stamp, forced, claim, batch, touches, callVars>>

\* wait_unregister_map_(), the rest of it.  A map with a processor of its own
\* then stops the workers; one that shares its processor is done.
Unregister ==
  /\ opc = "drained"
  /\ ready' = "no"
  /\ registered' = FALSE
  /\ opc' = IF OwnsProcessor THEN "unregistered" ELSE "done"
  /\ UNCHANGED <<open, queueVars, active, stateLock, stopping, db, clock, spc, wpc,
                 stamp, forced, claim, batch, touches, callVars>>

StopProcessor ==
  /\ opc = "unregistered"
  /\ stopping' = TRUE
  /\ wpc' = [w \in Workers |-> IF w \in Sleeping THEN "loop" ELSE wpc[w]]
  /\ opc' = "joining"
  /\ UNCHANGED <<open, queueVars, active, stateLock, ready, registered, db, clock,
                 spc, stamp, forced, claim, batch, touches, callVars>>

JoinWorkers ==
  /\ opc = "joining"
  /\ \A w \in Workers : wpc[w] = "exit"
  /\ opc' = "done"
  /\ UNCHANGED <<open, queueVars, active, stateLock, readyVars, db, clock, spc, wpc,
                 stamp, forced, claim, batch, touches, callVars>>

-----------------------------------------------------------------------------

Submit(o) == CountOp(o) \/ InsertOp(o) \/ RequestOp(o) \/ ApplyOp(o)

ReadSome(w) ==
  \E bad \in SUBSET BatchKeys(w) : \E touch \in SUBSET BatchKeys(w) :
    (Failures \/ bad = {}) /\ ReadBatch(w, bad, touch)

Work(w) ==
  \/ Idle(w) \/ WaitUntil(w) \/ StartBatch(w)
  \/ CollectBegin(w) \/ Scan(w) \/ ScanNothing(w) \/ CollectSub(w) \/ CollectEnd(w)
  \/ ApplyCollected(w)
  \/ ReadSome(w)
  \/ CountTouches(w) \/ (\E t \in touches[w] : InsertTouch(w, t))
  \/ RequestTouches(w) \/ ApplyTouches(w)
  \/ WriteOk(w) \/ WriteFails(w) \/ CallBack(w)
  \/ CompleteBatch(w) \/ ApplyCompleted(w) \/ FinishBatch(w) \/ NotifyDrained(w)

WaitObject ==
  \/ GateDrained \/ FlushPending \/ ApplyFlush \/ WaitDrained
  \/ Unregister \/ StopProcessor \/ JoinWorkers

Next ==
  \/ \E o \in Ops : Enter(o) \/ Refuse(o) \/ Submit(o)
  \/ \E w \in Workers : Work(w)
  \/ TimePasses
  \/ Deactivate \/ WaitObject

\* Threads that have something to do run on, time passes, and an owner that has
\* deactivated the map waits for it.  Nobody has to submit or to deactivate.
Fairness ==
  /\ \A o \in Ops : WF_vars(Submit(o))
  /\ \A w \in Workers : WF_vars(Work(w))
  /\ WF_vars(TimePasses)
  /\ WF_vars(WaitObject)

Spec == Init /\ [][Next]_vars

FairSpec == Spec /\ Fairness

-----------------------------------------------------------------------------
(* Properties *)

Entries == [op : Ops \cup Workers, type : {"get", "check", "save", "remove", "touch"},
            key : Keys, val : Ops, stamp : Nat]

\* A worker between start_batch() and finish_batch(), ...
Busy == {"selected", "collecting", "scanned", "subtracted", "collected", "processing",
         "touching", "inserting", "requested", "answering", "completing", "completed",
         "finishing"}

\* ... with operations of the map in its hands, ...
Holding == {"scanned", "subtracted", "collected", "processing", "touching", "inserting",
            "requested", "answering", "completing"}

\* ... or with their results.
Decided == {"touching", "inserting", "requested", "answering", "completing"}

\* The state has its type, and an entry is of its operation or of the worker that
\* touches a profile.
TypeOK ==
  /\ open \in BOOLEAN /\ published \in BOOLEAN
  /\ registered \in BOOLEAN /\ stopping \in BOOLEAN
  /\ queue \subseteq Entries /\ IsFiniteSet(queue)
  /\ batch \in [Workers -> SUBSET Entries]
  /\ touches \in [Workers -> SUBSET (Keys \X Ops)]
  /\ \A w \in Workers : IsFiniteSet(batch[w]) /\ IsFiniteSet(touches[w])
  /\ \A e \in queue \cup UNION {batch[w] : w \in Workers} :
       IF e.op \in Ops THEN e.type = OpType[e.op] /\ e.key = OpKey[e.op]
                       ELSE e.type = "touch"
  /\ next \in 0 .. BucketCount - 1
  /\ pending \in Nat /\ active \in Nat /\ clock \in Nat
  /\ inRead \in [Keys -> Nat] /\ inWrite \in [Keys -> Nat]
  /\ stateLock \in Workers \cup {NoOne}
  /\ ready \in {"no", "later", "now"}
  /\ db \in [Keys -> Ops \cup {Absent}]
  /\ spc \in [Ops -> {"new", "entered", "counted", "inserted", "requested", "submitted",
                      "refused"}]
  /\ wpc \in [Workers -> Busy \cup {"loop", "asleep", "timed", "draining", "exit"}]
  /\ opc \in {"running", "deactivated", "flushing", "flushed", "waiting", "asleep",
              "drained", "unregistered", "joining", "done"}
  /\ stamp \in [Actors -> Nat]
  /\ claim \in [Actors -> {"none", "later", "now"}]
  /\ calls \in [Ops -> Nat]
  /\ result \in [Ops -> Ops \cup {Absent, Pending, "ok", "error", "found", "missing"}]

\* state_lock_ is held from the scan of the buckets to the end of collect_batch(),
\* and active_workers_ counts the workers that may use the map.
WorkersCounted ==
  /\ \A w \in Workers : stateLock = w <=> wpc[w] \in {"collecting", "scanned", "subtracted"}
  /\ active = Cardinality({w \in Workers : wpc[w] \in Busy})

\* Operations are in the hands of workers only between collection and completion,
\* and a batch reads or writes.
BatchesHeld ==
  \A w \in Workers :
    /\ wpc[w] \notin Holding => batch[w] = {}
    /\ wpc[w] \notin {"touching", "inserting"} => touches[w] = {}
    /\ \A e, f \in batch[w] : IsWrite(e) <=> IsWrite(f)

\* How many things the workers have together, given the set that each has.
Together(sets) == Cardinality(UNION {{w} \X sets[w] : w \in Workers})

\* What the batches that write, or those that read, hold of a key.
InFlight(write, k) ==
  [w \in Workers |-> {e \in batch[w] : e.key = k /\ (IsWrite(e) <=> write)}]

\* The counts that admit a group to a batch are those of the batches in flight.
InFlightExact ==
  \A k \in Keys : /\ inWrite[k] = Together(InFlight(TRUE, k))
                 /\ inRead[k] = Together(InFlight(FALSE, k))

\* A batch that holds a key, from its collection to its completion.
Holds(w, k) == \E e \in batch[w] : e.key = k

\* While a write of a key is in flight no other batch holds the key, whichever
\* worker took it and whenever.
KeyExclusion ==
  \A v, w \in Workers : \A k \in Keys :
    v # w /\ Holds(v, k) /\ Holds(w, k) => ~WriteBatch(v) /\ ~WriteBatch(w)

\* Counted and not in the buckets: about to be put there, or just taken out.
Moving ==
  [w \in Workers |-> IF wpc[w] = "inserting" THEN touches[w]
                     ELSE IF wpc[w] = "scanned" THEN batch[w] ELSE {}]

\* pending_operations_, on which draining and publishing are decided, is what is
\* in the buckets, about to be put there, or taken out and not yet subtracted.
PendingExact ==
  pending = Cardinality(queue) + Cardinality({o \in Ops : spc[o] = "counted"})
              + Together(Moving)

\* No two entries are the same: enqueue_time tells the touches of a worker apart.
StampsBehind ==
  /\ \A e \in queue : e.stamp < clock
  /\ \A o \in Ops : spc[o] = "counted" => stamp[o] < clock
  /\ \A w \in Workers : wpc[w] = "inserting" =>
       stamp[w] < clock /\ \A t \in touches[w] : TouchEntry(w, t) \notin queue

Queued(o) == \E e \in queue : e.op = o
InBatch(w, o) == \E e \in batch[w] : e.op = o

\* An operation is in one place: not yet in the queue, in the queue, in one batch,
\* or answered, which it then has been once; and the answer is never "none yet".
AnsweredOnce ==
  /\ \A e, f \in queue : e.op = f.op /\ e.op \in Ops => e = f
  /\ \A o \in Ops :
       /\ spc[o] \in {"new", "entered", "counted", "refused"} => ~Queued(o)
       /\ \A w \in Workers : InBatch(w, o) =>
            /\ ~Queued(o)
            /\ spc[o] \notin {"new", "entered", "counted", "refused"}
            /\ \A v \in Workers : InBatch(v, o) => v = w
            /\ wpc[w] \in Decided => result[o] # Pending
       /\ calls[o] = IF \/ spc[o] \in {"new", "entered", "counted"} \/ Queued(o)
                        \/ \E w \in Workers : InBatch(w, o) /\ wpc[w] # "completing"
                     THEN 0 ELSE 1
       /\ calls[o] = 1 => result[o] # Pending

Waited == {"drained", "unregistered", "joining", "done"}

\* The gate is shut and drained before the queue is, and a queue that was seen
\* drained stays so: a worker may still come for the map, and finds nothing.
DrainedForGood ==
  /\ opc # "running" => ~open
  /\ opc \notin {"running", "deactivated"} => ~Submitting
  /\ opc \in Waited =>
       /\ pending = 0
       /\ \A w \in Workers : wpc[w] \in {"loop", "asleep", "timed", "draining", "exit",
                                        "selected", "finishing"}
  /\ OwnsProcessor /\ opc = "done" => \A w \in Workers : wpc[w] = "exit"

\* When wait_object() has seen the queue drained, every operation that was let in
\* has been answered, exactly once, and nothing is left behind.
AnsweredBeforeWaitReturns ==
  opc \in Waited =>
    /\ \A o \in Ops : spc[o] # "new" => calls[o] = 1 /\ result[o] # Pending
    /\ queue = {}

\* A map may be destroyed when wait_object() has returned: no worker may still be
\* between taking it from ready_ and the end of finish_batch().
NoUseAfterWait ==
  opc = "done" =>
    \A w \in Workers : wpc[w] \in {"loop", "asleep", "timed", "exit"}

\* What draining rests on: the parts above.  Only the join of workers of its own
\* keeps them off the map once wait_object() has returned.
DrainInv ==
  /\ TypeOK /\ WorkersCounted /\ BatchesHeld /\ InFlightExact
  /\ PendingExact /\ StampsBehind /\ AnsweredOnce /\ DrainedForGood
  /\ AnsweredBeforeWaitReturns
  /\ OwnsProcessor => NoUseAfterWait

\* Every operation that was let in is answered: the publication protocol of
\* ready_published_ never leaves one in the queue with nobody coming for it.
EveryOpAnswered == \A o \in Ops : spc[o] = "entered" ~> calls[o] = 1

\* wait_object() of a deactivated map returns.
WaitReturns == opc = "deactivated" ~> opc = "done"

\* Callers see a store: see ProfileStore.  A touch, which writes back what an
\* earlier read found, never undoes a save or a remove.
phaseBar ==
  [o \in Ops |-> IF calls[o] # 0 THEN "answered"
                 ELSE IF result[o] # Pending THEN "applied"
                 ELSE IF spc[o] = "new" THEN "new" ELSE "pending"]

Store == INSTANCE ProfileStore WITH store <- db, phase <- phaseBar,
                                    returned <- Returned

ImplementsStore == Store!StoreSpec

=============================================================================
