---------------------------- MODULE BackgroundError ----------------------------
(***************************************************************************)
(* How RocksDBBatchingProfileMapImpl lives through an error of its         *)
(* database.  A worker whose batch fails records the error and closes the  *)
(* submission gate; submissions are refused until the retry period is      *)
(* over; then one caller probes: it waits for the gate and the queue to    *)
(* drain, asks RocksDB to resume, and reopens the gate or starts another   *)
(* period.  The critical sections of error_lock_ are atomic; what a caller *)
(* does between them is not.  Time is relative: the retry time is how long *)
(* it is ahead, a generation is whether it is still the current one.       *)
(***************************************************************************)
EXTENDS Naturals, FiniteSets

CONSTANTS Callers,      \* threads that submit operations
          Workers,      \* the processor's threads, whose callbacks may submit
          Owner,        \* the thread that closes the map
          RetryPeriod,  \* BACKGROUND_ERROR_RETRY_PERIOD
          MaxPending    \* bound: nobody begins to submit while so many wait

ASSUME BackgroundErrorAssumption ==
  /\ IsFiniteSet(Callers) /\ IsFiniteSet(Workers)
  /\ Callers \cap Workers = {} /\ Owner \notin Callers \cup Workers
  /\ RetryPeriod \in Nat \ {0} /\ MaxPending \in Nat \ {0}

VARIABLES
  hasError,    \* has_background_error_
  probeFlag,   \* background_error_probe_in_progress_
  retryIn,     \* background_error_retry_at_, as the time until then
  current,     \* actors whose error_generation is background_error_generation_
  stopping,    \* stopping_
  gate,        \* the state of submission_gate_
  pending,     \* operations that wait in the queue
  pc,          \* where each actor is
  resumed,     \* probers whose DB::Resume() succeeded
  age,         \* how long each probe has lasted, up to RetryPeriod
  healed,      \* probers that resumed after the last failed batch (history)
  sinceProbe   \* time since a probe began, up to RetryPeriod (history)

errorVars == <<hasError, probeFlag, retryIn, current>>
vars == <<errorVars, stopping, gate, pending, pc, resumed, age, healed, sinceProbe>>

Actors == Callers \cup Workers \cup {Owner}

Probing(a) == pc[a] \in {"wait_gate", "wait_pending", "resume", "finish"}

\* Where an actor goes on when its call is over, with or without an exception.
Home(a) ==
  IF a \in Callers THEN "idle" ELSE IF a \in Workers THEN "complete" ELSE "stopped"

Init ==
  /\ hasError = FALSE /\ probeFlag = FALSE /\ retryIn = 0 /\ current = {}
  /\ stopping = TRUE
  /\ gate = "not_active"
  /\ pending = 0
  /\ pc = [a \in Actors |-> IF a = Owner THEN "new" ELSE "idle"]
  /\ resumed = {}
  /\ age = [a \in Actors |-> 0]
  /\ healed = {}
  /\ sinceProbe = RetryPeriod

Goto(a, place) == pc' = [pc EXCEPT ![a] = place]

-----------------------------------------------------------------------------
(* The submission gate, as ActivityGate provides it *)

Inside == {a \in Actors : pc[a] = "inside"}

\* wait_object(): returns at once from a gate that is not active, and otherwise
\* once the gate is closed and empty.
GateDrained == gate = "not_active" \/ (gate = "deactivating" /\ Inside = {})

CloseGate == gate' = IF gate = "active" THEN "deactivating" ELSE gate

\* drained() of the queue: nothing waits and no worker has a batch.
QueueDrained == pending = 0 /\ \A w \in Workers : pc[w] = "idle"

-----------------------------------------------------------------------------
(* check_background_error_() *)

\* The caller of enqueue_async_operation_().
Submit(a) ==
  /\ a \in Callers /\ pc[a] = "idle"
  /\ pending < MaxPending
  /\ Goto(a, "check")
  /\ UNCHANGED <<errorVars, stopping, gate, pending, resumed, age, healed, sinceProbe>>

\* The flag is read without the lock, then again under it.
CheckFlag(a) ==
  /\ pc[a] = "check"
  /\ Goto(a, IF hasError THEN "check_locked" ELSE IF a = Owner THEN "stopped" ELSE "enter")
  /\ UNCHANGED <<errorVars, stopping, gate, pending, resumed, age, healed, sinceProbe>>

CheckLocked(a) ==
  /\ pc[a] = "check_locked"
  /\ \/ /\ ~hasError
        /\ Goto(a, IF a = Owner THEN "stopped" ELSE "enter")
     \/ /\ hasError /\ (probeFlag \/ retryIn > 0)
        /\ Goto(a, Home(a))
  /\ UNCHANGED <<errorVars, stopping, gate, pending, resumed, age, healed, sinceProbe>>

StartProbe(a) ==
  /\ pc[a] = "check_locked"
  /\ hasError /\ ~probeFlag /\ retryIn = 0
  /\ probeFlag' = TRUE
  /\ current' = current \cup {a}
  /\ age' = [age EXCEPT ![a] = 0]
  /\ sinceProbe' = 0
  /\ Goto(a, "wait_gate")
  /\ UNCHANGED <<hasError, retryIn, stopping, gate, pending, resumed, healed>>

ProbeWaitGate(a) ==
  /\ pc[a] = "wait_gate"
  /\ GateDrained
  /\ gate' = "not_active"
  /\ Goto(a, "wait_pending")
  /\ UNCHANGED <<errorVars, stopping, pending, resumed, age, healed, sinceProbe>>

ProbeWaitPending(a) ==
  /\ pc[a] = "wait_pending"
  /\ QueueDrained
  /\ Goto(a, "resume")
  /\ UNCHANGED <<errorVars, stopping, gate, pending, resumed, age, healed, sinceProbe>>

Resume(a, ok) ==
  /\ pc[a] = "resume"
  /\ resumed' = IF ok THEN resumed \cup {a} ELSE resumed \ {a}
  /\ healed' = IF ok THEN healed \cup {a} ELSE healed \ {a}
  /\ Goto(a, "finish")
  /\ UNCHANGED <<errorVars, stopping, gate, pending, age, sinceProbe>>

Recovered(a) == a \in current /\ a \in resumed

\* The actor forgets its probe.
EndProbe(a) ==
  /\ current' = current \ {a}
  /\ resumed' = resumed \ {a}
  /\ healed' = healed \ {a}
  /\ age' = [age EXCEPT ![a] = 0]

\* Mutant: an error that was reported during the probe is taken for the old one.
FinishAnyGeneration(a) ==
  /\ pc[a] = "finish" /\ a \in resumed
  /\ stopping \/ gate = "not_active"
  /\ gate' = IF stopping THEN gate ELSE "active"
  /\ hasError' = FALSE /\ probeFlag' = FALSE
  /\ EndProbe(a)
  /\ Goto(a, IF a = Owner THEN "stopped" ELSE "enter")
  /\ UNCHANGED <<retryIn, stopping, pending, sinceProbe>>

\* Mutant: the gate is reopened although the map is being closed.
FinishIgnoresStopping(a) ==
  /\ pc[a] = "finish" /\ Recovered(a)
  /\ gate = "not_active"
  /\ gate' = "active"
  /\ hasError' = FALSE /\ probeFlag' = FALSE
  /\ EndProbe(a)
  /\ Goto(a, IF a = Owner THEN "stopped" ELSE "enter")
  /\ UNCHANGED <<retryIn, stopping, pending, sinceProbe>>

\* The error is over: the gate is reopened unless the map is being closed.
FinishRecovered(a) ==
  /\ pc[a] = "finish" /\ Recovered(a)
  /\ stopping \/ gate = "not_active"
  /\ gate' = IF stopping THEN gate ELSE "active"
  /\ hasError' = FALSE /\ probeFlag' = FALSE
  /\ EndProbe(a)
  /\ Goto(a, IF a = Owner THEN "stopped" ELSE "enter")
  /\ UNCHANGED <<retryIn, stopping, pending, sinceProbe>>

\* activate_object() of a gate that somebody else has reopened throws, and the
\* call fails with everything else as it was.
FinishTwice(a) ==
  /\ pc[a] = "finish" /\ Recovered(a)
  /\ ~stopping /\ gate # "not_active"
  /\ EndProbe(a)
  /\ Goto(a, Home(a))
  /\ UNCHANGED <<hasError, probeFlag, retryIn, stopping, gate, pending, sinceProbe>>

\* Mutant: a failed probe does not start another retry period.
FinishFailedNoPeriod(a) ==
  /\ pc[a] = "finish" /\ ~Recovered(a)
  /\ probeFlag' = FALSE
  /\ EndProbe(a)
  /\ Goto(a, Home(a))
  /\ UNCHANGED <<hasError, retryIn, stopping, gate, pending, sinceProbe>>

FinishFailed(a) ==
  /\ pc[a] = "finish" /\ ~Recovered(a)
  /\ probeFlag' = FALSE
  /\ retryIn' = RetryPeriod
  /\ EndProbe(a)
  /\ Goto(a, Home(a))
  /\ UNCHANGED <<hasError, stopping, gate, pending, sinceProbe>>

CheckBackgroundError(a) ==
  \/ CheckFlag(a) \/ CheckLocked(a) \/ StartProbe(a)
  \/ ProbeWaitGate(a) \/ ProbeWaitPending(a)
  \/ \E ok \in BOOLEAN : Resume(a, ok)
  \/ FinishRecovered(a) \/ FinishTwice(a) \/ FinishFailed(a)

-----------------------------------------------------------------------------
(* enqueue_operation_() *)

EnterGate(a) ==
  /\ pc[a] = "enter"
  /\ Goto(a, IF gate = "active" THEN "inside" ELSE Home(a))
  /\ UNCHANGED <<errorVars, stopping, gate, pending, resumed, age, healed, sinceProbe>>

\* The operation goes into the queue and the guard is dropped.
Enqueue(a) ==
  /\ pc[a] = "inside"
  /\ pending' = pending + 1
  /\ Goto(a, Home(a))
  /\ UNCHANGED <<errorVars, stopping, gate, resumed, age, healed, sinceProbe>>

(* worker_loop_() *)

TakeBatch(w) ==
  /\ pc[w] = "idle" /\ pending > 0
  /\ \E n \in 1..pending : pending' = pending - n
  /\ Goto(w, "batch")
  /\ UNCHANGED <<errorVars, stopping, gate, resumed, age, healed, sinceProbe>>

\* The callbacks of a batch run, and one of them may submit an operation.
Callbacks(w) ==
  \/ Goto(w, "complete")
  \/ pending < MaxPending /\ Goto(w, "check")

\* process_batch_() succeeds.
BatchDone(w) ==
  /\ pc[w] = "batch"
  /\ Callbacks(w)
  /\ UNCHANGED <<errorVars, stopping, gate, pending, resumed, age, healed, sinceProbe>>

\* process_batch_() throws.  Only the first error of a period is recorded, and
\* one that is reported while a probe is under way.  notify_failed_operations_()
\* then calls the callbacks.
SetBackgroundError(w) ==
  /\ pc[w] = "batch"
  /\ healed' = {}
  /\ IF ~hasError \/ probeFlag
       THEN /\ hasError' = TRUE /\ probeFlag' = FALSE
            /\ retryIn' = RetryPeriod
            /\ current' = {}
            /\ CloseGate
       ELSE UNCHANGED <<errorVars, gate>>
  /\ Callbacks(w)
  /\ UNCHANGED <<stopping, pending, resumed, age, sinceProbe>>

CompleteBatch(w) ==
  /\ pc[w] = "complete" /\ w \in Workers
  /\ Goto(w, "idle")
  /\ UNCHANGED <<errorVars, stopping, gate, pending, resumed, age, healed, sinceProbe>>

-----------------------------------------------------------------------------
(* The owner: activate_object_(), deactivate_object_() and wait_object_() *)

Activate ==
  /\ pc[Owner] = "new"
  /\ gate' = "active" /\ stopping' = FALSE
  /\ Goto(Owner, "running")
  /\ UNCHANGED <<errorVars, pending, resumed, age, healed, sinceProbe>>

\* Mutant: the gate is left as it is.
DeactivateKeepsGate ==
  /\ pc[Owner] = "running"
  /\ stopping' = TRUE
  /\ Goto(Owner, "waiting_gate")
  /\ UNCHANGED <<errorVars, gate, pending, resumed, age, healed, sinceProbe>>

Deactivate ==
  /\ pc[Owner] = "running"
  /\ stopping' = TRUE
  /\ CloseGate
  /\ Goto(Owner, "waiting_gate")
  /\ UNCHANGED <<errorVars, pending, resumed, age, healed, sinceProbe>>

WaitGate ==
  /\ pc[Owner] = "waiting_gate"
  /\ GateDrained
  /\ gate' = "not_active"
  /\ Goto(Owner, "unregister")
  /\ UNCHANGED <<errorVars, stopping, pending, resumed, age, healed, sinceProbe>>

\* wait_unregister_map_(), and then check_background_error_().
WaitUnregister ==
  /\ pc[Owner] = "unregister"
  /\ QueueDrained
  /\ Goto(Owner, "check")
  /\ UNCHANGED <<errorVars, stopping, gate, pending, resumed, age, healed, sinceProbe>>

Tick ==
  /\ retryIn' = IF retryIn > 0 THEN retryIn - 1 ELSE 0
  /\ age' = [a \in Actors |-> IF Probing(a) /\ age[a] < RetryPeriod
                              THEN age[a] + 1 ELSE age[a]]
  /\ sinceProbe' = IF sinceProbe < RetryPeriod THEN sinceProbe + 1 ELSE sinceProbe
  /\ UNCHANGED <<hasError, probeFlag, current, stopping, gate, pending, pc, resumed,
                 healed>>

-----------------------------------------------------------------------------

Worker(w) == BatchDone(w) \/ SetBackgroundError(w) \/ CompleteBatch(w)

Close == WaitGate \/ WaitUnregister

Next ==
  \/ \E a \in Callers : Submit(a)
  \/ \E a \in Actors : CheckBackgroundError(a) \/ EnterGate(a) \/ Enqueue(a)
  \/ \E w \in Workers : TakeBatch(w) \/ Worker(w)
  \/ Activate \/ Deactivate \/ Close \/ Tick

Spec == Init /\ [][Next]_vars

\* Threads that have begun a call run on, workers take the batches that wait,
\* and time passes.  Nobody has to submit, and DB::Resume() may fail for ever.
Fairness ==
  /\ \A a \in Actors : /\ WF_vars(CheckBackgroundError(a))
                       /\ WF_vars(EnterGate(a) \/ Enqueue(a))
  /\ \A w \in Workers : WF_vars(TakeBatch(w)) /\ WF_vars(Worker(w))
  /\ WF_vars(Close)
  /\ WF_vars(Tick)

FairSpec == Spec /\ Fairness

-----------------------------------------------------------------------------
(* Properties *)

Places ==
  {"new", "idle", "check", "check_locked", "enter", "inside", "batch", "complete",
   "wait_gate", "wait_pending", "resume", "finish", "running", "waiting_gate",
   "unregister", "stopped"}

TypeOK ==
  /\ hasError \in BOOLEAN /\ probeFlag \in BOOLEAN /\ stopping \in BOOLEAN
  /\ retryIn \in 0..RetryPeriod
  /\ current \subseteq Actors /\ resumed \subseteq Actors /\ healed \subseteq Actors
  /\ gate \in {"not_active", "active", "deactivating"}
  /\ pending \in 0..(MaxPending + Cardinality(Actors))
  /\ pc \in [Actors -> Places]
  /\ age \in [Actors -> 0..RetryPeriod]
  /\ sinceProbe \in 0..RetryPeriod

\* The gate is open exactly while there is no background error and the map is
\* not being closed, however probes, failures and deactivate_object() meet:
\* neither is a recovered map left closed nor does a probe reopen a map that its
\* owner is tearing down.
OpenIffHealthy == gate = "active" <=> ~hasError /\ ~stopping

\* An error is only taken back by a probe whose DB::Resume() came after the last
\* batch that failed, also when two probes overlap.
ClearedAfterLastFailure ==
  [][hasError /\ ~hasError' =>
       \E a \in healed : pc[a] = "finish" /\ pc'[a] # "finish"]_vars

\* DB::Resume() is tried at most once per retry period: a probe begins only
\* RetryPeriod after the last one began, whatever was reported in between.
ProbesSpaced ==
  [][\A a \in Actors : pc[a] = "check_locked" /\ pc'[a] = "wait_gate"
       => sinceProbe = RetryPeriod]_vars

\* Two probes overlap only when one of them has outlasted the retry period (a
\* failure that is reported late clears its flag).
ProbesOverlapLate ==
  \A a, b \in Actors :
    a # b /\ Probing(a) /\ Probing(b) => RetryPeriod \in {age[a], age[b]}

\* Callers and workers that may still put an operation into the queue.
Submitting ==
  {a \in Callers \cup Workers : Probing(a) \/ pc[a] \in {"check", "check_locked", "enter", "inside"}}

\* Whoever may still submit found room when it began; the owner never submits.
PendingBounded ==
  /\ pending + Cardinality(Submitting) <= MaxPending + Cardinality(Actors)
  /\ pc[Owner] \notin {"enter", "inside"}

\* Nothing has happened before activate_object().
NewIsQuiet ==
  pc[Owner] = "new" =>
    /\ ~hasError /\ stopping /\ pending = 0
    /\ \A a \in Callers : pc[a] \in {"idle", "check", "enter"}
    /\ \A w \in Workers : pc[w] = "idle"

\* While an error waits for a probe, what is left of the retry period makes up
\* for the age of the probes that are still under way and of the last one.
PeriodCovers ==
  hasError /\ ~probeFlag =>
    /\ sinceProbe + retryIn >= RetryPeriod
    /\ \A a \in Actors : Probing(a) => age[a] + retryIn >= RetryPeriod

\* A probe of the current error that is past the gate has it to itself, one that
\* is past the queue has left no batch behind, and its resume is the last word.
ProbeIsolated ==
  /\ gate = "not_active" => Inside = {}
  /\ \A a \in resumed : pc[a] = "finish"
  /\ hasError =>
       \A a \in current :
         /\ pc[a] \in {"wait_pending", "resume", "finish"} => gate = "not_active"
         /\ pc[a] \in {"resume", "finish"} => pending = 0 /\ \A w \in Workers : pc[w] # "batch"
         /\ a \in resumed => a \in healed

\* What holds between the error, the probes and the gate: the parts above, which
\* together are inductive.
RecoveryInv ==
  /\ TypeOK
  /\ OpenIffHealthy
  /\ ProbesOverlapLate
  /\ PendingBounded
  /\ NewIsQuiet
  /\ PeriodCovers
  /\ ProbeIsolated

\* At most one probe is under way, and none is made by a callback.
ProbesApart ==
  /\ Cardinality({a \in Actors : Probing(a)}) <= 1
  /\ \A w \in Workers : ~Probing(w)

\* Unless probes overlap or are made by callbacks, a probe returns to its caller
\* and the owner that closes the map gets out of wait_object(), error or not.
\* (A probe that a callback makes waits for its own batch; one that overlaps
\* another may wait for a gate that is open again.)
CallsReturn ==
  []ProbesApart =>
    /\ \A a \in Actors : Probing(a) ~> ~Probing(a)
    /\ (pc[Owner] = "waiting_gate") ~> (pc[Owner] = "stopped")

=============================================================================
