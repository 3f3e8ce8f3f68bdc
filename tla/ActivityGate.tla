----------------------------- MODULE ActivityGate -----------------------------
(***************************************************************************)
(* Commons/ActivityGate: a gate that lets activities in while it is open   *)
(* and lets its owner close it and wait until the last activity has left.  *)
(* closed_, running_ and waiters_ are atomics that enter() and leave_()    *)
(* touch without the mutex; the mutex and the condition variable cond_ of  *)
(* Generics::SimpleActiveObject serialize only the owner, the watchers and *)
(* the final broadcast.  Every atomic access is a step of its own.         *)
(***************************************************************************)
EXTENDS Integers, FiniteSets

CONSTANTS Threads,   \* threads that call enter() and later drop the guard
          Watchers,  \* threads that call wait_for_activities()
          GateOwner,     \* the thread that activates the gate and waits for it
          NoOne      \* the mutex of cond_ is free

ASSUME GateAssumption ==
  /\ IsFiniteSet(Threads)
  /\ IsFiniteSet(Watchers)
  /\ GateOwner \notin Watchers
  /\ NoOne \notin Watchers \cup {GateOwner}

VARIABLES closed,    \* closed_
          running,   \* running_
          waiters,   \* waiters_
          state,     \* the SimpleActiveObject's state
          mutex,     \* who holds the mutex of cond_
          asleep,    \* who waits on cond_
          tpc,       \* where each thread is in enter() and leave_()
          wpc        \* where the owner and each watcher are

gateVars == <<closed, running, waiters, state, mutex, asleep, tpc, wpc>>

Sleepers == Watchers \cup {GateOwner}

ThreadPc == {"out", "entering", "rechecking", "inside", "leaving",
             "check_closed", "check_waiters", "signalling"}
SleeperPc == {"idle", "locked", "decided_wait", "decided_done"}
ActiveState == {"not_active", "active", "deactivating"}

GateInit ==
  /\ closed = TRUE
  /\ running = 0
  /\ waiters = 0
  /\ state = "not_active"
  /\ mutex = NoOne
  /\ asleep = {}
  /\ tpc = [t \in Threads |-> "out"]
  /\ wpc = [w \in Sleepers |-> "idle"]

-----------------------------------------------------------------------------
(* enter() *)

EnterLoad(t) ==
  /\ tpc[t] = "out"
  /\ ~closed
  /\ tpc' = [tpc EXCEPT ![t] = "entering"]
  /\ UNCHANGED <<closed, running, waiters, state, mutex, asleep, wpc>>

EnterAdd(t) ==
  /\ tpc[t] = "entering"
  /\ running' = running + 1
  /\ tpc' = [tpc EXCEPT ![t] = "rechecking"]
  /\ UNCHANGED <<closed, waiters, state, mutex, asleep, wpc>>

\* Mutant: the second load of closed_ is missing.
EnterRecheckBlind(t) ==
  /\ tpc[t] = "rechecking"
  /\ tpc' = [tpc EXCEPT ![t] = "inside"]
  /\ UNCHANGED <<closed, running, waiters, state, mutex, asleep, wpc>>

\* Mutant: the thread that finds the gate closed does not take back its count.
EnterRecheckForgets(t) ==
  /\ tpc[t] = "rechecking"
  /\ tpc' = [tpc EXCEPT ![t] = IF closed THEN "out" ELSE "inside"]
  /\ UNCHANGED <<closed, running, waiters, state, mutex, asleep, wpc>>

EnterRecheck(t) ==
  /\ tpc[t] = "rechecking"
  /\ tpc' = [tpc EXCEPT ![t] = IF closed THEN "leaving" ELSE "inside"]
  /\ UNCHANGED <<closed, running, waiters, state, mutex, asleep, wpc>>

(* Guard::reset(), the guard's destructor *)

GuardReset(t) ==
  /\ tpc[t] = "inside"
  /\ tpc' = [tpc EXCEPT ![t] = "leaving"]
  /\ UNCHANGED <<closed, running, waiters, state, mutex, asleep, wpc>>

(* leave_() *)

LeaveSub(t) ==
  /\ tpc[t] = "leaving"
  /\ running' = running - 1
  /\ tpc' = [tpc EXCEPT ![t] = IF running = 1 THEN "check_closed" ELSE "out"]
  /\ UNCHANGED <<closed, waiters, state, mutex, asleep, wpc>>

\* Mutant: leave_() broadcasts only for the watchers.
LeaveIgnoreClosed(t) ==
  /\ tpc[t] = "check_closed"
  /\ tpc' = [tpc EXCEPT ![t] = "check_waiters"]
  /\ UNCHANGED <<closed, running, waiters, state, mutex, asleep, wpc>>

LeaveCheckClosed(t) ==
  /\ tpc[t] = "check_closed"
  /\ tpc' = [tpc EXCEPT ![t] = IF closed THEN "signalling" ELSE "check_waiters"]
  /\ UNCHANGED <<closed, running, waiters, state, mutex, asleep, wpc>>

\* Mutant: leave_() broadcasts only for a closed gate.
LeaveIgnoreWaiters(t) ==
  /\ tpc[t] = "check_waiters"
  /\ tpc' = [tpc EXCEPT ![t] = "out"]
  /\ UNCHANGED <<closed, running, waiters, state, mutex, asleep, wpc>>

LeaveCheckWaiters(t) ==
  /\ tpc[t] = "check_waiters"
  /\ tpc' = [tpc EXCEPT ![t] = IF waiters # 0 THEN "signalling" ELSE "out"]
  /\ UNCHANGED <<closed, running, waiters, state, mutex, asleep, wpc>>

\* The broadcast is made under the mutex, so it cannot fall between a
\* sleeper's test of running_ and its wait.
LeaveSignal(t) ==
  /\ tpc[t] = "signalling"
  /\ mutex = NoOne
  /\ asleep' = {}
  /\ tpc' = [tpc EXCEPT ![t] = "out"]
  /\ UNCHANGED <<closed, running, waiters, state, mutex, wpc>>

-----------------------------------------------------------------------------
(* The owner's calls.  SimpleActiveObject makes the virtual calls under    *)
(* the mutex of cond_ and wakes its waiters when it is deactivated.        *)

ActivateGate ==
  /\ state = "not_active"
  /\ mutex = NoOne
  /\ closed' = FALSE
  /\ state' = "active"
  /\ UNCHANGED <<running, waiters, mutex, asleep, tpc, wpc>>

DeactivateGate ==
  /\ state = "active"
  /\ mutex = NoOne
  /\ closed' = TRUE
  /\ state' = "deactivating"
  /\ asleep' = {}
  /\ UNCHANGED <<running, waiters, mutex, tpc, wpc>>

WaitObjectLock ==
  /\ wpc[GateOwner] = "idle"
  /\ state # "not_active"
  /\ mutex = NoOne
  /\ mutex' = GateOwner
  /\ wpc' = [wpc EXCEPT ![GateOwner] = "locked"]
  /\ UNCHANGED <<closed, running, waiters, state, asleep, tpc>>

\* The test of the wait loop: still active, or wait_more_().
WaitObjectTest ==
  /\ wpc[GateOwner] = "locked"
  /\ wpc' = [wpc EXCEPT ![GateOwner] =
               IF state = "active" \/ running # 0 THEN "decided_wait" ELSE "decided_done"]
  /\ UNCHANGED <<closed, running, waiters, state, mutex, asleep, tpc>>

WaitObjectReturn ==
  /\ wpc[GateOwner] = "decided_done"
  /\ state' = "not_active"
  /\ mutex' = NoOne
  /\ wpc' = [wpc EXCEPT ![GateOwner] = "idle"]
  /\ UNCHANGED <<closed, running, waiters, asleep, tpc>>

-----------------------------------------------------------------------------
(* wait_for_activities() *)

WatchLock(w) ==
  /\ wpc[w] = "idle"
  /\ mutex = NoOne
  /\ mutex' = w
  /\ waiters' = waiters + 1
  /\ wpc' = [wpc EXCEPT ![w] = "locked"]
  /\ UNCHANGED <<closed, running, state, asleep, tpc>>

WatchTest(w) ==
  /\ wpc[w] = "locked"
  /\ wpc' = [wpc EXCEPT ![w] = IF running # 0 THEN "decided_wait" ELSE "decided_done"]
  /\ UNCHANGED <<closed, running, waiters, state, mutex, asleep, tpc>>

WatchReturn(w) ==
  /\ wpc[w] = "decided_done"
  /\ waiters' = waiters - 1
  /\ mutex' = NoOne
  /\ wpc' = [wpc EXCEPT ![w] = "idle"]
  /\ UNCHANGED <<closed, running, state, asleep, tpc>>

(* guard.wait(): release the mutex and sleep, then take the mutex again. *)

CondSleep(s) ==
  /\ wpc[s] = "decided_wait"
  /\ mutex = s
  /\ asleep' = asleep \cup {s}
  /\ mutex' = NoOne
  /\ UNCHANGED <<closed, running, waiters, state, tpc, wpc>>

CondWake(s) ==
  /\ wpc[s] = "decided_wait"
  /\ mutex = NoOne
  /\ s \notin asleep
  /\ mutex' = s
  /\ wpc' = [wpc EXCEPT ![s] = "locked"]
  /\ UNCHANGED <<closed, running, waiters, state, asleep, tpc>>

-----------------------------------------------------------------------------

Enter(t) == EnterLoad(t) \/ EnterAdd(t) \/ EnterRecheck(t)

Leave(t) ==
  \/ LeaveSub(t) \/ LeaveCheckClosed(t)
  \/ LeaveCheckWaiters(t) \/ LeaveSignal(t)

WaitObject == WaitObjectLock \/ WaitObjectTest \/ WaitObjectReturn

Watch(w) == WatchLock(w) \/ WatchTest(w) \/ WatchReturn(w)

GateNext ==
  \/ \E t \in Threads : Enter(t) \/ GuardReset(t) \/ Leave(t)
  \/ ActivateGate \/ DeactivateGate \/ WaitObject
  \/ \E w \in Watchers : Watch(w)
  \/ \E s \in Sleepers : CondSleep(s) \/ CondWake(s)

\* A call that has begun runs on, and an activity that is inside ends; nobody
\* has to call enter(), activate, deactivate or wait_for_activities().  A wait
\* for the mutex is fair (strong fairness): a POSIX mutex that is free again
\* and again is handed to a thread that keeps asking for it.
GateFairness ==
  /\ \A t \in Threads :
       /\ WF_gateVars(EnterAdd(t) \/ EnterRecheck(t) \/ GuardReset(t))
       /\ WF_gateVars(LeaveSub(t) \/ LeaveCheckClosed(t) \/ LeaveCheckWaiters(t))
       /\ SF_gateVars(LeaveSignal(t))
  /\ SF_gateVars(WaitObjectLock)
  /\ WF_gateVars(WaitObjectTest \/ WaitObjectReturn)
  /\ \A w \in Watchers : WF_gateVars(WatchTest(w) \/ WatchReturn(w))
  /\ \A s \in Sleepers : WF_gateVars(CondSleep(s)) /\ SF_gateVars(CondWake(s))

GateSpec == GateInit /\ [][GateNext]_gateVars

GateFairSpec == GateSpec /\ GateFairness

-----------------------------------------------------------------------------
(* Properties *)

Counted == {"rechecking", "inside", "leaving"}

Activities == {t \in Threads : tpc[t] \in Counted}

GateTypeOK ==
  /\ closed \in BOOLEAN
  /\ running \in Nat
  /\ waiters \in Nat
  /\ state \in ActiveState
  /\ mutex \in Sleepers \cup {NoOne}
  /\ asleep \subseteq Sleepers
  /\ tpc \in [Threads -> ThreadPc]
  /\ wpc \in [Sleepers -> SleeperPc]

\* Once wait_object() has returned, and until the next activate_object(), no
\* thread holds a guard: what the owner tears down is not in use.
Drained == state = "not_active" => \A t \in Threads : tpc[t] # "inside"

\* Thread t, which has made running_ 0, is on its way to a broadcast for s: the
\* owner is only sure of it while t has not yet seen an open gate, a watcher is
\* counted in waiters_ and so is seen in any case.
WillSignal(t, s) ==
  \/ tpc[t] \in {"check_closed", "signalling"}
  \/ s \in Watchers /\ tpc[t] = "check_waiters"

\* No sleeper is left on cond_ for good: while it sleeps there is an activity
\* whose end decides about the broadcast, or a thread already on its way to it,
\* or (for the owner) the gate has not been closed yet.
NoLostWakeup ==
  \A s \in asleep :
    \/ running # 0
    \/ s = GateOwner /\ state = "active"
    \/ \E t \in Threads : WillSignal(t, s)

\* The inductive invariant behind Drained and NoLostWakeup.
Counters ==
  /\ running = Cardinality(Activities)
  /\ waiters = Cardinality({w \in Watchers : wpc[w] # "idle"})

OwnerInv ==
  /\ closed <=> state # "active"
  /\ wpc[GateOwner] # "idle" => state # "not_active"
  /\ wpc[GateOwner] = "decided_done" => state = "deactivating"
  /\ state = "not_active" \/ wpc[GateOwner] = "decided_done"
       => \A t \in Threads : tpc[t] # "inside"

\* The sleepers that have tested running_ and not yet been woken.
Committed(s) == wpc[s] = "decided_wait" /\ (s \in asleep \/ mutex = s)

SleepInv ==
  /\ \A s \in asleep : wpc[s] = "decided_wait"
  /\ \A s \in Sleepers : Committed(s) =>
       \/ running # 0
       \/ s = GateOwner /\ state = "active"
       \/ \E t \in Threads : WillSignal(t, s)

GateInv == GateTypeOK /\ Counters /\ OwnerInv /\ SleepInv

\* A gate that was closed is drained: the owner that waits for it returns.
WaitTerminates ==
  (state = "deactivating" /\ wpc[GateOwner] # "idle") ~> (state = "not_active")

=============================================================================
