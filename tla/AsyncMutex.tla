------------------------------ MODULE AsyncMutex ------------------------------
(***************************************************************************)
(* Commons/AsyncMutex: one lock taken by threads (scoped_lock(), which     *)
(* blocks on condition_) and by coroutines (scoped_lock_async(), which     *)
(* suspends and is queued).  unlock_() hands the lock directly to the      *)
(* oldest queued coroutine, so locked_ stays set while the coroutine is on *)
(* its way through its resume scheduler; only without queued coroutines it *)
(* clears locked_ and notifies one blocked thread, after the std::mutex    *)
(* was released.  The std::mutex makes each critical section one step.     *)
(* The statistics counters, which nothing reads back, are left out.        *)
(***************************************************************************)
EXTENDS Clients, Naturals, SequencesExt

\* Threads call scoped_lock(), Coros scoped_lock_async().
CONSTANT NoOwner

ASSUME MutexAssumption ==
  /\ Threads \cap Coros = {}
  /\ NoOwner \notin Clients

VARIABLES locked,    \* locked_
          waiters,   \* waiters_: the queued coroutines, oldest first
          asleep,    \* the threads that wait on condition_
          lockPc     \* where each client is

mutexVars == <<locked, waiters, asleep, lockPc>>

\* "granted": handed the lock by unlock_(), not yet resumed.
\* "notifying": between the critical section of unlock_() and notify_one().
MutexPc == {"out", "sleeping", "woken", "waiting", "granted", "holding", "notifying"}

MutexInit ==
  /\ locked = FALSE
  /\ waiters = <<>>
  /\ asleep = {}
  /\ lockPc = [c \in Clients |-> "out"]

-----------------------------------------------------------------------------
(* scoped_lock() *)

ScopedLockTake(t) ==
  /\ lockPc[t] \in {"out", "woken"}
  /\ ~locked /\ waiters = <<>>
  /\ locked' = TRUE
  /\ lockPc' = [lockPc EXCEPT ![t] = "holding"]
  /\ UNCHANGED <<waiters, asleep>>

ScopedLockSleep(t) ==
  /\ lockPc[t] \in {"out", "woken"}
  /\ ~(~locked /\ waiters = <<>>)
  /\ asleep' = asleep \cup {t}
  /\ lockPc' = [lockPc EXCEPT ![t] = "sleeping"]
  /\ UNCHANGED <<locked, waiters>>

\* A condition variable may wake a thread for no reason.
SpuriousWake(t) ==
  /\ t \in asleep
  /\ asleep' = asleep \ {t}
  /\ lockPc' = [lockPc EXCEPT ![t] = "woken"]
  /\ UNCHANGED <<locked, waiters>>

(* try_lock_or_enqueue_(), called by await_suspend() *)

TryLock(c) ==
  /\ lockPc[c] = "out"
  /\ ~locked
  /\ locked' = TRUE
  /\ lockPc' = [lockPc EXCEPT ![c] = "holding"]
  /\ UNCHANGED <<waiters, asleep>>

Enqueue(c) ==
  /\ lockPc[c] = "out"
  /\ locked
  /\ waiters' = Append(waiters, c)
  /\ lockPc' = [lockPc EXCEPT ![c] = "waiting"]
  /\ UNCHANGED <<locked, asleep>>

\* cancel_(): the coroutine is destroyed while its waiter is still linked.
Cancel(c) ==
  /\ \E i \in 1..Len(waiters) : waiters[i] = c /\ waiters' = RemoveAt(waiters, i)
  /\ lockPc' = [lockPc EXCEPT ![c] = "out"]
  /\ UNCHANGED <<locked, asleep>>

\* The coroutine reaches await_resume() and owns a guard.
Resume(c) ==
  /\ lockPc[c] = "granted"
  /\ lockPc' = [lockPc EXCEPT ![c] = "holding"]
  /\ UNCHANGED <<locked, waiters, asleep>>

(* unlock_() *)

\* Mutant: the lock is freed although it was handed to a waiter.
HandOverFree(c) ==
  /\ lockPc[c] = "holding"
  /\ waiters # <<>>
  /\ waiters' = Tail(waiters)
  /\ locked' = FALSE
  /\ lockPc' = [lockPc EXCEPT ![c] = "out", ![Head(waiters)] = "granted"]
  /\ UNCHANGED asleep

HandOver(c) ==
  /\ lockPc[c] = "holding"
  /\ waiters # <<>>
  /\ waiters' = Tail(waiters)
  /\ lockPc' = [lockPc EXCEPT ![c] = "out", ![Head(waiters)] = "granted"]
  /\ UNCHANGED <<locked, asleep>>

\* Mutant: the lock is freed without looking at the queue, and a blocked
\* thread is notified as usual.
UnlockIgnoreQueue(c) ==
  /\ lockPc[c] = "holding"
  /\ locked' = FALSE
  /\ lockPc' = [lockPc EXCEPT ![c] = "notifying"]
  /\ UNCHANGED <<waiters, asleep>>

Unlock(c) ==
  /\ lockPc[c] = "holding"
  /\ waiters = <<>>
  /\ locked' = FALSE
  /\ lockPc' = [lockPc EXCEPT ![c] = "notifying"]
  /\ UNCHANGED <<waiters, asleep>>

\* Mutant: the notification is lost.
NotifyNobody(c) ==
  /\ lockPc[c] = "notifying"
  /\ lockPc' = [lockPc EXCEPT ![c] = "out"]
  /\ UNCHANGED <<locked, waiters, asleep>>

NotifyOne(c) ==
  /\ lockPc[c] = "notifying"
  /\ \/ /\ asleep = {}
        /\ lockPc' = [lockPc EXCEPT ![c] = "out"]
        /\ UNCHANGED asleep
     \/ \E t \in asleep :
          /\ asleep' = asleep \ {t}
          /\ lockPc' = [lockPc EXCEPT ![c] = "out", ![t] = "woken"]
  /\ UNCHANGED <<locked, waiters>>

-----------------------------------------------------------------------------

ScopedLock(t) == ScopedLockTake(t) \/ ScopedLockSleep(t)

MutexNext ==
  \/ \E t \in Threads : ScopedLock(t) \/ SpuriousWake(t)
  \/ \E c \in Coros : TryLock(c) \/ Enqueue(c) \/ Cancel(c) \/ Resume(c)
  \/ \E c \in Clients : HandOver(c) \/ Unlock(c) \/ NotifyOne(c)

MutexSpec == MutexInit /\ [][MutexNext]_mutexVars

\* Owners drop their guards, a resume that was scheduled runs, and a call that
\* has begun goes on.  Nobody has to ask for the lock or to cancel, and no
\* spurious wakeup is promised.
MutexFairness ==
  /\ \A t \in Threads : WF_mutexVars(lockPc[t] = "woken" /\ ScopedLock(t))
  /\ \A c \in Coros : WF_mutexVars(Resume(c))
  /\ \A c \in Clients : WF_mutexVars(HandOver(c) \/ Unlock(c)) /\ WF_mutexVars(NotifyOne(c))

MutexFairSpec == MutexSpec /\ MutexFairness

-----------------------------------------------------------------------------
(* Properties *)

Owners == {c \in Clients : lockPc[c] \in {"granted", "holding"}}

MutexTypeOK ==
  /\ locked \in BOOLEAN
  /\ waiters \in Seq(Coros)
  /\ asleep \subseteq Threads
  /\ lockPc \in [Clients -> MutexPc]

\* At most one client owns the lock, a coroutine that was handed the lock and
\* not yet resumed included; locked_ says whether there is one, and no waiter
\* is left in the queue of a free lock.
MutualExclusion ==
  /\ \A c, d \in Owners : c = d
  /\ locked <=> Owners # {}
  /\ ~locked => waiters = <<>>

\* While a thread sleeps and the lock is free, some wakeup is still under way:
\* unlock_() has not called notify_one() yet, or a woken thread is about to
\* take the lock and so will unlock it later.
NoLostNotify ==
  asleep # {} /\ ~locked => \E c \in Clients : lockPc[c] \in {"notifying", "woken"}

\* While coroutines are queued only the oldest of them can become the owner:
\* neither a thread nor a coroutine that comes later overtakes it.
NoBarging ==
  [][waiters # <<>> =>
       \A c \in Clients : c \in Owners' \ Owners => c = Head(waiters)]_mutexVars

\* A queued coroutine is resumed, unless it is destroyed.
WaiterServed == \A c \in Coros : lockPc[c] = "waiting" ~> lockPc[c] \in {"holding", "out"}

\* A free lock for which threads sleep is taken.
FreeLockTaken == (asleep # {} /\ ~locked) ~> (locked \/ asleep = {})

(* The inductive invariant: the queue holds each waiting coroutine once.   *)

QueueInv ==
  /\ \A i, j \in 1..Len(waiters) : waiters[i] = waiters[j] => i = j
  /\ \A c \in Coros : lockPc[c] = "waiting" <=> \E i \in 1..Len(waiters) : waiters[i] = c
  /\ \A t \in Threads : lockPc[t] = "sleeping" <=> t \in asleep
  /\ \A t \in Threads : lockPc[t] \notin {"waiting", "granted"}
  /\ \A c \in Coros : lockPc[c] \notin {"sleeping", "woken"}

MutexInv == MutexTypeOK /\ QueueInv /\ MutualExclusion /\ NoLostNotify

(* The mutex implements ExclusiveLock. *)

ownerBar == IF Owners = {} THEN NoOwner ELSE CHOOSE c \in Clients : c \in Owners

Lock == INSTANCE ExclusiveLock WITH owner <- ownerBar, queue <- waiters

\* Every behaviour of the mutex is one of the abstract lock: an owner that is
\* released passes the lock on in the same step, or nobody is queued.
ImplementsLock == Lock!LockSpec

=============================================================================
