------------------------ MODULE OrderedAsyncTaskWindow ------------------------
(***************************************************************************)
(* Commons/OrderedAsyncTaskWindow: tasks with consecutive sequence numbers *)
(* run concurrently, end in any order and are committed in order.  The     *)
(* ends that cannot be committed yet are remembered in the ring completed, *)
(* one slot for sequence % window_size.  Every operation is one critical   *)
(* section of the window's lock.  One client starts tasks and waits.       *)
(***************************************************************************)
EXTENDS Integers, FiniteSets

CONSTANTS Sequences,      \* the number of tasks there may be: 0 .. Sequences - 1
          WindowSize,     \* window_size_
          WakeThreshold   \* wake_threshold, at least 1

ASSUME WindowAssumption ==
  /\ Sequences \in Nat
  /\ WindowSize \in Nat \ {0}
  /\ WakeThreshold \in Nat \ {0}

VARIABLES completed,   \* the ring
          committed,   \* all tasks below it have ended well
          started,     \* all tasks below it have been started
          inFlight,    \* in_flight
          sinceWait,   \* completed_since_wait
          failed,      \* failed
          exception,   \* "none", "set", or "taken" by rethrow_exception()
          task,        \* none, running, ok or failed, for each sequence number
          asleep       \* the client sleeps on cond

windowVars == <<completed, committed, started, inFlight, sinceWait, failed,
                exception, task, asleep>>

Tasks == 0 .. Sequences - 1
Slots == 0 .. WindowSize - 1

\* The constructor; n is first_sequence.
FreshWindow(n) ==
  /\ completed' = [i \in Slots |-> FALSE]
  /\ committed' = n
  /\ started' = n
  /\ inFlight' = 0
  /\ sinceWait' = 0
  /\ failed' = FALSE
  /\ exception' = "none"
  /\ task' = [s \in Tasks |-> "none"]
  /\ asleep' = FALSE

WindowInit ==
  /\ completed = [i \in Slots |-> FALSE]
  /\ committed = 0 /\ started = 0 /\ inFlight = 0 /\ sinceWait = 0
  /\ failed = FALSE /\ exception = "none"
  /\ task = [s \in Tasks |-> "none"]
  /\ asleep = FALSE

\* full()
Full == started - committed >= WindowSize

Start(s) ==
  /\ started' = IF started > s + 1 THEN started ELSE s + 1
  /\ inFlight' = inFlight + 1
  /\ task' = [task EXCEPT ![s] = "running"]
  /\ UNCHANGED <<completed, committed, sinceWait, failed, exception, asleep>>

(* The completion callback of a task *)

\* in_flight, completed_since_wait and the notification of the client.
TaskEnded(raised) ==
  /\ sinceWait' = sinceWait + 1
  /\ inFlight' = inFlight - 1
  /\ asleep' = (asleep /\ ~(raised \/ inFlight' = 0 \/ sinceWait' = WakeThreshold))

\* How many slots, from that of committed on, are set in the ring.
RunLength(ring) ==
  CHOOSE n \in 0 .. WindowSize :
    /\ \A i \in 0 .. n - 1 : ring[(committed + i) % WindowSize]
    /\ n = WindowSize \/ ~ring[(committed + n) % WindowSize]

\* Mutant: the newest end is committed with everything before it.
TaskSucceedsOutOfOrder(s) ==
  /\ task[s] = "running"
  /\ task' = [task EXCEPT ![s] = "ok"]
  /\ committed' = IF s >= committed THEN s + 1 ELSE committed
  /\ TaskEnded(FALSE)
  /\ UNCHANGED <<completed, started, failed, exception>>

TaskSucceeds(s) ==
  /\ task[s] = "running"
  /\ task' = [task EXCEPT ![s] = "ok"]
  /\ LET ring == [completed EXCEPT ![s % WindowSize] = TRUE]
         n    == RunLength(ring)
     IN  /\ committed' = committed + n
         /\ completed' =
              [i \in Slots |->
                 ring[i] /\ ~ \E j \in 0 .. n - 1 : i = (committed + j) % WindowSize]
  /\ TaskEnded(FALSE)
  /\ UNCHANGED <<started, failed, exception>>

\* Mutant: the end of a task that fails is not notified.
TaskFailsQuietly(s) ==
  /\ task[s] = "running"
  /\ task' = [task EXCEPT ![s] = "failed"]
  /\ exception' = IF exception = "none" THEN "set" ELSE exception
  /\ failed' = TRUE
  /\ sinceWait' = sinceWait + 1
  /\ inFlight' = inFlight - 1
  /\ UNCHANGED <<completed, committed, started, asleep>>

\* The optional that rethrow_exception() has moved from still has a value.
TaskFails(s) ==
  /\ task[s] = "running"
  /\ task' = [task EXCEPT ![s] = "failed"]
  /\ exception' = IF exception = "none" THEN "set" ELSE exception
  /\ failed' = TRUE
  /\ TaskEnded(TRUE)
  /\ UNCHANGED <<completed, committed, started>>

TaskEnds(s) == TaskSucceeds(s) \/ TaskFails(s)

(* The client's waits *)

\* wait_progress() returns when this holds and, after a failure, NoneInFlight.
Progressed == failed \/ inFlight = 0 \/ sinceWait >= WakeThreshold

\* drain() and the destructor
NoneInFlight == inFlight = 0

Sleep ==
  /\ asleep' = TRUE
  /\ UNCHANGED <<completed, committed, started, inFlight, sinceWait, failed,
                 exception, task>>

\* wait_progress() resets the count when it returns.
ResetProgress ==
  /\ sinceWait' = 0
  /\ UNCHANGED <<completed, committed, started, inFlight, failed, exception, task, asleep>>

\* rethrow_exception() has something to throw.
TakeException ==
  /\ exception' = "taken"
  /\ UNCHANGED <<completed, committed, started, inFlight, sinceWait, failed, task, asleep>>

=============================================================================
