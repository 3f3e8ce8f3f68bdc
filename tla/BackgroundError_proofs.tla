------------------------ MODULE BackgroundError_proofs ------------------------
(***************************************************************************)
(* Proofs about the background error of a profile map and about the gate   *)
(* that it closes, for any numbers of threads, callers and workers and any *)
(* retry period.  Of ActivityGate: GateInv is inductive, and it implies    *)
(* that a drained gate is empty and that no sleeper is forgotten.  Of      *)
(* BackgroundError, whose submission_gate_ is such a gate: it is open      *)
(* exactly while the map is healthy, probes overlap only when one of them  *)
(* is late, an error is only taken back after the last failure, and probes *)
(* keep their distance.                                                    *)
(***************************************************************************)
EXTENDS ActivityGate, BackgroundError, FiniteSetTheorems, TLAPS

-----------------------------------------------------------------------------
(* ActivityGate *)

\* The counters are cardinalities of finite sets.
LEMMA FiniteCounted ==
  /\ \A S \in SUBSET Threads : IsFiniteSet(S)
  /\ \A S \in SUBSET Watchers : IsFiniteSet(S)
BY FS_Subset, GateAssumption

\* Init establishes the inductive invariant.
LEMMA InitGateInv == GateInit => GateInv
<1> SUFFICES ASSUME GateInit PROVE GateInv
  OBVIOUS
<1>1. Activities = {} /\ {w \in Watchers : wpc[w] # "idle"} = {}
  BY DEF GateInit, Activities, Counted, Sleepers
<1>2. Counters
  BY <1>1, FS_EmptySet DEF GateInit, Counters
<1>3. GateTypeOK
  BY DEF GateInit, GateTypeOK, ThreadPc, SleeperPc, ActiveState, Sleepers
<1>4. OwnerInv /\ SleepInv
  BY DEF GateInit, OwnerInv, SleepInv, Committed, Sleepers
<1> QED
  BY <1>2, <1>3, <1>4 DEF GateInv

\* Every step keeps running_ and waiters_ equal to the number of threads and
\* watchers they count.
LEMMA CountersStep ==
  ASSUME GateTypeOK, Counters, [GateNext]_gateVars
  PROVE  Counters'
<1>1. ASSUME NEW t \in Threads, EnterLoad(t) PROVE Counters'
  <2>1. Activities' = Activities
    BY <1>1 DEF GateTypeOK, Activities, Counted, EnterLoad
  <2>2. {x \in Watchers : wpc[x] # "idle"}' = {x \in Watchers : wpc[x] # "idle"}
    BY <1>1, GateAssumption DEF GateTypeOK, Sleepers, EnterLoad
  <2> QED
    BY <1>1, <2>1, <2>2 DEF Counters, EnterLoad
<1>2. ASSUME NEW t \in Threads, EnterAdd(t) PROVE Counters'
  <2>1. Activities' = Activities \cup {t} /\ t \notin Activities
    BY <1>2 DEF GateTypeOK, EnterAdd, Activities, Counted
  <2>2. Cardinality(Activities') = Cardinality(Activities) + 1
    BY <2>1, FS_AddElement, FiniteCounted DEF Activities
  <2> QED
    BY <1>2, <2>2 DEF Counters, EnterAdd
<1>3. ASSUME NEW t \in Threads, EnterRecheck(t) PROVE Counters'
  <2>1. Activities' = Activities
    BY <1>3 DEF GateTypeOK, Activities, Counted, EnterRecheck
  <2>2. {x \in Watchers : wpc[x] # "idle"}' = {x \in Watchers : wpc[x] # "idle"}
    BY <1>3, GateAssumption DEF GateTypeOK, Sleepers, EnterRecheck
  <2> QED
    BY <1>3, <2>1, <2>2 DEF Counters, EnterRecheck
<1>4. ASSUME NEW t \in Threads, GuardReset(t) PROVE Counters'
  <2>1. Activities' = Activities
    BY <1>4 DEF GateTypeOK, Activities, Counted, GuardReset
  <2>2. {x \in Watchers : wpc[x] # "idle"}' = {x \in Watchers : wpc[x] # "idle"}
    BY <1>4, GateAssumption DEF GateTypeOK, Sleepers, GuardReset
  <2> QED
    BY <1>4, <2>1, <2>2 DEF Counters, GuardReset
<1>5. ASSUME NEW t \in Threads, LeaveSub(t) PROVE Counters'
  <2>1. Activities' = Activities \ {t} /\ t \in Activities
    BY <1>5 DEF GateTypeOK, LeaveSub, Activities, Counted
  <2>2. Cardinality(Activities') = Cardinality(Activities) - 1
    BY <2>1, FS_RemoveElement, FiniteCounted DEF Activities
  <2> QED
    BY <1>5, <2>2 DEF Counters, LeaveSub
<1>6. ASSUME NEW t \in Threads, LeaveCheckClosed(t) PROVE Counters'
  <2>1. Activities' = Activities
    BY <1>6 DEF GateTypeOK, Activities, Counted, LeaveCheckClosed
  <2>2. {x \in Watchers : wpc[x] # "idle"}' = {x \in Watchers : wpc[x] # "idle"}
    BY <1>6, GateAssumption DEF GateTypeOK, Sleepers, LeaveCheckClosed
  <2> QED
    BY <1>6, <2>1, <2>2 DEF Counters, LeaveCheckClosed
<1>7. ASSUME NEW t \in Threads, LeaveCheckWaiters(t) PROVE Counters'
  <2>1. Activities' = Activities
    BY <1>7 DEF GateTypeOK, Activities, Counted, LeaveCheckWaiters
  <2>2. {x \in Watchers : wpc[x] # "idle"}' = {x \in Watchers : wpc[x] # "idle"}
    BY <1>7, GateAssumption DEF GateTypeOK, Sleepers, LeaveCheckWaiters
  <2> QED
    BY <1>7, <2>1, <2>2 DEF Counters, LeaveCheckWaiters
<1>8. ASSUME NEW t \in Threads, LeaveSignal(t) PROVE Counters'
  <2>1. Activities' = Activities
    BY <1>8 DEF GateTypeOK, Activities, Counted, LeaveSignal
  <2>2. {x \in Watchers : wpc[x] # "idle"}' = {x \in Watchers : wpc[x] # "idle"}
    BY <1>8, GateAssumption DEF GateTypeOK, Sleepers, LeaveSignal
  <2> QED
    BY <1>8, <2>1, <2>2 DEF Counters, LeaveSignal
<1>9. ASSUME ActivateGate PROVE Counters'
  <2>1. Activities' = Activities
    BY <1>9 DEF GateTypeOK, Activities, Counted, ActivateGate
  <2>2. {x \in Watchers : wpc[x] # "idle"}' = {x \in Watchers : wpc[x] # "idle"}
    BY <1>9, GateAssumption DEF GateTypeOK, Sleepers, ActivateGate
  <2> QED
    BY <1>9, <2>1, <2>2 DEF Counters, ActivateGate
<1>10. ASSUME DeactivateGate PROVE Counters'
  <2>1. Activities' = Activities
    BY <1>10 DEF GateTypeOK, Activities, Counted, DeactivateGate
  <2>2. {x \in Watchers : wpc[x] # "idle"}' = {x \in Watchers : wpc[x] # "idle"}
    BY <1>10, GateAssumption DEF GateTypeOK, Sleepers, DeactivateGate
  <2> QED
    BY <1>10, <2>1, <2>2 DEF Counters, DeactivateGate
<1>11. ASSUME WaitObjectLock PROVE Counters'
  <2>1. Activities' = Activities
    BY <1>11 DEF GateTypeOK, Activities, Counted, WaitObjectLock
  <2>2. {x \in Watchers : wpc[x] # "idle"}' = {x \in Watchers : wpc[x] # "idle"}
    BY <1>11, GateAssumption DEF GateTypeOK, Sleepers, WaitObjectLock
  <2> QED
    BY <1>11, <2>1, <2>2 DEF Counters, WaitObjectLock
<1>12. ASSUME WaitObjectTest PROVE Counters'
  <2>1. Activities' = Activities
    BY <1>12 DEF GateTypeOK, Activities, Counted, WaitObjectTest
  <2>2. {x \in Watchers : wpc[x] # "idle"}' = {x \in Watchers : wpc[x] # "idle"}
    BY <1>12, GateAssumption DEF GateTypeOK, Sleepers, WaitObjectTest
  <2> QED
    BY <1>12, <2>1, <2>2 DEF Counters, WaitObjectTest
<1>13. ASSUME WaitObjectReturn PROVE Counters'
  <2>1. Activities' = Activities
    BY <1>13 DEF GateTypeOK, Activities, Counted, WaitObjectReturn
  <2>2. {x \in Watchers : wpc[x] # "idle"}' = {x \in Watchers : wpc[x] # "idle"}
    BY <1>13, GateAssumption DEF GateTypeOK, Sleepers, WaitObjectReturn
  <2> QED
    BY <1>13, <2>1, <2>2 DEF Counters, WaitObjectReturn
<1>14. ASSUME NEW w \in Watchers, WatchLock(w) PROVE Counters'
  <2> DEFINE W == {x \in Watchers : wpc[x] # "idle"}
  <2>1. W' = W \cup {w} /\ w \notin W
    BY <1>14 DEF GateTypeOK, WatchLock, Sleepers
  <2>2. Cardinality(W') = Cardinality(W) + 1
    BY <2>1, FS_AddElement, FiniteCounted
  <2> QED
    BY <1>14, <2>2 DEF Counters, WatchLock, Activities
<1>15. ASSUME NEW w \in Watchers, WatchTest(w) PROVE Counters'
  <2>1. Activities' = Activities
    BY <1>15 DEF GateTypeOK, Activities, Counted, WatchTest
  <2>2. {x \in Watchers : wpc[x] # "idle"}' = {x \in Watchers : wpc[x] # "idle"}
    BY <1>15, GateAssumption DEF GateTypeOK, Sleepers, WatchTest
  <2> QED
    BY <1>15, <2>1, <2>2 DEF Counters, WatchTest
<1>16. ASSUME NEW w \in Watchers, WatchReturn(w) PROVE Counters'
  <2> DEFINE W == {x \in Watchers : wpc[x] # "idle"}
  <2>1. W' = W \ {w} /\ w \in W
    BY <1>16 DEF GateTypeOK, WatchReturn, Sleepers
  <2>2. Cardinality(W') = Cardinality(W) - 1
    BY <2>1, FS_RemoveElement, FiniteCounted
  <2> QED
    BY <1>16, <2>2 DEF Counters, WatchReturn, Activities
<1>17. ASSUME NEW s \in Sleepers, CondSleep(s) PROVE Counters'
  <2>1. Activities' = Activities
    BY <1>17 DEF GateTypeOK, Activities, Counted, CondSleep
  <2>2. {x \in Watchers : wpc[x] # "idle"}' = {x \in Watchers : wpc[x] # "idle"}
    BY <1>17, GateAssumption DEF GateTypeOK, Sleepers, CondSleep
  <2> QED
    BY <1>17, <2>1, <2>2 DEF Counters, CondSleep
<1>18. ASSUME NEW s \in Sleepers, CondWake(s) PROVE Counters'
  <2>1. Activities' = Activities
    BY <1>18 DEF GateTypeOK, Activities, Counted, CondWake
  <2>2. {x \in Watchers : wpc[x] # "idle"}' = {x \in Watchers : wpc[x] # "idle"}
    BY <1>18, GateAssumption DEF GateTypeOK, Sleepers, CondWake
  <2> QED
    BY <1>18, <2>1, <2>2 DEF Counters, CondWake
<1>19. ASSUME UNCHANGED gateVars PROVE Counters'
  BY <1>19 DEF gateVars, Counters, Activities
<1> QED
  BY <1>1, <1>2, <1>3, <1>4, <1>5, <1>6, <1>7, <1>8, <1>9, <1>10, <1>11, <1>12, <1>13, <1>14,
     <1>15, <1>16, <1>17, <1>18, <1>19 DEF GateNext, Enter, Leave, WaitObject, Watch

\* Every step keeps the types; the counters stay natural numbers because they
\* are cardinalities.
LEMMA GateTypeStep ==
  ASSUME GateTypeOK, Counters, [GateNext]_gateVars
  PROVE  GateTypeOK'
<1> DEFINE Rest ==
      /\ closed \in BOOLEAN /\ state \in ActiveState
      /\ mutex \in Sleepers \cup {NoOne} /\ asleep \subseteq Sleepers
      /\ tpc \in [Threads -> ThreadPc] /\ wpc \in [Sleepers -> SleeperPc]
<1>c. Counters'
  BY CountersStep
<1>n. running' \in Nat /\ waiters' \in Nat
  <2>1. IsFiniteSet(Activities') /\ IsFiniteSet({w \in Watchers : wpc[w] # "idle"}')
    BY FiniteCounted DEF Activities
  <2> QED
    BY <1>c, <2>1, FS_CardinalityType DEF Counters
<1>1. ASSUME NEW t \in Threads, EnterLoad(t) PROVE Rest'
  BY <1>1, GateAssumption DEF GateTypeOK, ThreadPc, SleeperPc, ActiveState, Sleepers, EnterLoad
<1>2. ASSUME NEW t \in Threads, EnterAdd(t) PROVE Rest'
  BY <1>2, GateAssumption DEF GateTypeOK, ThreadPc, SleeperPc, ActiveState, Sleepers, EnterAdd
<1>3. ASSUME NEW t \in Threads, EnterRecheck(t) PROVE Rest'
  BY <1>3, GateAssumption DEF GateTypeOK, ThreadPc, SleeperPc, ActiveState, Sleepers, EnterRecheck
<1>4. ASSUME NEW t \in Threads, GuardReset(t) PROVE Rest'
  BY <1>4, GateAssumption DEF GateTypeOK, ThreadPc, SleeperPc, ActiveState, Sleepers, GuardReset
<1>5. ASSUME NEW t \in Threads, LeaveSub(t) PROVE Rest'
  BY <1>5, GateAssumption DEF GateTypeOK, ThreadPc, SleeperPc, ActiveState, Sleepers, LeaveSub
<1>6. ASSUME NEW t \in Threads, LeaveCheckClosed(t) PROVE Rest'
  BY <1>6, GateAssumption DEF GateTypeOK, ThreadPc, SleeperPc, ActiveState, Sleepers, LeaveCheckClosed
<1>7. ASSUME NEW t \in Threads, LeaveCheckWaiters(t) PROVE Rest'
  BY <1>7, GateAssumption DEF GateTypeOK, ThreadPc, SleeperPc, ActiveState, Sleepers, LeaveCheckWaiters
<1>8. ASSUME NEW t \in Threads, LeaveSignal(t) PROVE Rest'
  BY <1>8, GateAssumption DEF GateTypeOK, ThreadPc, SleeperPc, ActiveState, Sleepers, LeaveSignal
<1>9. ASSUME ActivateGate PROVE Rest'
  BY <1>9, GateAssumption DEF GateTypeOK, ThreadPc, SleeperPc, ActiveState, Sleepers, ActivateGate
<1>10. ASSUME DeactivateGate PROVE Rest'
  BY <1>10, GateAssumption DEF GateTypeOK, ThreadPc, SleeperPc, ActiveState, Sleepers, DeactivateGate
<1>11. ASSUME WaitObjectLock PROVE Rest'
  BY <1>11, GateAssumption DEF GateTypeOK, ThreadPc, SleeperPc, ActiveState, Sleepers, WaitObjectLock
<1>12. ASSUME WaitObjectTest PROVE Rest'
  BY <1>12, GateAssumption DEF GateTypeOK, ThreadPc, SleeperPc, ActiveState, Sleepers, WaitObjectTest
<1>13. ASSUME WaitObjectReturn PROVE Rest'
  BY <1>13, GateAssumption DEF GateTypeOK, ThreadPc, SleeperPc, ActiveState, Sleepers, WaitObjectReturn
<1>14. ASSUME NEW w \in Watchers, WatchLock(w) PROVE Rest'
  BY <1>14, GateAssumption DEF GateTypeOK, ThreadPc, SleeperPc, ActiveState, Sleepers, WatchLock
<1>15. ASSUME NEW w \in Watchers, WatchTest(w) PROVE Rest'
  BY <1>15, GateAssumption DEF GateTypeOK, ThreadPc, SleeperPc, ActiveState, Sleepers, WatchTest
<1>16. ASSUME NEW w \in Watchers, WatchReturn(w) PROVE Rest'
  BY <1>16, GateAssumption DEF GateTypeOK, ThreadPc, SleeperPc, ActiveState, Sleepers, WatchReturn
<1>17. ASSUME NEW s \in Sleepers, CondSleep(s) PROVE Rest'
  BY <1>17, GateAssumption DEF GateTypeOK, ThreadPc, SleeperPc, ActiveState, Sleepers, CondSleep
<1>18. ASSUME NEW s \in Sleepers, CondWake(s) PROVE Rest'
  BY <1>18, GateAssumption DEF GateTypeOK, ThreadPc, SleeperPc, ActiveState, Sleepers, CondWake
<1>19. ASSUME UNCHANGED gateVars PROVE Rest'
  BY <1>19 DEF gateVars, GateTypeOK
<1>r. Rest'
  BY <1>1, <1>2, <1>3, <1>4, <1>5, <1>6, <1>7, <1>8, <1>9, <1>10, <1>11, <1>12, <1>13, <1>14,
     <1>15, <1>16, <1>17, <1>18, <1>19 DEF GateNext, Enter, Leave, WaitObject, Watch
<1> QED
  BY <1>n, <1>r DEF GateTypeOK

\* Every step keeps the owner's part: nobody is inside a gate that was drained.
LEMMA OwnerStep ==
  ASSUME GateTypeOK, Counters, OwnerInv, [GateNext]_gateVars
  PROVE  OwnerInv'
<1>1. ASSUME NEW t \in Threads, EnterLoad(t) PROVE OwnerInv'
  BY <1>1, GateAssumption
     DEF GateTypeOK, OwnerInv, ThreadPc, SleeperPc, ActiveState, Sleepers, EnterLoad
<1>2. ASSUME NEW t \in Threads, EnterAdd(t) PROVE OwnerInv'
  BY <1>2, GateAssumption DEF GateTypeOK, OwnerInv, ThreadPc, SleeperPc, ActiveState, Sleepers, EnterAdd
<1>3. ASSUME NEW t \in Threads, EnterRecheck(t) PROVE OwnerInv'
  BY <1>3, GateAssumption
     DEF GateTypeOK, OwnerInv, ThreadPc, SleeperPc, ActiveState, Sleepers, EnterRecheck
<1>4. ASSUME NEW t \in Threads, GuardReset(t) PROVE OwnerInv'
  BY <1>4, GateAssumption
     DEF GateTypeOK, OwnerInv, ThreadPc, SleeperPc, ActiveState, Sleepers, GuardReset
<1>5. ASSUME NEW t \in Threads, LeaveSub(t) PROVE OwnerInv'
  BY <1>5, GateAssumption DEF GateTypeOK, OwnerInv, ThreadPc, SleeperPc, ActiveState, Sleepers, LeaveSub
<1>6. ASSUME NEW t \in Threads, LeaveCheckClosed(t) PROVE OwnerInv'
  BY <1>6, GateAssumption
     DEF GateTypeOK, OwnerInv, ThreadPc, SleeperPc, ActiveState, Sleepers, LeaveCheckClosed
<1>7. ASSUME NEW t \in Threads, LeaveCheckWaiters(t) PROVE OwnerInv'
  BY <1>7, GateAssumption
     DEF GateTypeOK, OwnerInv, ThreadPc, SleeperPc, ActiveState, Sleepers, LeaveCheckWaiters
<1>8. ASSUME NEW t \in Threads, LeaveSignal(t) PROVE OwnerInv'
  BY <1>8, GateAssumption
     DEF GateTypeOK, OwnerInv, ThreadPc, SleeperPc, ActiveState, Sleepers, LeaveSignal
<1>9. ASSUME ActivateGate PROVE OwnerInv'
  BY <1>9, GateAssumption DEF GateTypeOK, OwnerInv, ThreadPc, SleeperPc, ActiveState, Sleepers, ActivateGate
<1>10. ASSUME DeactivateGate PROVE OwnerInv'
  BY <1>10, GateAssumption
     DEF GateTypeOK, OwnerInv, ThreadPc, SleeperPc, ActiveState, Sleepers, DeactivateGate
<1>11. ASSUME WaitObjectLock PROVE OwnerInv'
  BY <1>11, GateAssumption
     DEF GateTypeOK, OwnerInv, ThreadPc, SleeperPc, ActiveState, Sleepers, WaitObjectLock
<1>12. ASSUME WaitObjectTest PROVE OwnerInv'
  <2>1. running = 0 => Activities = {}
    BY FS_EmptySet, FiniteCounted DEF Counters, Activities
  <2>2. running = 0 => \A t \in Threads : tpc[t] # "inside"
    BY <2>1 DEF Activities, Counted
  <2> QED
    BY <1>12, <2>2 DEF GateTypeOK, OwnerInv, WaitObjectTest, Sleepers, ActiveState
<1>13. ASSUME WaitObjectReturn PROVE OwnerInv'
  BY <1>13, GateAssumption
     DEF GateTypeOK, OwnerInv, ThreadPc, SleeperPc, ActiveState, Sleepers, WaitObjectReturn
<1>14. ASSUME NEW w \in Watchers, WatchLock(w) PROVE OwnerInv'
  BY <1>14, GateAssumption
     DEF GateTypeOK, OwnerInv, ThreadPc, SleeperPc, ActiveState, Sleepers, WatchLock
<1>15. ASSUME NEW w \in Watchers, WatchTest(w) PROVE OwnerInv'
  BY <1>15, GateAssumption
     DEF GateTypeOK, OwnerInv, ThreadPc, SleeperPc, ActiveState, Sleepers, WatchTest
<1>16. ASSUME NEW w \in Watchers, WatchReturn(w) PROVE OwnerInv'
  BY <1>16, GateAssumption
     DEF GateTypeOK, OwnerInv, ThreadPc, SleeperPc, ActiveState, Sleepers, WatchReturn
<1>17. ASSUME NEW s \in Sleepers, CondSleep(s) PROVE OwnerInv'
  BY <1>17, GateAssumption
     DEF GateTypeOK, OwnerInv, ThreadPc, SleeperPc, ActiveState, Sleepers, CondSleep
<1>18. ASSUME NEW s \in Sleepers, CondWake(s) PROVE OwnerInv'
  BY <1>18, GateAssumption
     DEF GateTypeOK, OwnerInv, ThreadPc, SleeperPc, ActiveState, Sleepers, CondWake
<1>19. ASSUME UNCHANGED gateVars PROVE OwnerInv'
  BY <1>19 DEF gateVars, OwnerInv
<1> QED
  BY <1>1, <1>2, <1>3, <1>4, <1>5, <1>6, <1>7, <1>8, <1>9, <1>10, <1>11, <1>12, <1>13, <1>14,
     <1>15, <1>16, <1>17, <1>18, <1>19 DEF GateNext, Enter, Leave, WaitObject, Watch

\* Every step keeps the sleepers' part: whoever sleeps will be woken.
LEMMA SleepStep ==
  ASSUME GateTypeOK, Counters, OwnerInv, SleepInv, [GateNext]_gateVars
  PROVE  SleepInv'
<1>1. ASSUME NEW t \in Threads, EnterLoad(t) PROVE SleepInv'
  BY <1>1, GateAssumption
     DEF GateTypeOK, OwnerInv, SleepInv, Committed, WillSignal, ThreadPc, SleeperPc, ActiveState,
         Sleepers, EnterLoad
<1>2. ASSUME NEW t \in Threads, EnterAdd(t) PROVE SleepInv'
  BY <1>2, GateAssumption
     DEF GateTypeOK, OwnerInv, SleepInv, Committed, WillSignal, ThreadPc, SleeperPc, ActiveState,
         Sleepers, EnterAdd
<1>3. ASSUME NEW t \in Threads, EnterRecheck(t) PROVE SleepInv'
  BY <1>3, GateAssumption
     DEF GateTypeOK, OwnerInv, SleepInv, Committed, WillSignal, ThreadPc, SleeperPc, ActiveState,
         Sleepers, EnterRecheck
<1>4. ASSUME NEW t \in Threads, GuardReset(t) PROVE SleepInv'
  BY <1>4, GateAssumption
     DEF GateTypeOK, OwnerInv, SleepInv, Committed, WillSignal, ThreadPc, SleeperPc, ActiveState,
         Sleepers, GuardReset
<1>5. ASSUME NEW t \in Threads, LeaveSub(t) PROVE SleepInv'
  BY <1>5, GateAssumption
     DEF GateTypeOK, OwnerInv, SleepInv, Committed, WillSignal, ThreadPc, SleeperPc, ActiveState,
         Sleepers, LeaveSub
<1>6. ASSUME NEW t \in Threads, LeaveCheckClosed(t) PROVE SleepInv'
  BY <1>6, GateAssumption
     DEF GateTypeOK, OwnerInv, SleepInv, Committed, WillSignal, ThreadPc, SleeperPc, ActiveState,
         Sleepers, LeaveCheckClosed
<1>7. ASSUME NEW t \in Threads, LeaveCheckWaiters(t) PROVE SleepInv'
  <2>1. waiters = 0 => \A w \in Watchers : wpc[w] = "idle"
    <3>1. waiters = 0 => {w \in Watchers : wpc[w] # "idle"} = {}
      BY FS_EmptySet, FiniteCounted DEF Counters
    <3> QED
      BY <3>1
  <2> QED
    BY <1>7, <2>1, GateAssumption
       DEF GateTypeOK, SleepInv, Committed, WillSignal, OwnerInv, ThreadPc, SleeperPc, ActiveState,
           Sleepers, LeaveCheckWaiters
<1>8. ASSUME NEW t \in Threads, LeaveSignal(t) PROVE SleepInv'
  BY <1>8, GateAssumption
     DEF GateTypeOK, OwnerInv, SleepInv, Committed, WillSignal, ThreadPc, SleeperPc, ActiveState,
         Sleepers, LeaveSignal
<1>9. ASSUME ActivateGate PROVE SleepInv'
  BY <1>9, GateAssumption
     DEF GateTypeOK, OwnerInv, SleepInv, Committed, WillSignal, ThreadPc, SleeperPc, ActiveState,
         Sleepers, ActivateGate
<1>10. ASSUME DeactivateGate PROVE SleepInv'
  BY <1>10, GateAssumption
     DEF GateTypeOK, OwnerInv, SleepInv, Committed, WillSignal, ThreadPc, SleeperPc, ActiveState,
         Sleepers, DeactivateGate
<1>11. ASSUME WaitObjectLock PROVE SleepInv'
  BY <1>11, GateAssumption
     DEF GateTypeOK, OwnerInv, SleepInv, Committed, WillSignal, ThreadPc, SleeperPc, ActiveState,
         Sleepers, WaitObjectLock
<1>12. ASSUME WaitObjectTest PROVE SleepInv'
  BY <1>12, GateAssumption
     DEF GateTypeOK, OwnerInv, SleepInv, Committed, WillSignal, ThreadPc, SleeperPc, ActiveState,
         Sleepers, WaitObjectTest
<1>13. ASSUME WaitObjectReturn PROVE SleepInv'
  BY <1>13, GateAssumption
     DEF GateTypeOK, OwnerInv, SleepInv, Committed, WillSignal, ThreadPc, SleeperPc, ActiveState,
         Sleepers, WaitObjectReturn
<1>14. ASSUME NEW w \in Watchers, WatchLock(w) PROVE SleepInv'
  BY <1>14, GateAssumption
     DEF GateTypeOK, OwnerInv, SleepInv, Committed, WillSignal, ThreadPc, SleeperPc, ActiveState,
         Sleepers, WatchLock
<1>15. ASSUME NEW w \in Watchers, WatchTest(w) PROVE SleepInv'
  BY <1>15, GateAssumption
     DEF GateTypeOK, OwnerInv, SleepInv, Committed, WillSignal, ThreadPc, SleeperPc, ActiveState,
         Sleepers, WatchTest
<1>16. ASSUME NEW w \in Watchers, WatchReturn(w) PROVE SleepInv'
  BY <1>16, GateAssumption
     DEF GateTypeOK, OwnerInv, SleepInv, Committed, WillSignal, ThreadPc, SleeperPc, ActiveState,
         Sleepers, WatchReturn
<1>17. ASSUME NEW s \in Sleepers, CondSleep(s) PROVE SleepInv'
  BY <1>17, GateAssumption
     DEF GateTypeOK, OwnerInv, SleepInv, Committed, WillSignal, ThreadPc, SleeperPc, ActiveState,
         Sleepers, CondSleep
<1>18. ASSUME NEW s \in Sleepers, CondWake(s) PROVE SleepInv'
  BY <1>18, GateAssumption
     DEF GateTypeOK, OwnerInv, SleepInv, Committed, WillSignal, ThreadPc, SleeperPc, ActiveState,
         Sleepers, CondWake
<1>19. ASSUME UNCHANGED gateVars PROVE SleepInv'
  BY <1>19 DEF gateVars, SleepInv, Committed, WillSignal
<1> QED
  BY <1>1, <1>2, <1>3, <1>4, <1>5, <1>6, <1>7, <1>8, <1>9, <1>10, <1>11, <1>12, <1>13, <1>14,
     <1>15, <1>16, <1>17, <1>18, <1>19 DEF GateNext, Enter, Leave, WaitObject, Watch

\* GateInv is an invariant of ActivityGate.
THEOREM GateInvariant == GateSpec => []GateInv
<1>1. GateInit => GateInv
  BY InitGateInv
<1>2. GateInv /\ [GateNext]_gateVars => GateInv'
  BY CountersStep, GateTypeStep, OwnerStep, SleepStep DEF GateInv
<1> QED
  BY <1>1, <1>2, PTL DEF GateSpec

\* After wait_object() has returned and before the gate is activated again, no
\* thread holds a guard, whatever the number of threads and watchers.
THEOREM DrainedHolds == GateSpec => []Drained
<1>1. GateInv => Drained
  BY DEF GateInv, OwnerInv, Drained
<1> QED
  BY <1>1, GateInvariant, PTL

\* No thread that waits on cond_ is forgotten by leave_(), whatever the number
\* of threads and watchers.
THEOREM NoLostWakeupHolds == GateSpec => []NoLostWakeup
<1>1. GateInv => NoLostWakeup
  BY DEF GateInv, GateTypeOK, SleepInv, Committed, NoLostWakeup
<1> QED
  BY <1>1, GateInvariant, PTL

-----------------------------------------------------------------------------
(* BackgroundError *)

\* There are finitely many actors, and their number is a natural number.
LEMMA ActorsFinite ==
  /\ IsFiniteSet(Actors)
  /\ Cardinality(Actors) \in Nat
  /\ \A S \in SUBSET Actors : IsFiniteSet(S) /\ Cardinality(S) \in Nat
                              /\ Cardinality(S) <= Cardinality(Actors)
<1>1. IsFiniteSet(Callers \cup Workers)
  BY BackgroundErrorAssumption, FS_Union
<1>2. IsFiniteSet(Actors)
  BY <1>1, FS_AddElement DEF Actors
<1>3. \A S \in SUBSET Actors : IsFiniteSet(S) /\ Cardinality(S) <= Cardinality(Actors)
  BY <1>2, FS_Subset
<1> QED
  BY <1>2, <1>3, FS_CardinalityType

\* Fewer submitters are not more, and one more is at most all actors.
LEMMA SubmittersCount ==
  ASSUME NEW S \in SUBSET Actors, NEW T \in SUBSET S
  PROVE  /\ Cardinality(T) \in Nat /\ Cardinality(S) \in Nat
         /\ Cardinality(T) <= Cardinality(S) /\ Cardinality(S) <= Cardinality(Actors)
         /\ \A a \in S \ T : Cardinality(T) + 1 <= Cardinality(S)
<1>1. IsFiniteSet(S) /\ IsFiniteSet(T) /\ Cardinality(S) \in Nat /\ Cardinality(T) \in Nat
      /\ Cardinality(S) <= Cardinality(Actors)
  BY ActorsFinite
<1>2. Cardinality(T) <= Cardinality(S)
  BY <1>1, FS_Subset
<1>3. ASSUME NEW a \in S \ T PROVE Cardinality(T) + 1 <= Cardinality(S)
  <2>1. Cardinality(T \cup {a}) = Cardinality(T) + 1
    BY <1>1, FS_AddElement
  <2>2. T \cup {a} \in SUBSET S
    OBVIOUS
  <2> QED
    BY <1>1, <2>1, <2>2, FS_Subset
<1> QED
  BY <1>1, <1>2, <1>3

\* Init establishes the inductive invariant.
LEMMA InitRecoveryInv == Init => RecoveryInv
<1> SUFFICES ASSUME Init PROVE RecoveryInv
  OBVIOUS
<1> USE BackgroundErrorAssumption
<1>1. pc \in [Actors -> {"new", "idle"}] /\ \A a \in Actors : pc[a] = IF a = Owner THEN "new" ELSE "idle"
  BY DEF Init
<1>2. TypeOK
  <2>1. hasError \in BOOLEAN /\ probeFlag \in BOOLEAN /\ stopping \in BOOLEAN
    BY DEF Init
  <2>2. retryIn \in 0..RetryPeriod /\ sinceProbe \in 0..RetryPeriod
    BY DEF Init
  <2>3. age \in [Actors -> 0..RetryPeriod]
    BY DEF Init
  <2>4. pending \in 0..(MaxPending + Cardinality(Actors))
    BY ActorsFinite DEF Init
  <2>5. pc \in [Actors -> Places]
    BY <1>1 DEF Places
  <2> QED
    BY <2>1, <2>2, <2>3, <2>4, <2>5 DEF Init, TypeOK
<1>3. OpenIffHealthy /\ ProbesOverlapLate /\ NewIsQuiet /\ PeriodCovers /\ ProbeIsolated
  BY <1>1 DEF Init, OpenIffHealthy, ProbesOverlapLate, NewIsQuiet, PeriodCovers,
              ProbeIsolated, Probing, Inside, Actors
<1>4. PendingBounded
  <2>1. Submitting = {}
    BY <1>1 DEF Submitting, Probing, Actors
  <2> QED
    BY <1>1, <2>1, ActorsFinite, FS_EmptySet DEF Init, PendingBounded, Actors
<1> QED
  BY <1>2, <1>3, <1>4 DEF RecoveryInv

\* The parts of TypeOK as the provers use them.
LEMMA TypeFacts ==
  ASSUME TypeOK
  PROVE  /\ hasError \in BOOLEAN /\ probeFlag \in BOOLEAN /\ stopping \in BOOLEAN
         /\ current \in SUBSET Actors /\ resumed \in SUBSET Actors /\ healed \in SUBSET Actors
         /\ pending \in Nat /\ retryIn \in Nat /\ sinceProbe \in Nat
         /\ RetryPeriod \in Nat \ {0} /\ MaxPending \in Nat /\ Cardinality(Actors) \in Nat
         /\ Owner \in Actors /\ Callers \subseteq Actors /\ Workers \subseteq Actors
BY BackgroundErrorAssumption, ActorsFinite DEF TypeOK, Actors

\* Every step keeps the types and the bound on the queue.
LEMMA TypeStep ==
  ASSUME RecoveryInv, [Next]_vars
  PROVE  TypeOK' /\ PendingBounded'
<1> USE BackgroundErrorAssumption, ActorsFinite
<1>0. TypeOK /\ PendingBounded
  BY DEF RecoveryInv
<1> DEFINE Same == pending' = pending /\ Submitting' \subseteq Submitting
                   /\ pc'[Owner] \notin {"enter", "inside"}
<1>1. Submitting \in SUBSET Actors /\ Submitting' \in SUBSET Actors
  BY DEF Submitting, Actors
<1>2. ASSUME Same PROVE PendingBounded'
  <2>1. Cardinality(Submitting') <= Cardinality(Submitting)
        /\ Cardinality(Submitting) \in Nat /\ Cardinality(Submitting') \in Nat
    BY <1>1, <1>2, SubmittersCount
  <2> QED
    BY <1>0, <1>2, <2>1, TypeFacts DEF PendingBounded
<1>3. ASSUME pending < MaxPending, pending' = pending, pc'[Owner] \notin {"enter", "inside"}
      PROVE  PendingBounded'
  <2>1. Cardinality(Submitting') \in Nat /\ Cardinality(Submitting') <= Cardinality(Actors)
    BY <1>1
  <2> QED
    BY <1>0, <1>3, <2>1, TypeFacts DEF PendingBounded
<1>4. ASSUME NEW a \in Callers, Submit(a) PROVE TypeOK' /\ PendingBounded'
  <2>1. TypeOK' /\ pc'[Owner] \notin {"enter", "inside"}
    BY <1>0, <1>4 DEF Submit, TypeOK, PendingBounded, Goto, errorVars, Places, Actors
  <2> QED
    BY <1>3, <1>4, <2>1 DEF Submit
<1>5. ASSUME NEW a \in Actors, CheckFlag(a) PROVE TypeOK' /\ Same
  BY <1>0, <1>5 DEF CheckFlag, TypeOK, PendingBounded, Goto, errorVars, Places, Actors, Submitting,
                    Probing
<1>6. ASSUME NEW a \in Actors, CheckLocked(a) PROVE TypeOK' /\ Same
  BY <1>0, <1>6
     DEF CheckLocked, TypeOK, PendingBounded, Goto, errorVars, Places, Actors, Submitting,
                    Probing, Home
<1>7. ASSUME NEW a \in Actors, StartProbe(a) PROVE TypeOK' /\ Same
  BY <1>0, <1>7 DEF StartProbe, TypeOK, PendingBounded, Goto, Places, Actors, Submitting, Probing
<1>8. ASSUME NEW a \in Actors, ProbeWaitGate(a) PROVE TypeOK' /\ Same
  BY <1>0, <1>8 DEF ProbeWaitGate, TypeOK, PendingBounded, Goto, errorVars, Places, Actors,
                    Submitting, Probing
<1>9. ASSUME NEW a \in Actors, ProbeWaitPending(a) PROVE TypeOK' /\ Same
  BY <1>0, <1>9 DEF ProbeWaitPending, TypeOK, PendingBounded, Goto, errorVars, Places, Actors,
                    Submitting, Probing
<1>10. ASSUME NEW a \in Actors, NEW ok \in BOOLEAN, Resume(a, ok) PROVE TypeOK' /\ Same
  BY <1>0, <1>10 DEF Resume, TypeOK, PendingBounded, Goto, errorVars, Places, Actors,
                     Submitting, Probing
<1>11. ASSUME NEW a \in Actors, FinishRecovered(a) PROVE TypeOK' /\ Same
  <2>1. hasError' \in BOOLEAN /\ probeFlag' \in BOOLEAN /\ stopping' \in BOOLEAN
    BY <1>0, <1>11 DEF FinishRecovered, TypeOK
  <2>2. /\ age' \in [Actors -> 0..RetryPeriod] /\ pc' \in [Actors -> Places]
        /\ retryIn' \in 0..RetryPeriod
    BY <1>0, <1>11 DEF FinishRecovered, TypeOK, Goto, EndProbe, Places
  <2>3. TypeOK'
    BY <1>0, <1>11, <2>1, <2>2 DEF FinishRecovered, TypeOK, EndProbe
  <2> QED
    BY <1>0, <1>11, <2>3
       DEF FinishRecovered, TypeOK, PendingBounded, Goto, Actors, Submitting, Probing
<1>12. ASSUME NEW a \in Actors, FinishTwice(a) PROVE TypeOK' /\ Same
  BY <1>0, <1>12 DEF FinishTwice, TypeOK, PendingBounded, Goto, EndProbe, Places, Actors,
                     Submitting, Probing, Home
<1>13. ASSUME NEW a \in Actors, FinishFailed(a) PROVE TypeOK' /\ Same
  <2>1. hasError' \in BOOLEAN /\ probeFlag' \in BOOLEAN /\ stopping' \in BOOLEAN
    BY <1>0, <1>13 DEF FinishFailed, TypeOK
  <2>2. /\ age' \in [Actors -> 0..RetryPeriod] /\ pc' \in [Actors -> Places]
        /\ retryIn' \in 0..RetryPeriod
    BY <1>0, <1>13 DEF FinishFailed, TypeOK, Goto, EndProbe, Places, Home
  <2>3. TypeOK'
    BY <1>0, <1>13, <2>1, <2>2 DEF FinishFailed, TypeOK, EndProbe
  <2> QED
    BY <1>0, <1>13, <2>3
       DEF FinishFailed, TypeOK, PendingBounded, Goto, Actors, Submitting, Probing, Home
<1>14. ASSUME NEW a \in Actors, EnterGate(a) PROVE TypeOK' /\ Same
  BY <1>0, <1>14 DEF EnterGate, TypeOK, PendingBounded, Goto, errorVars, Places, Actors, Submitting,
                     Probing, Home
<1>15. ASSUME NEW a \in Actors, Enqueue(a) PROVE TypeOK' /\ PendingBounded'
  <2>1. /\ Submitting' \subseteq Submitting /\ a \in Submitting \ Submitting'
        /\ pc'[Owner] \notin {"enter", "inside"}
    BY <1>0, <1>15
       DEF Enqueue, TypeOK, PendingBounded, Goto, Places, Actors, Submitting, Probing, Home
  <2>2. /\ Cardinality(Submitting') + 1 <= Cardinality(Submitting)
        /\ Cardinality(Submitting) \in Nat /\ Cardinality(Submitting') \in Nat
    BY <1>1, <2>1, SubmittersCount
  <2>3. PendingBounded'
    BY <1>0, <1>15, <2>1, <2>2, TypeFacts DEF PendingBounded, Enqueue
  <2>4. pending' \in 0..(MaxPending + Cardinality(Actors))
    BY <1>0, <1>15, <2>2, <2>3, TypeFacts DEF PendingBounded, Enqueue
  <2> QED
    BY <1>0, <1>15, <2>3, <2>4 DEF Enqueue, TypeOK, Goto, errorVars, Places, Home
<1>16. ASSUME NEW w \in Workers, TakeBatch(w) PROVE TypeOK' /\ PendingBounded'
  <2>1. PICK n \in 1..pending : pending' = pending - n
    BY <1>16 DEF TakeBatch
  <2>2. /\ Submitting' \subseteq Submitting /\ pc'[Owner] \notin {"enter", "inside"}
    BY <1>0, <1>16 DEF TakeBatch, TypeOK, PendingBounded, Goto, Places, Actors, Submitting, Probing
  <2>3. /\ Cardinality(Submitting') <= Cardinality(Submitting)
        /\ Cardinality(Submitting) \in Nat /\ Cardinality(Submitting') \in Nat
    BY <1>1, <2>2, SubmittersCount
  <2>4. pending' \in 0..(MaxPending + Cardinality(Actors)) /\ pending' <= pending
    BY <1>0, <2>1 DEF TypeOK
  <2>5. PendingBounded'
    BY <1>0, <2>2, <2>3, <2>4, TypeFacts DEF PendingBounded
  <2> QED
    BY <1>0, <1>16, <2>4, <2>5 DEF TakeBatch, TypeOK, Goto, errorVars, Places, Actors
<1>17. ASSUME NEW w \in Workers, BatchDone(w) PROVE TypeOK' /\ PendingBounded'
  <2>1. PICK p \in {"complete", "check"} : /\ pc' = [pc EXCEPT ![w] = p]
                                           /\ p = "check" => pending < MaxPending
    BY <1>17 DEF BatchDone, Callbacks, Goto
  <2>2. TypeOK' /\ pc'[Owner] \notin {"enter", "inside"} /\ pending' = pending
    BY <1>0, <1>17, <2>1 DEF BatchDone, TypeOK, PendingBounded, errorVars, Places, Actors
  <2>3. CASE p = "complete"
    <3>1. Submitting' \subseteq Submitting
      BY <1>0, <2>1, <2>3 DEF TypeOK, Submitting, Probing, Actors
    <3> QED
      BY <1>2, <2>2, <3>1
  <2> QED
    BY <1>3, <2>1, <2>2, <2>3
<1>18. ASSUME NEW w \in Workers, SetBackgroundError(w) PROVE TypeOK' /\ PendingBounded'
  <2>1. PICK p \in {"complete", "check"} : /\ pc' = [pc EXCEPT ![w] = p]
                                           /\ p = "check" => pending < MaxPending
    BY <1>18 DEF SetBackgroundError, Callbacks, Goto
  <2>2. /\ hasError' \in BOOLEAN /\ probeFlag' \in BOOLEAN /\ stopping' \in BOOLEAN
        /\ retryIn' \in {retryIn, RetryPeriod} /\ current' \in {current, {}}
        /\ gate' \in {gate, "deactivating"} /\ pending' = pending
    BY <1>0, <1>18 DEF SetBackgroundError, CloseGate, errorVars, TypeOK
  <2>3. pc' \in [Actors -> Places] /\ pc'[Owner] \notin {"enter", "inside"}
    BY <1>0, <2>1 DEF TypeOK, PendingBounded, Places, Actors
  <2>4. TypeOK'
    BY <1>0, <1>18, <2>2, <2>3 DEF SetBackgroundError, TypeOK
  <2>5. CASE p = "complete"
    <3>1. Submitting' \subseteq Submitting
      BY <1>0, <1>18, <2>1, <2>5 DEF TypeOK, Submitting, Probing, Actors, SetBackgroundError
    <3> QED
      BY <1>2, <2>2, <2>3, <2>4, <3>1
  <2> QED
    BY <1>3, <2>1, <2>2, <2>3, <2>4, <2>5
<1>19. ASSUME NEW w \in Workers, CompleteBatch(w) PROVE TypeOK' /\ Same
  BY <1>0, <1>19 DEF CompleteBatch, TypeOK, PendingBounded, Goto, errorVars, Places, Actors,
                     Submitting, Probing
<1>20. ASSUME Activate PROVE TypeOK' /\ Same
  BY <1>0, <1>20 DEF Activate, TypeOK, PendingBounded, Goto, errorVars, Places, Actors, Submitting,
                     Probing
<1>21. ASSUME Deactivate PROVE TypeOK' /\ Same
  BY <1>0, <1>21 DEF Deactivate, CloseGate, TypeOK, PendingBounded, Goto, errorVars, Places, Actors,
                     Submitting, Probing
<1>22. ASSUME WaitGate PROVE TypeOK' /\ Same
  BY <1>0, <1>22 DEF WaitGate, TypeOK, PendingBounded, Goto, errorVars, Places, Actors, Submitting,
                     Probing
<1>23. ASSUME WaitUnregister PROVE TypeOK' /\ Same
  BY <1>0, <1>23 DEF WaitUnregister, TypeOK, PendingBounded, Goto, errorVars, Places, Actors,
                     Submitting, Probing
<1>24. ASSUME Tick PROVE TypeOK' /\ Same
  <2>1. age' \in [Actors -> 0..RetryPeriod]
    BY <1>0, <1>24 DEF Tick, TypeOK
  <2> QED
    BY <1>0, <1>24, <2>1 DEF Tick, TypeOK, PendingBounded, Submitting, Probing
<1>25. ASSUME UNCHANGED vars PROVE TypeOK' /\ Same
  BY <1>0, <1>25 DEF vars, errorVars, TypeOK, PendingBounded, Submitting, Probing
<1> HIDE DEF Same
<1> QED
  BY <1>2, <1>4, <1>5, <1>6, <1>7, <1>8, <1>9, <1>10, <1>11, <1>12, <1>13, <1>14, <1>15, <1>16,
     <1>17, <1>18, <1>19, <1>20, <1>21, <1>22, <1>23, <1>24, <1>25
  DEF Next, CheckBackgroundError, Worker, Close

\* Every step keeps the gate and the health of the map together.
LEMMA GateStep ==
  ASSUME RecoveryInv, TypeOK', [Next]_vars
  PROVE  OpenIffHealthy' /\ NewIsQuiet'
<1> USE BackgroundErrorAssumption, TypeFacts
      DEF RecoveryInv, TypeOK, OpenIffHealthy, NewIsQuiet, Actors, errorVars
<1>1. ASSUME NEW a \in Callers, Submit(a) PROVE OpenIffHealthy' /\ NewIsQuiet'
  BY <1>1 DEF Submit, Goto
<1>2. ASSUME NEW a \in Actors, CheckFlag(a) PROVE OpenIffHealthy' /\ NewIsQuiet'
  BY <1>2 DEF CheckFlag, Goto
<1>3. ASSUME NEW a \in Actors, CheckLocked(a) PROVE OpenIffHealthy' /\ NewIsQuiet'
  BY <1>3 DEF CheckLocked, Home, Goto
<1>4. ASSUME NEW a \in Actors, StartProbe(a) PROVE OpenIffHealthy' /\ NewIsQuiet'
  BY <1>4 DEF StartProbe, Goto
<1>5. ASSUME NEW a \in Actors, ProbeWaitGate(a) PROVE OpenIffHealthy' /\ NewIsQuiet'
  BY <1>5 DEF ProbeWaitGate, GateDrained, Goto
<1>6. ASSUME NEW a \in Actors, ProbeWaitPending(a) PROVE OpenIffHealthy' /\ NewIsQuiet'
  BY <1>6 DEF ProbeWaitPending, Goto
<1>7. ASSUME NEW a \in Actors, NEW ok \in BOOLEAN, Resume(a, ok)
      PROVE OpenIffHealthy' /\ NewIsQuiet'
  BY <1>7 DEF Resume, Goto
<1>8. ASSUME NEW a \in Actors, FinishRecovered(a) PROVE OpenIffHealthy' /\ NewIsQuiet'
  BY <1>8 DEF FinishRecovered, EndProbe, Recovered, Goto
<1>9. ASSUME NEW a \in Actors, FinishTwice(a) PROVE OpenIffHealthy' /\ NewIsQuiet'
  BY <1>9 DEF FinishTwice, EndProbe, Home, Goto
<1>10. ASSUME NEW a \in Actors, FinishFailed(a) PROVE OpenIffHealthy' /\ NewIsQuiet'
  BY <1>10 DEF FinishFailed, EndProbe, Home, Goto
<1>11. ASSUME NEW a \in Actors, EnterGate(a) PROVE OpenIffHealthy' /\ NewIsQuiet'
  BY <1>11 DEF EnterGate, Home, Goto
<1>12. ASSUME NEW a \in Actors, Enqueue(a) PROVE OpenIffHealthy' /\ NewIsQuiet'
  BY <1>12 DEF Enqueue, Home, Goto
<1>13. ASSUME NEW w \in Workers, TakeBatch(w) PROVE OpenIffHealthy' /\ NewIsQuiet'
  BY <1>13 DEF TakeBatch, Goto
<1>14. ASSUME NEW w \in Workers, BatchDone(w) PROVE OpenIffHealthy' /\ NewIsQuiet'
  BY <1>14 DEF BatchDone, Callbacks, Goto
<1>15. ASSUME NEW w \in Workers, SetBackgroundError(w) PROVE OpenIffHealthy' /\ NewIsQuiet'
  BY <1>15 DEF SetBackgroundError, CloseGate, Callbacks, Goto
<1>16. ASSUME NEW w \in Workers, CompleteBatch(w) PROVE OpenIffHealthy' /\ NewIsQuiet'
  BY <1>16 DEF CompleteBatch, Goto
<1>17. ASSUME Activate PROVE OpenIffHealthy' /\ NewIsQuiet'
  BY <1>17 DEF Activate, Goto
<1>18. ASSUME Deactivate PROVE OpenIffHealthy' /\ NewIsQuiet'
  BY <1>18 DEF Deactivate, CloseGate, Goto
<1>19. ASSUME WaitGate PROVE OpenIffHealthy' /\ NewIsQuiet'
  BY <1>19 DEF WaitGate, GateDrained, Goto
<1>20. ASSUME WaitUnregister PROVE OpenIffHealthy' /\ NewIsQuiet'
  BY <1>20 DEF WaitUnregister, Goto
<1>21. ASSUME Tick PROVE OpenIffHealthy' /\ NewIsQuiet'
  BY <1>21 DEF Tick
<1>22. ASSUME UNCHANGED vars PROVE OpenIffHealthy' /\ NewIsQuiet'
  BY <1>22 DEF vars
<1> QED
  BY <1>1, <1>2, <1>3, <1>4, <1>5, <1>6, <1>7, <1>8, <1>9, <1>10, <1>11, <1>12, <1>13, <1>14,
     <1>15, <1>16, <1>17, <1>18, <1>19, <1>20, <1>21, <1>22
  DEF Next, CheckBackgroundError, Worker, Close

\* Every step keeps the distance of the probes.
LEMMA TimeStep ==
  ASSUME RecoveryInv, TypeOK', [Next]_vars
  PROVE  ProbesOverlapLate' /\ PeriodCovers'
<1> USE BackgroundErrorAssumption, TypeFacts
      DEF RecoveryInv, TypeOK, ProbesOverlapLate, PeriodCovers, Probing, errorVars
<1>1. ASSUME NEW a \in Callers, Submit(a) PROVE ProbesOverlapLate' /\ PeriodCovers'
  BY <1>1 DEF Submit, Goto
<1>2. ASSUME NEW a \in Actors, CheckFlag(a) PROVE ProbesOverlapLate' /\ PeriodCovers'
  BY <1>2 DEF CheckFlag, Goto
<1>3. ASSUME NEW a \in Actors, CheckLocked(a) PROVE ProbesOverlapLate' /\ PeriodCovers'
  BY <1>3 DEF CheckLocked, Home, Goto
<1>4. ASSUME NEW a \in Actors, StartProbe(a) PROVE ProbesOverlapLate' /\ PeriodCovers'
  BY <1>4 DEF StartProbe, Goto
<1>5. ASSUME NEW a \in Actors, ProbeWaitGate(a) PROVE ProbesOverlapLate' /\ PeriodCovers'
  BY <1>5 DEF ProbeWaitGate, GateDrained, Goto
<1>6. ASSUME NEW a \in Actors, ProbeWaitPending(a) PROVE ProbesOverlapLate' /\ PeriodCovers'
  BY <1>6 DEF ProbeWaitPending, Goto
<1>7. ASSUME NEW a \in Actors, NEW ok \in BOOLEAN, Resume(a, ok)
      PROVE ProbesOverlapLate' /\ PeriodCovers'
  BY <1>7 DEF Resume, Goto
<1>8. ASSUME NEW a \in Actors, FinishRecovered(a) PROVE ProbesOverlapLate' /\ PeriodCovers'
  BY <1>8 DEF FinishRecovered, EndProbe, Recovered, Goto
<1>9. ASSUME NEW a \in Actors, FinishTwice(a) PROVE ProbesOverlapLate' /\ PeriodCovers'
  BY <1>9 DEF FinishTwice, EndProbe, Home, Goto
<1>10. ASSUME NEW a \in Actors, FinishFailed(a) PROVE ProbesOverlapLate' /\ PeriodCovers'
  BY <1>10 DEF FinishFailed, EndProbe, Home, Goto
<1>11. ASSUME NEW a \in Actors, EnterGate(a) PROVE ProbesOverlapLate' /\ PeriodCovers'
  BY <1>11 DEF EnterGate, Home, Goto
<1>12. ASSUME NEW a \in Actors, Enqueue(a) PROVE ProbesOverlapLate' /\ PeriodCovers'
  BY <1>12 DEF Enqueue, Home, Goto
<1>13. ASSUME NEW w \in Workers, TakeBatch(w) PROVE ProbesOverlapLate' /\ PeriodCovers'
  BY <1>13 DEF TakeBatch, Goto
<1>14. ASSUME NEW w \in Workers, BatchDone(w) PROVE ProbesOverlapLate' /\ PeriodCovers'
  BY <1>14 DEF BatchDone, Callbacks, Goto
<1>15. ASSUME NEW w \in Workers, SetBackgroundError(w) PROVE ProbesOverlapLate' /\ PeriodCovers'
  <2>1. /\ \E p \in {"complete", "check"} : pc' = [pc EXCEPT ![w] = p]
        /\ age' = age /\ sinceProbe' = sinceProbe /\ pc[w] = "batch"
    BY <1>15 DEF SetBackgroundError, Callbacks, Goto
  <2>2. \A a \in Actors : Probing(a)' => Probing(a)
    BY <2>1
  <2>3. (retryIn' = RetryPeriod) \/ (hasError' = hasError /\ probeFlag' = probeFlag /\ retryIn' = retryIn)
    BY <1>15 DEF SetBackgroundError
  <2>4. ProbesOverlapLate'
    BY <2>1, <2>2
  <2>5. CASE retryIn' = RetryPeriod
    BY <2>1, <2>4, <2>5
  <2>6. CASE hasError' = hasError /\ probeFlag' = probeFlag /\ retryIn' = retryIn
    BY <2>1, <2>2, <2>4, <2>6
  <2> QED
    BY <2>3, <2>5, <2>6
<1>16. ASSUME NEW w \in Workers, CompleteBatch(w) PROVE ProbesOverlapLate' /\ PeriodCovers'
  BY <1>16 DEF CompleteBatch, Goto
<1>17. ASSUME Activate PROVE ProbesOverlapLate' /\ PeriodCovers'
  BY <1>17 DEF Activate, Goto
<1>18. ASSUME Deactivate PROVE ProbesOverlapLate' /\ PeriodCovers'
  BY <1>18 DEF Deactivate, CloseGate, Goto
<1>19. ASSUME WaitGate PROVE ProbesOverlapLate' /\ PeriodCovers'
  BY <1>19 DEF WaitGate, GateDrained, Goto
<1>20. ASSUME WaitUnregister PROVE ProbesOverlapLate' /\ PeriodCovers'
  BY <1>20 DEF WaitUnregister, Goto
<1>21. ASSUME Tick PROVE ProbesOverlapLate' /\ PeriodCovers'
  BY <1>21 DEF Tick
<1>22. ASSUME UNCHANGED vars PROVE ProbesOverlapLate' /\ PeriodCovers'
  BY <1>22 DEF vars
<1> QED
  BY <1>1, <1>2, <1>3, <1>4, <1>5, <1>6, <1>7, <1>8, <1>9, <1>10, <1>11, <1>12, <1>13, <1>14,
     <1>15, <1>16, <1>17, <1>18, <1>19, <1>20, <1>21, <1>22
  DEF Next, CheckBackgroundError, Worker, Close

\* Every step keeps a probe of the current error to itself.
LEMMA IsolatedStep ==
  ASSUME RecoveryInv, TypeOK', [Next]_vars
  PROVE  ProbeIsolated'
<1> USE BackgroundErrorAssumption, TypeFacts
      DEF RecoveryInv, TypeOK, OpenIffHealthy, NewIsQuiet, ProbeIsolated, Inside, QueueDrained,
          errorVars
<1>1. ASSUME NEW a \in Callers, Submit(a) PROVE ProbeIsolated'
  BY <1>1 DEF Submit, Goto
<1>2. ASSUME NEW a \in Actors, CheckFlag(a) PROVE ProbeIsolated'
  BY <1>2 DEF CheckFlag, Goto
<1>3. ASSUME NEW a \in Actors, CheckLocked(a) PROVE ProbeIsolated'
  BY <1>3 DEF CheckLocked, Home, Goto
<1>4. ASSUME NEW a \in Actors, StartProbe(a) PROVE ProbeIsolated'
  BY <1>4 DEF StartProbe, Goto
<1>5. ASSUME NEW a \in Actors, ProbeWaitGate(a) PROVE ProbeIsolated'
  BY <1>5 DEF ProbeWaitGate, GateDrained, Goto
<1>6. ASSUME NEW a \in Actors, ProbeWaitPending(a) PROVE ProbeIsolated'
  BY <1>6 DEF ProbeWaitPending, Goto
<1>7. ASSUME NEW a \in Actors, NEW ok \in BOOLEAN, Resume(a, ok) PROVE ProbeIsolated'
  BY <1>7 DEF Resume, Goto
<1>8. ASSUME NEW a \in Actors, FinishRecovered(a) PROVE ProbeIsolated'
  BY <1>8 DEF FinishRecovered, EndProbe, Recovered, Goto
<1>9. ASSUME NEW a \in Actors, FinishTwice(a) PROVE ProbeIsolated'
  BY <1>9 DEF FinishTwice, EndProbe, Home, Goto
<1>10. ASSUME NEW a \in Actors, FinishFailed(a) PROVE ProbeIsolated'
  BY <1>10 DEF FinishFailed, EndProbe, Home, Goto
<1>11. ASSUME NEW a \in Actors, EnterGate(a) PROVE ProbeIsolated'
  BY <1>11 DEF EnterGate, Home, Goto
<1>12. ASSUME NEW a \in Actors, Enqueue(a) PROVE ProbeIsolated'
  BY <1>12 DEF Enqueue, Home, Goto
<1>13. ASSUME NEW w \in Workers, TakeBatch(w) PROVE ProbeIsolated'
  BY <1>13 DEF TakeBatch, Goto
<1>14. ASSUME NEW w \in Workers, BatchDone(w) PROVE ProbeIsolated'
  BY <1>14 DEF BatchDone, Callbacks, Goto
<1>15. ASSUME NEW w \in Workers, SetBackgroundError(w) PROVE ProbeIsolated'
  BY <1>15 DEF SetBackgroundError, CloseGate, Callbacks, Goto
<1>16. ASSUME NEW w \in Workers, CompleteBatch(w) PROVE ProbeIsolated'
  BY <1>16 DEF CompleteBatch, Goto
<1>17. ASSUME Activate PROVE ProbeIsolated'
  BY <1>17 DEF Activate, Goto
<1>18. ASSUME Deactivate PROVE ProbeIsolated'
  BY <1>18 DEF Deactivate, CloseGate, Goto
<1>19. ASSUME WaitGate PROVE ProbeIsolated'
  BY <1>19 DEF WaitGate, GateDrained, Goto
<1>20. ASSUME WaitUnregister PROVE ProbeIsolated'
  BY <1>20 DEF WaitUnregister, Goto
<1>21. ASSUME Tick PROVE ProbeIsolated'
  BY <1>21 DEF Tick
<1>22. ASSUME UNCHANGED vars PROVE ProbeIsolated'
  BY <1>22 DEF vars
<1> QED
  BY <1>1, <1>2, <1>3, <1>4, <1>5, <1>6, <1>7, <1>8, <1>9, <1>10, <1>11, <1>12, <1>13, <1>14,
     <1>15, <1>16, <1>17, <1>18, <1>19, <1>20, <1>21, <1>22
  DEF Next, CheckBackgroundError, Worker, Close

\* Every step keeps the inductive invariant.
LEMMA RecoveryStep == RecoveryInv /\ [Next]_vars => RecoveryInv'
<1> SUFFICES ASSUME RecoveryInv, [Next]_vars PROVE RecoveryInv'
  OBVIOUS
<1>1. TypeOK' /\ PendingBounded'
  BY TypeStep
<1>2. OpenIffHealthy' /\ NewIsQuiet'
  BY <1>1, GateStep
<1>3. ProbesOverlapLate' /\ PeriodCovers'
  BY <1>1, TimeStep
<1>4. ProbeIsolated'
  BY <1>1, IsolatedStep
<1> QED
  BY <1>1, <1>2, <1>3, <1>4 DEF RecoveryInv

\* However failed batches, probes and deactivate_object() meet, the submission
\* gate is open exactly while there is no background error and the map is not
\* being closed, and two probes of check_background_error_() overlap only when
\* one of them has outlasted the retry period.
THEOREM RecoveryCorrect == Spec => []RecoveryInv
<1>1. Init => RecoveryInv
  BY InitRecoveryInv
<1>2. RecoveryInv /\ [Next]_vars => RecoveryInv'
  BY RecoveryStep
<1> QED
  BY <1>1, <1>2, PTL DEF Spec

\* check_background_error_() takes an error back only on the word of a
\* DB::Resume() that came after the last batch that failed.
THEOREM ErrorClearedAfterLastFailure == Spec => ClearedAfterLastFailure
<1> DEFINE Cleared == hasError /\ ~hasError' =>
                        \E a \in healed : pc[a] = "finish" /\ pc'[a] # "finish"
<1>1. ASSUME RecoveryInv, [Next]_vars PROVE [Cleared]_vars
  <2> USE TypeFacts DEF RecoveryInv
  <2>1. ASSUME NEW a \in Actors, FinishRecovered(a) PROVE Cleared
    <3>1. pc[a] = "finish" /\ a \in current /\ a \in resumed
      BY <2>1 DEF FinishRecovered, Recovered
    <3>2. pc'[a] # "finish"
      BY <1>1, <2>1 DEF FinishRecovered, Goto, TypeOK
    <3>3. hasError => a \in healed
      BY <1>1, <3>1 DEF ProbeIsolated
    <3> QED
      BY <3>1, <3>2, <3>3
  <2>2. ASSUME ~hasError' , hasError PROVE \E a \in Actors : FinishRecovered(a)
    BY <1>1, <2>2 DEF Next, vars, errorVars, CheckBackgroundError, Worker, Close, Submit, CheckFlag,
       CheckLocked, StartProbe, ProbeWaitGate, ProbeWaitPending, Resume, FinishTwice, FinishFailed,
       EnterGate, Enqueue, TakeBatch, BatchDone, SetBackgroundError, CompleteBatch, Activate,
       Deactivate, WaitGate, WaitUnregister, Tick
  <2> QED
    BY <2>1, <2>2
<1> QED
  BY <1>1, RecoveryCorrect, PTL DEF Spec, ClearedAfterLastFailure

\* DB::Resume() is tried at most once per retry period, whatever failed or was
\* reported late in between.
THEOREM ProbesKeepDistance == Spec => ProbesSpaced
<1> DEFINE Spaced == \A a \in Actors : pc[a] = "check_locked" /\ pc'[a] = "wait_gate"
                                         => sinceProbe = RetryPeriod
<1>1. ASSUME RecoveryInv, [Next]_vars PROVE [Spaced]_vars
  <2> USE TypeFacts DEF RecoveryInv
  <2>1. ASSUME NEW a \in Actors, StartProbe(a) PROVE sinceProbe = RetryPeriod
    BY <1>1, <2>1 DEF StartProbe, PeriodCovers, TypeOK
  <2>2. ASSUME NEW a \in Actors, pc[a] = "check_locked", pc'[a] = "wait_gate"
        PROVE  \E b \in Actors : StartProbe(b)
    BY <1>1, <2>2, BackgroundErrorAssumption
       DEF TypeOK, Actors, Home, Goto, Next, vars, CheckBackgroundError, Worker, Close, Submit,
       CheckFlag, CheckLocked, ProbeWaitGate, ProbeWaitPending, Resume, FinishRecovered, FinishTwice,
       FinishFailed, EnterGate, Enqueue, TakeBatch, BatchDone, SetBackgroundError, Callbacks,
       CompleteBatch,
       Activate, Deactivate, WaitGate, WaitUnregister, Tick
  <2> QED
    BY <2>1, <2>2
<1> QED
  BY <1>1, RecoveryCorrect, PTL DEF Spec, ProbesSpaced

=============================================================================
