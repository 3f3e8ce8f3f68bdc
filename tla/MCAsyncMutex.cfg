SPECIFICATION MutexFairSpec
CONSTANTS
  Threads = {t1, t2}
  Coros = {c1, c2, c3}
  NoOwner = none
INVARIANTS
  MutexInv
PROPERTIES
  NoBarging
  WaiterServed
  FreeLockTaken
  ImplementsLock
