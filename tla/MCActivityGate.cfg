SPECIFICATION GateFairSpec
CONSTANTS
  Threads = {t1, t2}
  Watchers = {w1}
  GateOwner = owner
  NoOne = none
INVARIANTS
  GateInv
  Drained
  NoLostWakeup
PROPERTIES
  WaitTerminates
