SPECIFICATION FairSpec
CONSTANTS
  Callers = {c1, c2}
  Workers = {w1}
  Owner = owner
  RetryPeriod = 2
  MaxPending = 2
INVARIANTS
  RecoveryInv
PROPERTIES
  ClearedAfterLastFailure
  ProbesSpaced
  CallsReturn
