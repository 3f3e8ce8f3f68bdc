SPECIFICATION FairSpec
CONSTANTS
  a = a
  b = b
  c = c
  k1 = k1
  w1 = w1
  w2 = w2
  Keys = {k1}
  Bucket <- OneBucket
  BucketCount = 2
  BatchSize = 2
  Ops = {a, b}
  OpType <- SaveGet
  OpKey <- OneKey
  Workers = {w1, w2}
  Delayed = TRUE
  OwnsProcessor = TRUE
  Failures = TRUE
  Owner = owner
  NoOne = noone
  Absent = absent
  Pending = pending
INVARIANT
  DrainInv
PROPERTIES
  EveryOpAnswered
  WaitReturns
CHECK_DEADLOCK FALSE
