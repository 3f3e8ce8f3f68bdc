SPECIFICATION Spec
CONSTANTS
  a = a
  b = b
  c = c
  k1 = k1
  w1 = w1
  w2 = w2
  Keys = {k1}
  Bucket <- OneBucket
  BucketCount = 1
  BatchSize = 1
  Ops = {a, b, c}
  OpType <- SaveGetRemove
  OpKey <- OneKey
  Workers = {w1, w2}
  Delayed = FALSE
  OwnsProcessor = TRUE
  Failures = FALSE
  Owner = owner
  NoOne = noone
  Absent = absent
  Pending = pending
SYMMETRY WorkerSymmetry
INVARIANTS
  KeyExclusion
PROPERTY
  ImplementsStore
CHECK_DEADLOCK FALSE
