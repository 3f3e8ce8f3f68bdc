SPECIFICATION FairSpec
CONSTANTS
  Sequences = 5
  WindowSize = 3
  WakeThreshold = 2
INVARIANTS
  LoaderInv
  RingInv
  CommittedPrefix
  NoRecordLost
  OrderlyStop
PROPERTIES
  PassEnds
