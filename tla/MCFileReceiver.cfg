CONSTANTS
  Names = {2, 3}
  Threads = {t1, t2}
  MaxFiles = 1
  MaxFaults = 1
  NoOne = NoOne
SPECIFICATION FairSpec
CHECK_DEADLOCK FALSE
INVARIANTS
  ReceiverInv
PROPERTIES
  EldestFirst
  ReceiverLive
