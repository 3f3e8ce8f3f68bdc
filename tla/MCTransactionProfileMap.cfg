SPECIFICATION FairSpec
CONSTANTS
  Threads = {t1}
  Coros = {c1, c2}
  Unchecked = {c1, c2}
  Keys = {k1}
  Holders = {h1, h2}
  MaxWaiters = 2
  None = none
INVARIANTS
  MapInv
  ProfileInv
PROPERTIES
  WaitersBound
  NoLostUpdate
  WaiterGetsTransaction
