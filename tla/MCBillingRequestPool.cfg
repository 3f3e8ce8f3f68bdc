CONSTANTS
  NServers = 3
  Senders = {s1}
  Adders = {a1}
  Delayer = Delayer
  NoOne = NoOne
  Keys = {1}
  Times = {1}
  Amounts <- TakenBack
  MaxBatch = 1
  MaxAdds = 1
  MaxFails = 1
  MaxStops = 1
SPECIFICATION FairSpec
CHECK_DEADLOCK FALSE
INVARIANTS
  PoolInv
PROPERTIES
  SendersRest
  StopReturns
