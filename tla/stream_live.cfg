SPECIFICATION FairSpec
CONSTANTS
  w1 = w1
  w2 = w2
  a = a
  Writers = {w1, w2}
  Keys <- TwoKeys
  CbIds = {a}
  InitialSubs <- SecondCallback
  CacheSize = 2
  MaxId = 3
  MaxCrashes = 0
  MaxBadEvents = 0
  MaxBadWrites = 1
  MaxManage = 1
CHECK_DEADLOCK FALSE
INVARIANTS CacheCoherent ClosedIsQuiet
PROPERTIES CloseReturns EveryEventDelivered
