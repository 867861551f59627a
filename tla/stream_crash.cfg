SPECIFICATION Spec
CONSTANTS
  w1 = w1
  w2 = w2
  a = a
  Writers = {w1, w2}
  Keys <- OneKey
  CbIds = {a}
  InitialSubs <- FirstCallback
  CacheSize = 2
  MaxId = 3
  MaxCrashes = 1
  MaxBadEvents = 1
  MaxBadWrites = 1
  MaxManage = 0
CHECK_DEADLOCK FALSE
INVARIANTS TypeOK FreshIds EnqueuedIsDurable
PROPERTIES WriteOnce RefinesLog
