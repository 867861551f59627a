SPECIFICATION Spec
CONSTANTS
  Requests = {r1,r2}
  Fillers = {f1,f2,f3}
  Warmer = w
  Names = {}
  Ports = {1,2,3,4}
  PerSandbox = 1
  PoolSize = 2
  MaxBoxes = 4
  Faults = FALSE
  Random = Random
  Nobody = Nobody
CHECK_DEADLOCK FALSE
INVARIANTS TakenIsReplaced
