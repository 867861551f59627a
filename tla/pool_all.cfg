SPECIFICATION FairSpec
CONSTANTS
  Requests = {r1,r2}
  Fillers = {f1,f2}
  Warmer = w
  Names = {n}
  Ports = {1,2,3,4}
  PerSandbox = 2
  PoolSize = 2
  MaxBoxes = 3
  Faults = TRUE
  Random = Random
  Nobody = Nobody
CHECK_DEADLOCK FALSE
INVARIANTS TypeOK PortsPartitioned PoolWithinSize
PROPERTIES StartsEnd
