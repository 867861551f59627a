SPECIFICATION FairSpec
CONSTANTS
  MaxConns = 3
  Recoverers = {r1, r2}
  MaxIterations = 2
  Execute = TRUE
  MaxCrashes = 1
CHECK_DEADLOCK FALSE
INVARIANTS TypeOK OneExecution AwaitingIsHeld
PROPERTY RefinesRun RunEnds
