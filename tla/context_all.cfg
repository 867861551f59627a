SPECIFICATION Spec
CONSTANTS
  KeepFirst = 2
  MaxSize = 8
  AttentionWindow = 1
  Shapes <- MCShapes
  MaxLen = 16
  MaxUser = 2
  MaxRequests = 2
  MaxStops = 1
INVARIANTS TypeOK PromptWellFormed EssentialsStay
PROPERTY CondensationHalves
CHECK_DEADLOCK FALSE
