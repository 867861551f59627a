SPECIFICATION FairSpec
CONSTANTS
  IterationDelta = 2
  Confirmation = TRUE
  Headless = TRUE
  IntentRetries = 2
  UserStates <- AllUserStates
  MaxUser = 2
CHECK_DEADLOCK FALSE
INVARIANTS TypeOK OnlyConfirmedRuns OneOutstanding CallsBounded
PROPERTIES MessageIsStepped PendingIsAnswered
