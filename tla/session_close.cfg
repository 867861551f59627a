SPECIFICATION FairSpec
CONSTANT Wait = 18
CHECK_DEADLOCK FALSE
INVARIANTS TypeOK PatientCloseReleases
PROPERTIES NoWorkAfterClose CloseFollowsStart
