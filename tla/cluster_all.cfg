SPECIFICATION FairSpec
CONSTANTS
  Node = {1, 2}
  Ttl = 3
  MaxLate = 1
  MaxStart = 1
  MaxJoins = 2
  MaxTrouble = 1
INVARIANTS TypeOK OneOwner OwnerIsVisible
PROPERTY ClientsServed
CHECK_DEADLOCK FALSE
