SPECIFICATION Spec
CONSTANTS
  Sids = {a,b,c}
  Conns = {k1,k2}
  Requests = {r1,r2}
  Cleaners = {w1}
  MaxLoops = 1
  MaxSessions = 4
  Nobody = Nobody
CHECK_DEADLOCK FALSE
SYMMETRY Alike
INVARIANTS TypeOK RegisteredIsOpen ClosedByOne LimitPassedByRace
