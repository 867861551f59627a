SPECIFICATION Spec
CONSTANTS
  Sids = {a, b}
  Conns = {k1}
  Requests = {r1, r2}
  Cleaners = {w1}
  MaxLoops = 1
  MaxSessions = 4
  Nobody = Nobody
CHECK_DEADLOCK FALSE
INVARIANT OpenIsRegistered
