SPECIFICATION Spec
CONSTANTS
  Dispatchers = {d1, d2}
  Sessions = {s1}
  Pods = {p1, p2}
  MaxRedispatch = 2
  Attempts = 1
  MaxPrompts = 2
  MaxFaults = 1
  MaxCrashes = 1
  None = None
CHECK_DEADLOCK FALSE
SYMMETRY Symmetry
INVARIANTS
  TypeOK
  StopOnlyAfterMax
  OneClaimEach
