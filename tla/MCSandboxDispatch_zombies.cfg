SPECIFICATION Spec
CONSTANTS
  Dispatchers = {d1}
  Sessions = {s1}
  Pods = {p1, p2}
  MaxRedispatch = 3
  Attempts = 2
  MaxPrompts = 4
  MaxFaults = 0
  MaxCrashes = 0
  None = None
CHECK_DEADLOCK FALSE
INVARIANT
  StopsOnlyZombies
