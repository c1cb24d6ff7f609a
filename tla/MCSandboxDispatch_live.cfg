SPECIFICATION FairSpec
CONSTANTS
  Dispatchers = {d1}
  Sessions = {s1, s2}
  Pods = {p1, p2}
  MaxRedispatch = 2
  Attempts = 2
  MaxPrompts = 1
  MaxFaults = 1
  MaxCrashes = 0
  None = None
CHECK_DEADLOCK FALSE
INVARIANTS
  RightPod
  CleanAttemptsBounded
PROPERTIES
  ZombieStopped
  Served
  LeaseSpec
