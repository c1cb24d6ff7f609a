SPECIFICATION FairSpec
CONSTANTS
  MinReplicas = 2
  MaxReplicas = 4
  ManifestReplicas = 2
  Loads = {0, 3, 6}
  MaxLoadChanges = 3
  MaxFaults = 2
  MaxLost = 1
  MaxRestarts = 1
  MaxDeploys = 1
  None = None
INVARIANTS
  TypeOK
  MemoryIsTrue
PROPERTY
  Follows
