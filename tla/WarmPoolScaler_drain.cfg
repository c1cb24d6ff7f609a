SPECIFICATION FairSpec
CONSTANTS
  MinReplicas = 2
  MaxReplicas = 4
  ManifestReplicas = 2
  Loads = {0, 3}
  MaxLoadChanges = 2
  MaxFaults = 0
  MaxLost = 1
  MaxRestarts = 0
  MaxDeploys = 0
  None = None
PROPERTY
  DrainsBack
