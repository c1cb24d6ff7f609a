SPECIFICATION FairSpec
CONSTANTS
  Workers = {w1, w2}
  NItems = 3
  Items <- MCItems
  Batch <- MCBatch
  NoItem = NoItem
  MaxCrashes = 1
  MaxRepushes = 0
PROPERTIES
  JobDone
  ClaimOnceSpec
