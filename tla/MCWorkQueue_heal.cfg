SPECIFICATION FairSpec
CONSTANTS
  Workers = {w1}
  NItems = 3
  Items <- MCItems
  Batch <- MCBatch
  NoItem = NoItem
  MaxCrashes = 2
  MaxRepushes = 1
PROPERTIES
  RepushHeals
