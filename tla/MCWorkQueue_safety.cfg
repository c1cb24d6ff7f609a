SPECIFICATION Spec
CONSTANTS
  Workers = {w1, w2}
  NItems = 3
  Items <- MCItems
  Batch <- MCBatch
  NoItem = NoItem
  MaxCrashes = 1
  MaxRepushes = 1
SYMMETRY Symmetry
INVARIANTS
  TypeOK
  NothingLost
  OncePerPush
  ExitMeansDrained
  NoTornLoad
PROPERTY
  LineageKept
