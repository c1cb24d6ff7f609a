SPECIFICATION Spec
CONSTANTS
  Plans <- MCPlans
  NRows = 7
  CpuLevels = {500, 4001, 8000}
  Surges = {3, 7}
  CpuSeries <- MCCpuSeries
  MemSeries <- MCMemSeries
  Latency = 2
  Steps = 2
  Threshold = 1
  Buffer = 10
  MinTarget = 40
  ScaleLimit = 230
  Milli = 10
  MemPerCpu = 768
  CpuRequest <- MCCpuRequest
  MemRequest <- MCMemRequest
  Noise = 1
  None = None
INVARIANTS
  TypeOK
  StartCovers
  HeadroomSuffices
  PeakHeld
  BestCovers
  BestUpToRounding
  AlwaysRecommends
