SPECIFICATION Spec
CONSTANTS
  Workers = {"w1", "w2"}
  Rounds <- MCRounds
  Scripts <- MCScripts
  MaxFailures <- MCMaxFailures
  Scenarios <- MCScenarios
  Episodes = 1
  Rewards <- MCRewards
  Nobody = Nobody
  NoFile = NoFile
INVARIANTS
  KitStartsAlone
  ResultsFresh
  FlywheelCloses
  NoSilentReuse
  TrainedOnWhole
PROPERTIES
  LoopSpec
  JobEnds
