SPECIFICATION FairSpec
CONSTANTS
  Node = {1, 2, 3, 4, 5}
  Genesis = {1, 2, 3}
  Item = {1, 2, 3}
  Scenarios <- AllScenarios
  SignalQuorum = 2
  Expected = 1
  Velocity = 1
  RewindQ = 2
  MinClusters = 2
  BurstWindow = 1
  BurstThreshold = 2
  MaxLag = 1
INVARIANTS TypeOK RecordedOnce TalliesAgree
PROPERTIES CohortOnlyGrows SignalsTakeEffect
CHECK_DEADLOCK FALSE
