SPECIFICATION FairSpec
CONSTANTS
  Node = {1, 2}
  Genesis = {1, 2}
  LeaderKey <- FirstOnceKey
  MaxHeight = 4
  MaxView <- FirstChange
  Withholders = {1}
  Equivocators = {}
  DoubleVoters = {}
  Down = {}
  Crashable = {}
  LeaveAt <- FirstAtOne
  JoinAt <- FirstAtThree
INVARIANTS FinalizedAreCertified
PROPERTIES ChainsSpread
CHECK_DEADLOCK FALSE
