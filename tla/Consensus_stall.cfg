SPECIFICATION FairSpec
CONSTANTS
  Node = {1, 2, 3, 4}
  Genesis = {1, 2, 3, 4}
  LeaderKey <- MCLeaderKey
  MaxHeight = 2
  MaxView <- LateChanges
  Withholders = {}
  Equivocators = {}
  DoubleVoters = {}
  Down = {2}
  Crashable = {}
  LeaveAt <- Nobody
  JoinAt <- Nobody
PROPERTIES Progress
CHECK_DEADLOCK FALSE
