SPECIFICATION Spec
CONSTANTS
  Node = {1, 2, 3, 4}
  Genesis = {1, 2, 3, 4}
  LeaderKey <- MCLeaderKey
  MaxHeight = 1
  MaxView <- OneChange
  Withholders = {}
  Equivocators = {}
  DoubleVoters = {}
  Down = {4}
  Crashable = {}
  LeaveAt <- Nobody
  JoinAt <- Nobody
INVARIANTS Agreement
CHECK_DEADLOCK FALSE
