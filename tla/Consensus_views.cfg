SPECIFICATION Spec
CONSTANTS
  Node = {1, 2, 3, 4}
  Genesis = {1, 2, 3, 4}
  LeaderKey <- MCLeaderKey
  MaxHeight = 1
  MaxView <- OneChange
  Withholders = {}
  Equivocators = {}
  DoubleVoters = {}
  Down = {4}
  Crashable = {1}
  LeaveAt <- Nobody
  JoinAt <- Nobody
INVARIANTS TypeOK ViewsAreJustified
PROPERTIES ImplementsSlotVoting
CHECK_DEADLOCK FALSE
