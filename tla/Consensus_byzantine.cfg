SPECIFICATION Spec
CONSTANTS
  Node = {1, 2, 3, 4}
  Genesis = {1, 2, 3, 4}
  LeaderKey <- MCLeaderKey
  MaxHeight = 2
  MaxView <- Lockstep
  Withholders = {}
  Equivocators = {1}
  DoubleVoters = {1}
  Down = {4}
  Crashable = {}
  LeaveAt <- Nobody
  JoinAt <- Nobody
INVARIANTS SlotAgreement OneVotePerSlot SlashedAreGuilty
PROPERTIES ImplementsSharedLog
CHECK_DEADLOCK FALSE
