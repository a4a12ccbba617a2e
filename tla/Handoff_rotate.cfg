SPECIFICATION FairSpec
CONSTANTS
  Node = {1, 2, 3, 4}
  Genesis = {1, 2, 3, 4}
  Plan <- LeavePlan
  CommitteeSize = 3
  CustodyThreshold = 2
  Deadline = 3
  SortitionKey <- MCSortitionKey
  Withholders = {1}
  Peers <- Edge
  Leaders = {2, 3}
  MaxLag = 1
  MaxHeight = 2
INVARIANTS TypeOK ReceiptsAreBacked RecordedOnce FilersAreSafe
PROPERTIES HandoffsComplete
CHECK_DEADLOCK FALSE
