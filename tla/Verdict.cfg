SPECIFICATION FairSpec
CONSTANTS
  Node = {1, 2, 3, 4, 5}
  Genesis = {1, 2, 3, 4}
  Target = {"a1", "b"}
  Owner <- MCOwner
  Malformed = {"a1"}
  Threshold = 2
  Authorities = {1, 2, 4}
  Crashable = {4}
  MaxLag = 1
  Plan <- MCPlan
INVARIANTS TypeOK SuspendedAreGuilty SuspendedOnce
PROPERTIES MalformedAreSuspended ReshareCompletes
CHECK_DEADLOCK FALSE
