SPECIFICATION FairSpec
CONSTANTS
  Node = {1, 2, 3}
  Genesis = {1, 3}
  Slot = {1, 2, 3, 4, 5, 6}
  MaxFaults = 2
INVARIANTS TypeOK EntriesHaveReaders OneDialAtATime
PROPERTIES MeshForms
CHECK_DEADLOCK FALSE
