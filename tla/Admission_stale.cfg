SPECIFICATION Spec
CONSTANTS
  Node = {1, 2, 3}
  Joiner = 3
  Peers <- Introduced
  Window = 2
  MaxLag = 1
  MaxDelay = 3
INVARIANTS TypeOK
PROPERTIES SuspendedStayOut
CHECK_DEADLOCK FALSE
