SPECIFICATION FairSpec
CONSTANTS
  Node = {1, 2, 3}
  Joiner = 3
  Peers <- Introduced
  Window = 2
  MaxLag = 1
  MaxDelay = 2
PROPERTIES JoinerAdmitted
CHECK_DEADLOCK FALSE
