SPECIFICATION Spec
CONSTANTS
  Node = {1, 2, 3}
  Genesis = {1, 2}
  MaxLen = 3
  R = 5
  LimbBits = 2
  NumLimbs = 2
  BabySteps = 2
  Mix = {1, 2, 3, 4}
  MaxHops = 3
  Q = 11
  MixKey <- MCMixKey
  Blinding <- MCBlinding
  Body = {"hello", "bye"}
  Ephemeral = {2, 3}
  ChunkLen = 2
  Payloads <- MCPayloads
  Depth = 3
  MaxKeys = 3
  Nullifiers = {0, 1, 6}
  Window = 2
  PsiOrder = 7
  HashToPoint <- MCHashToPoint
  PsiThreshold = 2
INVARIANTS ActiveSetIsFold OnionsArrive DamagedAreRefused FragmentsReassemble QuorumsOpen LimbsDecrypt LimbProofsHold RootsAreCanonical RejoinsAreClean InterestIsMutual
CHECK_DEADLOCK FALSE
