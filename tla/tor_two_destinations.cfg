SPECIFICATION Spec
CONSTANTS
  Para = {1, 2, 3}
  Payload = {x}
  Root <- MerkleRoot
  Routes <- TwoDestinations
  MaxHeight = 5
  MaxIdle <- NoIdle
  MaxMsgs = 2
  AsyncStart = FALSE
INVARIANTS
  ReceivedIsGenuine
  NoncesAreContiguous
CHECK_DEADLOCK FALSE
