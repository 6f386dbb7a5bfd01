SPECIFICATION FairSpec
CONSTANTS
  Para = {1, 2}
  Payload = {x, y}
  Root <- MerkleRoot
  Routes <- OneRoute
  MaxHeight = 11
  MaxIdle <- RelayIdle
  MaxMsgs = 2
  AsyncStart = FALSE
PROPERTY AllDelivered
CHECK_DEADLOCK FALSE
