SPECIFICATION FairSpec
CONSTANTS
  Para = {1, 2}
  Payload = {x}
  Root <- MerkleRoot
  Routes <- OneRoute
  MaxHeight = 10
  MaxIdle <- NoIdle
  MaxMsgs = 2
  AsyncStart = TRUE
PROPERTY AllDelivered
CHECK_DEADLOCK FALSE
