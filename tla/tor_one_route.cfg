SPECIFICATION Spec
CONSTANTS
  Para = {1, 2}
  Payload = {x, y}
  Root <- MerkleRoot
  Routes <- OneRoute
  MaxHeight = 10
  MaxIdle <- RelayIdle
  MaxMsgs = 2
  AsyncStart = TRUE
INVARIANTS
  TypeOK
  RootsAreFinal
  BCRsAreProven
  ReceivedIsGenuine
  ReceivedInOrder
  NoncesAreContiguous
  IInv
PROPERTIES
  ImplementsCrossChain
  GatewaysFeed
CHECK_DEADLOCK FALSE
