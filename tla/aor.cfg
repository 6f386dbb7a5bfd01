SPECIFICATION FairSpec
CONSTANTS
  Para = {1, 2, 3}
  Payload = {x}
  Gateways <- OneRoute
  MaxHeight = 12
  MaxIdle <- RelayIdle
  MaxMsgs = 2
INVARIANTS
  ReceivedWasProved
  IInv
PROPERTIES
  ImplementsCrossChain
  AllDelivered
CHECK_DEADLOCK FALSE
