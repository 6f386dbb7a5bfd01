SPECIFICATION FairSpec
CONSTANTS
  Para = {1, 2, 3}
  Payload = {x}
  Gateways <- TwoDestinations
  MaxHeight = 8
  MaxIdle <- SourceIdle
  MaxMsgs = 2
INVARIANT MessagesAreProvable
PROPERTIES
  ImplementsCrossChain
  AllDelivered
CHECK_DEADLOCK FALSE
