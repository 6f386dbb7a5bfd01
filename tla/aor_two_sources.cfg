SPECIFICATION Spec
CONSTANTS
  Para = {1, 2, 3}
  Payload = {x}
  Gateways <- TwoSources
  MaxHeight = 12
  MaxIdle <- NoIdle
  MaxMsgs = 2
INVARIANT ReceivedWasProved
CHECK_DEADLOCK FALSE
