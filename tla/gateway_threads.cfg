SPECIFICATION FairSpec
CONSTANTS
  MaxHeight = 7
  MayFail = TRUE
INVARIANT IInv
PROPERTIES
  ImplementsBlockFeed
  AllDealtWith
CHECK_DEADLOCK FALSE
