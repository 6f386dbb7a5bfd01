SPECIFICATION StatSpec
CONSTANTS
  N = 2
  MaxFailures = 1
  EachNum = 2
  MaxOld = 2
INVARIANTS
  IInv
  FinishedMeansReceived
  GatewaysHaveMoney
  LatenciesAreOfThisRun
PROPERTY MainEnds
CHECK_DEADLOCK FALSE
