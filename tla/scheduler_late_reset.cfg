SPECIFICATION Spec
CONSTANTS
  N = 3
  MaxFailures = 0
  EachNum = 1
  MaxOld = 0
INVARIANT CountsAreOfThisRun
CHECK_DEADLOCK FALSE
