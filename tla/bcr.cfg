SPECIFICATION MCSpec
CONSTANTS
  Trees = {1, 2}
  Data = {a, b}
  MaxLeaves <- MCMaxLeaves
  Strings <- MCStrings
  MaxItems = 2
  MaxDepth = 3
  MaxBytes = 2000
  Addresses <- MCAddresses
  Contract = "contract"
  Others <- MCOthers
  Positions <- MCPositions
  Values <- MCValues
  Key <- MCKey
  Size <- MCSize
  MaxBlocks = 3
INVARIANTS
  RootsAreBlockRoots
  PathsAreFrontiers
  ProofsAreBinding
  ReaderInvertsEncoder
  ProofsAreExact
CHECK_DEADLOCK FALSE
