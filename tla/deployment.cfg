CONSTANTS
  HostNames   <- MCHostNames
  Ports       <- MCPorts
  NodeTags    <- MCNodeTags
  BootTags    <- MCBootTags
  Pids        <- MCPids
  ConfigNames <- MCConfigNames
  Servers     <- MCServers
  ParaNum     = 0
  InitConfigs <- MCInitConfigs
  NewChains   <- MCNewChains
  MaxSource   = 2
  MaxScripts  = 3
  MaxChanges  = 2
SPECIFICATION Spec
INVARIANTS
  TypeOK
  PidFilesNameTheProcesses
  DeploymentIsUsable
  StoppedIsStopped
  CacheIsSound
  IInv
PROPERTY
  ScriptsEnd
CHECK_DEADLOCK FALSE
