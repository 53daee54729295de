SPECIFICATION FairSpec
CONSTANTS
  Workloads <- FollowWorkloads
  MaxTurns = 3
  MaxIds = 4
  WindowCap = 2
  FinalCap = 2
PROPERTIES
  StreamCatchesUp
CHECK_DEADLOCK FALSE
