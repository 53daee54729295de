SPECIFICATION FairSpec
CONSTANTS
  Workloads <- MCWorkloads
  MaxTurns = 3
  MaxIds = 4
  WindowCap = 2
  FinalCap = 2
INVARIANTS
  TypeOK
  AckTruthful
PROPERTIES
  IdentityKept
  ThreadServed
  LoopEventsShown
CHECK_DEADLOCK FALSE
