SPECIFICATION FairSpec
CONSTANTS
  NoPeer = NoPeer
  NoAttempt = NoAttempt
  NoWork = NoWork
  Loop = loop
  Works = {w1}
  Attempts = {a1, a2}
  Peers = {p1}
  Handlers = {h1}
  Loads <- MCLoads
  MaxTime = 1
  LeaseLen = 1
  MaxCrash = 1
  MaxManual = 1
INVARIANTS
  TypeOK
  CancelStopsAsk
  OccurrenceOnce
PROPERTIES
  DueDispatched
  InterruptedRecovered
CHECK_DEADLOCK FALSE
