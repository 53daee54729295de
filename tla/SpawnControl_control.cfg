SPECIFICATION Spec
CONSTANTS
  NoPeer = NoPeer
  NoPane = NoPane
  NoRecord = NoRecord
  Peers = {p1, p2, p3}
  Panes = {t1, t2, t3}
  Home <- TwoHomes
  Orchestrators = {}
  Requests = {r1, r2, r3}
  p1 = p1
  p2 = p2
  t1 = t1
  t2 = t2
  t3 = t3
  r1 = r1
  r2 = r2
  r3 = r3
  Ops <- ControlOps
  MaxHints = 2
  MaxFaults = 1
INVARIANTS
  TypeOK
  RestartBarrier
PROPERTIES
  RecordBoundOnce
SYMMETRY Symmetry
CHECK_DEADLOCK FALSE
