SPECIFICATION Spec
CONSTANTS
  NoPeer = NoPeer
  NoPane = NoPane
  NoRecord = NoRecord
  Peers = {p1, p2}
  Panes = {t1, t2}
  Home <- OneHome
  Orchestrators = {}
  Requests = {r1, r2}
  p1 = p1
  p2 = p2
  t1 = t1
  t2 = t2
  t3 = t3
  r1 = r1
  r2 = r2
  r3 = r3
  Ops <- KillOps
  MaxHints = 2
  MaxFaults = 2
PROPERTIES
  KillSparesOthers
CHECK_DEADLOCK FALSE
