SPECIFICATION Spec
CONSTANTS
  NoPeer = NoPeer
  NoPane = NoPane
  NoConn = NoConn
  StrikeLimit = 2
  p1 = p1
  p2 = p2
  c1 = c1
  c2 = c2
  r1 = r1
  Peers = {p1, p2}
  Panes = {t1}
  Orchestrators = {p2}
  Conns = {c1, c2}
  Reqs = {r1}
  Loads <- RegistryLoads
INVARIANTS
  TypeOK
  SocketOwned
  OpenSocketReachable
  RecordsMapped
PROPERTIES
  ReapSparesReturned
  RevivalConsumesTombstone
  StickyOrchestrator
SYMMETRY Symmetry
