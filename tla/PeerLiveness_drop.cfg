SPECIFICATION FairSpec
CONSTANTS
  NoPeer = NoPeer
  NoPane = NoPane
  NoConn = NoConn
  StrikeLimit = 2
  p1 = p1
  p2 = p2
  c1 = c1
  c2 = c2
  r1 = r1
  Peers = {p1}
  Panes = {t1}
  Orchestrators = {}
  Conns = {c1, c2, c3}
  Reqs = {}
  Loads <- FullLoad
PROPERTIES
  DropDetected
