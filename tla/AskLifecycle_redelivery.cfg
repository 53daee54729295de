SPECIFICATION Spec
CONSTANTS
  NoPeer = NoPeer
  Cids = {k1}
  Peers = {a1, a2, b}
  Twins = {a1, a2}
  Askers = {a1, a2, b}
  Movers = {a1, a2}
  Switched = {b}
  Handlers = {h1}
  Waits = {}
  Watched = {k1}
  Workers = {r1, r2}
INVARIANTS
  QuiesceBarrier
  ReplyKept
  StashSentOnce
SYMMETRY Symmetry
