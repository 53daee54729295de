SPECIFICATION FairSpec
CONSTANTS
  NoPeer = NoPeer
  Cids = {k1, k2}
  Peers = {a, b}
  Twins = {}
  Askers = {a}
  Movers = {}
  Switched = {a}
  Handlers = {h1}
  Waits = {w1, w2}
  Watched = {k1}
  Workers = {}
INVARIANTS
  TypeOK
  AnswerTruthful
PROPERTIES
  PromiseKept
  WaiterReturns
