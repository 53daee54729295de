SPECIFICATION FairSpec
CONSTANTS
  NoRequest = NoRequest
  h = h
  g = g
  Plain = {h}
  Viewers = {}
  Guests = {g}
  ChanCap = 2
  MaxSess = 4
  MaxChunks = 2
  MaxFaults = 1
INVARIANTS
  TypeOK
  GapAnnounced
  RevokedQuiet
PROPERTIES
  ReachableAgain
  ViewerGoneStreamGone
CHECK_DEADLOCK FALSE
