SPECIFICATION ClientLiveSpec
CONSTANTS
  Connector = conn
  Actors = {conn, c1, c2}
  NumSlots = 2
  SeqSpace = 6
  MaxSeq = 3
  MaxFaults = 2
  MaxDrops = 1
  MaxSessions = 2
INVARIANTS
  LeaksAccounted
  RefusalJustified
  ReconnectInStep
PROPERTY CallersAnswered
CHECK_DEADLOCK FALSE
