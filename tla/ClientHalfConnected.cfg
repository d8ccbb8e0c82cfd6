SPECIFICATION ClientSpec
CONSTANTS
  Connector = conn
  Actors = {conn}
  NumSlots = 1
  SeqSpace = 6
  MaxSeq = 4
  MaxFaults = 1
  MaxDrops = 0
  MaxSessions = 1
INVARIANT SessionMeansConnected
CHECK_DEADLOCK FALSE
