SPECIFICATION KeepaliveSpec
CONSTANTS
  Loop = ka
  Actors = {ka}
  NumSlots = 2
  SeqSpace = 9
  MaxSeq = 8
  MaxFaults = 1
  MaxDrops = 0
  LeaseTicks = 3
  MaxDue = 1
  MaxStalls = 0
INVARIANT OneHiccupIsHarmless
CHECK_DEADLOCK FALSE
