SPECIFICATION FairSpec
CONSTANTS
  Actors = {a1, a2}
  NumSlots = 2
  SeqSpace = 5
  MaxSeq = 3
  MaxFaults = 2
  MaxDrops = 1
INVARIANTS
  TypeOK
  SlotsExclusive
  SlotsAccounted
  NoFalseRetry
  FaultFreeInStep
PROPERTIES
  LostSlotsStayLost
  SlotsReturn
CHECK_DEADLOCK FALSE
