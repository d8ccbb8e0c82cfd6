SPECIFICATION LiveSpec
CONSTANTS
  Loop = ka
  Actors = {ka, u1}
  NumSlots = 1
  SeqSpace = 3
  MaxSeq = 3
  MaxFaults = 1
  MaxDrops = 1
  LeaseTicks = 3
  MaxDue = 2
  MaxStalls = 3
INVARIANTS
  LeaseSurvivesStalls
PROPERTIES
  ImplementsSessionSlots
  ShutdownExits
CHECK_DEADLOCK FALSE
