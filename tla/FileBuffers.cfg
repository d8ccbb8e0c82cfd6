SPECIFICATION ZeroSpec
CONSTANTS
  Offsets <- MCOffsets
  Bytes = {0, 1, 2}
  Writes <- MCWrites
  MaxSize = 2
  MaxWrites = 3
  FileSize = 5
  MaxRead = 3
  MaxAhead = 2
  CountCap = 2
INVARIANTS
  BufferBounded
  BufferIsCurrent
  HitsAreExact
  OneFetchServes
  AmplifiesSequencesOnly
PROPERTY ImplementsFile
