SPECIFICATION ReaderSpec
CONSTANTS
  HeaderLen = 2
  MaxRecordSize = 3
  MaxFragment = 2
  MaxFragments = 3
  MaxChunk = 4
INVARIANTS
  RecordsInOrder
  IncompleteMeansMissing
  LimitExact
CHECK_DEADLOCK FALSE
