SPECIFICATION Spec
CONSTANTS
  MaxWord = 1073741823
  Room = 300
  ErrorStatuses = {10008, 10063}
  CallValues <- MCCallValues
  ReplyValues <- MCReplyValues
  Paths <- MCPaths
  DamagedWords = {0, 1, 300, 301}
  Trailing <- MCTrailing
INVARIANTS
  ReadAsSent
  CutIsRefused
  RequestsKeepOrder
  ChangeIsContained
CHECK_DEADLOCK FALSE
