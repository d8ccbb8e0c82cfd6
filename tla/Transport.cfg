SPECIFICATION FairSpec
CONSTANTS
  Callers = {c1, c2, c3}
  XidSpace = 4
  Parts = 2
  MaxRead = 3
  MaxCalls = 3
  MaxCancels = 2
  MaxRejects = 1
INVARIANTS
  InStepWithoutCancel
PROPERTIES
  ImplementsCalls
  CallsReturn
CHECK_DEADLOCK FALSE
