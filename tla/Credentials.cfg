SPECIFICATION FairSpec
CONSTANTS
  Users = {u1, u2}
  Task = task
  Life = 9
  ExpiryBuffer = 2
  RefreshWindow = 5
  CheckInterval = 2
  MinBackoff = 1
  MaxBackoff = 3
  MaxFetch = 1
  MaxFailures = 3
INVARIANTS
  CacheStaysValid
PROPERTIES
  TaskRecovers
  TaskStops
