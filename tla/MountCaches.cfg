SPECIFICATION Spec
CONSTANTS
  Handles = {f, d}
  Dirs = {d}
  Tasks = {t1, t2}
  FileMin = 1
  FileMax = 2
  DirMin = 2
  DirMax = 2
  ListTtl = 1
  MaxFlight = 1
  MaxVersion = 1
  MaxAge = 2
SYMMETRY TaskSymmetry
INVARIANTS
  StaleBounded
  OwnChangesSeen
  ListingsTrusted
PROPERTY ImplementsFreshMap
