SPECIFICATION Spec
CONSTANTS
  s1 = s1
  s2 = s2
  s3 = s3
  s4 = s4
  s5 = s5
  Seg = {s1, s2, s3, s4, s5}
  Bad = Bad
  Own = Own
  OvlBanks = 3
  BMax = 2
  Builds = {TRUE, FALSE}
  ReadFaults = TRUE
  ExitAbort = TRUE
  MaxRuns = 3
  MaxBlocks = 1
  MaxPages = 2
SYMMETRY Symmetry
INVARIANTS
  Ownership
  CallsReachCode
  NothingLost
PROPERTIES
  OverlayReached
CHECK_DEADLOCK FALSE
