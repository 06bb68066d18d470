SPECIFICATION Spec
CONSTANTS
  s1 = s1
  s2 = s2
  s3 = s3
  s4 = s4
  s5 = s5
  Seg = {s1, s2}
  Bad = Bad
  Own = Own
  OvlBanks = 1
  BMax = 1
  Builds = {FALSE}
  ReadFaults = TRUE
  ExitAbort = FALSE
  MaxRuns = 1
  MaxBlocks = 0
  MaxPages = 0
SYMMETRY Symmetry
INVARIANTS
  CallbacksMapped
CHECK_DEADLOCK FALSE
