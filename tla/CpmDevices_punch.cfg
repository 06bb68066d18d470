SPECIFICATION DevSpec
CONSTANTS
  RdrCount = 3
  MaxUses = 4
INVARIANT PunchWhereTold
CHECK_DEADLOCK FALSE
