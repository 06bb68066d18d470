SPECIFICATION Spec
CONSTANTS
  b0 = b0
  b1 = b1
  b2 = b2
  Bank = {b0, b1}
  Bank0 = b0
  None = None
  HandlerBanks <- HandlersOne
  HandlerEI = TRUE
  BiosTimi = FALSE
  FrameRate = 1
  JiffyMod = 1
  CallDepth = 3
  IntDepth = 4
INVARIANTS
  IInv
CHECK_DEADLOCK FALSE
