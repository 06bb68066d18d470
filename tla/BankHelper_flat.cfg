SPECIFICATION FairSpec
CONSTANTS
  b0 = b0
  b1 = b1
  b2 = b2
  Bank = {b0, b1, b2}
  Bank0 = b0
  None = None
  HandlerBanks <- HandlersTwo
  HandlerEI = FALSE
  BiosTimi = TRUE
  FrameRate = 2
  JiffyMod = 2
  CallDepth = 2
  IntDepth = 3
INVARIANTS
  MappedRight
  IsrExclusive
  VblanksCounted
  DoneClean
PROPERTIES
  ReturnsToCaller
  InterruptsServed
CHECK_DEADLOCK FALSE
