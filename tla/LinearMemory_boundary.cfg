SPECIFICATION LmemSpec
CONSTANTS
  PageSize = 3
  TblSize = 4
  LmemByteMod = 8
  FreePages = 5
  MaxAsk = 6
  MaxCopies = 1
  Data <- Bytes
  Old <- OldByte
  Src <- SrcByte
  Helper = 0
INVARIANTS
  CopyInPage1
CHECK_DEADLOCK FALSE
