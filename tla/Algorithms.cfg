SPECIFICATION Spec
CONSTANTS
  SegBytes = {0, 15, 90, 255}
  MaxCount = 4
  Room = 6
  PageSize = 3
  TblSize = 4
  LmemByteMod = 8
  FreePages = 3
  MaxAsk = 12
  MaxCopies = 1
  Data <- Bytes
  Old <- OldByte
  Src <- SrcByte
  Helper = 0
  Hblks = {TRUE, FALSE}
  DrumRoom = 6
  DrumFree = 4
  MaxShots = 2
  MaxRefills = 3
  Operands = {0, 1, 15, 25, 83, 127, 128, 129, 144, 153, 240, 255}
  Operands16 = {0, 1, 15, 16, 255, 256, 4095, 4096, 32767, 32768, 32769, 65280, 65534, 65535}
  BlkSize = 4
  BlkMems <- MCMems
  Accumulators = {0, 118, 195}
  Beside = {118, 195}
  MaxBlocks = 2
  W = 2
  H = 3
  ByteMod = 4
  NArgs = 2
  Digits = {1, 2}
  MaxSeq = 3
  RdrCount = 3
  MaxUses = 4
  Others <- MCOthers
  MaxDrv = 4
  DrvFiles = {"f", "$g", "h"}
  Hidden = {"h"}
  Dollar = {"$g"}
  CmdLines <- MCLines
  Programs <- MCPrograms
  FcbDrives = {0, 3, 4}
  Env <- MCEnv
  MaxCalls = 3
  Cells = 17
  TailRoom = 3
  MaxPath = 3
INVARIANTS
  RoundTrip
  SoundExact
  
  DevicesExact
  KeysExact
  StartedRight
PROPERTIES
  BlockImplemented
  
  DrivesExact
CHECK_DEADLOCK FALSE
