SPECIFICATION GameSpec
CONSTANTS
  Width = 4
  Height = 8
  NewX = 2
  Types = {0, 5}
  Step = 2
  FallStep <- SmallSteps
  LevelMax = 2
  LevelUp = 2
  StopDelay = 2
  MaxBlocks = 3
  RptDelay = 2
  RptMax = 4
  MaxHeld = 6
  Columns = {2, 3}
  Bottom = 3
  Tall = 2
  Kinds = {0, 5}
  MaxGames = 2
  MaxLanded = 2
INVARIANTS
  BlockPlaced
  ScreenFollows
  KeysRepeat
  
PROPERTIES
  LinesExact
  PlayLands
CHECK_DEADLOCK FALSE
