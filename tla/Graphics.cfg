SPECIFICATION GraphicsSpec
CONSTANTS
  Modes = {0, 6, 8, 9}
  Displays = {0, 14}
  Borders = {200}
  PageSample = {1, 2}
  YjkModes = {{}, {3, 4}}
  SprSizes = {{0}}
  ScrollModes = {{1}}
  ScrollHs = {13, 511}
  RasterLines = {57}
  Adjusts <- MCAdjusts
  Foreign <- MCForeign
  LineSample = {0, 1, 105, 106, 191, 211, 255}
  MaxCalls = 5
  Size = 5
  Circles <- MCCircles
  DrawPages = {0, 2}
  Junk = {0, 3}
  RowBytes = 4
  ScreenLines = 7
  Shared = 8
  RomPic = 4
  RomPat = 6
  RomPatRow = 2
  MaxHigh = 9
  Starts = {0, 2, 9}
  Screens = {1, 6, 7, 8, 9}
  Sizes <- MCSizes
  Places <- MCPlaces
  Texts <- MCTexts
  Letters = {8, 65}
  Inks <- MCInks
  MaxBack = 2
  KsOf <- MCKsOf
  ActivePages = {0, 1}
  MaxPrints = 4
  SprModes = {3, 6, 9}
  SprTables = {0, 1, 2}
  GenTables = {0}
  Layers = {0, 31}
  SprYs = {0, 200, 217}
  SprScrolls = {17, 245}
  Colours <- MCColours
  Entries = {1, 15}
  SprLines = {0, 207, 211}
  MaxSprCalls = 3
INVARIANTS
  RegistersRight
  DrawnIsShown
  
  LoadExact
  
  SpritesShown
PROPERTIES
  EnablesKept
  ClearExact
CHECK_DEADLOCK FALSE
