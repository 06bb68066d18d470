SPECIFICATION Spec
CONSTANTS
  A1 = A1 A2 = A2 x = x y = y ro = ro was = was
  FcbAddr = {A1, A2}
  MaxFcb = 2
  Names = {x, y, ro}
  ReadOnly = {ro}
  Initial <- MCInitial
  NoFile = NoFile
  Rec = 2 Ext = 2 ExMod = 4 RndMax = 8
  Byte = {Hole, Pad, New, was}
  Hole = Hole Pad = Pad New = New
  Wipes = TRUE
  MaxRec = 2
  MaxCalls = 6
INVARIANTS OneSlotPerFcb
SYMMETRY Symmetry
CHECK_DEADLOCK FALSE
