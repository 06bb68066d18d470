SPECIFICATION Spec
CONSTANTS
  EofCount <- MCEofCount
  Options <- MCOptions
  Inputs <- MCInputs
  Keys <- MCKeys
  Codes = {0, 7}
 
PROPERTIES CtrlCKept CtrlCEnds
CHECK_DEADLOCK FALSE
