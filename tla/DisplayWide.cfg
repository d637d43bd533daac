SPECIFICATION Spec
CONSTANTS
  Cells <- MCCells
  Blank = 32
  Floating = {15}
  Cols = 20
  Wants <- MCTexts
  ReinitPasses = 1
  MaxFaults = 1
INVARIANT RowsShowText
