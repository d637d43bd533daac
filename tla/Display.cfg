SPECIFICATION FairSpec
CONSTANTS
  Cells <- MCCells
  Blank = 32
  Floating = {0, 15}
  Cols = 2
  Wants <- MCTexts
  ReinitPasses = 2
  MaxFaults = 1
INVARIANTS TypeOK InitRecovers
PROPERTY KeepsShowing
