SPECIFICATION LoopFairSpec
CONSTANTS
  Sleep = 2
  Wait = 2
  Polls = 8
  MaxCall = 1
  MaxCuts = 1
  Period = 4
  SetUpEvery = 6
  MaxOpen = 1
  MaxQuery = 1
  MaxDraw = 1
INVARIANTS ClockInTime SetUpInTime StopsInTime
PROPERTY StopsAtAll
CHECK_DEADLOCK FALSE
