SPECIFICATION FairSpec
CONSTANTS
  Sleep = 10
  Wait = 50
  Polls = 75
  MaxCall = 6
  MaxCuts = 1
INVARIANTS TypeOK ContextUsedInOrder WorkerLeavesFirst
PROPERTIES SilenceEndsConnection WorkerStops
CHECK_DEADLOCK FALSE
