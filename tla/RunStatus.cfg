SPECIFICATION FairSpec
CONSTANT MaxSignals = 3
INVARIANTS TypeOK OnlyCaughtIsStuck
PROPERTIES StatusMovesOn CaughtHangs AskedStops
CHECK_DEADLOCK FALSE
