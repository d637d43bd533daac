SPECIFICATION Spec
CONSTANT MaxSignals = 1
INVARIANT StoppedIsZero
CHECK_DEADLOCK FALSE
