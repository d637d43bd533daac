SPECIFICATION Spec
CONSTANTS
  Threads = {main, worker, other}
  NoThread = none
  MaxDepth = 3
INVARIANTS TypeOK MutualExclusion NoSelfDeadlock OwnerUnlocks
PROPERTY ImplementsRecursiveLock
