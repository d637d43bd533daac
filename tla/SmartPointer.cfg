CONSTANTS
  Threads = {t1, t2}
  Handles = {h1, h2, h3}
  Raws = {k}
  Roots = {r1, r2}
  NoRoot = NoRoot
  None = None
SPECIFICATION Spec
INVARIANTS TypeOK HeldIsAlive LastOneDeletes
PROPERTIES ImplementsNTS
