SPECIFICATION Spec
CONSTANTS
  Channels = 2
  Samples = 3
INVARIANTS TypeOK SnapshotConsistent
PROPERTY RowsGoForward
