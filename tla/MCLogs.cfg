CONSTANTS
  Streams = {stdout, stderr}
  Sizes = {0, 2}
  MaxRead = 3
SPECIFICATION LogsSpec
INVARIANTS
  KeepsTheNewest
  SnapshotIsTrue
CHECK_DEADLOCK FALSE
