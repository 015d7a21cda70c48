CONSTANTS
  Pids = {p1, p2, p3, p4}
  MaxStarts = 5
  None = None
SYMMETRY PidSymmetry
SPECIFICATION TrackingSpec
INVARIANTS
  DescendantsAreFound
  ActiveIsTheApplication
CHECK_DEADLOCK FALSE
