CONSTANTS
  Kinds <- TwoFormats
  Dirs = {d1, d2}
  MaxMade = 2
  None = None
SYMMETRY DirSymmetry
SPECIFICATION LauncherSpec
INVARIANTS
  ChosenIsListed
  StatusIsOfThisAuthority
CHECK_DEADLOCK FALSE
