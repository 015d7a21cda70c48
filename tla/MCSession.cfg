CONSTANTS
  Procs = {p1, p2}
  Settle = 3
  Exchanges = {e1, e2}
SPECIFICATION Spec
INVARIANTS
  FlagIsHonest
  QuietIsObserved
  QuitDialogKeepsItsWord
  SuccessMeansComplete
PROPERTIES
  SignalsOnlyTheLiveChild
  CapturedBeforeQuitIsSaved
  LeavingEnds
  SessionEndsWithItsChild
