CONSTANTS
  MaxPieces = 3
  None = None
SPECIFICATION H2Spec
INVARIANTS
  CutIsNotTheEnd
  H2EntryTellsWire
PROPERTIES
  H2Settles
CHECK_DEADLOCK FALSE
