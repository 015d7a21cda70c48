CONSTANTS
  Procs = {p1, p2}
  MaxMade = 3
  None = None
  Torn = Torn
SPECIFICATION AuthoritySpec
INVARIANTS
  ForeignPairIsKept
  CalmPairMatches
PROPERTIES
  CalmRemovalIsComplete
CHECK_DEADLOCK FALSE
