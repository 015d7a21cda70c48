CONSTANTS
  Hosts = {1, 2}
  EntryIds = {e1, e2}
  Typed <- AllTexts
  MaxLines <- LogSizes
  NumTabs = 2
  ScrollLimit <- Limits
  Page = 2
  Visible = 1
  None = None
SPECIFICATION InterfaceSpec
INVARIANTS
  HighlightStays
  DetailScrollInRange
  LogOffsetInRange
  ChosenIsVisible
PROPERTIES
  LeavingWasAsked
  EndsWithChild
CHECK_DEADLOCK FALSE
