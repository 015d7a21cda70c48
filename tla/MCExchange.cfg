CONSTANTS
  MaxBody = 2
  MaxTunnel = 2
  None = None
  Close = Close
SPECIFICATION ConnectionSpec
INVARIANTS
  EntryTellsWire
  NothingPassesUnseen
  FailureIsTold
  TunnelIsWhole
PROPERTIES
  ResponseOrder
  ExchangeEnds
  EndsArePassedOn
CHECK_DEADLOCK FALSE
