CONSTANTS
  MaxBody = 2
  MaxTunnel = 2
  None = None
  Close = Close
SPECIFICATION ConnectionSpec
INVARIANT CompleteResponseIsShown
CHECK_DEADLOCK FALSE
