CONSTANTS
  Close = Close
  Lengths <- MCLengths
  Maxima <- MCMaxima
  Messages <- MCMessages
  Buffer = 2
  MaxSent = 14
SPECIFICATION PreviewSpec
INVARIANTS
  CaptureIsPrefix
  PreviewIsHonest
PROPERTIES
  Delivers
  RelayEnds
CHECK_DEADLOCK FALSE
