CONSTANTS
  Bytes <- ByteWidths
  Rank <- CodePoints
  Lower <- Small
  Space = {"_"}
  Typed = {":", "A", "_"}
  Keys <- FilterKeys
  HostKey <- Host
  StatusKey <- Status
  TypeKey <- Type
  DurationKey <- Duration
  Fixed <- Values
  Operators <- Comparisons
  Presets <- Times
  Aliases <- Kinds
  Buckets <- CommonStatuses
  Entries <- SomeEntries
  Starts <- Applied
  Widths = {2}
  MaxOffered = 1
  MaxTyped = 2
  MaxLength = 3
SPECIFICATION FilterEditorSpec
INVARIANTS
  OffersTheHosts
  ViewFollowsCursor
PROPERTY TabTakesTheShown
CHECK_DEADLOCK FALSE
