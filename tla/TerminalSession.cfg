SPECIFICATION FairSpec
CONSTANTS
  BufferSize = 3
  Limits = {1, 2}
  PagesBy = "event"
  MaxLines = 3
CHECK_DEADLOCK FALSE
INVARIANTS
  BufferIsRecent
  NeverTwice
  PagesAreComplete
PROPERTIES
  OutputDrains
