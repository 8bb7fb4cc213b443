SPECIFICATION Spec
CONSTANTS
  BufferSize = 3
  Limits = {1, 2}
  PagesBy = "answer"
  MaxLines = 3
CHECK_DEADLOCK FALSE
INVARIANTS
  PagesAreComplete
