SPECIFICATION Spec
CONSTANTS
  Actions = {act, upload}
  Uploads = {upload}
  Takeovers = {take}
  Close = close
  PassedMax = 1
INVARIANTS
  RecordedOnce
  RetryIsSafe
  RecordsInOrder
  ClosedLast
CHECK_DEADLOCK FALSE
