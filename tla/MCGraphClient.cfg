SPECIFICATION FairSpec
CONSTANTS
  Retries <- MCRetries
  PageCounts <- MCPageCounts
  MaxPages = 3
  Reads = 2
INVARIANTS
  ErrorNamesItsCause
PROPERTIES
  Implements
  ReadsEnd
CHECK_DEADLOCK FALSE
