SPECIFICATION FairSpec
CONSTANTS
  Jobs <- MCJobs
  Calls <- MCCalls
  PipeSize = 2
  Chunk = 2
  Cap <- MCCap
INVARIANTS
  TypedAnswerIsWhole
  ReasonNamesItsCause
  AnswerIsNotLost
  NoChildIsLeftBehind
PROPERTIES
  CallEnds
CHECK_DEADLOCK FALSE
