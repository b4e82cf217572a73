CONSTANTS
  Callers = {c1, c2}
  Operations <- SomeRequests
  SessionIds = {1}
  AckTimeout = 1
  MaxAttempts = 2
  FirstNumber = 4
  MaxCalls = 2
  Strays <- OldAck
  None = None
  Half = 3
SPECIFICATION FairHistorySpec
CHECK_DEADLOCK FALSE
INVARIANTS
  ClientTypeOK
  WaitsWithinDeadline
  OneCallPerNumber
  CloseWakes
PROPERTIES
  SuccessIsAnswered
  CallsEnd
