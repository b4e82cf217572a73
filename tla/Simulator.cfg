CONSTANTS
  Sensors = 2
  Duration = 3
  SampleInterval = 1
  LatestInterval = 2
  AlertAt = 1
  Alerts = 1
  BatchSize = 2
SPECIFICATION FairSpec
CHECK_DEADLOCK FALSE
INVARIANTS
  TypeOK
  StartTogether
  ClosedAfterUse
  SameWorkload
PROPERTY RunEnds
