CONSTANTS
  Half = 5
  NoUpdate = NoUpdate
  MaxSpread = 3
  MaxIssued = 14
SPECIFICATION Spec
CHECK_DEADLOCK FALSE
INVARIANTS
  StaleIsOlder
  NumbersIdentify
PROPERTY LatestMonotone
