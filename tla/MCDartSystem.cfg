CONSTANTS
  Workers = {w1, w2}
  NoPacket = NoPacket
  Packets <- ClientDatagrams
  Keys <- ClientKeys
  Retention = 1
  Poll = 1
  MaxTime = 2
  Half = 4
  SessionIds = {1}
  Sensors = {1}
  Addresses = {a}
  Identities = {i}
  DropFirstCriticalAck = TRUE
  AllowExperimental = TRUE
  Callers = {c1}
  Operations <- SomeRequests
  AckTimeout = 1
  MaxAttempts = 2
  FirstNumber = 1
  MaxCalls = 2
  None = None
  Sensor = 1
  Address = a
  Identity = i
SPECIFICATION SystemSpec
SYMMETRY Symmetry
CHECK_DEADLOCK FALSE
INVARIANTS
  RefusedOnlyLate
PROPERTIES
  DeliversAlerts
  SessionIsKept
  ProcessedOnceInTime
