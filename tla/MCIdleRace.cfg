CONSTANTS
  Datagrams = {d1, d2}
  NoDatagram = NoDatagram
  WorkerCount = 1
  QuietPeriod = 1
  IdleTimeout = 2
  JoinTimeout = 1
  MaxStarts = 2
  MaxTime = 3
SPECIFICATION Spec
SYMMETRY Symmetry
PROPERTY IdleMeansNoWork
