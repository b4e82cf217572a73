CONSTANTS
  Workers = {w1, w2}
  a = a
  b = b
  i = i
  j = j
  NoPacket = NoPacket
  Packets <- TwoClients
  Keys <- TwoClientKeys
  Retention = 1
  Poll = 1
  MaxTime = 1
  Half = 4
  SessionIds = {1, 2}
  Sensors = {1, 2}
  Addresses = {a, b}
  Identities = {i, j}
  DropFirstCriticalAck = TRUE
  AllowExperimental = TRUE
SPECIFICATION FairServerSpec
INVARIANTS
  ServerTypeOK
  AckMeansProcessed
  OneSessionPerInstance
  StateHasSession
  RepliesExpected
PROPERTIES
  RequestsAnswered
  WorkersReturn
