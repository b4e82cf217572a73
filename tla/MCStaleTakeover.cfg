CONSTANTS
  Workers = {w1, w2, w3}
  k1 = k1
  k2 = k2
  NoPacket = NoPacket
  Keys <- MCKeys
  Packets <- MCPackets
  Retention = 1
  Poll = 1
  MaxTime = 4
SPECIFICATION Spec
SYMMETRY Symmetry
PROPERTY NoStaleTakeover
