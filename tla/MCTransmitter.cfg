CONSTANTS
  HeaderSize = 3
  MaxDatagramSize = 9
  CountSize = 2
  ReadingSize = 2
  Words <- SmallWords
  Fields = {f1, f2, f3}
  KnownFields = {f1, f2}
  Threads = {t1, t2}
  NoDatagram = NoDatagram
  MaxSends = 3
  MaxErrors = 1
SPECIFICATION Spec
SYMMETRY Symmetry
CHECK_DEADLOCK FALSE
INVARIANTS
  Accounting
  OnlySentAccepted
  ErrorsAreDamage
  BatchesFit
