SPECIFICATION FairSpec
CONSTANTS
  Phone = {p1}
  Conn = {c1, c2}
  Task = {t1, t2}
  Size = 2
  MaxSeq = 2
  MaxRestarts = 1
  Says <- MCSays
  Key = Key
  None = None
INVARIANTS TypeOK OpenSocketLosesNothing
PROPERTIES KeepsItsPromises
CHECK_DEADLOCK FALSE
