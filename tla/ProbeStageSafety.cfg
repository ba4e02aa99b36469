SPECIFICATION Spec
CONSTANTS
  Ip = {h1}
  Port = {p1, p2}
  Replica = {r1, r2}
  Answers <- StoredAnswer
  LeaseTime = 1
  Batch = 2
  HoneypotServices = 1
  MaxClock = 3
  MaxRows = 2
  MaxFaults = 0

SYMMETRY Symmetry
INVARIANTS
  TypeOK
  LiveLeaseExclusive
  HoneypotFlagged
PROPERTY
  LeaseUndisturbed
CHECK_DEADLOCK FALSE
