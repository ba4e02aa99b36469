SPECIFICATION Spec
CONSTANTS
  Ip = {h1, h2}
  Port = {p1, p2}
  Replica = {r1, r2}
  JobId = {j1, j2, j3}
  LeaseTime = 1
  MaxConcurrent = 1
  MaxAttempts = 1
  SweepEvery = 1
  Threshold = 1
  MaxClock = 3
  MaxRows = 2
  MaxFaults = 1

SYMMETRY Symmetry
INVARIANTS
  TypeOK
  PermitBound
  LiveLeaseExclusive
  LeaseProtects
PROPERTY
  ImplementsJobQueue
  LeaseUndisturbed
CHECK_DEADLOCK FALSE
