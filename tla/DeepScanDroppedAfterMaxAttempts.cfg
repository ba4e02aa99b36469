SPECIFICATION Spec
CONSTANTS
  Ip = {h1}
  Port = {p1, p2}
  Replica = {r1}
  JobId = {j1, j2, j3}
  LeaseTime = 1
  MaxConcurrent = 1
  MaxAttempts = 1
  SweepEvery = 1
  Threshold = 1
  MaxClock = 5
  MaxRows = 1
  MaxFaults = 1

INVARIANT DroppedAfterMaxAttempts
CHECK_DEADLOCK FALSE
