SPECIFICATION FairSpec
CONSTANTS
  Ip = {h1, h2}
  Port = {p1}
  Replica = {r1}
  JobId = {j1, j2}
  LeaseTime = 1
  MaxConcurrent = 1
  MaxAttempts = 1
  SweepEvery = 2
  Threshold = 1
  MaxClock = 5
  MaxRows = 2
  MaxFaults = 2
PROPERTIES
  EveryRowLeaves
  LoopGoesOn
CHECK_DEADLOCK FALSE
