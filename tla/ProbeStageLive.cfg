SPECIFICATION FairSpec
CONSTANTS
  Ip = {h1}
  Port = {p1}
  Replica = {r1}
  Answers <- TwoAnswers
  LeaseTime = 1
  Batch = 2
  HoneypotServices = 1
  MaxClock = 4
  MaxRows = 2
  MaxFaults = 2
PROPERTIES
  ImplementsJobQueue
  EveryProbeLeaves
CHECK_DEADLOCK FALSE
