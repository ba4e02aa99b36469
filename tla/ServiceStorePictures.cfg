SPECIFICATION Spec
CONSTANTS
  Services = {1, 2}
  Found <- Cameras
  Frames = 1
  Paths <- OneUrl
  LeaseTime = 1
  Batch = 2
  MaxClock = 3
  MaxRows = 2
  MaxProbes = 2
  MaxRuns = 0
  MaxFaults = 0
INVARIANTS
  TypeOK
  RowsHaveFiles
  OwnPictures
  NamedByContent
  SharedWhenLate
  EnrichmentsArrive
CHECK_DEADLOCK FALSE
