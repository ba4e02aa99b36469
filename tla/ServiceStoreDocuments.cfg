SPECIFICATION FairSpec
CONSTANTS
  Services = {1}
  Found <- WebOrNot
  Frames = 2
  Paths <- OneUrl
  LeaseTime = 1
  Batch = 2
  MaxClock = 3
  MaxRows = 2
  MaxProbes = 2
  MaxRuns = 1
  MaxFaults = 1
INVARIANTS
  RowsHaveFiles
  NamedByContent
  EnrichmentsArrive
PROPERTIES
  EveryEnrichmentLeaves
CHECK_DEADLOCK FALSE
