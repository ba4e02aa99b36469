SPECIFICATION FairSpec
CONSTANTS
  Configs <- MCConfigs
  HostsOf <- MCHostsOf
  Ports = {80, 443}
  MaxDepth = 2
  MaxScans = 2
  MaxFaults = 2
INVARIANTS TypeOK OwnOutput
PROPERTIES RangesInOrder EveryRangeSwept
