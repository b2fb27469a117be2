SPECIFICATION FairSpec
CONSTANTS
  w1 = w1
  w2 = w2
  Collectors <- MCCollectors
  Resources <- MCResources
  Posts <- MCPosts
  Workers <- MCWorkers
  Assignment <- AllToOne
  OtherSignals <- MCOtherSignals
  MaxPosts = 1
  MaxFaults = 1
  MaxOthers = 2
  MaxRebalances = 1
  MaxDay = 1
CHECK_DEADLOCK FALSE
INVARIANTS
  AcceptedIsDurable
  FinishedIsShown
  SeverityFallsOnlyByTakeover
  CollectorsShow
PROPERTIES
  PartitionsCatchUp
