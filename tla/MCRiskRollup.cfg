SPECIFICATION FairSpec
CONSTANTS
  a1 = a1
  a2 = a2
  w1 = w1
  w2 = w2
  Nobody = Nobody
  Assets <- MCAssets
  Workers <- MCWorkers
  Findings <- MCFindings
  Clusters <- MCClusters
  Assignment <- AllToOne
  AgePoints <- MCAgePoints
  MaxDetections = 2
  MaxFaults = 2
  MaxRebalances = 2
CHECK_DEADLOCK FALSE
INVARIANTS
  TypeOK
  PublishedIsRecorded
  LeaderboardFollowsRollup
PROPERTIES
  RollupOnlyGrows
  EveryFindingScored
