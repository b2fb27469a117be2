SPECIFICATION FairSpec
CONSTANTS
  WindowMs = 6
  NearMs = 2
  MinConfidence = 50
  Signals <- MCSignals
  Findings <- MCFindings
  Instants <- MCInstants
  MaxCrashes = 2
  MaxFaults = 1
CHECK_DEADLOCK FALSE
INVARIANTS
  TypeOK
  OneStoryPerCluster
  RedeliveryTellsNoStory
  OnlyTheTriggerIsStale
  NothingInWindowForgotten
  CommittedIsSettled
PROPERTIES
  EveryMessageSettles
