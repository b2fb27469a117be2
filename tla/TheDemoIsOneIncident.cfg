SPECIFICATION FairSpec
CONSTANTS
  w1 = w1
  w2 = w2
  WindowMs = 6
  NearMs = 2
  MinConfidence = 50
  Campaigns <- TheDemo
  Services <- MCServices
  Replicas <- OneReplica
  Assignments <- AllToOne
  MaxAhead = 1
CHECK_DEADLOCK FALSE
PROPERTIES
  TheDemoIsOneIncident
