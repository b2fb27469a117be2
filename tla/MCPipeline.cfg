SPECIFICATION Spec
CONSTANTS
  w1 = w1
  w2 = w2
  WindowMs = 6
  NearMs = 2
  MinConfidence = 50
  Campaigns <- MCCampaigns
  Services <- MCServices
  Replicas <- MCReplicas
  Assignments <- AnyAssignment
  MaxAhead = 1
CHECK_DEADLOCK FALSE
INVARIANTS
  NoiseNeverPages
  TogetherIsPaged
