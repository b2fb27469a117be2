SPECIFICATION FairSpec
CONSTANTS
  TopicSpecs <- MCTopics
  Workers = {"risk-engine", "incident-service"}
  MaxFaults <- OneFault
  Subscribed <- MCTopics
  Replicas = {r1, r2}
  PidsOfHosts <- DistinctPids
  r1 = r1
  r2 = r2
  Clients = {browser}
  Partitions = {0}
  FeedSize = 1
  MaxEvents = 1
  MaxCrashes <- OneCrash
  None = None
INVARIANTS
  ProvisionedOnceUp
  LoneReplicaSeesEveryEvent
PROPERTIES
  LiveFeedIsLive
  EverybodyBoots
CHECK_DEADLOCK FALSE
