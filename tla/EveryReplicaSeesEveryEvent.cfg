SPECIFICATION Spec
CONSTANTS
  TopicSpecs <- MCTopics
  Workers = {"risk-engine", "incident-service"}
  MaxFaults <- OneFault
  Subscribed <- OneTopic
  Replicas = {r1, r2}
  PidsOfHosts <- SamePid
  r1 = r1
  r2 = r2
  Clients = {browser}
  Partitions = {0}
  FeedSize = 1
  MaxEvents = 1
  MaxCrashes <- OneCrash
  None = None
INVARIANT
  EveryReplicaSeesEveryEvent
CHECK_DEADLOCK FALSE
