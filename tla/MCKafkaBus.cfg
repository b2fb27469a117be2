SPECIFICATION FairSpec
CONSTANTS
  t1 = t1
  t2 = t2
  Topics <- TwoTopics
  MaxMessages = 2
  MaxFaults = 2
  MaxCrashes = 2
CHECK_DEADLOCK FALSE
INVARIANTS
  TypeOK
  NothingSkippedOnceCommitted
  DeadLettersNameTheFault
  OnlyValidMessagesHaveEffects
PROPERTIES
  NoPartitionStalls
  KeepsDelivery
