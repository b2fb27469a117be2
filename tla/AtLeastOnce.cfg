SPECIFICATION Spec
CONSTANTS
  t1 = t1
  t2 = t2
  Topics <- OneTopic
  MaxMessages = 2
  MaxFaults = 1
  MaxCrashes = 1
CHECK_DEADLOCK FALSE
INVARIANTS
  AtLeastOnce
