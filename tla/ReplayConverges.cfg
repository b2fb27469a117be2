SPECIFICATION Spec
CONSTANTS
  k1 = k1
  k2 = k2
  w1 = w1
  w2 = w2
  small = small
  large = large
  Payload <- MCPayload
  Keys <- OneKey
  Workers <- MCWorkers
  Assignment <- AllToOne
  EditStatuses <- OnlyClose
  Snapshots <- MCSnapshots
  MaxDetections = 2
  MaxFailures = 1
  MaxRebalances = 0
  MaxEdits = 1
CHECK_DEADLOCK FALSE
INVARIANTS
  ReplayConverges
