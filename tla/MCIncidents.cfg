SPECIFICATION FairSpec
CONSTANTS
  k1 = k1
  k2 = k2
  w1 = w1
  w2 = w2
  small = small
  large = large
  Payload <- MCPayload
  Keys <- TwoKeys
  Workers <- MCWorkers
  Assignment <- AllToOne
  EditStatuses <- MCEdits
  Snapshots <- MCSnapshots
  MaxDetections = 2
  MaxFailures = 2
  MaxRebalances = 1
  MaxEdits = 1
CHECK_DEADLOCK FALSE
INVARIANTS
  TypeOK
  RowsShowTheirStory
  OneOpenIncident
  CreatedAtMostOnce
  NoSilentIncident
PROPERTIES
  StatusLostOnlyByRace
  SettlesOnLatest
