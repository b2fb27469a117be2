SPECIFICATION Spec
CONSTANTS
  Files <- MCFiles
  Migrators = {m1, m2}
  m1 = m1
  m2 = m2
  MaxFailures <- OneFailure
  InitFile = "0001_init"
  TotalAssets = 2
  CriticalAssets = 1
  AtRiskAssets = 0
  BatchSize = 1
  ENVIRONMENTS = {"production"}
  Environment <- MCEnvironment
  Provider <- MCProvider
  FindingsOf <- MCFindingsOf
  Status <- MCStatus
  RuleSeverity <- MCRuleSeverity
  Shape <- MCShape
  SeedHours = {54}
  LiveIncidents <- MCLive
  MaxSeeds = 2
  MaxSeedFaults = 1
  ScoreWindow = 48
  DayBack = 24
  TrendWindow = 24
  TrendWidth = 1
  SampleIncidents <- MCSamples
  Now = 54
  MaxFetches = 1
INVARIANTS
  MigrationsAreWhole
  SeedLeavesTheEstate
  OverviewAddsUp
  FallbacksAreFlagged
CHECK_DEADLOCK FALSE
