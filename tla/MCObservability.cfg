CONSTANTS
  Invocations = {"i1", "i2"}
  Targets = {"w1", "w2"}
  MaxOpens = 3
  Milli = 2
  Scenarios <- AllScenarios
  RecordedLogs <- SomeLogs
  Remaps <- Swap
CHECK_DEADLOCK FALSE
SPECIFICATION OFairSpec
INVARIANTS
  HarnessHonest
  ReplayOK
  LogNumbered
  LossExact
  CountersHonest
PROPERTIES
  LossSurfaces
