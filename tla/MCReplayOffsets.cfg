CONSTANTS
  Invocations = {"i1", "i2"}
  Targets = {"w1", "w2"}
  MaxOpens = 3
  Milli = 2
  Scenarios <- OneReplay
  RecordedLogs <- WholeMillis
  Remaps <- Swap
CHECK_DEADLOCK FALSE
SPECIFICATION OSpec
INVARIANTS
  ReplayAtOffsets
