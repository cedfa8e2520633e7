CONSTANTS
  MaxConns = 3
  Cap = 2
  HeadCap = 2
  Scenarios <- AllScenarios
CHECK_DEADLOCK FALSE
SPECIFICATION HttpFairSpec
INVARIANTS
  TableOK
  BuffersServed
  ResponsesMatch
  TameSpared
PROPERTIES
  SlotsComeBack
  StopsClean
