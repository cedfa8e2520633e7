SPECIFICATION FairSpec
CONSTANTS
  Scenarios <- Recovery
PROPERTIES
  RingsRecover
  StalledHandled
