SPECIFICATION FairSpec
CONSTANTS
  Scenarios <- StopInWindow
PROPERTIES
  StallsStillRecover
