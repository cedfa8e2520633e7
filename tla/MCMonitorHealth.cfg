SPECIFICATION FairSpec
CONSTANTS
  StallThreshold = 1
  HandoffGrace = 2
  Roles = {"hot", "standby"}
  MaxProcs = 2
  MaxTail = 2
  MaxStop = 1
INVARIANTS
  CrashAlertsSound
  StallGenuine
PROPERTIES
  StoppedReported
