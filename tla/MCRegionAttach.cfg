CONSTANTS
  MaxObj = 2
  MaxFaults = 1
SPECIFICATION AFairSpec
INVARIANTS
  HandlesOK
  NeverWiped
  OneRegion
PROPERTIES
  DaemonFollows
