CONSTANTS
  MaxObj = 2
  MaxFaults = 1
SPECIFICATION AFairSpec
PROPERTIES
  NoStaleView
