SPECIFICATION Spec
CONSTANTS
  Scenarios <- Safety
INVARIANTS
  RingsOwned
  DegradedKept
  NeverSilentlyDown
  FirstPostGenuine
  PromotedSpared
