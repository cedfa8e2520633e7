SPECIFICATION Spec
CONSTANTS
  Scenarios <- TwoCrashes
INVARIANTS
  OrphanAnnounced
