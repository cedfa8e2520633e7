CONSTANTS
  Writers = {w1, w2}
  Refresher = sup
  MaxSeq = 3
  Orders = {TRUE, FALSE}
SPECIFICATION IFairSpec
INVARIANTS
  WordConsistent
PROPERTIES
  WordAdvances
  Repaired
