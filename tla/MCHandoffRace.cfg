CONSTANTS
  SlotCount = 2
  Producers = {wa, wc}
  Consumers = {sup}
  Items = {i1}
  BadCrc = {}
  NoItem = NoItem
  MaxPos = 3
  FirstOwner = wa
  Sup = sup
  Callers = {"supervisor"}
SPECIFICATION HSpec
INVARIANTS
  WindowBounded
CHECK_DEADLOCK FALSE
