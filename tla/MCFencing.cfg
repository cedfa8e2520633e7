CONSTANTS
  SlotCount = 2
  Producers = {wa, wc}
  Consumers = {sup}
  Items = {i1}
  BadCrc = {}
  NoItem = NoItem
  MaxPos = 3
  FirstOwner = wa
  Sup = sup
  Callers = {"takeover"}
SPECIFICATION HSpec
INVARIANTS
  FencedForever
CHECK_DEADLOCK FALSE
