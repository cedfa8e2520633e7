CONSTANTS
  SlotCount = 2
  Producers = {wa, wc}
  Consumers = {sup}
  Items = {i1, i2}
  BadCrc = {i2}
  NoItem = NoItem
  MaxPos = 3
  FirstOwner = wa
  Sup = sup
  Callers = {"supervisor", "direct", "takeover"}
SPECIFICATION HSpec
CONSTRAINT PayloadsMatter
INVARIANTS
  HandoffInv
  TokensGenuine
  DeliveredPrefix
  FencedAfterOne
CHECK_DEADLOCK FALSE
