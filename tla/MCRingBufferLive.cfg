CONSTANTS
  SlotCount = 2
  Producers = {p1, p2}
  Consumers = {c1}
  Items = {good, bad}
  BadCrc = {bad}
  NoItem = NoItem
  MaxPos = 3
SPECIFICATION FairSpec
PROPERTIES
  Progress
