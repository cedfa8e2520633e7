CONSTANTS
  SlotCount = 2
  Producers = {p1, p2}
  Consumers = {c1, c2}
  Items = {good, bad}
  BadCrc = {bad}
  NoItem = NoItem
  MaxPos = 4
SPECIFICATION Spec
SYMMETRY Symmetric
INVARIANTS
  IInv
  RingSafe
  VerifyExact
  CorruptionCounted
PROPERTIES
  RefusalsAreSound
  ImplementsQueue
