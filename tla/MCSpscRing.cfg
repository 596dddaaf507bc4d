SPECIFICATION Spec
CONSTANTS
  Capacity = 8
  Wrap = 16
  Prefix = 2
  MaxLength = 1
  Sizes = {0, 1, 2}
  Byte = {b1, b2}
SYMMETRY Symmetry
INVARIANTS
  TypeOK
  StaleViewsSound
  NoDataRace
  DistanceInv
  NeverCorrupted
  MemoryHoldsQueue
PROPERTY
  ImplementsRecordQueue
