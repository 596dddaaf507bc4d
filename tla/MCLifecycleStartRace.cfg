SPECIFICATION Spec
CONSTANTS
  Producers = {p1, p2}
  Consumers = {c1}
  None = None
  Worlds <- StartRace
INVARIANTS
  SoleProducer
CHECK_DEADLOCK FALSE
