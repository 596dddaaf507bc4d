SPECIFICATION Spec
CONSTANTS
  Producers = {p1, p2}
  Consumers = {c1}
  None = None
  Worlds <- RestartRace
PROPERTIES
  UnlinksOwnNameOnly
CHECK_DEADLOCK FALSE
