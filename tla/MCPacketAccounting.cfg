SPECIFICATION Spec
CONSTANTS
  MaxPackets = 3
  Depth = 2
  MaxClock = 1
  Tolerance = 0
  Damages = {"short", "BadChecksum"}
  MaxReceived = 3
INVARIANTS
  DetectionExact
  TimestampsQuiet
  SummaryAddsUp
CHECK_DEADLOCK FALSE
