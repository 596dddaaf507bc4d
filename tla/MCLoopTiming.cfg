CONSTANTS
  FreeSteps = 1
  BaseSleep = 1
  kMaxSleep = 4
  Timeout = 10
  PausedTick = 6
  LimiterNap = 4
  RateInterval = 7
  Period = 10
  Count = 2
  Late = 1
  MaxClock = 42
  None = None
SPECIFICATION Spec
INVARIANT
  RoomIsTaken
INVARIANT
  StopPrompt
INVARIANT
  ReportsTile
INVARIANT
  ReportsTimely
CHECK_DEADLOCK FALSE
