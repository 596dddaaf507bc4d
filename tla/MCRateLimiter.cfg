SPECIFICATION LimiterSpec
CONSTANTS
  Interval = 3
  SpinThreshold = 2
  MaxSleep = 1
  MaxTime = 11
INVARIANTS
  MinSpacing
  Cadence
CHECK_DEADLOCK FALSE
