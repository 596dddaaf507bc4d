SPECIFICATION FairSpec
CONSTANTS
  MaxSignals = 3
  MaxKeys = 2
INVARIANTS
  TerminalMode
PROPERTIES
  StopSignalObeyed
  ShutdownCompletes
CHECK_DEADLOCK FALSE
