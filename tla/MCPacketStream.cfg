SPECIFICATION FairSpec
CONSTANTS
  Slots = 2
  MaxPackets = 3
  Configurations <- TwoConfigurations
  MaxRestarts = 1
  Crashes = {"producer", "consumer"}
INVARIANTS
  NothingLost
  DeliveredOnce
  NoDefects
  SummaryComplete
PROPERTIES
  StopObeyed
  StreamEndNoticed
  AllDelivered
CHECK_DEADLOCK FALSE
