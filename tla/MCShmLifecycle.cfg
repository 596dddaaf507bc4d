SPECIFICATION FairSpec
CONSTANTS
  Producers = {p1, p2}
  Consumers = {c1, c2}
  None = None
  Worlds <- ThreeWorlds
INVARIANTS
  AttachedHoldsSlot
  NoLeak
  LiveRingReachable
PROPERTIES
  RefusedOnlyByLive
  RunningRingGetsConsumer
CHECK_DEADLOCK FALSE
