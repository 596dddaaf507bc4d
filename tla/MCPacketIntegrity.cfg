CONSTANTS
  PayloadSizes = {0, 11}
  Bursts <- MCBursts
  kBlockBytes = 4
  ChunkBlocks = 2
  MaxPackets = 2
SPECIFICATION Spec
INVARIANT SealAgrees
INVARIANT DamageShows
INVARIANT ChunksInvisible
CHECK_DEADLOCK FALSE
