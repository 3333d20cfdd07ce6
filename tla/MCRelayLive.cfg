\* Liveness: a chunk from the target, slow readers and a dying network.
SPECIFICATION FairSpec
CONSTANTS
  MaxChunk <- TargetOnly
  WireCap = 1
  FaultSets <- SlowOrBroken
PROPERTIES
  StopJoins
  PeerFollows
