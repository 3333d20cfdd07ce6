\* Safety and refinement: a chunk each way, every kind of failure.
SPECIFICATION Spec
CONSTANTS
  MaxChunk <- Both
  WireCap = 1
  FaultSets <- OneFault
INVARIANTS
  TypeOK
  InOrder
  CleanEnd
PROPERTY PipeSpec
