\* No fault at all: what a half-closed session keeps.
SPECIFICATION Spec
CONSTANTS
  MaxChunk <- TargetOnly
  WireCap = 2
  FaultSets <- NoFault
INVARIANT ResponseSurvives
CHECK_DEADLOCK FALSE
