\* Two frames up, a full batch, and one down at a time.
SPECIFICATION FairSpec
CONSTANTS
  Id = t1
  Mine = s1
  Handler = {h1}
  None = none
  Writer = {pump}
  FlushAt = 2
  MaxUp = 2
  MaxDown = 1
  MaxSpan = 4
  InCap = 2
  ByteCap = 3
INVARIANTS
  ConformingAdmitted
PROPERTIES
  CarriesFrames
  PushDelivered
  CloseEnds
CHECK_DEADLOCK FALSE
