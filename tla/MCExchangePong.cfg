\* A reader that answers a PING into a full batch.
SPECIFICATION Spec
CONSTANTS
  Id = t1
  Mine = s1
  Handler = {h1}
  None = none
  Writer = {pump}
  FlushAt = 2
  MaxUp = 2
  MaxDown = 1
  MaxSpan = 4
  InCap = 2
  ByteCap = 3
INVARIANT ReaderNeverParks
CHECK_DEADLOCK FALSE
