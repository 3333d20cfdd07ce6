\* What the expiry of the idle window is recorded as.
SPECIFICATION Spec
CONSTANTS
  Trace = {t1}
  Stream = {s1}
  Handler = {h1}
  None = none
  MaxSessions = 1
  MaxSpan = 2
  MaxSize = 1
  InCap = 1
  ByteCap = 2
PROPERTY ReapReported
CHECK_DEADLOCK FALSE
