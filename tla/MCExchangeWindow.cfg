\* Two trace ids compete for one entry; and one session, overlapping and repeated
\* windows of two frames.
SPECIFICATION MCSpec
CONSTANTS
  theTrace = t1
  theStream = s1
  Trace = {t1, t2}
  Stream = {s1, s2}
  Handler = {h1, h2}
  None = none
  MaxSessions = 1
  MaxSpan = 2
  MaxSize = 2
  InCap = 1
  ByteCap = 2
SYMMETRY Symmetry
INVARIANTS
  SlotHeld
  WindowOrder
  BudgetExact
  RegistryExact
CHECK_DEADLOCK FALSE
