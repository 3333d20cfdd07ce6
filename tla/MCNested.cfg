SPECIFICATION MigrationSpec
CONSTANTS
  Hidden = {}
  Tree <- MCTree
  Order <- MCOrder
  Slots = 2
  MigOptions <- MCMigOptions
  MaxRuns = 1
INVARIANT OriginalsKept
CHECK_DEADLOCK FALSE
