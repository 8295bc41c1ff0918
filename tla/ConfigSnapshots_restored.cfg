\* One parent, one connection under it, one snapshot of them.
CONSTANTS
  ParentNames = {p}
  ConnNames = {n}
  MaxParents = 2
  MaxConns = 2
  Unsaved = Unsaved
SPECIFICATION SnapshotsSpec
CHECK_DEADLOCK FALSE
INVARIANTS
  RestoreGivesItBack
