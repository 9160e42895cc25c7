CONSTANTS
  u1 = u1
  u2 = u2
  Updates <- MCUpdates
  BlankSeed = u1
  CompactAfter = 2
  CloseAfter = 3
  FailedAppendLeaves <- Any
  SnapshotsDecay = FALSE
  MaxConnections = 1
  MaxLeases = 1
SPECIFICATION Spec
INVARIANTS AckedSurvives
