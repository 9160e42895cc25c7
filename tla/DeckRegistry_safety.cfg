CONSTANTS
  u1 = u1
  u2 = u2
  Updates <- MCUpdates
  BlankSeed = u1
  CompactAfter = 2
  CloseAfter = 2
  FailedAppendLeaves <- Clean
  SnapshotsDecay = TRUE
  MaxConnections = 1
  MaxLeases = 1
SPECIFICATION FairSpec
INVARIANTS TypeOK AckedSurvives RoomAccounted
PROPERTIES UsersHaveRoom HeldNeverShrinks KeepsDeck UpdatesReachDisk IdleRoomsUnload
