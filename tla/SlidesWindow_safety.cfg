CONSTANTS
  Count = 2
  MaxUploads = 2
  MaxChanges = 1
  MaxFaults = 1
SPECIFICATION FairSpec
INVARIANTS TypeOK RevisionIsBacked ToldIsDone
PROPERTIES ReadyIsComplete KeepsInserted ManifestNamesFiles WindowFollows
CHECK_DEADLOCK FALSE
