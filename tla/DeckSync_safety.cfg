SPECIFICATION FairSpec
CONSTANTS
  ana = ana  ben = ben
  People <- MCPeople
  Clients <- MCPeople
  PageNumber <- MCPageNumber
  FirstRoles <- MCEither
  Writers = {ana}
  RoomNumber = 2
  MaxEdits = 2
  MaxAgentEdits = 1
  MaxRoleChanges = 1
  MaxDrops = 1
  MaxCrashes = 1
  MaxFaults = 1
INVARIANTS
  TypeOK
  NothingFallsBetween
  FilesJudged
  ReadersSeeJudged
  SoleEditorIsApproved
CHECK_DEADLOCK FALSE
PROPERTIES
  Converges
  DropsAreDue
