CONSTANTS
  owner = owner
  ann = ann
  s1 = s1
  s2 = s2
  Owner = owner
  Accounts <- MCTwo
  GivenRoles <- MCRoles
  LinkRoles = {"commenter"}
  Sockets <- MCSockets0
  MaxMembers = 2
  MaxAccountConnections = 1
  MaxDeckConnections = 1
  MaxInFlight = 1
  MaxFaults = 0
SPECIFICATION Spec
INVARIANTS DeletedStaysDeleted
