CONSTANTS
  owner = owner
  ann = ann
  s1 = s1
  s2 = s2
  Owner = owner
  Accounts <- MCTwo
  GivenRoles <- MCRoles
  LinkRoles = {"commenter"}
  Sockets <- MCSockets2
  MaxMembers = 2
  MaxAccountConnections = 1
  MaxDeckConnections = 2
  MaxInFlight = 2
  MaxFaults = 1
SPECIFICATION Spec
SYMMETRY MCSymmetry
INVARIANTS TypeOK SocketsFollowRecord OwnerStays ConnectionsWithinLimits
PROPERTIES ChangesBuildOnEachOther
