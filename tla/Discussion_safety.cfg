\* Lost connections, a crash or a failing append, with the answers that must stand.
SPECIFICATION Spec
CONSTANTS
  ana = ana  ben = ben
  first = first  second = second  third = third
  t1 = t1  m1 = m1  m2 = m2
  Threads = {t1}
  Messages = {m1, m2}
  People = {ana, ben}
  MaxThreads = 1
  MaxMessages = 2
  MaxEdits = 1
  MaxBytes = 3
  MaxRemembered = 3
  Clients <- MCClients
  PersonOf <- MCPersonOf
  RoleOfClient <- MCRole
  Requests = {first, second, third}
  ClientOf <- MCClientOf
  Scripts <- MCScripts
  Hasty = {ben}
  Leaving = {}
  MaxDrops = 1
  MaxCrashes = 1
  MaxFailures = 1
  MaxFaults = 2
INVARIANTS
  TypeOK
  ReplicaFollowsLog
  RequestOnce
  AppliedIsStored
  RefusedStaysOut
  BytesMatch
  NothingSkipped
CHECK_DEADLOCK FALSE
