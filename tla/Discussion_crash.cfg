\* An entry that a client received while it was being appended is lost in a crash.
SPECIFICATION Spec
CONSTANTS
  ana = ana  ben = ben
  first = first  second = second  third = third
  t1 = t1  m1 = m1  m2 = m2
  Threads = {t1}
  Messages = {m1, m2}
  People = {ana, ben}
  MaxThreads = 1
  MaxMessages = 2
  MaxEdits = 1
  MaxBytes = 3
  MaxRemembered = 3
  Clients <- MCClients
  PersonOf <- MCPersonOf
  RoleOfClient <- MCRole
  Requests = {first, second, third}
  ClientOf <- MCClientOf
  Scripts <- MCScripts
  Hasty = {}
  Leaving = {}
  MaxDrops = 0
  MaxCrashes = 1
  MaxFailures = 0
  MaxFaults = 2
INVARIANTS
  ReplicasAgree
CHECK_DEADLOCK FALSE
