\* Connections lost, a crash, a failing append and a client that leaves: every request is answered.
SPECIFICATION FairSpec
CONSTANTS
  ana = ana  ben = ben
  first = first  second = second  third = third
  t1 = t1  m1 = m1  m2 = m2
  Threads = {t1}
  Messages = {m1, m2}
  People = {ana, ben}
  MaxThreads = 1
  MaxMessages = 2
  MaxEdits = 1
  MaxBytes = 3
  MaxRemembered = 3
  Clients <- MCClients
  PersonOf <- MCPersonOf
  RoleOfClient <- MCRole
  Requests = {first, third}
  ClientOf <- MCClientOf
  Scripts <- MCScripts
  Hasty = {ben}
  Leaving = {ben}
  MaxDrops = 1
  MaxCrashes = 1
  MaxFailures = 2
  MaxFaults = 2
PROPERTIES
  EveryRequestAnswered
CHECK_DEADLOCK FALSE
