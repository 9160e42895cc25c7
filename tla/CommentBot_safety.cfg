CONSTANTS
  Decks = {d1}
  Busy = {d1}
  Calls = {c1}
  Sweep = Sweep
  Kinds = {TRUE}
  MaxChanges = 2
  MaxFaults = 1
SPECIFICATION FairSpec
INVARIANTS TypeOK CursorBehindTasks TokenBehindTasks Followed
PROPERTIES EveryPostComesIn
CHECK_DEADLOCK FALSE
