CONSTANTS
  Decks = {d1, d2}
  Busy = {d1}
  Calls = {c1}
  Sweep = Sweep
  Kinds = {TRUE, FALSE}
  MaxChanges = 2
  MaxFaults = 1
SPECIFICATION Spec
INVARIANTS NothingPassed
CHECK_DEADLOCK FALSE
