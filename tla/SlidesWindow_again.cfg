CONSTANTS
  Count = 1
  MaxUploads = 2
  MaxChanges = 1
  MaxFaults = 0
SPECIFICATION Spec
PROPERTY InsertedOnce
CHECK_DEADLOCK FALSE
