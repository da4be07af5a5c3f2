CONSTANTS
  None = None
  MaxUID = 2
  N = 1
  MaxFaults = 0
  Deletions = {"graceful"}
CHECK_DEADLOCK FALSE
SPECIFICATION Spec
PROPERTY OnlyRequestedDeletions
