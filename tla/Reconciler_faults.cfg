CONSTANTS
  None = None
  MaxUID = 2
  N = 1
  MaxFaults = 1
  Deletions = {"graceful"}
CHECK_DEADLOCK FALSE
SPECIFICATION FairSpec
PROPERTIES
  OrphansReaped
  TerminationCompletes
