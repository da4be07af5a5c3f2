CONSTANTS
  None = None
  MaxUID = 2
  N = 1
  MaxFaults = 0
  Deletions = {"force"}
CHECK_DEADLOCK FALSE
SPECIFICATION FairSpec
INVARIANTS
  TypeOK
PROPERTIES
  OnlyOrphansRemoved
  OrphansReaped
  StatusConverges
