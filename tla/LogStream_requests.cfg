CONSTANTS
  None = None
  Queries <- MCQueries
  Ints <- MCInts
  Containers = {"c1", "c2"}
  MaxBytes = 2
  Net = 1
CHECK_DEADLOCK FALSE
SPECIFICATION FairSpec
INVARIANTS
  TypeOK
  CompleteUnlessCut
PROPERTIES
  StreamsFreed
  FiniteStreamEnds
  FailureStopsProcess
