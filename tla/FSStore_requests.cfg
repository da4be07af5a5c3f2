CONSTANTS
  k1 = k1
  k2 = k2
  p1 = p1
  p2 = p2
  Keys <- MCKeys
  Procs <- MCProcs
  None = None
  Cap = 2
  MaxRV = 4
  MaxFaults = 2
CHECK_DEADLOCK FALSE
SPECIFICATION FairSpec
INVARIANTS
  TypeOK
  KeyEventsOrdered
  RVUnique
  IdleKeyAnnounced
PROPERTIES
  CompareAndSwap
  Implements
  RequestsReturn
