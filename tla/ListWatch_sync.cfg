CONSTANTS
  k1 = k1
  k2 = k2
  p1 = p1
  p2 = p2
  w1 = w1
  Keys <- TwoKeys
  Procs <- TwoProcs
  Watchers <- OneWatcher
  None = None
  Cap = 1
  MaxRV = 4
  MaxFaults = 1
SPECIFICATION LWSpec
SYMMETRY Symmetry
INVARIANTS
  LiveSynced
PROPERTY ReplayCompleteInOrder
