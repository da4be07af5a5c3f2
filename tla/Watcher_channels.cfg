CONSTANTS
  p1 = p1
  p2 = p2
  w1 = w1
  Pubs <- TwoPubs
  Ws <- OneWatcher
  None = None
  Buf = 2
  Initial = 3
  MaxPub = 3
CHECK_DEADLOCK FALSE
SPECIFICATION FairSpec
INVARIANTS
  TypeOK
  NoPanic
PROPERTIES
  PublishReturnsIfRoom
  StoppedIsFreed
