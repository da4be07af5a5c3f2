CONSTANTS
  p1 = p1
  p2 = p2
  w1 = w1
  Pubs <- OnePub
  Ws <- OneWatcher
  None = None
  Buf = 1
  Initial = 0
  MaxPub = 2
CHECK_DEADLOCK FALSE
SPECIFICATION FairSpec
PROPERTY PublishReturns
