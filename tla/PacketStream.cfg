SPECIFICATION FairSpec
CONSTANTS
  t1 = t1
  t2 = t2
  Ways <- BothWays
  Threads <- TwoThreads
  Header = 2
  Sizes <- SmallSizes
  Capacity = 3
  MaxPackets = 3
INVARIANTS
  TypeOK
  Contiguous
  WholePackets
PROPERTIES
  CompleteIsReturned
  CloseIsNoticed
CHECK_DEADLOCK FALSE
