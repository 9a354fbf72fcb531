SPECIFICATION FairSpec
CONSTANTS
  p1 = p1
  p2 = p2
  p3 = p3
  c1 = c1
  c2 = c2
  Worker = worker
  Nobody = nobody
  NoEntry = noEntry
  Producers <- TwoProducers
  Closers <- NoCloser
  Capacity = 1
  OverflowPolicy <- DefaultLevelPolicy
  ConcurrentSafe = FALSE
  LogLevels <- OnlyError
  MaxLogs = 2
  WriteFaults = 1
PROPERTIES
  BlockTimesOut
CHECK_DEADLOCK FALSE
