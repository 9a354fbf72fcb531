SPECIFICATION Spec
CONSTANTS
  p1 = p1
  p2 = p2
  p3 = p3
  c1 = c1
  c2 = c2
  Worker = worker
  Nobody = nobody
  NoEntry = noEntry
  Producers <- OneProducer
  Closers <- TwoClosers
  Capacity = 1
  OverflowPolicy <- DefaultLevelPolicy
  ConcurrentSafe = FALSE
  LogLevels <- OnlyInfo
  MaxLogs = 1
  WriteFaults = 0
INVARIANTS
  CloseIdempotent
