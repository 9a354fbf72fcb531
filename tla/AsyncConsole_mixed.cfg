SPECIFICATION Spec
CONSTANTS
  p1 = p1
  p2 = p2
  p3 = p3
  c1 = c1
  c2 = c2
  Worker = worker
  Nobody = nobody
  NoEntry = noEntry
  Producers <- TwoProducers
  Closers <- OneCloser
  Capacity = 1
  OverflowPolicy <- EvictInfo
  ConcurrentSafe = FALSE
  LogLevels <- InfoAndError
  MaxLogs = 2
  WriteFaults = 1
SYMMETRY Symmetry
INVARIANTS
  TypeOK
  WriterExclusive
  ShutdownOrder
  EachEntryOnePlace
  StatsAccount
  RecycleSafe
