SPECIFICATION Spec
CONSTANTS
  p1 = p1
  p2 = p2
  p3 = p3
  c1 = c1
  c2 = c2
  Worker = worker
  Nobody = nobody
  NoEntry = noEntry
  Producers <- TwoProducers
  Closers <- OneCloser
  Capacity = 2
  OverflowPolicy <- BlockInfo
  ConcurrentSafe = TRUE
  LogLevels <- InfoAndFatal
  MaxLogs = 2
  WriteFaults = 0
SYMMETRY Symmetry
INVARIANTS
  DrainedOnClose
  WorkerFIFO
PROPERTIES
  ImplementsRecordFate
