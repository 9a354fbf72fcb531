SPECIFICATION Spec
CONSTANTS
  p1 = p1
  p2 = p2
  MaxSize = 2
  MaxAge = 0
  RotateInterval = 1
  MaxBackups = 1
  Second = 1
  Foreign = {}
  BufSize = 2
  MaxRecord = 8
  FaultKinds = {"write", "sync", "rename", "reopen", "open"}
  MaxFaults = 2
  MaxCrashes = 0
  MaxWrites = 8
  MaxTime = 1
  Producers = {p1, p2}
  Worker = worker
  Closer = closer
  Nobody = nobody
  NoEntry = noEntry
  Capacity = 2
  Batching = {FALSE, TRUE}
  Sizes = {1}
  MaxLogs = 2
SYMMETRY Symmetry
INVARIANTS TypeOK EntryOnePlace QueueOrder StoredOnClose
