SPECIFICATION Spec
CONSTANTS
  p1 = p1
  p2 = p2
  MaxSize = 0
  MaxAge = 0
  RotateInterval = 0
  MaxBackups = 1
  Second = 1
  Foreign = {}
  BufSize = 4
  MaxRecord = 8
  FaultKinds = {}
  MaxFaults = 0
  MaxCrashes = 0
  MaxWrites = 8
  MaxTime = 0
  Producers = {p1, p2}
  Worker = worker
  Closer = closer
  Nobody = nobody
  NoEntry = noEntry
  Capacity = 1
  Batching = {FALSE}
  Sizes = {1}
  MaxLogs = 1
SYMMETRY Symmetry
INVARIANT FallbackIsStored
