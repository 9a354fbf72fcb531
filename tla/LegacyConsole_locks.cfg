SPECIFICATION FairSpec
CONSTANTS
  Producers = {p1, p2}
  Worker = worker
  Closer = closer
  Nobody = nobody
  Capacity = 2
INVARIANTS
  TypeOK
  WriterExclusive
  OwnLine
  QueueOutlivesWorker
PROPERTIES
  WriteReturns
  DrainBounded
  QuietClose
