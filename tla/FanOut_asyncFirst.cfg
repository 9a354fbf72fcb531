SPECIFICATION Spec
CONSTANTS
  p1 = p1
  p2 = p2
  c1 = c1
  c2 = c2
  c3 = c3
  e1 = e1
  e2 = e2
  e3 = e3
  e4 = e4
  Worker = worker
  Nobody = nobody
  NoCell = noCell
  NoRecord = noRecord
  Producers = {p1, p2}
  Sync = {c1}
  Async = {c2}
  Plain = {c3}
  Recycling = {c3}
  Handlers <- AsyncFirst
  WithFields = {p1}
  WithCaller = {p2}
  ConcurrentSafe = {}
  Capacity = 1
  Cell <- Cells
  MaxLogs = 1
  WriteFaults = 0
SYMMETRY Symmetry
INVARIANT EveryChildServed
