SPECIFICATION Spec
CONSTANTS
  MaxSize = 3
  MaxAge = 0
  RotateInterval = 2
  MaxBackups = 1
  Second = 2
  Foreign <- OneForeign
  BufSize = 2
  MaxRecord = 4
  FaultKinds <- EveryKind
  MaxFaults = 2
  MaxCrashes = 1
  MaxWrites = 4
  MaxTime = 3
INVARIANTS TypeOK InOrder WholeRecords SizeAccount FileBound AppendsToOpenFile CloseFlushes
PROPERTY BackupsStay
