SPECIFICATION Spec
CONSTANTS
  g1 = g1
  g2 = g2
  Goroutines = {g1, g2}
  NoTime = noTime
  NoField = noField
  NoRecord = noRecord
  MaxTime = 2
  Fields <- ThreeFields
  Groups <- OneAndNoGroup
  Literals = {"1"}
  TimeText <- Clocks
  Bounds <- ThreeBounds
INVARIANTS
  TypeOK
  FieldsFixed
  ClockReady
  LineDecodes
PROPERTIES
  ClockMonotone
SYMMETRY Symmetry
