SPECIFICATION Spec
CONSTANTS
  NaN = NaN
  Scale = 4
  MaxCount = 3
  Grid = 4
  LongestDelay = 12
  RawTimes <- MCRawTimes
  Requests <- MCRequests
  Layouts <- MCLayouts
  NumQubits = 3
  Gates <- MCGates
INVARIANTS
  SweptAsAWhole
  MappedWithinBounds
  FitsEngine
PROPERTIES
  QueueInOrder
  FactoriesProduce
  GatesComplete
