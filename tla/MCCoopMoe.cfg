SPECIFICATION Spec
CONSTANTS
  Shapes <- MCShapes
  RunRows = 2
  THREADS = 1
INVARIANTS
  CallRight
  CountersExact
CHECK_DEADLOCK FALSE
