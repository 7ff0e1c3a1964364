CONSTANTS
  Shapes <- MCShapes
  KMap <- MCKMap
  TuneRows = {1, 2, 4, 8, 16}
  CaptureRows = {1, 3, 16, 144, 145}
  MaxTuned = 144
SPECIFICATION LoadSpec
INVARIANTS
  LayerRight
  MissingRaised
  
CHECK_DEADLOCK FALSE
