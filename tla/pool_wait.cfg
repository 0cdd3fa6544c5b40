CONSTANTS
  g1 = g1
  g2 = g2
  g3 = g3
  Nobody = Nobody
  Getters <- ThreeGetters
  NumberOfBuffers = 2
  CanDestroy = TRUE
SPECIFICATION LiveSpec
PROPERTIES NeverStuckBeforeABuffer AbortEndsAll
CHECK_DEADLOCK FALSE
