CONSTANTS
  u1 = u1
  u2 = u2
  u3 = u3
  Nobody = Nobody
  Users <- ThreeUsers
  BufferSize = 4
  Boundaries <- OneBoundary
  MaxBlocks = 2
  MaxAllocating = 1
  MaxFreeing = 1
  CanDelete = TRUE
SPECIFICATION LiveSpec
INVARIANTS Conserved Concatenation NoLostWakeup DeletedEmpty NoOverlap NoneCrosses FreeIsTheLoop
PROPERTIES DeleteCompletes
CHECK_DEADLOCK FALSE
