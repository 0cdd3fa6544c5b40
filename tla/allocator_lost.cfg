CONSTANTS
  u1 = u1
  u2 = u2
  u3 = u3
  Nobody = Nobody
  Users <- ThreeUsers
  BufferSize = 5
  Boundaries <- OneBoundary
  MaxBlocks = 6
  MaxAllocating = 1
  MaxFreeing = 2
  CanDelete = FALSE
SPECIFICATION Spec
INVARIANT Conserved
CHECK_DEADLOCK FALSE
