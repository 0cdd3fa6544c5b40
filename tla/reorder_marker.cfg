SPECIFICATION Spec
CHECK_DEADLOCK FALSE
CONSTANTS MaxFrames = 4
          MaxJumps = 0
          MaxDrains = 1
          PossibleDecodeBuffers = 5
          MinimumWorking = 3
          LimitOutOfOrder = 13
          MaxDiscardedFrames = 2
          Drains = {"playout"}
          Droppable = {}
INVARIANT PlayoutEmptiesTable
