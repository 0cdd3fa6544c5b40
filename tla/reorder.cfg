SPECIFICATION Spec
CHECK_DEADLOCK FALSE
CONSTANTS MaxFrames = 5
          MaxJumps = 1
          MaxDrains = 1
          PossibleDecodeBuffers = 5
          MinimumWorking = 3
          LimitOutOfOrder = 13
          MaxDiscardedFrames = 2
          Drains = {"playout", "discard"}
          Droppable = {"other"}
INVARIANTS OutputInOrder NotEarly DiscardEmptiesTable
