SPECIFICATION LiveSpec
CHECK_DEADLOCK FALSE
CONSTANTS MaxFrames = 7
          MaxJumps = 0
          MaxDrains = 0
          PossibleDecodeBuffers = 4
          MinimumWorking = 3
          LimitOutOfOrder = 13
          MaxDiscardedFrames = 1
          Drains = {}
          Droppable = {"other"}
PROPERTY DecoderGetsABuffer
