SPECIFICATION Spec
CHECK_DEADLOCK FALSE
CONSTANTS MaxFrames = 1
          MaxDrains = 2
          MaxRingSize = 3
          NonBlockingCalls <- No
          ParseAllCalls <- No
          TimesOut = FALSE
          Preempted = FALSE
INVARIANT OrderKept
INVARIANT DrainedMeansDrained
INVARIANT DiscardsUntilMarker
INVARIANT ResetBeforeNewFrames
PROPERTY DrainEnds
PROPERTY ServesDrains
