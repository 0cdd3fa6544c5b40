SPECIFICATION Spec
CHECK_DEADLOCK FALSE
CONSTANTS MaxFrames = 1
          MaxDrains = 2
          MaxRingSize = 3
          NonBlockingCalls <- Both
          ParseAllCalls <- No
          TimesOut = TRUE
          Preempted = TRUE
INVARIANT NoMessageStranded
INVARIANT NoFlagStranded
