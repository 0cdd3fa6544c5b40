SPECIFICATION SwitchSpec
CHECK_DEADLOCK FALSE
CONSTANTS MaxFrames = 1
          MaxDrains = 2
          MaxRingSize = 4
          MaxSwitches = 2
          NonBlockingCalls <- Both
          ParseAllCalls <- No
          TimesOut = FALSE
          Preempted = FALSE
          LastDecodeLate = FALSE
          WriterWaits = TRUE
          OtherDrains <- No
INVARIANT NoCallStranded
INVARIANT PreviousOutOfUse
PROPERTY InItsOwnHands
PROPERTY ReleasedByItsCodec
PROPERTY NoOneNeedsTheParser
