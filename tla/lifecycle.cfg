CONSTANTS
  f1 = f1
  m1 = m1
  Frames <- OneFrame
  Messages <- OneMessage
  ExpectedProcessCount = 4
  LongEnough = TRUE
SPECIFICATION LiveSpec
INVARIANTS RingsOutOfUse StreamOutOfUse ListedMeansRunning NothingLeftInRings
PROPERTIES ProcessesEnd CleanUpEnds
CHECK_DEADLOCK FALSE
