SPECIFICATION LiveSpec
CONSTANTS
  Inserters = {p1, p2}
  Extractor = x
  Values = {a, b, c}
  MaxEntries = 2
  MayFlush = TRUE
  Periods <- PollingPeriods
  NoThread = NoThread
  NoValue = NoValue
INVARIANT NoLostWakeup
PROPERTY FifoLiveSpec
