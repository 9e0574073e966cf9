\* The fine driver on the console's scale of time, with every hint and bad frame.
CONSTANTS
  ConversionTime = 1
  OneShotBudget = 1
  RetryInterval = 1
  ReadTimeout = 3
  CounterModulo = 3
  Slots = 1
  ClockHook = TRUE
  FifoFull = FALSE
  IntHint = TRUE
  OnTime = FALSE
  OwnFlagReads = TRUE
  CorruptFrames = TRUE
SPECIFICATION ViewSpec
PROPERTIES SeenAsCliDriver
