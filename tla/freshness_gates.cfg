\* A clock hook and a device in time: the gates mean what they say.
CONSTANTS
  ConversionTime = 2
  OneShotBudget = 3
  RetryInterval = 1
  ReadTimeout = 7
  CounterModulo = 3
  Slots = 3
  ClockHook = TRUE
  FifoFull = TRUE
  IntHint = FALSE
  OnTime = TRUE
  OwnFlagReads = FALSE
  CorruptFrames = TRUE
SPECIFICATION Spec
PROPERTIES ReadyMeansConverted FifoFrameComplete
