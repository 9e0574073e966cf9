\* After a failed recovery the history gate of a burst job is open.
CONSTANTS
  ConversionTime = 1
  OneShotBudget = 2
  RetryInterval = 1
  ReadTimeout = 4
  CounterModulo = 3
  Slots = 2
  ClockHook = TRUE
  FifoFull = TRUE
  IntHint = FALSE
  OnTime = TRUE
  OwnFlagReads = FALSE
  CorruptFrames = FALSE
SPECIFICATION Spec
PROPERTIES FifoFrameAlwaysComplete
