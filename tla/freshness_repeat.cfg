\* An applied configuration forgets which conversion was handed out.
CONSTANTS
  ConversionTime = 1
  OneShotBudget = 2
  RetryInterval = 1
  ReadTimeout = 3
  CounterModulo = 3
  Slots = 2
  ClockHook = TRUE
  FifoFull = FALSE
  IntHint = FALSE
  OnTime = TRUE
  OwnFlagReads = FALSE
  CorruptFrames = FALSE
SPECIFICATION Spec
PROPERTIES FreshNeverRepeats
