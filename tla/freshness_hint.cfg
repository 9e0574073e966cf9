\* An INT level read as asserted while a one-shot is under way.
CONSTANTS
  ConversionTime = 1
  OneShotBudget = 2
  RetryInterval = 1
  ReadTimeout = 3
  CounterModulo = 3
  Slots = 2
  ClockHook = TRUE
  FifoFull = FALSE
  IntHint = TRUE
  OnTime = TRUE
  OwnFlagReads = FALSE
  CorruptFrames = FALSE
SPECIFICATION Spec
PROPERTIES HintProvesNothing
