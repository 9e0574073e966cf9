\* A late clock, a late device, hints, raw FLAGS reads and corrupt frames.
CONSTANTS
  ConversionTime = 1
  OneShotBudget = 2
  RetryInterval = 1
  ReadTimeout = 3
  CounterModulo = 3
  Slots = 2
  ClockHook = FALSE
  FifoFull = FALSE
  IntHint = TRUE
  OnTime = FALSE
  OwnFlagReads = TRUE
  CorruptFrames = TRUE
SPECIFICATION FairSpec
INVARIANTS TypeOK ReadJobShape
PROPERTIES FlagsLeftAlone NoRepeatOnBaseline ReadJobEnds
