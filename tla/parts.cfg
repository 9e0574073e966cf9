\* Burst reads: up to two conversions during a call, a counter that wraps at
\* three.  Clock: wraps at six within nine units of time, so that every limit is
\* crossed before, at and after the wrap.  Lines: up to seven keys for a buffer of
\* three.  Profiles: one address that no package accepts.  The self-check ends.
\* Conversions: every input once.  The threshold format is a small one: 4-bit results,
\* exponents 0 to 3, quanta of 4 to 32 ADC codes, so that all of the 489 codes it
\* accepts can be enumerated.
CONSTANTS
  Slots = 4
  CounterModulo = 3
  MaxNewest = 9
  MaxShifts = 2
  CorruptFrames = TRUE
  Addresses = {68, 69, 112}
  Packages = {"SOT_5X3", "PICOSTAR"}
  PicoStar = "PICOSTAR"
  Allowed <- SomeAllowed
  Default <- SomeDefault
  ClockModulo = 6
  Budget = 2
  ReleaseAfter = 4
  CallerTimeout = 3
  StallLimit = 3
  PassLimit = 2
  MaxTime = 9
  Letters = {"a"}
  Capacity = 4
  OutputCapacity = 3
  MaxTyped = 7
  Levels = {0, 5, 9}
  DefaultLow = 0
  DefaultHigh = 9
  ThresholdResultMax = 15
  ThresholdExponentMax = 3
  ThresholdShiftBase = 2
  ThresholdGuardCodes = 8
SPECIFICATION PartsSpec
INVARIANTS
  PartsTypeOK TransportAgrees GateKeepsTime SampleNotRejuvenated SettingsComeBack
  CodecRoundTrip DisturbanceNoticed NearestThreshold BlockAcceptsExactly
  TimeoutCoversGates TransferVerdict
PROPERTIES
  ReadsOneWindow ChangesAtomically TimeoutIsDue BlockingEnds DeliversTheLine
CHECK_DEADLOCK FALSE
