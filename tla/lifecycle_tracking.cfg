\* Writes fail cleanly: what the driver says of its configuration is exact.
CONSTANTS
  Thresholds = {t0, t1}
  MeasFields = {m0}
  IntFields = {i0}
  LocalFields = {v0}
  DefaultLow = t0
  DefaultHigh = t1
  DefaultMeas = m0
  DefaultInt = i0
  DefaultLocal = v0
  BusErrors = {"I2C_ERROR"}
  LocalErrors = {}
  MaxFailures = 2
  OfflineThresholds = {2}
  DefaultOfflineThreshold = 2
  FailedWriteMayLand = FALSE
  ExternalReset = FALSE
SPECIFICATION FairSpec
INVARIANTS CleanMeansApplied JobPrefixWritten
PROPERTIES JobOkMeansApplied InterruptedJobReported JobTerminates CacheIsHonest
