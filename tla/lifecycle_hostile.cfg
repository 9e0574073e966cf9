\* Failed writes may land and the device may be reset behind the driver.
CONSTANTS
  Thresholds = {t0}
  MeasFields = {m0}
  IntFields = {i0}
  LocalFields = {v0, v1}
  DefaultLow = t0
  DefaultHigh = t0
  DefaultMeas = m0
  DefaultInt = i0
  DefaultLocal = v0
  BusErrors = {"I2C_ERROR"}
  LocalErrors = {"INVALID_PARAM"}
  MaxFailures = 3
  OfflineThresholds = {0, 2}
  DefaultOfflineThreshold = 3
  FailedWriteMayLand = TRUE
  ExternalReset = TRUE
SPECIFICATION Spec
INVARIANTS TypeOK HealthConsistent BurstFramingSafe PollTargetCurrent
PROPERTIES RootCauseKept OfflineIsLatched
