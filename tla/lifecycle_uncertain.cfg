\* A write that reports a bus error may have landed.
CONSTANTS
  Thresholds = {t0, t1}
  MeasFields = {m0}
  IntFields = {i0}
  LocalFields = {v0}
  DefaultLow = t0
  DefaultHigh = t1
  DefaultMeas = m0
  DefaultInt = i0
  DefaultLocal = v0
  BusErrors = {"I2C_ERROR"}
  LocalErrors = {}
  MaxFailures = 2
  OfflineThresholds = {2}
  DefaultOfflineThreshold = 2
  FailedWriteMayLand = TRUE
  ExternalReset = FALSE
SPECIFICATION Spec
PROPERTIES PartialUpdateReported
