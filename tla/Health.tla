-------------------------------- MODULE Health --------------------------------
(***************************************************************************)
(* The health tracker behind every tracked I2C transfer of an initialized  *)
(* driver: the driver state and the run of consecutive failures, updated   *)
(* by _updateHealth, _recordFailure and _reassertOfflineLatch.             *)
(***************************************************************************)
EXTENDS Naturals

CONSTANTS
  BusErrors,     \* status codes of a failed transfer (I2C_ERROR, I2C_NACK_*, ...)
  LocalErrors,   \* INVALID_PARAM, INVALID_CONFIG: the adapter refused the call
  MaxFailures    \* where consecutiveFailures saturates (UINT8_MAX in the code)

DriverStates == {"UNINIT", "READY", "DEGRADED", "OFFLINE"}

\* Codes the driver makes itself; none of them is returned by a transfer.
DriverStatuses == {"OK", "IN_PROGRESS", "CANCELLED", "DEVICE_ID_MISMATCH"}

ASSUME StatusAssumption ==
  /\ BusErrors \cap LocalErrors = {}
  /\ DriverStatuses \cap (BusErrors \cup LocalErrors) = {}

ASSUME MaxFailuresAssumption == MaxFailures \in Nat \ {0}

TransferErrors == BusErrors \cup LocalErrors
Statuses == DriverStatuses \cup TransferErrors

HealthValues == [state : DriverStates, failures : 0 .. MaxFailures]

Uninitialized == [state |-> "UNINIT", failures |-> 0]
Healthy       == [state |-> "READY",  failures |-> 0]

\* consecutiveFailures saturates.  WrappingBump is the slip of a counter that does
\* not, for checking that HealthConsistent would notice; nothing uses it.
WrappingBump(n) == (n + 1) % (MaxFailures + 1)
Bump(n) == IF n < MaxFailures THEN n + 1 ELSE n

Failed(h, threshold) ==
  [state    |-> IF Bump(h.failures) >= threshold THEN "OFFLINE" ELSE "DEGRADED",
   failures |-> Bump(h.failures)]

\* Health after n successful tracked transfers and one that returned st.
AfterTransfers(h, n, st, threshold) ==
  LET before == IF n > 0 THEN Healthy ELSE h
  IN  IF st \in LocalErrors THEN before ELSE Failed(before, threshold)

\* _reassertOfflineLatch
Latched(h, threshold) ==
  [state    |-> "OFFLINE",
   failures |-> IF h.failures < threshold THEN threshold ELSE h.failures]
=============================================================================
