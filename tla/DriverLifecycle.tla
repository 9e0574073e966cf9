--------------------------- MODULE DriverLifecycle ---------------------------
(***************************************************************************)
(* The driver's lifecycle, health latch and configuration bookkeeping: the *)
(* cached configuration, the four device registers it is meant to mirror,  *)
(* the flag that admits they may differ, the burst framing the driver      *)
(* believes the device uses, and the three poll-chunked jobs that write    *)
(* registers one transfer per poll().                                      *)
(*                                                                         *)
(* A synchronous call is one action: the driver is not re-entrant and its  *)
(* callers serialize access, so nothing runs between the transfers of one  *)
(* call.  The result of a call of several transfers is given by how many   *)
(* succeeded before the first that failed.  A poll job is one action per   *)
(* transfer, because any other call may run between two polls.             *)
(*                                                                         *)
(* Sample readiness, one-shot ownership and the two read jobs are not here *)
(* (they never write these registers); to this module their transfers are  *)
(* TrackedTransfer.  A read of several registers, one transfer each, is    *)
(* several of those in a row.                                              *)
(*                                                                         *)
(* LatestCause, KeepBurst, DirtyAfterSecond, ForgottenReset,               *)
(* RebindUnnormalized, ReopenedLatch, ThresholdsNotRestored,               *)
(* SetLocalUnguarded, SkippingStep and PollWriteRetries are plausible      *)
(* slips of the definition that follows each; no action uses them.  They   *)
(* show that the properties would notice.                                  *)
(***************************************************************************)
EXTENDS Registers, Health

CONSTANTS
  OfflineThresholds,        \* values callers pass; 0 is normalized to 1
  DefaultOfflineThreshold,  \* Config{}.offlineThreshold
  FailedWriteMayLand,       \* a write that reports a bus error may have landed
  ExternalReset             \* brownout, or another master's general-call reset

ASSUME ThresholdAssumption ==
  /\ OfflineThresholds \subseteq 0 .. MaxFailures
  /\ DefaultOfflineThreshold \in 1 .. MaxFailures

ASSUME EnvironmentAssumption ==
  /\ FailedWriteMayLand \in BOOLEAN
  /\ ExternalReset \in BOOLEAN

VARIABLES
  bound,            \* _bound
  initialized,      \* _initialized
  config,           \* _config, the fields of Registers!Configs
  offlineThreshold, \* _config.offlineThreshold
  health,           \* _driverState and _consecutiveFailures
  hwBurstEnabled,   \* _hwBurstEnabled
  dirty,            \* _hardwareConfigDirty and _hardwareConfigDirtyError
  job,              \* _pollJob, _pollStep and the job's private state
  lastPollStatus,   \* _lastPollStatus
  regs              \* the device's registers

vars == <<bound, initialized, config, offlineThreshold, health,
          hwBurstEnabled, dirty, job, lastPollStatus, regs>>

binding == <<bound, config, offlineThreshold>>
polling == <<job, lastPollStatus>>

WriteSteps == {"WRITE_THRESHOLD_L", "WRITE_THRESHOLD_H",
               "WRITE_INT_CONFIG", "WRITE_CONFIG"}
JobKinds == {"NONE", "ATTACH", "CONFIGURE_MEASUREMENT", "RESET_AND_REAPPLY"}
JobSteps == {"IDLE", "READ_DEVICE_ID", "WRITE_RESET"} \cup WriteSteps

Jobs == [kind : JobKinds, step : JobSteps, target : Configs,
         writesApplied : 0 .. 4, resetApplied : BOOLEAN]

\* The target of an idle job is dead: every start overwrites it.
IdleJob == [kind |-> "NONE", step |-> "IDLE", target |-> DefaultConfig,
            writesApplied |-> 0, resetApplied |-> FALSE]

StartedJob(kind, step, target) ==
  [kind |-> kind, step |-> step, target |-> target,
   writesApplied |-> 0, resetApplied |-> FALSE]

DirtyRecords == [set : BOOLEAN, error : Statuses]
Clean        == [set |-> FALSE, error |-> "OK"]

PollStatuses == {"OK", "IN_PROGRESS", "ERROR"}   \* every error code as one

TypeOK ==
  /\ bound \in BOOLEAN
  /\ initialized \in BOOLEAN
  /\ config \in Configs
  /\ offlineThreshold \in 1 .. MaxFailures
  /\ health \in HealthValues
  /\ hwBurstEnabled \in BOOLEAN
  /\ dirty \in DirtyRecords
  /\ job \in Jobs
  /\ lastPollStatus \in PollStatuses
  /\ regs \in RegisterFiles

\* A constructed driver.  The host may have restarted under a device that kept
\* its power, so the registers hold anything.
Init ==
  /\ bound = FALSE
  /\ initialized = FALSE
  /\ config = DefaultConfig
  /\ offlineThreshold = DefaultOfflineThreshold
  /\ health = Uninitialized
  /\ hwBurstEnabled = FALSE
  /\ dirty = Clean
  /\ job = IdleJob
  /\ lastPollStatus = "OK"
  /\ regs \in RegisterFiles

-----------------------------------------------------------------------------
(* Shared pieces of the handlers. *)

\* The gate of the tracked transport wrappers, for every call that is allowed
\* neither through the OFFLINE latch nor next to a poll job.
Online == initialized /\ health.state # "OFFLINE" /\ job.kind = "NONE"

\* The same gate under ScopedOfflineI2cAllowance.
Reachable == initialized /\ job.kind = "NONE"

\* _markHardwareConfigDirty: the first cause is the one that is kept.
LatestCause(d, st) == [set |-> TRUE, error |-> st]
MarkDirty(d, st) == IF d.set THEN d ELSE [set |-> TRUE, error |-> st]

\* The registers after a write that failed with st.
AfterFailedWrite(before, after, st) ==
  IF FailedWriteMayLand /\ st \in BusErrors THEN {before, after} ELSE {before}

\* What the driver believes of the framing after _applyConfig of c failed on
\* its write number k + 1: the third write is INT_CONFIGURATION.
KeepBurst(c, k, b) == IF k < 3 THEN b ELSE c.burst
BurstAfterFailure(c, k, b) == IF k < 2 THEN b ELSE k # 2 /\ c.burst

\* _applyConfig marks the configuration dirty once a write has succeeded.
DirtyAfterSecond(d, k, st) == IF k > 1 THEN MarkDirty(d, st) ELSE d
DirtyAfterFailure(d, k, st) == IF k > 0 THEN MarkDirty(d, st) ELSE d

\* _applyConfig of c over registers r fails on write number k + 1 with st; b is
\* hwBurstEnabled and d the dirty record before it.
ApplyFails(r, c, b, d, k, st) ==
  /\ regs' \in AfterFailedWrite(Written(r, c, k), Written(r, c, k + 1), st)
  /\ hwBurstEnabled' = BurstAfterFailure(c, k, b)
  /\ dirty' = DirtyAfterFailure(d, k, st)

ApplySucceeds(c) ==
  /\ regs' = Image(c)
  /\ hwBurstEnabled' = c.burst
  /\ dirty' = Clean

FinishJob(st) ==
  /\ job' = IdleJob
  /\ lastPollStatus' = IF st = "OK" THEN "OK" ELSE "ERROR"

StartJob(kind, step, target) ==
  /\ job' = StartedJob(kind, step, target)
  /\ lastPollStatus' = "IN_PROGRESS"

\* The job has changed, or may have changed, device registers.
Touched(j) == j.writesApplied > 0 \/ j.resetApplied
WroteConfig(j) == j.writesApplied > 0

\* cancelPollJob's verdict on the configuration.
ForgottenReset(d, j) == IF WroteConfig(j) THEN MarkDirty(d, "CANCELLED") ELSE d
DirtyAfterCancel(d, j) == IF Touched(j) THEN MarkDirty(d, "CANCELLED") ELSE d

\* cancelPollJob takes the driver down: the device is not configured.
CancelUninitializes(j) ==
  j.kind = "ATTACH" \/ (j.kind = "RESET_AND_REAPPLY" /\ j.resetApplied)

-----------------------------------------------------------------------------
(* Binding and lifecycle. *)

RebindUnnormalized(c, t) ==
  /\ bound' = TRUE
  /\ config' = c
  /\ offlineThreshold' = t
  /\ FinishJob("OK")
Rebind(c, t) ==
  /\ bound' = TRUE
  /\ config' = c
  /\ offlineThreshold' = IF t = 0 THEN 1 ELSE t
  /\ FinishJob("OK")

\* Without I2C, so it cannot settle what it does not know of the hardware.
Bind ==
  \E c \in Configs, t \in OfflineThresholds :
    /\ Rebind(c, t)
    /\ initialized' = FALSE
    /\ health' = Uninitialized
    /\ hwBurstEnabled' = FALSE
    /\ dirty' = DirtyAfterCancel(dirty, job)
    /\ UNCHANGED regs

\* A configuration that fails validation leaves the defaults, unbound.
BindInvalid ==
  /\ bound' = FALSE
  /\ config' = DefaultConfig
  /\ offlineThreshold' = DefaultOfflineThreshold
  /\ FinishJob("OK")
  /\ initialized' = FALSE
  /\ health' = Uninitialized
  /\ hwBurstEnabled' = FALSE
  /\ dirty' = DirtyAfterCancel(dirty, job)
  /\ UNCHANGED regs

Unbind ==
  /\ bound' = FALSE
  /\ config' = DefaultConfig
  /\ offlineThreshold' = DefaultOfflineThreshold
  /\ FinishJob("OK")
  /\ initialized' = FALSE
  /\ health' = Uninitialized
  /\ hwBurstEnabled' = FALSE
  /\ dirty' = Clean
  /\ UNCHANGED regs

\* bind, probe, _applyConfig.  A failed probe ends where Bind does; the
\* transfers of an uninitialized driver leave health alone.
BeginFails ==
  \E c \in Configs, t \in OfflineThresholds, k \in 0 .. 3, st \in TransferErrors :
    /\ Rebind(c, t)
    /\ initialized' = FALSE
    /\ health' = Uninitialized
    /\ ApplyFails(regs, c, FALSE, DirtyAfterCancel(dirty, job), k, st)

BeginSucceeds ==
  \E c \in Configs, t \in OfflineThresholds :
    /\ Rebind(c, t)
    /\ initialized' = TRUE
    /\ health' = Healthy
    /\ ApplySucceeds(c)

\* end(): cancels the job, then one power-down write whose status is ignored,
\* if the driver is still initialized and online.
End ==
  /\ IF initialized /\ ~CancelUninitializes(job) /\ health.state # "OFFLINE"
       THEN \E st \in TransferErrors \cup {"OK"} :
              LET off == PutCfg(regs, config.meas, "POWER_DOWN")
              IN  regs' \in IF st = "OK" THEN {off}
                                         ELSE AfterFailedWrite(regs, off, st)
       ELSE UNCHANGED regs
  /\ initialized' = FALSE
  /\ health' = [health EXCEPT !.state = "UNINIT"]
  /\ dirty' = DirtyAfterCancel(dirty, job)
  /\ FinishJob("OK")
  /\ UNCHANGED <<binding, hwBurstEnabled>>

PowerDown ==
  /\ Online
  /\ LET off == PutCfg(regs, config.meas, "POWER_DOWN")
     IN  \/ /\ regs' = off
            /\ health' = Healthy
            /\ config' = [config EXCEPT !.mode = "POWER_DOWN"]
         \/ \E st \in TransferErrors :
              /\ regs' \in AfterFailedWrite(regs, off, st)
              /\ health' = AfterTransfers(health, 0, st, offlineThreshold)
              /\ UNCHANGED config
  /\ UNCHANGED <<bound, offlineThreshold, initialized, hwBurstEnabled, dirty, polling>>

-----------------------------------------------------------------------------
(* Recovery and reset: the calls that reach the bus through the OFFLINE latch. *)

\* A recovery that started OFFLINE and failed leaves the latch closed.
ReopenedLatch(h) == h
FailedRecovery(h) == IF health.state = "OFFLINE" THEN Latched(h, offlineThreshold) ELSE h

Recover ==
  /\ Reachable
  /\ \/ \E st \in TransferErrors :                  \* DEVICE_ID read fails
          /\ health' = FailedRecovery(AfterTransfers(health, 0, st, offlineThreshold))
          /\ UNCHANGED <<regs, hwBurstEnabled, dirty>>
     \/ /\ health' = FailedRecovery(Failed(Healthy, offlineThreshold)) \* wrong ID
        /\ UNCHANGED <<regs, hwBurstEnabled, dirty>>
     \/ \E k \in 0 .. 3, st \in TransferErrors :
          /\ health' = FailedRecovery(AfterTransfers(health, 1 + k, st, offlineThreshold))
          /\ ApplyFails(regs, config, hwBurstEnabled, dirty, k, st)
     \/ /\ health' = Healthy
        /\ ApplySucceeds(config)
  /\ UNCHANGED <<binding, initialized, polling>>

\* A general-call reset that failed; the framing is in doubt whatever st says.
GeneralCallFails(st) ==
  /\ regs' \in AfterFailedWrite(regs, ResetRegisters, st)
  /\ hwBurstEnabled' = FALSE
  /\ health' = AfterTransfers(health, 0, st, offlineThreshold)

SoftReset ==
  /\ Reachable
  /\ \/ /\ \E st \in TransferErrors : GeneralCallFails(st)
        /\ UNCHANGED initialized
     \/ /\ regs' = ResetRegisters
        /\ hwBurstEnabled' = FALSE
        /\ health' = Uninitialized
        /\ initialized' = FALSE
  /\ UNCHANGED <<binding, dirty, polling>>

ResetAndReapply ==
  /\ Reachable
  /\ \/ /\ \E st \in TransferErrors : GeneralCallFails(st)
        /\ UNCHANGED <<initialized, dirty>>
     \/ \E k \in 0 .. 3, st \in TransferErrors :
          /\ ApplyFails(ResetRegisters, config, FALSE, MarkDirty(dirty, st), k, st)
          /\ initialized' = FALSE
          /\ health' = [AfterTransfers(health, 1 + k, st, offlineThreshold)
                          EXCEPT !.state = "UNINIT"]
     \/ /\ ApplySucceeds(config)
        /\ health' = Healthy
        /\ UNCHANGED initialized
  /\ UNCHANGED <<binding, polling>>

-----------------------------------------------------------------------------
(* Typed configuration. *)

\* What one typed setter can ask for: c in everything but the setter's fields.
SettingTargets(c) ==
  {d \in Configs : \/ d = [c EXCEPT !.meas = d.meas, !.mode = d.mode]
                   \/ d = [c EXCEPT !.int = d.int]
                   \/ d = [c EXCEPT !.burst = d.burst]
                   \/ d = [c EXCEPT !.low = d.low, !.high = d.high, !.int = d.int]}

\* The setters that call _applyConfig and restore the old cache if it fails.
ApplySetting ==
  /\ Online
  /\ \E c \in SettingTargets(config) :
       \/ /\ ApplySucceeds(c)
          /\ health' = Healthy
          /\ config' = c
       \/ \E k \in 0 .. 3, st \in TransferErrors :
            /\ ApplyFails(regs, c, hwBurstEnabled, dirty, k, st)
            /\ health' = AfterTransfers(health, k, st, offlineThreshold)
            /\ UNCHANGED config
  /\ UNCHANGED <<bound, offlineThreshold, initialized, polling>>

ThresholdsNotRestored ==
  /\ Online
  /\ \E l, h \in Thresholds :
       LET lowOnly == PutLow(regs, l)
           both    == PutHigh(lowOnly, h)
           shown   == [config EXCEPT !.low = l, !.high = h]
       IN  \/ regs' = both /\ config' = shown /\ health' = Healthy /\ UNCHANGED dirty
           \/ \E st \in TransferErrors :
                /\ regs' \in AfterFailedWrite(regs, lowOnly, st)
                /\ health' = AfterTransfers(health, 0, st, offlineThreshold)
                /\ UNCHANGED <<config, dirty>>
           \/ \E st \in TransferErrors :
                /\ regs' \in AfterFailedWrite(lowOnly, both, st) /\ config' = shown
                /\ health' = AfterTransfers(health, 1, st, offlineThreshold)
                /\ dirty' = MarkDirty(dirty, st)
  /\ UNCHANGED <<bound, offlineThreshold, initialized, hwBurstEnabled, polling>>
SetThresholds ==
  /\ Online
  /\ \E l, h \in Thresholds :
       LET lowOnly == PutLow(regs, l)
           both    == PutHigh(lowOnly, h)
       IN  \/ /\ regs' = both
              /\ config' = [config EXCEPT !.low = l, !.high = h]
              /\ health' = Healthy
              /\ UNCHANGED dirty
           \/ \E st \in TransferErrors :
                /\ regs' \in AfterFailedWrite(regs, lowOnly, st)
                /\ health' = AfterTransfers(health, 0, st, offlineThreshold)
                /\ UNCHANGED <<config, dirty>>
           \/ \E st \in TransferErrors :
                /\ regs' \in AfterFailedWrite(lowOnly, both, st)
                /\ health' = AfterTransfers(health, 1, st, offlineThreshold)
                /\ dirty' = MarkDirty(dirty, st)
                /\ UNCHANGED config
  /\ UNCHANGED <<bound, offlineThreshold, initialized, hwBurstEnabled, polling>>

\* Reads both threshold registers into the cache, or neither.
GetThresholds ==
  /\ Online
  /\ \/ /\ config' = [config EXCEPT !.low = regs.low, !.high = regs.high]
        /\ health' = Healthy
     \/ \E n \in 0 .. 1, st \in TransferErrors :
          /\ health' = AfterTransfers(health, n, st, offlineThreshold)
          /\ UNCHANGED config
  /\ UNCHANGED <<bound, offlineThreshold, initialized, hwBurstEnabled, dirty,
                 polling, regs>>

WriteConfiguration ==
  /\ Online
  /\ \E m \in MeasFields, o \in Modes :
       LET after == PutCfg(regs, m, o)
       IN  \/ /\ regs' = after
              /\ health' = Healthy
              /\ config' = [config EXCEPT !.meas = m,
                              !.mode = IF o = "ONE_SHOT" THEN "POWER_DOWN" ELSE o]
           \/ \E st \in TransferErrors :
                /\ regs' \in AfterFailedWrite(regs, after, st)
                /\ health' = AfterTransfers(health, 0, st, offlineThreshold)
                /\ UNCHANGED config
  /\ UNCHANGED <<bound, offlineThreshold, initialized, hwBurstEnabled, dirty, polling>>

WriteIntConfiguration ==
  /\ Online
  /\ \E i \in IntFields, b \in BOOLEAN :
       LET after == PutInt(regs, i, b)
       IN  \/ /\ regs' = after
              /\ health' = Healthy
              /\ hwBurstEnabled' = b
              /\ config' = [config EXCEPT !.int = i, !.burst = b]
           \/ \E st \in TransferErrors :
                /\ regs' \in AfterFailedWrite(regs, after, st)
                /\ health' = AfterTransfers(health, 0, st, offlineThreshold)
                /\ hwBurstEnabled' = FALSE
                /\ UNCHANGED config
  /\ UNCHANGED <<bound, offlineThreshold, initialized, dirty, polling>>

\* setVerifyCrc, setPackageVariant: the cache only, at any point of the lifecycle.
SetLocalUnguarded ==
  /\ config' \in {[config EXCEPT !.local = v] : v \in LocalFields}
  /\ UNCHANGED <<bound, initialized, offlineThreshold, health, hwBurstEnabled,
                 dirty, polling, regs>>
SetLocal ==
  /\ job.kind = "NONE"
  /\ config' \in {[config EXCEPT !.local = v] : v \in LocalFields}
  /\ UNCHANGED <<bound, initialized, offlineThreshold, health, hwBurstEnabled,
                 dirty, polling, regs>>

-----------------------------------------------------------------------------
(* Raw registers, conversions and every other transfer. *)

\* writeRegister16 to one of the four configuration registers; okBurst and
\* failBurst are hwBurstEnabled after a success and after a failure.  A raw
\* success dirties with error OK, and INVALID_PARAM counts as nothing written.
RawWrite(after, okBurst, failBurst) ==
  \/ /\ regs' = after
     /\ health' = Healthy
     /\ hwBurstEnabled' = okBurst
     /\ dirty' = MarkDirty(dirty, "OK")
  \/ \E st \in TransferErrors :
       /\ regs' \in AfterFailedWrite(regs, after, st)
       /\ health' = AfterTransfers(health, 0, st, offlineThreshold)
       /\ hwBurstEnabled' = failBurst
       /\ dirty' = IF st = "INVALID_PARAM" THEN dirty ELSE MarkDirty(dirty, st)

RawTargets(r) ==
  {PutLow(r, l) : l \in Thresholds} \cup {PutHigh(r, h) : h \in Thresholds}
    \cup {PutCfg(r, m, o) : m \in MeasFields, o \in Modes}

WriteRegister16 ==
  /\ Online
  /\ \/ \E after \in RawTargets(regs) :
          RawWrite(after, hwBurstEnabled, hwBurstEnabled)
     \/ \E i \in IntFields, b \in BOOLEAN : RawWrite(PutInt(regs, i, b), b, FALSE)
  /\ UNCHANGED <<binding, initialized, polling>>

\* startConversion's write; whether a conversion is already owned is not here.
StartConversion ==
  /\ Online
  /\ config.mode # "CONTINUOUS"
  /\ LET after == PutCfg(regs, config.meas, "ONE_SHOT")
     IN  \/ /\ regs' = after
            /\ health' = Healthy
         \/ \E st \in TransferErrors :
              /\ regs' \in AfterFailedWrite(regs, after, st)
              /\ health' = AfterTransfers(health, 0, st, offlineThreshold)
  /\ UNCHANGED <<binding, initialized, hwBurstEnabled, dirty, polling>>

\* A read that includes INT_CONFIGURATION refreshes the framing.
ReadIntConfiguration ==
  /\ Online
  /\ \/ /\ hwBurstEnabled' = regs.burst
        /\ health' = Healthy
     \/ \E st \in TransferErrors :
          /\ health' = AfterTransfers(health, 0, st, offlineThreshold)
          /\ UNCHANGED hwBurstEnabled
  /\ UNCHANGED <<binding, initialized, dirty, polling, regs>>

\* Any other tracked transfer: identity, flags, results, FIFO, readiness polls.
TrackedTransfer ==
  /\ Online
  /\ \/ health' = Healthy
     \/ \E st \in TransferErrors :
          health' = AfterTransfers(health, 0, st, offlineThreshold)
  /\ UNCHANGED <<binding, initialized, hwBurstEnabled, dirty, polling, regs>>

-----------------------------------------------------------------------------
(* Poll-chunked jobs. *)

StartAttach ==
  /\ bound /\ ~initialized /\ job.kind = "NONE"
  /\ StartJob("ATTACH", "READ_DEVICE_ID", config)
  /\ UNCHANGED <<binding, initialized, health, hwBurstEnabled, dirty, regs>>

StartConfigureMeasurement ==
  /\ Online
  /\ \E m \in MeasFields, o \in StableModes :
       StartJob("CONFIGURE_MEASUREMENT", "WRITE_THRESHOLD_L",
                [config EXCEPT !.meas = m, !.mode = o])
  /\ UNCHANGED <<binding, initialized, health, hwBurstEnabled, dirty, regs>>

StartResetAndReapply ==
  /\ Reachable
  /\ StartJob("RESET_AND_REAPPLY", "WRITE_RESET", config)
  /\ UNCHANGED <<binding, initialized, health, hwBurstEnabled, dirty, regs>>

CancelPollJob ==
  /\ job.kind # "NONE"
  /\ dirty' = DirtyAfterCancel(dirty, job)
  /\ IF CancelUninitializes(job)
       THEN /\ initialized' = FALSE
            /\ health' = [health EXCEPT !.state = "UNINIT"]
       ELSE UNCHANGED <<initialized, health>>
  /\ FinishJob("CANCELLED")
  /\ UNCHANGED <<binding, hwBurstEnabled, regs>>

\* An attach job first reads the identity over the raw transport.
PollReadDeviceId ==
  /\ job.step = "READ_DEVICE_ID"
  /\ \/ /\ job' = [job EXCEPT !.step = "WRITE_THRESHOLD_L"]
        /\ UNCHANGED lastPollStatus
     \/ \E st \in TransferErrors \cup {"DEVICE_ID_MISMATCH"} : FinishJob(st)
  /\ UNCHANGED <<binding, initialized, health, hwBurstEnabled, dirty, regs>>

PollWriteReset ==
  /\ job.step = "WRITE_RESET"
  /\ \/ /\ regs' = ResetRegisters
        /\ hwBurstEnabled' = FALSE
        /\ health' = Healthy
        /\ job' = [job EXCEPT !.step = "WRITE_THRESHOLD_L", !.resetApplied = TRUE]
        /\ UNCHANGED lastPollStatus
     \/ \E st \in TransferErrors : GeneralCallFails(st) /\ FinishJob(st)
  /\ UNCHANGED <<binding, initialized, dirty>>

SkippingStep(step) ==
  CASE step = "WRITE_THRESHOLD_L" -> "WRITE_INT_CONFIG"
    [] step = "WRITE_THRESHOLD_H" -> "WRITE_INT_CONFIG"
    [] step = "WRITE_INT_CONFIG"  -> "WRITE_CONFIG"
NextStep(step) ==
  CASE step = "WRITE_THRESHOLD_L" -> "WRITE_THRESHOLD_H"
    [] step = "WRITE_THRESHOLD_H" -> "WRITE_INT_CONFIG"
    [] step = "WRITE_INT_CONFIG"  -> "WRITE_CONFIG"

\* The register write of a step.
StepWrite(r, c, step) ==
  CASE step = "WRITE_THRESHOLD_L" -> PutLow(r, c.low)
    [] step = "WRITE_THRESHOLD_H" -> PutHigh(r, c.high)
    [] step = "WRITE_INT_CONFIG"  -> PutInt(r, c.int, c.burst)
    [] step = "WRITE_CONFIG"      -> PutCfg(r, c.meas, c.mode)

\* A write of the job succeeds and more are to come.
PollWriteContinues ==
  /\ job.step \in WriteSteps \ {"WRITE_CONFIG"}
  /\ regs' = StepWrite(regs, job.target, job.step)
  /\ hwBurstEnabled' = IF job.step = "WRITE_INT_CONFIG" THEN job.target.burst
                                                        ELSE hwBurstEnabled
  /\ health' = IF initialized THEN Healthy ELSE health
  /\ job' = [job EXCEPT !.step = NextStep(job.step), !.writesApplied = @ + 1]
  /\ UNCHANGED <<binding, initialized, dirty, lastPollStatus>>

\* The last write succeeds: the target becomes the cached configuration.
PollWriteCompletes ==
  /\ job.step = "WRITE_CONFIG"
  /\ regs' = StepWrite(regs, job.target, job.step)
  /\ config' = job.target
  /\ initialized' = TRUE
  /\ health' = Healthy
  /\ dirty' = Clean
  /\ FinishJob("OK")
  /\ UNCHANGED <<bound, offlineThreshold, hwBurstEnabled>>

\* A write fails: so does the job, and a reset job takes the driver down.
DirtyAfterJobFailure(d, j, st) == IF Touched(j) THEN MarkDirty(d, st) ELSE d

PollWriteRetries ==
  /\ job.step \in WriteSteps
  /\ job' = StartedJob(job.kind, "WRITE_THRESHOLD_L", job.target)
  /\ UNCHANGED <<binding, initialized, health, hwBurstEnabled, dirty,
                 lastPollStatus, regs>>
PollWriteFails ==
  /\ job.step \in WriteSteps
  /\ \E st \in TransferErrors :
       /\ regs' \in AfterFailedWrite(regs, StepWrite(regs, job.target, job.step), st)
       /\ dirty' = DirtyAfterJobFailure(dirty, job, st)
       /\ health' =
            LET after == AfterTransfers(health, 0, st, offlineThreshold)
            IN  CASE job.kind = "ATTACH" -> health
                  [] job.kind = "CONFIGURE_MEASUREMENT" -> after
                  [] job.kind = "RESET_AND_REAPPLY" -> [after EXCEPT !.state = "UNINIT"]
       /\ FinishJob(st)
  /\ hwBurstEnabled' = (hwBurstEnabled /\ job.step # "WRITE_INT_CONFIG")
  /\ initialized' = (initialized /\ job.kind # "RESET_AND_REAPPLY")
  /\ UNCHANGED binding

PollStep == PollReadDeviceId \/ PollWriteReset \/ PollWriteContinues
              \/ PollWriteCompletes \/ PollWriteFails

-----------------------------------------------------------------------------
(* The device, on its own. *)

\* OPERATING_MODE returns to power-down when a one-shot conversion is done.
OneShotCompletes ==
  /\ regs.mode = "ONE_SHOT"
  /\ regs' = [regs EXCEPT !.mode = "POWER_DOWN"]
  /\ UNCHANGED <<binding, initialized, health, hwBurstEnabled, dirty, polling>>

ResetFromOutside ==
  /\ ExternalReset
  /\ regs' = ResetRegisters
  /\ UNCHANGED <<binding, initialized, health, hwBurstEnabled, dirty, polling>>

-----------------------------------------------------------------------------
Lifecycle == Bind \/ BindInvalid \/ Unbind \/ BeginFails \/ BeginSucceeds \/ End
               \/ PowerDown
Recovery == Recover \/ SoftReset \/ ResetAndReapply
Settings == ApplySetting \/ SetThresholds \/ GetThresholds \/ WriteConfiguration
              \/ WriteIntConfiguration \/ SetLocal
Transfers == WriteRegister16 \/ StartConversion \/ ReadIntConfiguration \/ TrackedTransfer
Jobbing == StartAttach \/ StartConfigureMeasurement \/ StartResetAndReapply
             \/ CancelPollJob \/ PollStep
Device == OneShotCompletes \/ ResetFromOutside

Next == Lifecycle \/ Recovery \/ Settings \/ Transfers \/ Jobbing \/ Device

Spec == Init /\ [][Next]_vars

\* The owner of an active job keeps calling poll() with a non-zero budget.
FairSpec == Spec /\ WF_vars(PollStep)
-----------------------------------------------------------------------------
(* Properties. *)

Synced == Holds(regs, config)

\* The lifecycle flag, the driver state and the failure run tell one story: UNINIT
\* exactly when not initialized, READY only with no failure outstanding, DEGRADED
\* strictly below the threshold, OFFLINE at or above it, also once the counter has
\* saturated and whatever threshold the last bind() brought (_updateHealth,
\* _recordFailure, _reassertOfflineLatch and every handler that sets the state).
HealthConsistent ==
  /\ initialized <=> health.state # "UNINIT"
  /\ health.state = "READY" => health.failures = 0
  /\ health.state = "DEGRADED" => health.failures \in 1 .. offlineThreshold - 1
  /\ health.state = "OFFLINE" => health.failures >= offlineThreshold

\* The driver never frames a transfer as a burst that the device would not
\* auto-increment through: hwBurstEnabled implies the device's I2C_BURST bit, even
\* when a failed write landed or the device was reset behind the driver's back
\* (_writeRegister16Tracked, _i2cWriteTrackedAddr, _readRegister16Tracked).
BurstFramingSafe == hwBurstEnabled => regs.burst

\* With writes that fail cleanly and nobody else resetting the device, an
\* initialized driver that does not report a dirty configuration has exactly its
\* cached configuration in the device, except while a reset job re-applies it.
CleanMeansApplied ==
  initialized /\ ~dirty.set /\ ~job.resetApplied => Synced

\* The configuration a job carries from its start to its last write is still the
\* cached one in every field the job is not there to change: nothing that ran
\* between two polls can be undone by adopting it.
PollTargetCurrent ==
  job.kind # "NONE" =>
    /\ [job.target EXCEPT !.meas = config.meas, !.mode = config.mode] = config
    /\ job.kind # "CONFIGURE_MEASUREMENT" => job.target = config

\* The job's kind, step and counters fit together and fit the lifecycle: attach
\* runs on an uninitialized driver and the other two on an initialized one, a
\* reset job writes registers only after its reset, the write counter is the
\* position of the step, and no configure job is left running OFFLINE
\* (startAttach, startConfigureMeasurement, startResetAndReapply, poll,
\* cancelPollJob, _finishPollJob and every call that may run in between).
JobShape ==
  /\ job.kind = "NONE" => job = IdleJob
  /\ job.kind = "ATTACH" =>
       /\ bound /\ ~initialized /\ ~job.resetApplied
       /\ job.step \in WriteSteps \cup {"READ_DEVICE_ID"}
  /\ job.kind = "CONFIGURE_MEASUREMENT" =>
       /\ initialized /\ ~job.resetApplied
       /\ job.step \in WriteSteps
       /\ health.state # "OFFLINE"
  /\ job.kind = "RESET_AND_REAPPLY" =>
       /\ initialized
       /\ job.step \in WriteSteps \cup {"WRITE_RESET"}
       /\ job.resetApplied <=> job.step # "WRITE_RESET"
  /\ job.writesApplied = CASE job.step = "WRITE_THRESHOLD_H" -> 1
                           [] job.step = "WRITE_INT_CONFIG"  -> 2
                           [] job.step = "WRITE_CONFIG"      -> 3
                           [] OTHER -> 0

\* A job that has counted n writes has its target in the first n registers: no
\* call that may run between two polls of a job disturbs what it wrote.
JobPrefixWritten == regs = Written(regs, job.target, job.writesApplied)

\* The dirty flag is lowered only by a call that leaves the whole cached
\* configuration in the device, or by unbind(); never by a read, a partial
\* write, a cancellation, a reset or a bind.
DirtyClearedByFullApply ==
  [][dirty.set /\ ~dirty'.set => Synced' \/ Unbind]_vars

\* While the configuration stays dirty its recorded cause stays the first one.
RootCauseKept == [][dirty.set /\ dirty'.set => dirty' = dirty]_vars

\* OFFLINE is left only towards UNINIT, by a call that re-applied the whole
\* configuration, or by the general-call reset of a reset job.
OfflineIsLatched ==
  [][health.state = "OFFLINE" /\ health'.state # "OFFLINE" =>
       \/ health'.state = "UNINIT"
       \/ Synced' /\ ~dirty'.set
       \/ job.kind = "RESET_AND_REAPPLY" /\ job'.resetApplied]_vars

\* A job that reports OK has its target in the device and in the cache, and
\* leaves the driver READY and clean.
JobOkMeansApplied ==
  [][PollStep /\ lastPollStatus' = "OK" =>
       config' = job.target /\ Synced' /\ ~dirty'.set /\ health' = Healthy]_vars

\* A job that has touched the device and ends in any way but success is
\* reported: by a dirty configuration, unless unbind() drops the record.
InterruptedJobReported ==
  [][Touched(job) /\ job'.kind = "NONE" => Synced' \/ dirty'.set \/ Unbind]_vars

\* A multi-register update of a driver whose device held its configuration that
\* leaves the two different reports it: SettingsSnapshot::hardwareConfigDirty is
\* "true when a multi-register hardware update may have partially applied and
\* hardware may not match the cached configuration".
PartialUpdateReported ==
  [][(ApplySetting \/ SetThresholds) /\ Synced => Synced' \/ dirty'.set]_vars

\* Every write job ends, whatever fails, as long as its owner keeps polling.
JobTerminates == job.kind # "NONE" ~> job.kind = "NONE"

\* How far the cached configuration can be relied on.
Trust ==
  IF ~initialized THEN "DOWN"
  ELSE IF dirty.set \/ job.resetApplied THEN "DOUBTED" ELSE "TRUSTED"

Cache == INSTANCE HonestCache WITH trust <- Trust, cache <- config, device <- regs

\* With clean failures every call and every job step keeps the promise of
\* HonestCache: a setter that fails gives the old cache back, no call takes a value
\* into the cache that it has not just written or read, and a driver in doubt is
\* believed again only after the whole configuration has been applied.
CacheIsHonest == Cache!Spec
=============================================================================
