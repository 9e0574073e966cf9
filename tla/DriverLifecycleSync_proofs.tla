---------------------- MODULE DriverLifecycleSync_proofs ----------------------
(***************************************************************************)
(* The theorems the configuration bookkeeping exists for: when failed      *)
(* writes leave the device alone and nobody else resets it, an initialized *)
(* driver that reports no dirty configuration has its configuration in the *)
(* device, the flag is lowered only then, and a job reports what it did.   *)
(* They rest on what a job carries between two polls being current and on  *)
(* what it wrote staying written.                                          *)
(***************************************************************************)
EXTENDS DriverLifecycle_proofs

\* The assumption under which the dirty flag is exact.
CleanFailures == ~FailedWriteMayLand /\ ~ExternalReset

SyncInv ==
  /\ IInv
  /\ PollTargetCurrent
  /\ CleanFailures => JobPrefixWritten /\ CleanMeansApplied

-----------------------------------------------------------------------------
(* The job's target. *)

\* A job that is not there has no target to be stale.
LEMMA IdleTarget ==
  ASSUME job' = IdleJob
  PROVE  PollTargetCurrent'
  BY DEF PollTargetCurrent, IdleJob

\* Every action keeps the target of a job current.
LEMMA TargetStep ==
  ASSUME IInv, PollTargetCurrent, Next
  PROVE  PollTargetCurrent'
<1> USE DEF IInv
<1>0. job \in Jobs /\ config \in Configs
  BY DEF TypeOK
<1>1. CASE \/ Bind \/ BindInvalid \/ Unbind \/ BeginFails \/ BeginSucceeds \/ End
           \/ CancelPollJob \/ PollWriteCompletes \/ PollWriteFails
  <2>1. job' = IdleJob
    BY <1>1 DEF Bind, BindInvalid, Unbind, BeginFails, BeginSucceeds, End, CancelPollJob,
                PollWriteCompletes, PollWriteFails, Rebind, FinishJob
  <2> QED BY <2>1, IdleTarget
<1>2. CASE PowerDown \/ Recovery \/ Settings \/ Transfers
  <2>1. job.kind = "NONE" /\ UNCHANGED job
    BY <1>2 DEF PowerDown, Recovery, Recover, SoftReset, ResetAndReapply, Settings,
                ApplySetting, SetThresholds, GetThresholds, WriteConfiguration,
                WriteIntConfiguration, SetLocal, Transfers, WriteRegister16,
                StartConversion, ReadIntConfiguration, TrackedTransfer, Online,
                Reachable, polling
  <2> QED BY <2>1 DEF PollTargetCurrent
<1>3. CASE StartAttach \/ StartResetAndReapply
  <2>1. job'.target = config /\ UNCHANGED config
    BY <1>3 DEF StartAttach, StartResetAndReapply, StartJob, StartedJob, binding
  <2>2. [config EXCEPT !.meas = config.meas, !.mode = config.mode] = config
    BY <1>0 DEF Configs
  <2> QED BY <2>1, <2>2 DEF PollTargetCurrent
<1>4. CASE StartConfigureMeasurement
  <2>1. PICK m \in MeasFields, o \in StableModes :
          StartJob("CONFIGURE_MEASUREMENT", "WRITE_THRESHOLD_L",
                   [config EXCEPT !.meas = m, !.mode = o])
    BY <1>4 DEF StartConfigureMeasurement
  <2>2. /\ job'.kind = "CONFIGURE_MEASUREMENT"
        /\ job'.target = [config EXCEPT !.meas = m, !.mode = o]
    BY <2>1 DEF StartJob, StartedJob
  <2>3. UNCHANGED config
    BY <1>4 DEF StartConfigureMeasurement, binding
  <2>4. [job'.target EXCEPT !.meas = config.meas, !.mode = config.mode] = config
    BY <1>0, <2>2 DEF Configs
  <2> QED BY <2>2, <2>3, <2>4 DEF PollTargetCurrent
<1>5. CASE PollReadDeviceId \/ PollWriteReset \/ PollWriteContinues
  <2>1. UNCHANGED config
    BY <1>5 DEF PollReadDeviceId, PollWriteReset, PollWriteContinues, binding
  <2>2. job' = IdleJob \/ (job'.kind = job.kind /\ job'.target = job.target)
    BY <1>0, <1>5 DEF PollReadDeviceId, PollWriteReset, PollWriteContinues, FinishJob, Jobs
  <2> QED BY <2>1, <2>2, IdleTarget DEF PollTargetCurrent
<1>6. CASE Device
  <2>1. UNCHANGED <<config, job>>
    BY <1>6 DEF Device, OneShotCompletes, ResetFromOutside, binding, polling
  <2> QED BY <2>1 DEF PollTargetCurrent
<1> QED BY <1>1, <1>2, <1>3, <1>4, <1>5, <1>6
        DEF Next, Lifecycle, Jobbing, PollStep

-----------------------------------------------------------------------------
(* The registers a job has written. *)

\* Nothing written: any registers will do.
LEMMA NothingWritten ==
  ASSUME NEW r \in RegisterFiles, NEW c
  PROVE  r = Written(r, c, 0)
  BY DEF Written, RegisterFiles

\* A job that has counted no write satisfies the prefix property.
LEMMA FreshPrefix ==
  ASSUME TypeOK', job'.writesApplied = 0
  PROVE  JobPrefixWritten'
<1>1. regs' \in RegisterFiles
  BY DEF TypeOK
<1>2. regs' = Written(regs', job'.target, 0)
  BY <1>1, NothingWritten
<1> QED BY <1>2 DEF JobPrefixWritten

\* Every action leaves what the job wrote in place.
LEMMA PrefixStep ==
  ASSUME IInv, JobPrefixWritten, ~ExternalReset, Next
  PROVE  JobPrefixWritten'
<1> USE DEF IInv
<1>0. job \in Jobs /\ regs \in RegisterFiles
  BY DEF TypeOK
<1>a. TypeOK'
  BY TypeStep
<1>1. CASE \/ Bind \/ BindInvalid \/ Unbind \/ BeginFails \/ BeginSucceeds \/ End
           \/ CancelPollJob \/ PollWriteCompletes \/ PollWriteFails
  <2>1. job' = IdleJob
    BY <1>1 DEF Bind, BindInvalid, Unbind, BeginFails, BeginSucceeds, End, CancelPollJob,
                PollWriteCompletes, PollWriteFails, Rebind, FinishJob
  <2> QED BY <1>a, <2>1, FreshPrefix DEF IdleJob
<1>2. CASE PowerDown \/ Recovery \/ Settings \/ Transfers
  <2>1. job.kind = "NONE" /\ UNCHANGED job
    BY <1>2 DEF PowerDown, Recovery, Recover, SoftReset, ResetAndReapply, Settings,
                ApplySetting, SetThresholds, GetThresholds, WriteConfiguration,
                WriteIntConfiguration, SetLocal, Transfers, WriteRegister16,
                StartConversion, ReadIntConfiguration, TrackedTransfer, Online,
                Reachable, polling
  <2> QED BY <1>a, <2>1, FreshPrefix DEF JobShape, IdleJob
<1>3. CASE StartAttach \/ StartConfigureMeasurement \/ StartResetAndReapply
  <2>1. job'.writesApplied = 0
    <3>1. \E kind, step, target : job' = StartedJob(kind, step, target)
      BY <1>3 DEF StartAttach, StartConfigureMeasurement, StartResetAndReapply, StartJob
    <3> QED BY <3>1 DEF StartedJob
  <2> QED BY <1>a, <2>1, FreshPrefix
<1>4. CASE PollReadDeviceId \/ PollWriteReset
  <2>1. job.writesApplied = 0
    BY <1>4 DEF PollReadDeviceId, PollWriteReset, JobShape
  <2>2. job'.writesApplied = 0
    <3>1. \/ job' = IdleJob
          \/ job' = [job EXCEPT !.step = "WRITE_THRESHOLD_L"]
          \/ job' = [job EXCEPT !.step = "WRITE_THRESHOLD_L", !.resetApplied = TRUE]
      BY <1>4 DEF PollReadDeviceId, PollWriteReset, FinishJob
    <3>2. IdleJob.writesApplied = 0
      BY DEF IdleJob
    <3> QED BY <1>0, <2>1, <3>1, <3>2 DEF Jobs
  <2> QED BY <1>a, <2>2, FreshPrefix
<1>5. CASE PollWriteContinues
  <2>1. /\ job'.target = job.target /\ job'.writesApplied = job.writesApplied + 1
        /\ regs' = StepWrite(regs, job.target, job.step)
        /\ job.step \in {"WRITE_THRESHOLD_L", "WRITE_THRESHOLD_H", "WRITE_INT_CONFIG"}
    BY <1>0, <1>5 DEF PollWriteContinues, Jobs, WriteSteps
  <2>2. regs = Written(regs, job.target, job.writesApplied)
    BY DEF JobPrefixWritten
  <2>3. CASE job.step = "WRITE_THRESHOLD_L"
    <3>1. job.writesApplied = 0 /\ regs' = PutLow(regs, job.target.low)
      BY <2>1, <2>3 DEF JobShape, StepWrite
    <3> QED BY <1>0, <2>1, <3>1 DEF PutLow, Written, RegisterFiles, JobPrefixWritten
  <2>4. CASE job.step = "WRITE_THRESHOLD_H"
    <3>1. job.writesApplied = 1 /\ regs' = PutHigh(regs, job.target.high)
      BY <2>1, <2>4 DEF JobShape, StepWrite
    <3>2. regs.low = job.target.low
      BY <2>2, <3>1 DEF Written
    <3> QED BY <1>0, <2>1, <3>1, <3>2 DEF PutHigh, Written, RegisterFiles, JobPrefixWritten
  <2>5. CASE job.step = "WRITE_INT_CONFIG"
    <3>1. job.writesApplied = 2 /\ regs' = PutInt(regs, job.target.int, job.target.burst)
      BY <2>1, <2>5 DEF JobShape, StepWrite
    <3>2. regs.low = job.target.low /\ regs.high = job.target.high
      BY <2>2, <3>1 DEF Written
    <3>3. /\ regs'.low = regs.low /\ regs'.high = regs.high
          /\ regs'.int = job.target.int /\ regs'.burst = job.target.burst
      BY <1>0, <3>1 DEF PutInt, RegisterFiles
    <3>4. regs' = Written(regs', job.target, 3)
      BY <1>a, <3>2, <3>3 DEF Written, TypeOK, RegisterFiles
    <3> QED BY <2>1, <3>1, <3>4 DEF JobPrefixWritten
  <2> QED BY <2>1, <2>3, <2>4, <2>5
<1>6. CASE Device
  <2>1. /\ UNCHANGED job /\ regs' = [regs EXCEPT !.mode = "POWER_DOWN"]
        /\ regs = Written(regs, job.target, job.writesApplied)
    BY <1>6 DEF Device, OneShotCompletes, ResetFromOutside, polling, JobPrefixWritten
  <2>2. job.writesApplied \in {0, 1, 2, 3}
    BY DEF JobShape
  <2> QED BY <1>0, <2>1, <2>2 DEF Written, RegisterFiles, JobPrefixWritten
<1> QED BY <1>1, <1>2, <1>3, <1>4, <1>5, <1>6
        DEF Next, Lifecycle, Jobbing, PollStep

-----------------------------------------------------------------------------
(* A clean driver's device holds its configuration. *)

\* The image of a configuration holds it.
LEMMA ImageHolds ==
  ASSUME NEW c \in Configs
  PROVE  Holds(Image(c), c)
  BY DEF Holds, Image

\* A write that failed cleanly did nothing.
LEMMA CleanWriteFailure ==
  ASSUME ~FailedWriteMayLand, NEW r, NEW s, NEW st
  PROVE  AfterFailedWrite(r, s, st) = {r}
  BY DEF AfterFailedWrite

\* A marked record is set.
LEMMA MarkSets ==
  ASSUME NEW d \in DirtyRecords, NEW st
  PROVE  MarkDirty(d, st).set
  BY DEF MarkDirty, DirtyRecords

\* An apply that failed cleanly did nothing, or is reported.
LEMMA ApplyFailsReported ==
  ASSUME ~FailedWriteMayLand, NEW r \in RegisterFiles, NEW c \in Configs, NEW b,
         NEW d \in DirtyRecords, NEW k \in 0 .. 3, NEW st \in TransferErrors,
         ApplyFails(r, c, b, d, k, st)
  PROVE  dirty'.set \/ (regs' = r /\ dirty' = d)
<1>1. CASE k = 0
  <2>1. regs' = Written(r, c, 0)
    BY <1>1, CleanWriteFailure DEF ApplyFails
  <2>2. regs' = r
    BY <2>1, NothingWritten
  <2> QED BY <1>1, <2>2 DEF ApplyFails, DirtyAfterFailure
<1>2. CASE k > 0
  BY <1>2, MarkSets DEF ApplyFails, DirtyAfterFailure
<1> QED BY <1>1, <1>2

\* A call that changes neither the device, nor the cache, nor the record, when no job
\* is under way that has reset the device, preserves the property.
LEMMA NothingHappened ==
  ASSUME CleanMeansApplied, initialized, ~job.resetApplied,
         UNCHANGED <<regs, config, dirty>>
  PROVE  CleanMeansApplied'
  BY DEF CleanMeansApplied, Synced

\* A reported step preserves it, a driver that is down preserves it, and so does a
\* complete apply.
LEMMA ReportedClean ==
  ASSUME dirty'.set \/ initialized' = FALSE \/ Holds(regs', config')
  PROVE  CleanMeansApplied'
  BY DEF CleanMeansApplied, Synced

\* An idle driver has no job that has reset the device.
LEMMA IdleNoReset ==
  ASSUME JobShape, job.kind = "NONE"
  PROVE  ~job.resetApplied
  BY DEF JobShape, IdleJob

\* What is known while one call of a synced driver writes single registers.
LEMMA PutHolds ==
  ASSUME NEW r \in RegisterFiles, NEW c \in Configs, Holds(r, c)
  PROVE  /\ \A l, h \in Thresholds :
              Holds(PutHigh(PutLow(r, l), h), [c EXCEPT !.low = l, !.high = h])
         /\ Holds(PutCfg(r, c.meas, "POWER_DOWN"), [c EXCEPT !.mode = "POWER_DOWN"])
         /\ \A m \in MeasFields, o \in Modes :
              Holds(PutCfg(r, m, o),
                    [c EXCEPT !.meas = m,
                              !.mode = IF o = "ONE_SHOT" THEN "POWER_DOWN" ELSE o])
         /\ \A i \in IntFields, b \in BOOLEAN :
              Holds(PutInt(r, i, b), [c EXCEPT !.int = i, !.burst = b])
         /\ \A v \in LocalFields : Holds(r, [c EXCEPT !.local = v])
         /\ Holds(r, [c EXCEPT !.low = r.low, !.high = r.high])
         /\ c.mode = "POWER_DOWN" => Holds(PutCfg(r, c.meas, "ONE_SHOT"), c)
  BY DEF Holds, PutLow, PutHigh, PutCfg, PutInt, RegisterFiles, Configs, Modes, StableModes

\* Every single-register call of an idle driver keeps a clean driver synced.
LEMMA SettingsClean ==
  ASSUME IInv, CleanMeansApplied, ~FailedWriteMayLand,
         \/ PowerDown \/ SetThresholds \/ GetThresholds \/ WriteConfiguration
         \/ WriteIntConfiguration \/ StartConversion \/ TrackedTransfer
         \/ ReadIntConfiguration
  PROVE  CleanMeansApplied'
<1>0. /\ regs \in RegisterFiles /\ config \in Configs /\ dirty \in DirtyRecords
  BY DEF IInv, TypeOK
<1>1. initialized /\ job.kind = "NONE"
  BY DEF PowerDown, SetThresholds, GetThresholds, WriteConfiguration,
         WriteIntConfiguration, StartConversion, TrackedTransfer, ReadIntConfiguration,
         Online
<1>2. ~job.resetApplied
  BY <1>1, IdleNoReset DEF IInv
<1>3. CASE UNCHANGED <<regs, config, dirty>>
  BY <1>1, <1>2, <1>3, NothingHappened
<1>4. CASE dirty.set /\ UNCHANGED dirty
  BY <1>4, ReportedClean
<1>5. CASE ~dirty.set
  <2>1. Holds(regs, config)
    BY <1>1, <1>2, <1>5 DEF CleanMeansApplied, Synced
  <2>a. \A after, st : regs' \in AfterFailedWrite(regs, after, st) => regs' = regs
    BY CleanWriteFailure
  <2>2. CASE PowerDown
    <3>1. Holds(PutCfg(regs, config.meas, "POWER_DOWN"), [config EXCEPT !.mode = "POWER_DOWN"])
      BY <1>0, <2>1, PutHolds
    <3> QED BY <1>3, <2>a, <2>2, <3>1, ReportedClean DEF PowerDown
  <2>3. CASE SetThresholds
    <3>1. PICK l \in Thresholds, h \in Thresholds :
            \/ /\ regs' = PutHigh(PutLow(regs, l), h)
               /\ config' = [config EXCEPT !.low = l, !.high = h]
            \/ regs' = regs /\ UNCHANGED <<config, dirty>>
            \/ dirty'.set
      BY <1>0, <2>a, <2>3, MarkSets DEF SetThresholds
    <3>2. Holds(PutHigh(PutLow(regs, l), h), [config EXCEPT !.low = l, !.high = h])
      BY <1>0, <2>1, PutHolds
    <3> QED BY <1>3, <3>1, <3>2, ReportedClean
  <2>4. CASE GetThresholds
    <3>1. Holds(regs, [config EXCEPT !.low = regs.low, !.high = regs.high])
      BY <1>0, <2>1, PutHolds
    <3> QED BY <1>3, <2>4, <3>1, ReportedClean DEF GetThresholds
  <2>5. CASE WriteConfiguration
    <3>1. PICK m \in MeasFields, o \in Modes :
            \/ /\ regs' = PutCfg(regs, m, o)
               /\ config' = [config EXCEPT !.meas = m,
                               !.mode = IF o = "ONE_SHOT" THEN "POWER_DOWN" ELSE o]
            \/ regs' = regs /\ UNCHANGED <<config, dirty>>
      BY <2>a, <2>5 DEF WriteConfiguration
    <3>2. Holds(PutCfg(regs, m, o),
                [config EXCEPT !.meas = m,
                               !.mode = IF o = "ONE_SHOT" THEN "POWER_DOWN" ELSE o])
      BY <1>0, <2>1, PutHolds
    <3> QED BY <1>3, <3>1, <3>2, ReportedClean
  <2>6. CASE WriteIntConfiguration
    <3>1. PICK i \in IntFields, b \in BOOLEAN :
            \/ /\ regs' = PutInt(regs, i, b)
               /\ config' = [config EXCEPT !.int = i, !.burst = b]
            \/ regs' = regs /\ UNCHANGED <<config, dirty>>
      BY <2>a, <2>6 DEF WriteIntConfiguration
    <3>2. Holds(PutInt(regs, i, b), [config EXCEPT !.int = i, !.burst = b])
      BY <1>0, <2>1, PutHolds
    <3> QED BY <1>3, <3>1, <3>2, ReportedClean
  <2>7. CASE StartConversion
    <3>1. config.mode = "POWER_DOWN" /\ UNCHANGED <<config, dirty>>
      BY <1>0, <2>7 DEF StartConversion, Configs, StableModes, binding
    <3>2. regs' = PutCfg(regs, config.meas, "ONE_SHOT") \/ regs' = regs
      BY <2>a, <2>7 DEF StartConversion
    <3>3. Holds(PutCfg(regs, config.meas, "ONE_SHOT"), config)
      BY <1>0, <2>1, <3>1, PutHolds
    <3> QED BY <1>3, <3>1, <3>2, <3>3, ReportedClean
  <2>8. CASE TrackedTransfer \/ ReadIntConfiguration
    BY <1>3, <2>8 DEF TrackedTransfer, ReadIntConfiguration, binding
  <2> QED BY <2>2, <2>3, <2>4, <2>5, <2>6, <2>7, <2>8
<1>6. CASE dirty.set /\ dirty' # dirty
  <2>1. dirty'.set
    BY <1>0, <1>6, MarkSets
       DEF PowerDown, SetThresholds, GetThresholds, WriteConfiguration,
           WriteIntConfiguration, StartConversion, TrackedTransfer, ReadIntConfiguration
  <2> QED BY <2>1, ReportedClean
<1> QED BY <1>4, <1>5, <1>6

\* The calls that apply a whole configuration, or reset first, keep it too.
LEMMA AppliesClean ==
  ASSUME IInv, CleanMeansApplied, ~FailedWriteMayLand,
         Recover \/ SoftReset \/ ResetAndReapply \/ ApplySetting \/ WriteRegister16
  PROVE  CleanMeansApplied'
<1>0. /\ regs \in RegisterFiles /\ config \in Configs /\ dirty \in DirtyRecords
  BY DEF IInv, TypeOK
<1>1. initialized /\ job.kind = "NONE"
  BY DEF Recover, SoftReset, ResetAndReapply, ApplySetting, WriteRegister16, Online,
         Reachable
<1>2. ~job.resetApplied
  BY <1>1, IdleNoReset DEF IInv
<1>3. CASE UNCHANGED <<regs, config, dirty>>
  BY <1>1, <1>2, <1>3, NothingHappened
<1>4. \A c \in Configs : ApplySucceeds(c) /\ config' = c => CleanMeansApplied'
  BY ImageHolds, ReportedClean DEF ApplySucceeds
<1>5. ASSUME NEW c \in Configs, NEW k \in 0 .. 3, NEW st \in TransferErrors,
             ApplyFails(regs, c, hwBurstEnabled, dirty, k, st), UNCHANGED config
      PROVE  CleanMeansApplied'
  BY <1>0, <1>3, <1>5, ApplyFailsReported, ReportedClean
<1>6. CASE Recover
  <2>1. UNCHANGED config
    BY <1>6 DEF Recover, binding
  <2> QED BY <1>0, <1>3, <1>4, <1>5, <1>6, <2>1 DEF Recover
<1>7. ASSUME NEW st \in TransferErrors, GeneralCallFails(st)
      PROVE  regs' = regs
  BY <1>7, CleanWriteFailure DEF GeneralCallFails
<1>8. CASE SoftReset
  BY <1>3, <1>7, <1>8, ReportedClean DEF SoftReset, binding
<1>9. CASE ResetAndReapply
  <2>1. UNCHANGED config
    BY <1>9 DEF ResetAndReapply, binding
  <2> QED BY <1>0, <1>3, <1>4, <1>7, <1>9, <2>1, ReportedClean DEF ResetAndReapply
<1>10. CASE ApplySetting
  <2>1. PICK c \in SettingTargets(config) :
          \/ ApplySucceeds(c) /\ config' = c
          \/ \E k \in 0 .. 3, st \in TransferErrors :
               ApplyFails(regs, c, hwBurstEnabled, dirty, k, st) /\ UNCHANGED config
    BY <1>10 DEF ApplySetting
  <2>2. c \in Configs
    BY <1>0, SettingTargetsType
  <2> QED BY <1>4, <1>5, <2>1, <2>2
<1>11. CASE WriteRegister16
  <2>1. ASSUME NEW after, NEW b, NEW e, RawWrite(after, b, e), UNCHANGED config
        PROVE  CleanMeansApplied'
    <3>1. dirty'.set \/ (regs' = regs /\ UNCHANGED dirty)
      BY <1>0, <2>1, MarkSets, CleanWriteFailure DEF RawWrite
    <3> QED BY <1>3, <2>1, <3>1, ReportedClean
  <2>2. UNCHANGED config
    BY <1>11 DEF WriteRegister16, binding
  <2> QED BY <1>11, <2>1, <2>2 DEF WriteRegister16
<1> QED BY <1>6, <1>8, <1>9, <1>10, <1>11

\* The steps of a write job keep it: what a job writes before its last write is what
\* the cache says already, except after its own reset.
LEMMA PollClean ==
  ASSUME IInv, PollTargetCurrent, JobPrefixWritten, CleanMeansApplied,
         ~FailedWriteMayLand, PollStep
  PROVE  CleanMeansApplied'
<1>0. /\ regs \in RegisterFiles /\ config \in Configs /\ dirty \in DirtyRecords
      /\ job \in Jobs /\ initialized \in BOOLEAN
  BY DEF IInv, TypeOK
<1>1. CASE PollReadDeviceId
  <2>1. initialized = FALSE
    BY <1>0, <1>1 DEF PollReadDeviceId, IInv, JobShape, IdleJob, WriteSteps, Jobs, JobKinds
  <2> QED BY <1>1, <2>1, ReportedClean DEF PollReadDeviceId
<1>2. CASE PollWriteReset
  <2>1. job.kind = "RESET_AND_REAPPLY" /\ initialized /\ ~job.resetApplied
    BY <1>0, <1>2 DEF PollWriteReset, IInv, JobShape, IdleJob, WriteSteps, Jobs, JobKinds
  <2>2. UNCHANGED <<config, dirty>>
    BY <1>2 DEF PollWriteReset, binding
  <2>3. CASE \E st \in TransferErrors : GeneralCallFails(st)
    <3>1. regs' = regs
      BY <2>3, CleanWriteFailure DEF GeneralCallFails
    <3> QED BY <2>1, <2>2, <3>1, NothingHappened
  <2>4. CASE job' = [job EXCEPT !.step = "WRITE_THRESHOLD_L", !.resetApplied = TRUE]
    BY <1>0, <2>4 DEF CleanMeansApplied, Jobs
  <2> QED BY <1>2, <2>3, <2>4 DEF PollWriteReset
<1>3. CASE PollWriteContinues
  <2>1. /\ job.step \in {"WRITE_THRESHOLD_L", "WRITE_THRESHOLD_H", "WRITE_INT_CONFIG"}
        /\ regs' = StepWrite(regs, job.target, job.step)
        /\ UNCHANGED <<config, initialized, dirty>>
        /\ job'.resetApplied = job.resetApplied
    BY <1>0, <1>3 DEF PollWriteContinues, binding, WriteSteps, Jobs
  <2>2. CASE job.kind = "CONFIGURE_MEASUREMENT" /\ ~dirty.set
    <3>1. Holds(regs, config)
      BY <2>2 DEF IInv, JobShape, CleanMeansApplied, Synced
    <3>2. /\ job.target.low = config.low /\ job.target.high = config.high
          /\ job.target.int = config.int /\ job.target.burst = config.burst
      <4>1. [job.target EXCEPT !.meas = config.meas, !.mode = config.mode] = config
        BY <2>2 DEF PollTargetCurrent
      <4>2. job.target \in Configs
        BY <1>0 DEF Jobs
      <4> QED BY <4>1, <4>2 DEF Configs
    <3>3. Holds(regs', config)
      BY <1>0, <2>1, <3>1, <3>2
         DEF Holds, StepWrite, PutLow, PutHigh, PutInt, RegisterFiles
    <3> QED BY <2>1, <3>3, ReportedClean
  <2>3. CASE job.kind = "CONFIGURE_MEASUREMENT" /\ dirty.set
    BY <2>1, <2>3, ReportedClean
  <2>4. CASE job.kind = "ATTACH"
    BY <2>1, <2>4 DEF IInv, JobShape, CleanMeansApplied
  <2>5. CASE job.kind = "RESET_AND_REAPPLY"
    BY <2>1, <2>5 DEF IInv, JobShape, CleanMeansApplied
  <2>6. job.kind # "NONE"
    BY <2>1 DEF IInv, JobShape, IdleJob
  <2> QED BY <1>0, <2>2, <2>3, <2>4, <2>5, <2>6 DEF Jobs, JobKinds
<1>4. CASE PollWriteCompletes
  <2>1. /\ config' = job.target
        /\ regs' = PutCfg(regs, job.target.meas, job.target.mode)
    BY <1>4 DEF PollWriteCompletes, StepWrite
  <2>2. regs = Written(regs, job.target, 3)
    BY <1>4 DEF PollWriteCompletes, JobPrefixWritten, IInv, JobShape
  <2>3. /\ regs.low = job.target.low /\ regs.high = job.target.high
        /\ regs.int = job.target.int /\ regs.burst = job.target.burst
    BY <2>2 DEF Written
  <2>4. Holds(regs', config')
    BY <1>0, <2>1, <2>3 DEF Holds, PutCfg, RegisterFiles
  <2> QED BY <2>4, ReportedClean
<1>5. CASE PollWriteFails
  <2>1. PICK st \in TransferErrors :
          /\ regs' \in AfterFailedWrite(regs, StepWrite(regs, job.target, job.step), st)
          /\ dirty' = DirtyAfterJobFailure(dirty, job, st)
    BY <1>5 DEF PollWriteFails
  <2>2. regs' = regs /\ UNCHANGED config
    BY <1>5, <2>1, CleanWriteFailure DEF PollWriteFails, binding
  <2>3. CASE Touched(job)
    BY <1>0, <2>1, <2>3, MarkSets, ReportedClean DEF DirtyAfterJobFailure
  <2>4. CASE ~Touched(job)
    <3>1. UNCHANGED dirty /\ ~job.resetApplied
      BY <2>1, <2>4 DEF DirtyAfterJobFailure, Touched
    <3>2. initialized' => initialized
      BY <1>5 DEF PollWriteFails
    <3> QED BY <2>2, <3>1, <3>2 DEF CleanMeansApplied, Synced
  <2> QED BY <2>3, <2>4
<1> QED BY <1>1, <1>2, <1>3, <1>4, <1>5 DEF PollStep

\* Every action keeps it.
LEMMA CleanStep ==
  ASSUME IInv, PollTargetCurrent, JobPrefixWritten, CleanMeansApplied, CleanFailures, Next
  PROVE  CleanMeansApplied'
<1> USE DEF CleanFailures
<1>0. /\ regs \in RegisterFiles /\ config \in Configs /\ dirty \in DirtyRecords
      /\ job \in Jobs /\ initialized \in BOOLEAN
  BY DEF IInv, TypeOK
<1>1. CASE Bind \/ BindInvalid \/ Unbind \/ BeginFails \/ End
  <2>1. initialized' = FALSE
    BY <1>1 DEF Bind, BindInvalid, Unbind, BeginFails, End
  <2> QED BY <2>1, ReportedClean
<1>2. CASE BeginSucceeds
  BY <1>2, ImageHolds, ReportedClean DEF BeginSucceeds, Rebind, ApplySucceeds
<1>3. CASE \/ PowerDown \/ SetThresholds \/ GetThresholds \/ WriteConfiguration
           \/ WriteIntConfiguration \/ StartConversion \/ TrackedTransfer
           \/ ReadIntConfiguration
  BY <1>3, SettingsClean
<1>4. CASE Recover \/ SoftReset \/ ResetAndReapply \/ ApplySetting \/ WriteRegister16
  BY <1>4, AppliesClean
<1>5. CASE SetLocal
  <2>1. PICK v \in LocalFields : config' = [config EXCEPT !.local = v]
    BY <1>5 DEF SetLocal
  <2>2. Synced => Holds(regs, [config EXCEPT !.local = v])
    BY <1>0, PutHolds DEF Synced
  <2>3. UNCHANGED <<regs, initialized, dirty, job>>
    BY <1>5 DEF SetLocal, polling
  <2> QED BY <2>1, <2>2, <2>3 DEF CleanMeansApplied, Synced
<1>6. CASE StartAttach \/ StartConfigureMeasurement \/ StartResetAndReapply
  <2>1. job.kind = "NONE" /\ UNCHANGED <<regs, config, initialized, dirty>>
    BY <1>6 DEF StartAttach, StartConfigureMeasurement, StartResetAndReapply, Online,
                Reachable, binding
  <2>2. ~job.resetApplied
    BY <2>1, IdleNoReset DEF IInv
  <2> QED BY <2>1, <2>2 DEF CleanMeansApplied, Synced
<1>7. CASE CancelPollJob
  <2>1. UNCHANGED <<regs, config>> /\ (initialized' => initialized)
    BY <1>7 DEF CancelPollJob, binding
  <2>2. CASE Touched(job)
    BY <1>0, <1>7, <2>2, MarkSets, ReportedClean DEF CancelPollJob, DirtyAfterCancel
  <2>3. CASE ~Touched(job)
    <3>1. UNCHANGED dirty /\ ~job.resetApplied
      BY <1>7, <2>3 DEF CancelPollJob, DirtyAfterCancel, Touched
    <3> QED BY <2>1, <3>1 DEF CleanMeansApplied, Synced
  <2> QED BY <2>2, <2>3
<1>8. CASE PollStep
  BY <1>8, PollClean
<1>9. CASE Device
  <2>1. /\ regs.mode = "ONE_SHOT" /\ regs' = [regs EXCEPT !.mode = "POWER_DOWN"]
        /\ UNCHANGED <<config, initialized, dirty, job>>
    BY <1>9 DEF Device, OneShotCompletes, ResetFromOutside, binding, polling
  <2>2. Synced => Holds(regs', config)
    BY <1>0, <2>1 DEF Synced, Holds, RegisterFiles, Configs, StableModes
  <2> QED BY <2>1, <2>2 DEF CleanMeansApplied, Synced
<1> QED BY <1>1, <1>2, <1>3, <1>4, <1>5, <1>6, <1>7, <1>8, <1>9
        DEF Next, Lifecycle, Recovery, Settings, Transfers, Jobbing

-----------------------------------------------------------------------------
(* The theorems. *)

\* A constructed driver satisfies the invariant.
LEMMA InitSync == Init => SyncInv
<1> SUFFICES ASSUME Init PROVE SyncInv
  OBVIOUS
<1>1. IInv
  BY InitIInv
<1>2. PollTargetCurrent /\ CleanMeansApplied
  BY DEF Init, PollTargetCurrent, CleanMeansApplied, IdleJob
<1>3. JobPrefixWritten
  <2>1. regs \in RegisterFiles /\ job.writesApplied = 0
    BY DEF Init, IdleJob
  <2>2. regs = Written(regs, job.target, 0)
    BY <2>1, NothingWritten
  <2> QED BY <2>1, <2>2 DEF JobPrefixWritten
<1> QED BY <1>1, <1>2, <1>3 DEF SyncInv

\* Every step, and every stutter, preserves it.
LEMMA NextSync == SyncInv /\ [Next]_vars => SyncInv'
<1> SUFFICES ASSUME SyncInv, [Next]_vars PROVE SyncInv'
  OBVIOUS
<1>1. CASE Next
  <2>1. IInv'
    BY NextIInv DEF SyncInv
  <2>2. PollTargetCurrent'
    BY <1>1, TargetStep DEF SyncInv
  <2>3. CleanFailures => JobPrefixWritten'
    BY <1>1, PrefixStep DEF SyncInv, CleanFailures
  <2>4. CleanFailures => CleanMeansApplied'
    BY <1>1, CleanStep DEF SyncInv
  <2> QED BY <2>1, <2>2, <2>3, <2>4 DEF SyncInv, CleanFailures
<1>2. CASE UNCHANGED vars
  <2>1. IInv'
    BY <1>2, NextIInv DEF SyncInv
  <2>2. UNCHANGED <<config, job, regs, dirty, initialized>>
    BY <1>2 DEF vars
  <2> QED BY <2>1, <2>2 DEF SyncInv, PollTargetCurrent, CleanFailures, JobPrefixWritten,
                            CleanMeansApplied, Synced
<1> QED BY <1>1, <1>2

\* The invariant holds in every behaviour.
THEOREM SyncInvariance == Spec => []SyncInv
  BY InitSync, NextSync, PTL DEF Spec

\* Whatever is called between two polls, the configuration a job is about to adopt is
\* the cached one but for the fields the job is there to change.
THEOREM TargetInvariant == Spec => []PollTargetCurrent
<1>1. SyncInv => PollTargetCurrent
  BY DEF SyncInv
<1> QED BY <1>1, SyncInvariance, PTL

\* With clean failures an initialized driver that reports no dirty configuration has
\* its cached configuration in the device, for every register value, any threshold
\* and any interleaving of calls and job steps.
THEOREM CleanInvariant == Spec => [](CleanFailures => CleanMeansApplied)
<1>1. SyncInv => (CleanFailures => CleanMeansApplied)
  BY DEF SyncInv
<1> QED BY <1>1, SyncInvariance, PTL

\* With clean failures nothing disturbs what a job has written so far.
THEOREM PrefixInvariant == Spec => [](CleanFailures => JobPrefixWritten)
<1>1. SyncInv => (CleanFailures => JobPrefixWritten)
  BY DEF SyncInv
<1> QED BY <1>1, SyncInvariance, PTL

-----------------------------------------------------------------------------
(* What the steps of a driver with clean failures report. *)

\* A record that is set stays set when it is marked.
LEMMA MarkedStaysSet ==
  ASSUME NEW d \in DirtyRecords, d.set, NEW k, NEW j, NEW st
  PROVE  /\ MarkDirty(d, st) = d
         /\ DirtyAfterFailure(d, k, st) = d
         /\ DirtyAfterCancel(d, j) = d
         /\ DirtyAfterJobFailure(d, j, st) = d
  BY DEF MarkDirty, DirtyAfterFailure, DirtyAfterCancel, DirtyAfterJobFailure

\* The last write of a job completes its target.
LEMMA CompletionSyncs ==
  ASSUME IInv, JobPrefixWritten, PollWriteCompletes
  PROVE  Synced'
<1>0. job \in Jobs /\ regs \in RegisterFiles
  BY DEF IInv, TypeOK
<1>1. config' = job.target /\ regs' = PutCfg(regs, job.target.meas, job.target.mode)
  BY DEF PollWriteCompletes, StepWrite
<1>2. regs = Written(regs, job.target, 3)
  BY DEF PollWriteCompletes, JobPrefixWritten, IInv, JobShape
<1>3. /\ regs.low = job.target.low /\ regs.high = job.target.high
      /\ regs.int = job.target.int /\ regs.burst = job.target.burst
  BY <1>2 DEF Written
<1> QED BY <1>0, <1>1, <1>3 DEF Synced, Holds, PutCfg, RegisterFiles

\* So does a complete application.
LEMMA ApplicationSyncs ==
  ASSUME NEW c, ApplySucceeds(c), config' = c
  PROVE  Synced'
  BY DEF ApplySucceeds, Synced, Holds, Image

ClearedByFullApply == dirty.set /\ ~dirty'.set => Synced' \/ Unbind

LEMMA ClearStep ==
  ASSUME IInv, JobPrefixWritten, Next
  PROVE  ClearedByFullApply
<1> SUFFICES ASSUME dirty.set, ~dirty'.set PROVE Synced' \/ Unbind
  BY DEF ClearedByFullApply
<1>0. dirty \in DirtyRecords /\ dirty' # dirty
  BY DEF IInv, TypeOK
<1>1. /\ \A st : MarkDirty(dirty, st) = dirty
      /\ \A k, st : DirtyAfterFailure(dirty, k, st) = dirty
      /\ \A j : DirtyAfterCancel(dirty, j) = dirty
      /\ \A j, st : DirtyAfterJobFailure(dirty, j, st) = dirty
  BY <1>0, MarkedStaysSet
<1>2. \A r, c, b, k, st : ~ApplyFails(r, c, b, dirty, k, st)
  BY <1>0, <1>1 DEF ApplyFails
<1>3. CASE Lifecycle
  <2>1. CASE Bind \/ BindInvalid \/ End \/ BeginFails \/ PowerDown
    BY <1>0, <1>1, <1>2, <2>1 DEF Bind, BindInvalid, End, BeginFails, PowerDown
  <2>2. CASE BeginSucceeds
    BY <2>2, ApplicationSyncs DEF BeginSucceeds, Rebind
  <2> QED BY <1>3, <2>1, <2>2 DEF Lifecycle
<1>4. CASE Recovery
  <2>1. ApplySucceeds(config) /\ config' = config => Synced'
    BY ApplicationSyncs
  <2>2. CASE Recover
    BY <1>0, <1>2, <2>1, <2>2 DEF Recover, binding
  <2>3. CASE SoftReset
    BY <1>0, <2>3 DEF SoftReset
  <2>4. CASE ResetAndReapply
    <3>1. \A k \in 0 .. 3, st \in TransferErrors :
            ~ApplyFails(ResetRegisters, config, FALSE, MarkDirty(dirty, st), k, st)
      BY <1>1, <1>2
    <3> QED BY <1>0, <2>1, <2>4, <3>1 DEF ResetAndReapply, binding
  <2> QED BY <1>4, <2>2, <2>3, <2>4 DEF Recovery
<1>5. CASE Settings
  <2>1. CASE ApplySetting
    BY <1>2, <2>1, ApplicationSyncs DEF ApplySetting
  <2> QED BY <1>0, <1>1, <1>5, <2>1
          DEF Settings, SetThresholds, GetThresholds, WriteConfiguration,
              WriteIntConfiguration, SetLocal
<1>6. CASE Transfers
  BY <1>0, <1>1, <1>6 DEF Transfers, WriteRegister16, RawWrite, StartConversion,
                          ReadIntConfiguration, TrackedTransfer
<1>7. CASE Jobbing
  <2>1. CASE PollWriteCompletes
    BY <2>1, CompletionSyncs
  <2> QED BY <1>0, <1>1, <1>7, <2>1
          DEF Jobbing, StartAttach, StartConfigureMeasurement, StartResetAndReapply,
              CancelPollJob, PollStep, PollReadDeviceId, PollWriteReset,
              PollWriteContinues, PollWriteFails
<1>8. CASE Device
  BY <1>0, <1>8 DEF Device, OneShotCompletes, ResetFromOutside
<1> QED BY <1>3, <1>4, <1>5, <1>6, <1>7, <1>8 DEF Next

InterruptionReported ==
  Touched(job) /\ job'.kind = "NONE" => Synced' \/ dirty'.set \/ Unbind

LEMMA InterruptStep ==
  ASSUME IInv, JobPrefixWritten, Next
  PROVE  InterruptionReported
<1> SUFFICES ASSUME Touched(job), job'.kind = "NONE"
             PROVE  Synced' \/ dirty'.set \/ Unbind
  BY DEF InterruptionReported
<1>0. dirty \in DirtyRecords /\ job \in Jobs
  BY DEF IInv, TypeOK
<1>1. job.kind # "NONE"
  BY DEF Touched, IInv, JobShape, IdleJob
<1>2. /\ DirtyAfterCancel(dirty, job).set
      /\ \A st : DirtyAfterJobFailure(dirty, job, st).set
      /\ \A k, st : DirtyAfterFailure(DirtyAfterCancel(dirty, job), k, st).set
  BY <1>0 DEF DirtyAfterCancel, DirtyAfterJobFailure, DirtyAfterFailure, MarkDirty,
              DirtyRecords
<1>3. CASE Lifecycle
  <2>1. CASE Bind \/ BindInvalid \/ End \/ BeginFails
    BY <1>2, <2>1 DEF Bind, BindInvalid, End, BeginFails, ApplyFails
  <2>2. CASE BeginSucceeds
    BY <2>2, ApplicationSyncs DEF BeginSucceeds, Rebind
  <2>3. ~PowerDown
    BY <1>1 DEF PowerDown, Online
  <2> QED BY <1>3, <2>1, <2>2, <2>3 DEF Lifecycle
<1>4. ~Recovery /\ ~Settings /\ ~Transfers
  BY <1>1 DEF Recovery, Recover, SoftReset, ResetAndReapply, Settings, ApplySetting,
              SetThresholds, GetThresholds, WriteConfiguration, WriteIntConfiguration,
              SetLocal, Transfers, WriteRegister16, StartConversion,
              ReadIntConfiguration, TrackedTransfer, Online, Reachable
<1>5. CASE Jobbing
  <2>1. ~StartAttach /\ ~StartConfigureMeasurement /\ ~StartResetAndReapply
    BY <1>1 DEF StartAttach, StartConfigureMeasurement, StartResetAndReapply, Online,
                Reachable
  <2>2. ~PollReadDeviceId /\ ~PollWriteReset
    BY <1>0 DEF PollReadDeviceId, PollWriteReset, Touched, IInv, JobShape, IdleJob,
                WriteSteps, Jobs, JobKinds
  <2>3. ~PollWriteContinues
    BY <1>0, <1>1 DEF PollWriteContinues, Jobs
  <2>4. CASE PollWriteCompletes
    BY <2>4, CompletionSyncs
  <2>5. CASE CancelPollJob \/ PollWriteFails
    BY <1>2, <2>5 DEF CancelPollJob, PollWriteFails
  <2> QED BY <1>5, <2>1, <2>2, <2>3, <2>4, <2>5 DEF Jobbing, PollStep
<1>6. ~Device
  BY <1>1 DEF Device, OneShotCompletes, ResetFromOutside, polling
<1> QED BY <1>3, <1>4, <1>5, <1>6 DEF Next

\* The status of an active job is the one its start gave it.
InProgress == job.kind # "NONE" => lastPollStatus = "IN_PROGRESS"

LEMMA ProgressStep ==
  ASSUME IInv, InProgress, Next
  PROVE  InProgress'
<1>0. job \in Jobs
  BY DEF IInv, TypeOK
<1>1. CASE \/ Bind \/ BindInvalid \/ Unbind \/ BeginFails \/ BeginSucceeds \/ End
           \/ CancelPollJob \/ PollWriteCompletes \/ PollWriteFails
  <2>1. job' = IdleJob
    BY <1>1 DEF Bind, BindInvalid, Unbind, BeginFails, BeginSucceeds, End, CancelPollJob,
                PollWriteCompletes, PollWriteFails, Rebind, FinishJob
  <2> QED BY <2>1 DEF InProgress, IdleJob
<1>2. CASE PowerDown \/ Recovery \/ Settings \/ Transfers \/ Device
  <2>1. UNCHANGED polling
    BY <1>2 DEF PowerDown, Recovery, Recover, SoftReset, ResetAndReapply, Settings,
                ApplySetting, SetThresholds, GetThresholds, WriteConfiguration,
                WriteIntConfiguration, SetLocal, Transfers, WriteRegister16,
                StartConversion, ReadIntConfiguration, TrackedTransfer, Device,
                OneShotCompletes, ResetFromOutside
  <2> QED BY <2>1 DEF InProgress, polling
<1>3. CASE StartAttach \/ StartConfigureMeasurement \/ StartResetAndReapply
  BY <1>3 DEF StartAttach, StartConfigureMeasurement, StartResetAndReapply, StartJob,
              InProgress
<1>4. CASE PollReadDeviceId \/ PollWriteReset \/ PollWriteContinues
  <2>1. job.kind # "NONE"
    BY <1>4 DEF PollReadDeviceId, PollWriteReset, PollWriteContinues, IInv, JobShape,
                IdleJob, WriteSteps
  <2>2. job' = IdleJob \/ UNCHANGED lastPollStatus
    BY <1>4 DEF PollReadDeviceId, PollWriteReset, PollWriteContinues, FinishJob
  <2> QED BY <2>1, <2>2 DEF InProgress, IdleJob
<1> QED BY <1>1, <1>2, <1>3, <1>4 DEF Next, Lifecycle, Jobbing, PollStep

\* Of the steps of a job only the last one reports OK.
LEMMA OkStep ==
  ASSUME IInv, InProgress, JobPrefixWritten, PollStep, lastPollStatus' = "OK"
  PROVE  config' = job.target /\ Synced' /\ ~dirty'.set /\ health' = Healthy
<1>1. \A st \in TransferErrors \cup {"DEVICE_ID_MISMATCH"} : ~FinishJob(st)
  BY StatusAssumption DEF FinishJob, TransferErrors, DriverStatuses
<1>2. job.kind # "NONE"
  BY DEF PollStep, PollReadDeviceId, PollWriteReset, PollWriteContinues,
         PollWriteCompletes, PollWriteFails, IInv, JobShape, IdleJob, WriteSteps
<1>3. lastPollStatus' # lastPollStatus
  BY <1>2 DEF InProgress
<1>4. PollWriteCompletes
  BY <1>1, <1>3 DEF PollStep, PollReadDeviceId, PollWriteReset, PollWriteContinues,
                    PollWriteFails
<1> QED BY <1>4, CompletionSyncs DEF PollWriteCompletes, Clean

\* With clean failures the dirty flag is lowered only by a call that leaves the whole
\* cached configuration in the device, or by unbind().
THEOREM ClearedOnlyWhenApplied ==
  ASSUME CleanFailures
  PROVE  Spec => DirtyClearedByFullApply
<1>1. SyncInv /\ [Next]_vars => [dirty.set /\ ~dirty'.set => Synced' \/ Unbind]_vars
  BY ClearStep DEF SyncInv, ClearedByFullApply
<1> QED BY <1>1, SyncInvariance, PTL DEF Spec, DirtyClearedByFullApply

\* With clean failures a job that has touched the device and ends in any way but
\* success leaves a dirty configuration, unless unbind() drops the record.
THEOREM InterruptionIsReported ==
  ASSUME CleanFailures
  PROVE  Spec => InterruptedJobReported
<1>1. SyncInv /\ [Next]_vars =>
        [Touched(job) /\ job'.kind = "NONE" => Synced' \/ dirty'.set \/ Unbind]_vars
  BY InterruptStep DEF SyncInv, InterruptionReported
<1> QED BY <1>1, SyncInvariance, PTL DEF Spec, InterruptedJobReported

\* With clean failures a job that reports OK has its target in the device and in the
\* cache and leaves the driver READY and clean, whatever ran between its polls.
THEOREM OkMeansApplied ==
  ASSUME CleanFailures
  PROVE  Spec => JobOkMeansApplied
<1>1. Init => InProgress
  BY DEF Init, InProgress, IdleJob
<1>2. SyncInv /\ InProgress /\ [Next]_vars => InProgress'
  BY ProgressStep DEF SyncInv, vars, InProgress
<1>3. SyncInv /\ InProgress /\ [Next]_vars =>
        [PollStep /\ lastPollStatus' = "OK" =>
           config' = job.target /\ Synced' /\ ~dirty'.set /\ health' = Healthy]_vars
  BY OkStep DEF SyncInv
<1> QED BY <1>1, <1>2, <1>3, SyncInvariance, PTL DEF Spec, JobOkMeansApplied

-----------------------------------------------------------------------------
(* The promise of HonestCache, step by step. *)

\* A job that has reset the device is a reset job, and not an idle one.
LEMMA OnlyResetJobsReset ==
  ASSUME JobShape, job \in Jobs, job.resetApplied
  PROVE  job.kind = "RESET_AND_REAPPLY" /\ initialized
  BY DEF JobShape, Jobs, JobKinds, IdleJob

\* The last write of a job leaves exactly the image of its target.
LEMMA CompletionImage ==
  ASSUME IInv, JobPrefixWritten, PollWriteCompletes
  PROVE  regs' = Image(config')
<1>0. job \in Jobs /\ regs \in RegisterFiles
  BY DEF IInv, TypeOK
<1>1. config' = job.target /\ regs' = PutCfg(regs, job.target.meas, job.target.mode)
  BY DEF PollWriteCompletes, StepWrite
<1>2. regs = Written(regs, job.target, 3)
  BY DEF PollWriteCompletes, JobPrefixWritten, IInv, JobShape
<1>3. /\ regs.low = job.target.low /\ regs.high = job.target.high
      /\ regs.int = job.target.int /\ regs.burst = job.target.burst
  BY <1>2 DEF Written
<1> QED BY <1>0, <1>1, <1>3 DEF Image, PutCfg, RegisterFiles

\* The calls that leave the driver where it was, or take it down.
LEMMA NoTrustGained ==
  ASSUME IInv, Next, Trust # "TRUSTED", Trust' = "TRUSTED"
  PROVE  \/ BeginSucceeds \/ PollWriteCompletes
         \/ (Recover \/ ResetAndReapply) /\ ApplySucceeds(config)
         \/ \E c \in Configs : ApplySetting /\ ApplySucceeds(c) /\ config' = c
<1>0. dirty \in DirtyRecords /\ job \in Jobs /\ JobShape
  BY DEF IInv, TypeOK
<1>1. initialized' /\ ~dirty'.set /\ ~job'.resetApplied
  BY DEF Trust
<1>2. ~initialized \/ dirty.set \/ job.resetApplied
  BY DEF Trust
<1>3. dirty.set =>
        /\ \A st : MarkDirty(dirty, st).set
        /\ \A k, st : DirtyAfterFailure(dirty, k, st).set
        /\ \A j : DirtyAfterCancel(dirty, j).set
        /\ \A j, st : DirtyAfterJobFailure(dirty, j, st).set
        /\ \A r, c, b, k, st : ~ApplyFails(r, c, b, dirty, k, st)
  BY <1>0, <1>1, MarkedStaysSet DEF ApplyFails
<1>4. job.kind = "NONE" => ~job.resetApplied
  BY <1>0, IdleNoReset
<1>5. CASE Lifecycle
  <2>1. ~Bind /\ ~BindInvalid /\ ~Unbind /\ ~BeginFails /\ ~End
    BY <1>1 DEF Bind, BindInvalid, Unbind, BeginFails, End
  <2>2. ~PowerDown
    BY <1>1, <1>2, <1>4 DEF PowerDown, Online
  <2> QED BY <1>5, <2>1, <2>2 DEF Lifecycle
<1>6. CASE Recovery
  <2>1. CASE Recover
    BY <1>1, <1>2, <1>3, <1>4, <2>1 DEF Recover, Reachable
  <2>2. CASE SoftReset
    BY <1>1, <1>2, <1>4, <2>2 DEF SoftReset, Reachable
  <2>3. CASE ResetAndReapply
    BY <1>1, <1>2, <1>4, <2>3 DEF ResetAndReapply, Reachable
  <2> QED BY <1>6, <2>1, <2>2, <2>3 DEF Recovery
<1>7. CASE Settings
  <2>1. initialized => dirty.set \/ job.kind # "NONE"
    BY <1>2, <1>4
  <2>2. CASE ApplySetting
    <3>1. PICK c \in SettingTargets(config) :
            \/ ApplySucceeds(c) /\ config' = c
            \/ \E k \in 0 .. 3, st \in TransferErrors :
                 ApplyFails(regs, c, hwBurstEnabled, dirty, k, st)
      BY <2>2 DEF ApplySetting
    <3>2. ApplySucceeds(c) /\ config' = c
      BY <1>3, <2>1, <2>2, <3>1 DEF ApplySetting, Online
    <3>3. c \in Configs
      BY DEF SettingTargets
    <3> QED BY <2>2, <3>2, <3>3
  <2>3. ~SetThresholds /\ ~GetThresholds /\ ~WriteConfiguration /\ ~WriteIntConfiguration
    BY <1>1, <1>3, <2>1 DEF SetThresholds, GetThresholds, WriteConfiguration,
                            WriteIntConfiguration, Online
  <2>4. ~SetLocal
    BY <1>1, <2>1 DEF SetLocal
  <2> QED BY <1>7, <2>2, <2>3, <2>4 DEF Settings
<1>8. ~Transfers
  BY <1>1, <1>2, <1>3, <1>4 DEF Transfers, WriteRegister16, RawWrite, StartConversion,
                                ReadIntConfiguration, TrackedTransfer, Online
<1>9. CASE Jobbing
  <2>1. ~StartAttach /\ ~StartConfigureMeasurement /\ ~StartResetAndReapply
    BY <1>1, <1>2, <1>4 DEF StartAttach, StartConfigureMeasurement, StartResetAndReapply,
                            Online, Reachable
  <2>2. ~CancelPollJob
    <3> SUFFICES ASSUME CancelPollJob PROVE FALSE
      OBVIOUS
    <3>1. ~CancelUninitializes(job) /\ initialized /\ dirty' = DirtyAfterCancel(dirty, job)
      BY <1>1 DEF CancelPollJob
    <3>2. job.resetApplied
      BY <1>1, <1>2, <1>3, <3>1
    <3> QED BY <1>0, <3>1, <3>2, OnlyResetJobsReset DEF CancelUninitializes
  <2>3. ~PollReadDeviceId
    <3> SUFFICES ASSUME PollReadDeviceId PROVE FALSE
      OBVIOUS
    <3>1. job.kind = "ATTACH"
      BY <1>0 DEF PollReadDeviceId, JobShape, IdleJob, Jobs, JobKinds, WriteSteps
    <3>2. ~initialized /\ UNCHANGED initialized
      BY <1>0, <3>1 DEF PollReadDeviceId, JobShape
    <3> QED BY <1>1, <3>2
  <2>4. ~PollWriteReset
    <3> SUFFICES ASSUME PollWriteReset PROVE FALSE
      OBVIOUS
    <3>1. initialized /\ ~job.resetApplied
      BY <1>0 DEF PollWriteReset, JobShape, IdleJob, Jobs, JobKinds, WriteSteps
    <3>2. dirty.set /\ UNCHANGED dirty
      BY <1>2, <3>1 DEF PollWriteReset
    <3> QED BY <1>1, <3>2
  <2>5. ~PollWriteContinues
    <3> SUFFICES ASSUME PollWriteContinues PROVE FALSE
      OBVIOUS
    <3>1. UNCHANGED <<initialized, dirty>> /\ job'.resetApplied = job.resetApplied
      BY <1>0 DEF PollWriteContinues, Jobs
    <3> QED BY <1>1, <1>2, <3>1
  <2>6. ~PollWriteFails
    <3> SUFFICES ASSUME PollWriteFails PROVE FALSE
      OBVIOUS
    <3>1. /\ initialized /\ job.kind # "RESET_AND_REAPPLY"
          /\ \E st : dirty' = DirtyAfterJobFailure(dirty, job, st)
      BY <1>1 DEF PollWriteFails
    <3>2. ~job.resetApplied
      BY <1>0, <3>1, OnlyResetJobsReset
    <3> QED BY <1>1, <1>2, <1>3, <3>1, <3>2
  <2> QED BY <1>9, <2>1, <2>2, <2>3, <2>4, <2>5, <2>6 DEF Jobbing, PollStep
<1>10. ~Device
  BY <1>1, <1>2 DEF Device, OneShotCompletes, ResetFromOutside, polling
<1> QED BY <1>5, <1>6, <1>7, <1>8, <1>9, <1>10 DEF Next

\* So the way back is an application of the whole configuration.
LEMMA TrustByApply ==
  ASSUME IInv, JobPrefixWritten, Next, Trust # "TRUSTED", Trust' = "TRUSTED"
  PROVE  regs' = Image(config')
<1>1. CASE BeginSucceeds
  BY <1>1 DEF BeginSucceeds, Rebind, ApplySucceeds
<1>2. CASE PollWriteCompletes
  BY <1>2, CompletionImage
<1>3. CASE (Recover \/ ResetAndReapply) /\ ApplySucceeds(config)
  BY <1>3 DEF Recover, ResetAndReapply, ApplySucceeds, binding
<1>4. CASE \E c \in Configs : ApplySetting /\ ApplySucceeds(c) /\ config' = c
  BY <1>4 DEF ApplySucceeds
<1> QED BY <1>1, <1>2, <1>3, <1>4, NoTrustGained

\* Keeping the cache is taking nothing up.
LEMMA KeptCache ==
  ASSUME NEW r, config' = config
  PROVE  Cache!TakesUp(config, config', r)
  BY DEF Cache!TakesUp

\* The single-register calls change the cache by what they have just put into the
\* device or found in it, and the record not at all.
LEMMA SingleTakesUp ==
  ASSUME IInv, PowerDown \/ SetThresholds \/ GetThresholds \/ WriteConfiguration
                 \/ WriteIntConfiguration \/ SetLocal
  PROVE  \/ UNCHANGED config
         \/ /\ UNCHANGED <<initialized, dirty, job>>
            /\ Cache!TakesUp(config, config', regs')
<1>0. regs \in RegisterFiles /\ config \in Configs
  BY DEF IInv, TypeOK
<1>1. CASE PowerDown
  <2>1. \/ UNCHANGED config
        \/ /\ config' = [config EXCEPT !.mode = "POWER_DOWN"]
           /\ regs' = PutCfg(regs, config.meas, "POWER_DOWN")
    BY <1>1 DEF PowerDown
  <2> QED BY <1>0, <1>1, <2>1
          DEF PowerDown, polling, Cache!TakesUp, PutCfg, Configs, RegisterFiles
<1>2. CASE SetThresholds
  <2>1. \/ UNCHANGED config
        \/ \E l, h \in Thresholds :
             /\ config' = [config EXCEPT !.low = l, !.high = h]
             /\ regs' = PutHigh(PutLow(regs, l), h) /\ UNCHANGED dirty
    BY <1>2 DEF SetThresholds
  <2> QED BY <1>0, <1>2, <2>1 DEF SetThresholds, polling, Cache!TakesUp, PutHigh, PutLow,
                                  Configs, RegisterFiles
<1>3. CASE GetThresholds
  <2>1. \/ UNCHANGED config
        \/ config' = [config EXCEPT !.low = regs.low, !.high = regs.high]
    BY <1>3 DEF GetThresholds
  <2> QED BY <1>0, <1>3, <2>1 DEF GetThresholds, polling, Cache!TakesUp, Configs
<1>4. CASE WriteConfiguration
  <2>1. \/ UNCHANGED config
        \/ \E m \in MeasFields, o \in Modes :
             /\ config' = [config EXCEPT !.meas = m,
                             !.mode = IF o = "ONE_SHOT" THEN "POWER_DOWN" ELSE o]
             /\ regs' = PutCfg(regs, m, o)
    BY <1>4 DEF WriteConfiguration
  <2> QED BY <1>0, <1>4, <2>1 DEF WriteConfiguration, polling, Cache!TakesUp, PutCfg,
                                  Configs, RegisterFiles
<1>5. CASE WriteIntConfiguration
  <2>1. \/ UNCHANGED config
        \/ \E i \in IntFields, b \in BOOLEAN :
             /\ config' = [config EXCEPT !.int = i, !.burst = b]
             /\ regs' = PutInt(regs, i, b)
    BY <1>5 DEF WriteIntConfiguration
  <2> QED BY <1>0, <1>5, <2>1 DEF WriteIntConfiguration, polling, Cache!TakesUp, PutInt,
                                  Configs, RegisterFiles
<1>6. CASE SetLocal
  <2>1. PICK v \in LocalFields : config' = [config EXCEPT !.local = v]
    BY <1>6 DEF SetLocal
  <2> QED BY <1>0, <1>6, <2>1 DEF SetLocal, polling, Cache!TakesUp, Configs
<1> QED BY <1>1, <1>2, <1>3, <1>4, <1>5, <1>6

\* What leaves a driver in doubt has left its cache alone or taken up what the device
\* holds, and found it initialized.
LEMMA InDoubt ==
  ASSUME IInv, Next, Trust' = "DOUBTED"
  PROVE  /\ Trust # "DOWN"
         /\ \/ UNCHANGED config
            \/ Trust = "DOUBTED" /\ Cache!TakesUp(config, config', regs')
<1>1. initialized' /\ (dirty'.set \/ job'.resetApplied)
  BY DEF Trust
<1>2. ~Clean.set /\ ~IdleJob.resetApplied
  BY DEF Clean, IdleJob
<1>3. job.kind = "NONE" => ~job.resetApplied
  BY IdleNoReset DEF IInv
<1>4. ASSUME initialized, UNCHANGED config
      PROVE  Trust # "DOWN" /\ UNCHANGED config
  BY <1>4 DEF Trust
<1>5. CASE Lifecycle
  <2>1. ~Bind /\ ~BindInvalid /\ ~Unbind /\ ~BeginFails /\ ~End
    BY <1>1 DEF Bind, BindInvalid, Unbind, BeginFails, End
  <2>2. ~BeginSucceeds
    BY <1>1, <1>2 DEF BeginSucceeds, Rebind, FinishJob, ApplySucceeds
  <2>3. CASE PowerDown
    <3>1. initialized
      BY <2>3 DEF PowerDown, Online
    <3>2. CASE UNCHANGED config
      BY <1>4, <3>1, <3>2
    <3>3. CASE /\ UNCHANGED <<initialized, dirty, job>>
               /\ Cache!TakesUp(config, config', regs')
      BY <1>1, <3>1, <3>3 DEF Trust
    <3> QED BY <2>3, <3>2, <3>3, SingleTakesUp
  <2> QED BY <1>5, <2>1, <2>2, <2>3 DEF Lifecycle
<1>6. CASE Recovery
  BY <1>4, <1>6 DEF Recovery, Recover, SoftReset, ResetAndReapply, Reachable, binding
<1>7. CASE Settings
  <2>1. CASE ApplySetting
    <3>1. initialized /\ job.kind = "NONE" /\ UNCHANGED polling
      BY <2>1 DEF ApplySetting, Online
    <3>2. ASSUME NEW c, ApplySucceeds(c) PROVE FALSE
      BY <1>1, <1>2, <1>3, <3>1, <3>2 DEF ApplySucceeds, polling
    <3>3. UNCHANGED config
      BY <2>1, <3>2 DEF ApplySetting
    <3> QED BY <1>4, <3>1, <3>3
  <2>2. CASE \/ SetThresholds \/ GetThresholds \/ WriteConfiguration
             \/ WriteIntConfiguration \/ SetLocal
    <3>1. initialized
      BY <1>1, <2>2 DEF SetThresholds, GetThresholds, WriteConfiguration,
                        WriteIntConfiguration, SetLocal, Online
    <3>2. CASE UNCHANGED config
      BY <1>4, <3>1, <3>2
    <3>3. CASE /\ UNCHANGED <<initialized, dirty, job>>
               /\ Cache!TakesUp(config, config', regs')
      BY <1>1, <3>1, <3>3 DEF Trust
    <3> QED BY <2>2, <3>2, <3>3, SingleTakesUp
  <2> QED BY <1>7, <2>1, <2>2 DEF Settings
<1>8. CASE Transfers
  <2>1. initialized /\ UNCHANGED binding
    BY <1>8 DEF Transfers, WriteRegister16, StartConversion, ReadIntConfiguration,
                TrackedTransfer, Online
  <2> QED BY <1>4, <2>1 DEF binding
<1>9. CASE Jobbing
  <2>1. ~PollWriteCompletes
    BY <1>1, <1>2 DEF PollWriteCompletes, FinishJob
  <2>2. initialized /\ UNCHANGED binding
    BY <1>1, <1>9, <2>1 DEF Jobbing, StartAttach, StartConfigureMeasurement,
       StartResetAndReapply, CancelPollJob, PollStep, PollReadDeviceId, PollWriteReset,
       PollWriteContinues, PollWriteFails
  <2> QED BY <1>4, <2>2 DEF binding
<1>10. CASE Device
  <2>1. initialized /\ UNCHANGED binding
    BY <1>1, <1>10 DEF Device, OneShotCompletes, ResetFromOutside
  <2> QED BY <1>4, <2>1 DEF binding
<1> QED BY <1>5, <1>6, <1>7, <1>8, <1>9, <1>10 DEF Next

\* Every step of the driver is a step of the promise, or changes nothing of it.
LEMMA HonestStep ==
  ASSUME SyncInv, SyncInv', CleanFailures, [Next]_vars
  PROVE  [Cache!Next]_<<Trust, config, regs>>
<1>1. CASE UNCHANGED vars
  BY <1>1 DEF vars, Trust
<1>2. CASE Next
  <2>0. config' \in Configs /\ regs' \in RegisterFiles
    BY DEF SyncInv, IInv, TypeOK
  <2>a. config' \in Cache!Configs /\ regs' \in Cache!RegisterFiles
    BY <2>0 DEF Cache!Configs, Cache!RegisterFiles, Configs, RegisterFiles, StableModes,
                Modes, Cache!StableModes, Cache!Modes
  <2>b. IInv /\ JobPrefixWritten /\ CleanMeansApplied'
    BY DEF SyncInv
  <2>1. Trust' \in {"DOWN", "DOUBTED", "TRUSTED"}
    BY DEF Trust
  <2>2. CASE Trust' = "DOWN"
    BY <2>a, <2>2 DEF Cache!Next, Cache!TakeDown
  <2>3. CASE Trust' = "DOUBTED"
    <3>1. CASE Trust = "TRUSTED"
      <4>1. UNCHANGED config
        BY <1>2, <2>b, <2>3, <3>1, InDoubt
      <4> QED BY <2>a, <2>3, <3>1, <4>1 DEF Cache!Next, Cache!Doubt
    <3>2. CASE Trust = "DOUBTED"
      <4>1. Cache!TakesUp(config, config', regs')
        BY <1>2, <2>b, <2>3, <3>2, InDoubt, KeptCache
      <4> QED BY <2>a, <2>3, <3>2, <4>1 DEF Cache!Next, Cache!Adopt
    <3> QED BY <1>2, <2>b, <2>3, <3>1, <3>2, InDoubt DEF Trust
  <2>4. CASE Trust' = "TRUSTED"
    <3>1. CASE Trust = "TRUSTED"
      <4>1. Holds(regs', config')
        BY <2>b, <2>4 DEF CleanMeansApplied, Synced, Trust
      <4>2. Cache!Holds(regs', config')
        BY <4>1 DEF Holds, Cache!Holds
      <4> QED BY <2>a, <2>4, <3>1, <4>2 DEF Cache!Next, Cache!Change
    <3>2. CASE Trust # "TRUSTED"
      <4>1. regs' = Image(config')
        BY <1>2, <2>b, <2>4, <3>2, TrustByApply
      <4>2. regs' = Cache!Image(config')
        BY <4>1 DEF Image, Cache!Image
      <4> QED BY <2>a, <2>4, <4>2 DEF Cache!Next, Cache!Apply
    <3> QED BY <3>1, <3>2
  <2> QED BY <2>1, <2>2, <2>3, <2>4
<1> QED BY <1>1, <1>2

\* With clean failures the driver implements HonestCache: while its configuration is
\* trusted the device holds it in every state, between the transfers of a job too; in
\* doubt it takes up only what the device holds, and trust comes back with a whole
\* application alone.
THEOREM DriverIsHonest ==
  ASSUME CleanFailures
  PROVE  Spec => CacheIsHonest
<1>1. Init => Cache!Init
  <2> SUFFICES ASSUME Init PROVE Cache!Init
    OBVIOUS
  <2>1. config \in Configs /\ regs \in RegisterFiles /\ ~initialized
    BY InitIInv DEF IInv, TypeOK, Init
  <2> QED BY <2>1 DEF Cache!Init, Trust, Cache!Configs, Cache!RegisterFiles, Configs,
                      RegisterFiles, StableModes, Modes, Cache!StableModes, Cache!Modes
<1>2. SyncInv /\ SyncInv' /\ [Next]_vars => [Cache!Next]_<<Trust, config, regs>>
  BY HonestStep
<1> QED BY <1>1, <1>2, SyncInvariance, PTL DEF Spec, CacheIsHonest, Cache!Spec
=============================================================================
