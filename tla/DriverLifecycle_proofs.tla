------------------------ MODULE DriverLifecycle_proofs ------------------------
(***************************************************************************)
(* Proofs about DriverLifecycle for every choice of register values,       *)
(* status codes and thresholds: first the operators the actions are made   *)
(* of, then the inductive invariant, then what holds whatever failed       *)
(* writes do and whoever resets the device.                                *)
(***************************************************************************)
EXTENDS DriverLifecycle, TLAPS

-----------------------------------------------------------------------------
(* Lemmas about the operators of Registers and Health. *)

\* A failed transfer keeps health in range.
LEMMA FailedType ==
  ASSUME NEW h \in HealthValues, NEW t \in 1 .. MaxFailures
  PROVE  Failed(h, t) \in HealthValues
  BY MaxFailuresAssumption DEF Failed, Bump, HealthValues, DriverStates

\* Any run of successes before one failure keeps health in range.
LEMMA AfterTransfersType ==
  ASSUME NEW h \in HealthValues, NEW t \in 1 .. MaxFailures,
         NEW n \in Nat, NEW st \in TransferErrors
  PROVE  AfterTransfers(h, n, st, t) \in HealthValues
<1>1. Healthy \in HealthValues
  BY MaxFailuresAssumption DEF Healthy, HealthValues, DriverStates
<1>2. Failed(h, t) \in HealthValues /\ Failed(Healthy, t) \in HealthValues
  BY <1>1, FailedType
<1> QED BY <1>1, <1>2 DEF AfterTransfers

\* Closing the OFFLINE latch again keeps health in range.
LEMMA LatchedType ==
  ASSUME NEW h \in HealthValues, NEW t \in 1 .. MaxFailures
  PROVE  Latched(h, t) \in HealthValues
  BY MaxFailuresAssumption DEF Latched, HealthValues, DriverStates

\* The two fixed health values are in range.
LEMMA ConstantHealthTypes == Healthy \in HealthValues /\ Uninitialized \in HealthValues
  BY MaxFailuresAssumption DEF Healthy, Uninitialized, HealthValues, DriverStates

\* Taking the driver down keeps health in range.
LEMMA UninitType ==
  ASSUME NEW h \in HealthValues
  PROVE  [h EXCEPT !.state = "UNINIT"] \in HealthValues
  BY DEF HealthValues, DriverStates

\* Config{} is a configuration.
LEMMA DefaultConfigType == DefaultConfig \in Configs
  BY DefaultsAssumption DEF DefaultConfig, Configs, StableModes

\* The register image of a configuration is a register file.
LEMMA ImageType ==
  ASSUME NEW c \in Configs
  PROVE  Image(c) \in RegisterFiles
  BY DEF Image, Configs, RegisterFiles, Modes, StableModes

\* The reset state is a register file.
LEMMA ResetType == ResetRegisters \in RegisterFiles
  BY ImageType, DefaultConfigType DEF ResetRegisters

\* Every prefix of the four writes yields a register file.
LEMMA WrittenType ==
  ASSUME NEW r \in RegisterFiles, NEW c \in Configs, NEW k \in Nat
  PROVE  Written(r, c, k) \in RegisterFiles
  BY DEF Written, Configs, RegisterFiles, Modes, StableModes

\* A single register write yields a register file.
LEMMA PutTypes ==
  ASSUME NEW r \in RegisterFiles, NEW t \in Thresholds, NEW i \in IntFields,
         NEW b \in BOOLEAN, NEW m \in MeasFields, NEW o \in Modes
  PROVE  /\ PutLow(r, t) \in RegisterFiles
         /\ PutHigh(r, t) \in RegisterFiles
         /\ PutInt(r, i, b) \in RegisterFiles
         /\ PutCfg(r, m, o) \in RegisterFiles
  BY DEF PutLow, PutHigh, PutInt, PutCfg, RegisterFiles

\* The write of a job step yields a register file.
LEMMA StepWriteType ==
  ASSUME NEW r \in RegisterFiles, NEW c \in Configs, NEW step \in WriteSteps
  PROVE  StepWrite(r, c, step) \in RegisterFiles
  BY DEF StepWrite, PutLow, PutHigh, PutInt, PutCfg, RegisterFiles, Configs,
         WriteSteps, Modes, StableModes

\* A failed write leaves one of the two register files.
LEMMA AfterFailedWriteType ==
  ASSUME NEW r \in RegisterFiles, NEW s \in RegisterFiles, NEW st \in TransferErrors
  PROVE  AfterFailedWrite(r, s, st) \subseteq RegisterFiles
  BY DEF AfterFailedWrite

\* Every way to raise the dirty flag yields a dirty record.
LEMMA DirtyTypes ==
  ASSUME NEW d \in DirtyRecords, NEW st \in Statuses, NEW k \in Nat, NEW j \in Jobs
  PROVE  /\ Clean \in DirtyRecords
         /\ MarkDirty(d, st) \in DirtyRecords
         /\ DirtyAfterFailure(d, k, st) \in DirtyRecords
         /\ DirtyAfterCancel(d, j) \in DirtyRecords
         /\ DirtyAfterJobFailure(d, j, st) \in DirtyRecords
<1>1. "OK" \in Statuses /\ "CANCELLED" \in Statuses
  BY DEF Statuses, DriverStatuses
<1>2. Clean \in DirtyRecords
  BY <1>1 DEF Clean, DirtyRecords
<1>3. \A e \in Statuses : MarkDirty(d, e) \in DirtyRecords
  BY DEF MarkDirty, DirtyRecords
<1> QED BY <1>1, <1>2, <1>3 DEF DirtyAfterFailure, DirtyAfterCancel, DirtyAfterJobFailure

\* The idle job is a job.
LEMMA JobTypes == IdleJob \in Jobs
  BY DefaultConfigType DEF IdleJob, Jobs, JobKinds, JobSteps

\* The four writes of an apply that fails leave well-typed state.
LEMMA ApplyFailsType ==
  ASSUME NEW r \in RegisterFiles, NEW c \in Configs, NEW b \in BOOLEAN,
         NEW d \in DirtyRecords, NEW k \in 0 .. 3, NEW st \in TransferErrors,
         ApplyFails(r, c, b, d, k, st)
  PROVE  regs' \in RegisterFiles /\ hwBurstEnabled' \in BOOLEAN /\ dirty' \in DirtyRecords
<1>1. Written(r, c, k) \in RegisterFiles /\ Written(r, c, k + 1) \in RegisterFiles
  BY WrittenType
<1>2. regs' \in RegisterFiles
  BY <1>1, AfterFailedWriteType DEF ApplyFails
<1>3. c.burst \in BOOLEAN
  BY DEF Configs
<1>4. BurstAfterFailure(c, k, b) \in BOOLEAN
  BY <1>3 DEF BurstAfterFailure
<1>5. dirty' \in DirtyRecords
  <2>1. st \in Statuses BY DEF Statuses
  <2>2. MarkDirty(d, st) \in DirtyRecords BY <2>1 DEF MarkDirty, DirtyRecords
  <2> QED BY <2>2 DEF ApplyFails, DirtyAfterFailure
<1> QED BY <1>2, <1>4, <1>5 DEF ApplyFails

\* A complete apply leaves well-typed state.
LEMMA ApplySucceedsType ==
  ASSUME NEW c \in Configs, ApplySucceeds(c)
  PROVE  regs' \in RegisterFiles /\ hwBurstEnabled' \in BOOLEAN /\ dirty' \in DirtyRecords
<1>1. c.burst \in BOOLEAN /\ Clean \in DirtyRecords
  BY DEF Configs, Clean, DirtyRecords, Statuses, DriverStatuses
<1> QED BY <1>1, ImageType DEF ApplySucceeds

-----------------------------------------------------------------------------
(* Types.  The type of the write counter rests on JobShape. *)

\* bind() normalizes a threshold of 0.
LEMMA NormalizedThreshold ==
  \A t \in OfflineThresholds : (IF t = 0 THEN 1 ELSE t) \in 1 .. MaxFailures
  BY ThresholdAssumption, MaxFailuresAssumption

\* A setter asks for a configuration.
LEMMA SettingTargetsType ==
  ASSUME NEW c \in Configs
  PROVE  SettingTargets(c) \subseteq Configs
  BY DEF SettingTargets

\* A raw write of a configuration register yields a register file.
LEMMA RawTargetsType ==
  ASSUME NEW r \in RegisterFiles
  PROVE  RawTargets(r) \subseteq RegisterFiles
<1>1. \A t \in Thresholds : PutLow(r, t) \in RegisterFiles /\ PutHigh(r, t) \in RegisterFiles
  BY DEF PutLow, PutHigh, RegisterFiles
<1>2. \A m \in MeasFields, o \in Modes : PutCfg(r, m, o) \in RegisterFiles
  BY DEF PutCfg, RegisterFiles
<1> QED BY <1>1, <1>2 DEF RawTargets

\* Every action preserves the type invariant.
LEMMA TypeStep ==
  ASSUME TypeOK, JobShape, Next
  PROVE  TypeOK'
<1> USE ThresholdAssumption, MaxFailuresAssumption, DefaultConfigType, JobTypes,
        ConstantHealthTypes
<1>1. CASE \/ Bind \/ BindInvalid \/ Unbind
  <2>1. Clean \in DirtyRecords /\ DirtyAfterCancel(dirty, job) \in DirtyRecords
    BY DirtyTypes DEF TypeOK, Statuses, DriverStatuses
  <2>2. CASE Bind
    BY <2>1, <2>2, NormalizedThreshold DEF Bind, Rebind, FinishJob, TypeOK, PollStatuses
  <2>3. CASE BindInvalid \/ Unbind
    BY <2>1, <2>3 DEF BindInvalid, Unbind, FinishJob, TypeOK, PollStatuses
  <2> QED BY <1>1, <2>2, <2>3
<1>2. CASE BeginFails
  <2>1. PICK c \in Configs, t \in OfflineThresholds, k \in 0 .. 3, st \in TransferErrors :
          /\ Rebind(c, t)
          /\ initialized' = FALSE
          /\ health' = Uninitialized
          /\ ApplyFails(regs, c, FALSE, DirtyAfterCancel(dirty, job), k, st)
    BY <1>2 DEF BeginFails
  <2>2. DirtyAfterCancel(dirty, job) \in DirtyRecords
    BY DirtyTypes DEF TypeOK, Statuses, DriverStatuses
  <2>3. regs' \in RegisterFiles /\ hwBurstEnabled' \in BOOLEAN /\ dirty' \in DirtyRecords
    BY <2>1, <2>2, ApplyFailsType DEF TypeOK
  <2> QED BY <2>1, <2>3, NormalizedThreshold DEF Rebind, FinishJob, TypeOK, PollStatuses
<1>3. CASE BeginSucceeds
  BY <1>3, ApplySucceedsType, NormalizedThreshold
     DEF BeginSucceeds, Rebind, FinishJob, TypeOK, PollStatuses
<1>4. CASE End
  <2>1. PutCfg(regs, config.meas, "POWER_DOWN") \in RegisterFiles
    BY DEF TypeOK, PutCfg, RegisterFiles, Configs, Modes, StableModes
  <2>2. regs' \in RegisterFiles
    BY <1>4, <2>1, AfterFailedWriteType DEF End, TypeOK
  <2>3. DirtyAfterCancel(dirty, job) \in DirtyRecords
    BY DirtyTypes DEF TypeOK, Statuses, DriverStatuses
  <2> QED BY <1>4, <2>2, <2>3, UninitType DEF End, FinishJob, binding, TypeOK, PollStatuses
<1>5. CASE PowerDown
  <2>1. PutCfg(regs, config.meas, "POWER_DOWN") \in RegisterFiles
    BY DEF TypeOK, PutCfg, RegisterFiles, Configs, Modes, StableModes
  <2>2. regs' \in RegisterFiles
    BY <1>5, <2>1, AfterFailedWriteType DEF PowerDown, TypeOK
  <2>3. config' \in Configs
    BY <1>5 DEF PowerDown, TypeOK, Configs, StableModes
  <2>4. health' \in HealthValues
    BY <1>5, AfterTransfersType DEF PowerDown, TypeOK
  <2> QED BY <1>5, <2>2, <2>3, <2>4 DEF PowerDown, polling, TypeOK
<1>6. CASE Recover
  <2>1. \A h \in HealthValues : FailedRecovery(h) \in HealthValues
    BY LatchedType DEF FailedRecovery, TypeOK
  <2>2. health' \in HealthValues
    BY <1>6, <2>1, AfterTransfersType, FailedType DEF Recover, TypeOK
  <2>3. regs' \in RegisterFiles /\ hwBurstEnabled' \in BOOLEAN /\ dirty' \in DirtyRecords
    BY <1>6, ApplyFailsType, ApplySucceedsType DEF Recover, TypeOK
  <2> QED BY <1>6, <2>2, <2>3 DEF Recover, binding, polling, TypeOK
<1>7. CASE SoftReset
  <2>1. regs' \in RegisterFiles /\ health' \in HealthValues
    BY <1>7, ResetType, AfterFailedWriteType, AfterTransfersType
       DEF SoftReset, GeneralCallFails, TypeOK
  <2> QED BY <1>7, <2>1 DEF SoftReset, GeneralCallFails, binding, polling, TypeOK
<1>8. CASE ResetAndReapply
  <2>1. CASE \E st \in TransferErrors : GeneralCallFails(st) /\ UNCHANGED <<initialized, dirty>>
    <3>1. regs' \in RegisterFiles /\ health' \in HealthValues
      BY <2>1, ResetType, AfterFailedWriteType, AfterTransfersType DEF GeneralCallFails, TypeOK
    <3> QED BY <1>8, <2>1, <3>1 DEF ResetAndReapply, GeneralCallFails, binding, polling, TypeOK
  <2>2. ASSUME NEW k \in 0 .. 3, NEW st \in TransferErrors,
               ApplyFails(ResetRegisters, config, FALSE, MarkDirty(dirty, st), k, st),
               initialized' = FALSE,
               health' = [AfterTransfers(health, 1 + k, st, offlineThreshold)
                            EXCEPT !.state = "UNINIT"]
        PROVE  TypeOK'
    <3>1. MarkDirty(dirty, st) \in DirtyRecords
      BY DirtyTypes DEF TypeOK, Statuses
    <3>2. regs' \in RegisterFiles /\ hwBurstEnabled' \in BOOLEAN /\ dirty' \in DirtyRecords
      BY <2>2, <3>1, ResetType, ApplyFailsType DEF TypeOK
    <3>3. health' \in HealthValues
      <4>1. AfterTransfers(health, 1 + k, st, offlineThreshold) \in HealthValues
        BY AfterTransfersType, 1 + k \in Nat DEF TypeOK
      <4> QED BY <2>2, <4>1, UninitType
    <3> QED BY <1>8, <2>2, <3>2, <3>3 DEF ResetAndReapply, binding, polling, TypeOK
  <2>3. CASE ApplySucceeds(config) /\ health' = Healthy /\ UNCHANGED initialized
    BY <1>8, <2>3, ApplySucceedsType DEF ResetAndReapply, binding, polling, TypeOK
  <2> QED BY <1>8, <2>1, <2>2, <2>3 DEF ResetAndReapply
<1>9. CASE ApplySetting
  <2>1. SettingTargets(config) \subseteq Configs
    BY SettingTargetsType DEF TypeOK
  <2>2. config' \in Configs
    BY <1>9, <2>1 DEF ApplySetting, TypeOK
  <2>3. health' \in HealthValues
    BY <1>9, AfterTransfersType DEF ApplySetting, TypeOK
  <2>4. regs' \in RegisterFiles /\ hwBurstEnabled' \in BOOLEAN /\ dirty' \in DirtyRecords
    BY <1>9, <2>1, ApplyFailsType, ApplySucceedsType DEF ApplySetting, TypeOK
  <2> QED BY <1>9, <2>2, <2>3, <2>4 DEF ApplySetting, polling, TypeOK
<1>10. CASE SetThresholds
  <2>1. PICK l \in Thresholds, h \in Thresholds :
          LET lowOnly == PutLow(regs, l)
              both    == PutHigh(lowOnly, h)
          IN  \/ /\ regs' = both
                 /\ config' = [config EXCEPT !.low = l, !.high = h]
                 /\ health' = Healthy
                 /\ UNCHANGED dirty
              \/ \E st \in TransferErrors :
                   /\ regs' \in AfterFailedWrite(regs, lowOnly, st)
                   /\ health' = AfterTransfers(health, 0, st, offlineThreshold)
                   /\ UNCHANGED <<config, dirty>>
              \/ \E st \in TransferErrors :
                   /\ regs' \in AfterFailedWrite(lowOnly, both, st)
                   /\ health' = AfterTransfers(health, 1, st, offlineThreshold)
                   /\ dirty' = MarkDirty(dirty, st)
                   /\ UNCHANGED config
    BY <1>10 DEF SetThresholds
  <2>2. PutLow(regs, l) \in RegisterFiles /\ PutHigh(PutLow(regs, l), h) \in RegisterFiles
    BY DEF TypeOK, PutLow, PutHigh, RegisterFiles
  <2>3. regs' \in RegisterFiles
    BY <2>1, <2>2, AfterFailedWriteType DEF TypeOK
  <2>4. config' \in Configs
    BY <2>1 DEF TypeOK, Configs
  <2>5. health' \in HealthValues
    BY <2>1, AfterTransfersType DEF TypeOK
  <2>6. dirty' \in DirtyRecords
    BY <2>1, DirtyTypes DEF TypeOK, Statuses
  <2> QED BY <1>10, <2>3, <2>4, <2>5, <2>6 DEF SetThresholds, polling, TypeOK
<1>11. CASE GetThresholds
  <2>1. config' \in Configs
    BY <1>11 DEF GetThresholds, TypeOK, Configs, RegisterFiles
  <2>2. health' \in HealthValues
    <3>1. \A n \in 0 .. 1, st \in TransferErrors :
            AfterTransfers(health, n, st, offlineThreshold) \in HealthValues
      BY AfterTransfersType, 0 .. 1 \subseteq Nat DEF TypeOK
    <3> QED BY <1>11, <3>1 DEF GetThresholds
  <2> QED BY <1>11, <2>1, <2>2 DEF GetThresholds, polling, TypeOK
<1>12. CASE WriteConfiguration
  <2>1. \A m \in MeasFields, o \in Modes : PutCfg(regs, m, o) \in RegisterFiles
    BY DEF TypeOK, PutCfg, RegisterFiles
  <2>2. regs' \in RegisterFiles
    BY <1>12, <2>1, AfterFailedWriteType DEF WriteConfiguration, TypeOK
  <2>3. config' \in Configs
    BY <1>12 DEF WriteConfiguration, TypeOK, Configs, Modes, StableModes
  <2>4. health' \in HealthValues
    BY <1>12, AfterTransfersType DEF WriteConfiguration, TypeOK
  <2> QED BY <1>12, <2>2, <2>3, <2>4 DEF WriteConfiguration, polling, TypeOK
<1>13. CASE WriteIntConfiguration
  <2>1. \A i \in IntFields, b \in BOOLEAN : PutInt(regs, i, b) \in RegisterFiles
    BY DEF TypeOK, PutInt, RegisterFiles
  <2>2. regs' \in RegisterFiles
    BY <1>13, <2>1, AfterFailedWriteType DEF WriteIntConfiguration, TypeOK
  <2>3. config' \in Configs
    BY <1>13 DEF WriteIntConfiguration, TypeOK, Configs
  <2>4. health' \in HealthValues
    BY <1>13, AfterTransfersType DEF WriteIntConfiguration, TypeOK
  <2> QED BY <1>13, <2>2, <2>3, <2>4 DEF WriteIntConfiguration, polling, TypeOK
<1>14. CASE SetLocal
  <2>1. config' \in Configs
    BY <1>14 DEF SetLocal, TypeOK, Configs
  <2> QED BY <1>14, <2>1 DEF SetLocal, polling, TypeOK
<1>15. CASE WriteRegister16
  <2>1. RawTargets(regs) \subseteq RegisterFiles
    BY RawTargetsType DEF TypeOK
  <2>2. \A i \in IntFields, b \in BOOLEAN : PutInt(regs, i, b) \in RegisterFiles
    BY DEF TypeOK, PutInt, RegisterFiles
  <2>3. ASSUME NEW after \in RegisterFiles, NEW b \in BOOLEAN, NEW c \in BOOLEAN,
               RawWrite(after, b, c)
        PROVE  /\ regs' \in RegisterFiles /\ health' \in HealthValues
               /\ hwBurstEnabled' \in BOOLEAN /\ dirty' \in DirtyRecords
    <3>1. "OK" \in Statuses /\ TransferErrors \subseteq Statuses
      BY DEF Statuses, DriverStatuses
    <3>2. dirty' \in DirtyRecords
      BY <2>3, <3>1, DirtyTypes DEF RawWrite, TypeOK
    <3>3. regs' \in RegisterFiles /\ health' \in HealthValues
      BY <2>3, AfterFailedWriteType, AfterTransfersType DEF RawWrite, TypeOK
    <3> QED BY <2>3, <3>2, <3>3 DEF RawWrite
  <2>4. hwBurstEnabled \in BOOLEAN
    BY DEF TypeOK
  <2>5. /\ regs' \in RegisterFiles /\ health' \in HealthValues
        /\ hwBurstEnabled' \in BOOLEAN /\ dirty' \in DirtyRecords
    BY <1>15, <2>1, <2>2, <2>3, <2>4 DEF WriteRegister16
  <2> QED BY <1>15, <2>5 DEF WriteRegister16, binding, polling, TypeOK
<1>16. CASE StartConversion
  <2>1. PutCfg(regs, config.meas, "ONE_SHOT") \in RegisterFiles
    BY DEF TypeOK, PutCfg, RegisterFiles, Configs, Modes, StableModes
  <2>2. regs' \in RegisterFiles /\ health' \in HealthValues
    BY <1>16, <2>1, AfterFailedWriteType, AfterTransfersType DEF StartConversion, TypeOK
  <2> QED BY <1>16, <2>2 DEF StartConversion, binding, polling, TypeOK
<1>17. CASE ReadIntConfiguration \/ TrackedTransfer
  <2>1. health' \in HealthValues
    BY <1>17, AfterTransfersType DEF ReadIntConfiguration, TrackedTransfer, TypeOK
  <2>2. hwBurstEnabled' \in BOOLEAN
    BY <1>17 DEF ReadIntConfiguration, TrackedTransfer, TypeOK, RegisterFiles
  <2> QED BY <1>17, <2>1, <2>2 DEF ReadIntConfiguration, TrackedTransfer, binding, polling, TypeOK
<1>18. CASE StartAttach \/ StartConfigureMeasurement \/ StartResetAndReapply
  <2>1. \A kind \in JobKinds, step \in JobSteps, c \in Configs :
          StartedJob(kind, step, c) \in Jobs
    BY DEF StartedJob, Jobs
  <2>2. \A m \in MeasFields, o \in StableModes :
          [config EXCEPT !.meas = m, !.mode = o] \in Configs
    BY DEF TypeOK, Configs
  <2>3. job' \in Jobs
    BY <1>18, <2>1, <2>2
       DEF StartAttach, StartConfigureMeasurement, StartResetAndReapply, StartJob,
           TypeOK, JobKinds, JobSteps, WriteSteps
  <2> QED BY <1>18, <2>3
          DEF StartAttach, StartConfigureMeasurement, StartResetAndReapply, StartJob,
              binding, TypeOK, PollStatuses
<1>19. CASE CancelPollJob
  <2>1. DirtyAfterCancel(dirty, job) \in DirtyRecords
    BY DirtyTypes DEF TypeOK, Statuses, DriverStatuses
  <2>2. health' \in HealthValues /\ initialized' \in BOOLEAN
    BY <1>19, UninitType DEF CancelPollJob, TypeOK
  <2> QED BY <1>19, <2>1, <2>2 DEF CancelPollJob, FinishJob, binding, TypeOK, PollStatuses
<1>20. CASE PollReadDeviceId
  <2>1. job' \in Jobs
    BY <1>20 DEF PollReadDeviceId, FinishJob, TypeOK, Jobs, JobSteps, WriteSteps
  <2> QED BY <1>20, <2>1 DEF PollReadDeviceId, FinishJob, binding, TypeOK, PollStatuses
<1>21. CASE PollWriteReset
  <2>1. job' \in Jobs
    BY <1>21 DEF PollWriteReset, FinishJob, TypeOK, Jobs, JobSteps, WriteSteps
  <2>2. regs' \in RegisterFiles /\ health' \in HealthValues
    BY <1>21, ResetType, AfterFailedWriteType, AfterTransfersType
       DEF PollWriteReset, GeneralCallFails, TypeOK
  <2> QED BY <1>21, <2>1, <2>2
          DEF PollWriteReset, GeneralCallFails, FinishJob, binding, TypeOK, PollStatuses
<1>22. CASE PollWriteContinues
  <2>1. job.step \in WriteSteps /\ job.target \in Configs
    BY <1>22 DEF PollWriteContinues, TypeOK, Jobs
  <2>2. regs' \in RegisterFiles
    BY <1>22, <2>1, StepWriteType DEF PollWriteContinues, TypeOK
  <2>3. job.writesApplied + 1 \in 0 .. 4
    BY <1>22 DEF PollWriteContinues, JobShape, WriteSteps
  <2>4. NextStep(job.step) \in JobSteps
    BY <1>22 DEF PollWriteContinues, NextStep, WriteSteps, JobSteps
  <2>5. job' \in Jobs
    BY <1>22, <2>3, <2>4 DEF PollWriteContinues, TypeOK, Jobs
  <2>6. hwBurstEnabled' \in BOOLEAN
    BY <1>22, <2>1 DEF PollWriteContinues, TypeOK, Configs
  <2> QED BY <1>22, <2>2, <2>5, <2>6 DEF PollWriteContinues, binding, TypeOK
<1>23. CASE PollWriteCompletes
  <2>1. job.step \in WriteSteps /\ job.target \in Configs
    BY <1>23 DEF PollWriteCompletes, TypeOK, Jobs, WriteSteps
  <2>2. regs' \in RegisterFiles
    BY <1>23, <2>1, StepWriteType DEF PollWriteCompletes, TypeOK
  <2>3. Clean \in DirtyRecords
    BY DEF Clean, DirtyRecords, Statuses, DriverStatuses
  <2> QED BY <1>23, <2>1, <2>2, <2>3 DEF PollWriteCompletes, FinishJob, TypeOK, PollStatuses
<1>24. CASE PollWriteFails
  <2>1. job.step \in WriteSteps /\ job.target \in Configs /\ job \in Jobs
    BY <1>24 DEF PollWriteFails, TypeOK, Jobs
  <2>2. StepWrite(regs, job.target, job.step) \in RegisterFiles
    BY <2>1, StepWriteType DEF TypeOK
  <2>3. regs' \in RegisterFiles
    BY <1>24, <2>2, AfterFailedWriteType DEF PollWriteFails, TypeOK
  <2>4. dirty' \in DirtyRecords
    BY <1>24, <2>1, DirtyTypes DEF PollWriteFails, TypeOK, Statuses
  <2>5. job.kind # "NONE"
    BY <2>1 DEF JobShape, IdleJob, WriteSteps
  <2>6. \A st \in TransferErrors :
          /\ AfterTransfers(health, 0, st, offlineThreshold) \in HealthValues
          /\ [AfterTransfers(health, 0, st, offlineThreshold)
                EXCEPT !.state = "UNINIT"] \in HealthValues
    BY AfterTransfersType, UninitType DEF TypeOK
  <2>7. health' \in HealthValues
    BY <1>24, <2>1, <2>5, <2>6 DEF PollWriteFails, TypeOK, Jobs, JobKinds
  <2> QED BY <1>24, <2>3, <2>4, <2>7 DEF PollWriteFails, FinishJob, binding, TypeOK, PollStatuses
<1>25. CASE OneShotCompletes \/ ResetFromOutside
  <2>1. regs' \in RegisterFiles
    BY <1>25, ResetType DEF OneShotCompletes, ResetFromOutside, TypeOK, RegisterFiles,
       Modes, StableModes
  <2> QED BY <1>25, <2>1 DEF OneShotCompletes, ResetFromOutside, binding, polling, TypeOK
<1> QED BY <1>1, <1>2, <1>3, <1>4, <1>5, <1>6, <1>7, <1>8, <1>9, <1>10, <1>11, <1>12,
           <1>13, <1>14, <1>15, <1>16, <1>17, <1>18, <1>19, <1>20, <1>21, <1>22, <1>23,
           <1>24, <1>25
        DEF Next, Lifecycle, Recovery, Settings, Transfers, Jobbing, PollStep, Device

-----------------------------------------------------------------------------
(* The inductive invariant and the theorems that rest on it.  Types need    *)
(* the shape of the job (the write counter is bounded only because it is   *)
(* the position of the step), the shape of the job needs health (a         *)
(* configure job never runs OFFLINE), and health needs types: the three    *)
(* are proved together.                                                    *)

IInv == TypeOK /\ JobShape /\ HealthConsistent

-----------------------------------------------------------------------------
(* Health. *)

\* What HealthConsistent says of health h under threshold t.
Coherent(h, t) ==
  /\ h.state = "READY" => h.failures = 0
  /\ h.state = "DEGRADED" => h.failures \in 1 .. t - 1
  /\ h.state = "OFFLINE" => h.failures >= t

\* A failure leaves coherent health, also when the counter is saturated.
LEMMA FailedCoherent ==
  ASSUME NEW h \in HealthValues, NEW t \in 1 .. MaxFailures
  PROVE  /\ Coherent(Failed(h, t), t)
         /\ Failed(h, t).state \in {"DEGRADED", "OFFLINE"}
  BY MaxFailuresAssumption DEF Failed, Bump, Coherent, HealthValues

\* So does any run of successes before one failure.
LEMMA AfterTransfersCoherent ==
  ASSUME NEW h \in HealthValues, NEW t \in 1 .. MaxFailures, NEW n \in Nat,
         NEW st \in TransferErrors, Coherent(h, t)
  PROVE  /\ Coherent(AfterTransfers(h, n, st, t), t)
         /\ h.state # "UNINIT" => AfterTransfers(h, n, st, t).state # "UNINIT"
<1>1. Coherent(Healthy, t) /\ Healthy.state # "UNINIT"
  BY DEF Coherent, Healthy
<1>2. /\ Coherent(Failed(h, t), t) /\ Failed(h, t).state # "UNINIT"
      /\ Coherent(Failed(Healthy, t), t) /\ Failed(Healthy, t).state # "UNINIT"
  BY FailedCoherent, ConstantHealthTypes
<1> QED BY <1>1, <1>2 DEF AfterTransfers

\* And so does closing the OFFLINE latch again.
LEMMA FailedRecoveryCoherent ==
  ASSUME TypeOK, NEW h \in HealthValues, Coherent(h, offlineThreshold), h.state # "UNINIT"
  PROVE  Coherent(FailedRecovery(h), offlineThreshold) /\ FailedRecovery(h).state # "UNINIT"
  BY MaxFailuresAssumption DEF FailedRecovery, Latched, Coherent, HealthValues, TypeOK

\* A step that keeps the threshold and the lifecycle flag, and moves health by
\* transfers only, keeps health consistent.
LEMMA TransfersKeepHealth ==
  ASSUME TypeOK, HealthConsistent, initialized, UNCHANGED <<initialized, offlineThreshold>>,
         \/ health' = Healthy
         \/ health' = health
         \/ \E n \in Nat, st \in TransferErrors :
              health' = AfterTransfers(health, n, st, offlineThreshold)
  PROVE  HealthConsistent'
<1>1. health \in HealthValues /\ offlineThreshold \in 1 .. MaxFailures
      /\ Coherent(health, offlineThreshold) /\ health.state # "UNINIT"
  BY DEF TypeOK, HealthConsistent, Coherent
<1>2. Coherent(Healthy, offlineThreshold) /\ Healthy.state # "UNINIT"
  BY DEF Coherent, Healthy
<1>3. \A n \in Nat, st \in TransferErrors :
        /\ Coherent(AfterTransfers(health, n, st, offlineThreshold), offlineThreshold)
        /\ AfterTransfers(health, n, st, offlineThreshold).state # "UNINIT"
  BY <1>1, AfterTransfersCoherent
<1>4. Coherent(health', offlineThreshold) /\ health'.state # "UNINIT"
  BY <1>1, <1>2, <1>3
<1> QED BY <1>4 DEF Coherent, HealthConsistent

\* A step that takes the driver down keeps health consistent.
LEMMA DownKeepsHealth ==
  ASSUME initialized' = FALSE, health'.state = "UNINIT"
  PROVE  HealthConsistent'
  BY DEF HealthConsistent

\* A step that brings the driver up healthy keeps health consistent.
LEMMA UpKeepsHealth ==
  ASSUME initialized' = TRUE, health' = Healthy
  PROVE  HealthConsistent'
  BY DEF HealthConsistent, Healthy

\* Every action keeps health consistent.
LEMMA HealthStep ==
  ASSUME IInv, Next
  PROVE  HealthConsistent'
<1> USE DEF IInv
<1>1. CASE Bind \/ BindInvalid \/ Unbind \/ BeginFails
  <2>1. initialized' = FALSE /\ health' = Uninitialized
    BY <1>1 DEF Bind, BindInvalid, Unbind, BeginFails
  <2> QED BY <2>1, DownKeepsHealth DEF Uninitialized
<1>2. CASE BeginSucceeds
  BY <1>2, UpKeepsHealth DEF BeginSucceeds
<1>3. CASE End
  BY <1>3, DownKeepsHealth DEF End, TypeOK, HealthValues
<1>4. CASE PowerDown \/ ApplySetting \/ SetThresholds \/ GetThresholds
  <2>1. initialized /\ UNCHANGED <<initialized, offlineThreshold>>
    BY <1>4 DEF PowerDown, ApplySetting, SetThresholds, GetThresholds, Online
  <2>2. \/ health' = Healthy
        \/ \E n \in 0 .. 3, st \in TransferErrors :
             health' = AfterTransfers(health, n, st, offlineThreshold)
    <3>1. CASE PowerDown
      BY <3>1, 0 \in 0 .. 3 DEF PowerDown
    <3>2. CASE ApplySetting
      BY <3>2 DEF ApplySetting
    <3>3. CASE SetThresholds
      BY <3>3, 0 \in 0 .. 3, 1 \in 0 .. 3 DEF SetThresholds
    <3>4. CASE GetThresholds
      BY <3>4, 0 .. 1 \subseteq 0 .. 3 DEF GetThresholds
    <3> QED BY <1>4, <3>1, <3>2, <3>3, <3>4
  <2>3. 0 .. 3 \subseteq Nat
    OBVIOUS
  <2> QED BY <2>1, <2>2, <2>3, TransfersKeepHealth
<1>5. CASE WriteConfiguration \/ WriteIntConfiguration \/ WriteRegister16 \/ StartConversion
             \/ ReadIntConfiguration \/ TrackedTransfer
  <2>1. initialized /\ UNCHANGED <<initialized, offlineThreshold>>
    BY <1>5 DEF WriteConfiguration, WriteIntConfiguration, WriteRegister16, StartConversion,
                ReadIntConfiguration, TrackedTransfer, Online, binding
  <2>2. \/ health' = Healthy
        \/ \E st \in TransferErrors :
             health' = AfterTransfers(health, 0, st, offlineThreshold)
    BY <1>5 DEF WriteConfiguration, WriteIntConfiguration, WriteRegister16, RawWrite,
                StartConversion, ReadIntConfiguration, TrackedTransfer
  <2>3. 0 \in Nat
    OBVIOUS
  <2> QED BY <2>1, <2>2, <2>3, TransfersKeepHealth
<1>6. CASE Recover
  <2>1. /\ initialized /\ UNCHANGED <<initialized, offlineThreshold>>
        /\ health \in HealthValues /\ offlineThreshold \in 1 .. MaxFailures
        /\ Coherent(health, offlineThreshold) /\ health.state # "UNINIT"
    BY <1>6 DEF Recover, Reachable, binding, TypeOK, HealthConsistent, Coherent
  <2>2. ASSUME NEW n \in Nat, NEW st \in TransferErrors,
               health' = FailedRecovery(AfterTransfers(health, n, st, offlineThreshold))
        PROVE  HealthConsistent'
    <3>1. AfterTransfers(health, n, st, offlineThreshold) \in HealthValues
      BY <2>1, AfterTransfersType
    <3>2. /\ Coherent(AfterTransfers(health, n, st, offlineThreshold), offlineThreshold)
          /\ AfterTransfers(health, n, st, offlineThreshold).state # "UNINIT"
      BY <2>1, AfterTransfersCoherent
    <3>3. Coherent(health', offlineThreshold) /\ health'.state # "UNINIT"
      BY <2>2, <3>1, <3>2, FailedRecoveryCoherent
    <3> QED BY <2>1, <3>3 DEF Coherent, HealthConsistent
  <2>3. ASSUME health' = FailedRecovery(Failed(Healthy, offlineThreshold))
        PROVE  HealthConsistent'
    <3>1. /\ Failed(Healthy, offlineThreshold) \in HealthValues
          /\ Coherent(Failed(Healthy, offlineThreshold), offlineThreshold)
          /\ Failed(Healthy, offlineThreshold).state # "UNINIT"
      BY <2>1, ConstantHealthTypes, FailedType, FailedCoherent
    <3>2. Coherent(health', offlineThreshold) /\ health'.state # "UNINIT"
      BY <2>3, <3>1, FailedRecoveryCoherent
    <3> QED BY <2>1, <3>2 DEF Coherent, HealthConsistent
  <2>4. ASSUME health' = Healthy PROVE HealthConsistent'
    BY <2>1, <2>4, TransfersKeepHealth
  <2>5. 0 \in Nat /\ \A k \in 0 .. 3 : 1 + k \in Nat
    OBVIOUS
  <2> QED BY <1>6, <2>2, <2>3, <2>4, <2>5 DEF Recover
<1>7. CASE SoftReset \/ ResetAndReapply
  <2>1. initialized /\ offlineThreshold' = offlineThreshold
    BY <1>7 DEF SoftReset, ResetAndReapply, Reachable, binding
  <2>2. ASSUME NEW st \in TransferErrors, GeneralCallFails(st), UNCHANGED initialized
        PROVE  HealthConsistent'
    BY <2>1, <2>2, 0 \in Nat, TransfersKeepHealth DEF GeneralCallFails
  <2>3. CASE SoftReset
    <3>1. CASE \E st \in TransferErrors : GeneralCallFails(st) /\ UNCHANGED initialized
      BY <2>2, <3>1
    <3>2. CASE initialized' = FALSE /\ health' = Uninitialized
      BY <3>2, DownKeepsHealth DEF Uninitialized
    <3> QED BY <2>3, <3>1, <3>2 DEF SoftReset
  <2>4. ASSUME NEW k \in 0 .. 3, NEW st \in TransferErrors, initialized' = FALSE,
               health' = [AfterTransfers(health, 1 + k, st, offlineThreshold)
                            EXCEPT !.state = "UNINIT"]
        PROVE  HealthConsistent'
    <3>1. AfterTransfers(health, 1 + k, st, offlineThreshold) \in HealthValues
      BY AfterTransfersType, 1 + k \in Nat DEF TypeOK
    <3> QED BY <2>4, <3>1, DownKeepsHealth DEF HealthValues
  <2>5. CASE ResetAndReapply
    BY <2>1, <2>2, <2>4, <2>5, UpKeepsHealth DEF ResetAndReapply
  <2> QED BY <1>7, <2>3, <2>5
<1>8. CASE SetLocal \/ StartAttach \/ StartConfigureMeasurement \/ StartResetAndReapply
             \/ PollReadDeviceId \/ OneShotCompletes \/ ResetFromOutside
  <2>1. UNCHANGED <<initialized, health, offlineThreshold>>
    BY <1>8 DEF SetLocal, StartAttach, StartConfigureMeasurement, StartResetAndReapply,
                PollReadDeviceId, OneShotCompletes, ResetFromOutside, binding
  <2> QED BY <2>1 DEF HealthConsistent
<1>9. CASE CancelPollJob
  BY <1>9, DownKeepsHealth DEF CancelPollJob, binding, TypeOK, HealthValues, HealthConsistent
<1>10. CASE PollWriteReset
  <2>1. initialized /\ UNCHANGED <<initialized, offlineThreshold>>
    BY <1>10 DEF PollWriteReset, JobShape, IdleJob, binding, TypeOK, Jobs, JobKinds, WriteSteps
  <2> QED BY <1>10, <2>1, 0 \in Nat, TransfersKeepHealth DEF PollWriteReset, GeneralCallFails
<1>11. CASE PollWriteContinues
  <2>1. UNCHANGED <<initialized, offlineThreshold>>
    BY <1>11 DEF PollWriteContinues, binding
  <2>2. CASE initialized
    BY <1>11, <2>1, <2>2, TransfersKeepHealth DEF PollWriteContinues
  <2>3. CASE ~initialized
    BY <1>11, <2>1, <2>3 DEF PollWriteContinues, HealthConsistent
  <2> QED BY <2>2, <2>3
<1>12. CASE PollWriteCompletes
  BY <1>12, UpKeepsHealth DEF PollWriteCompletes
<1>13. CASE PollWriteFails
  <2>1. PICK st \in TransferErrors :
          health' =
            LET after == AfterTransfers(health, 0, st, offlineThreshold)
            IN  CASE job.kind = "ATTACH" -> health
                  [] job.kind = "CONFIGURE_MEASUREMENT" -> after
                  [] job.kind = "RESET_AND_REAPPLY" -> [after EXCEPT !.state = "UNINIT"]
    BY <1>13 DEF PollWriteFails
  <2>2. /\ offlineThreshold' = offlineThreshold
        /\ initialized' = (initialized /\ job.kind # "RESET_AND_REAPPLY")
    BY <1>13 DEF PollWriteFails, binding
  <2>3. job.kind \in {"ATTACH", "CONFIGURE_MEASUREMENT", "RESET_AND_REAPPLY"}
    BY <1>13 DEF PollWriteFails, JobShape, IdleJob, TypeOK, Jobs, JobKinds, WriteSteps
  <2>4. CASE job.kind = "ATTACH"
    BY <2>1, <2>2, <2>4 DEF JobShape, HealthConsistent, TypeOK
  <2>5. CASE job.kind = "CONFIGURE_MEASUREMENT"
    <3>1. initialized /\ initialized' = initialized
      BY <2>2, <2>5 DEF JobShape, TypeOK
    <3>2. health' = AfterTransfers(health, 0, st, offlineThreshold)
      BY <2>1, <2>5
    <3> QED BY <2>2, <3>1, <3>2, 0 \in Nat, TransfersKeepHealth
  <2>6. CASE job.kind = "RESET_AND_REAPPLY"
    <3>1. AfterTransfers(health, 0, st, offlineThreshold) \in HealthValues
      BY AfterTransfersType, 0 \in Nat DEF TypeOK
    <3>2. health'.state = "UNINIT"
      BY <2>1, <2>6, <3>1 DEF HealthValues
    <3> QED BY <2>2, <2>6, <3>2, DownKeepsHealth
  <2> QED BY <2>3, <2>4, <2>5, <2>6
<1> QED BY <1>1, <1>2, <1>3, <1>4, <1>5, <1>6, <1>7, <1>8, <1>9, <1>10, <1>11, <1>12, <1>13
        DEF Next, Lifecycle, Recovery, Settings, Transfers, Jobbing, PollStep, Device

-----------------------------------------------------------------------------
(* The shape of the job. *)

\* No job is active after the step.
LEMMA IdleKeepsShape ==
  ASSUME job' = IdleJob
  PROVE  JobShape'
  BY DEF JobShape, IdleJob

\* A call that the gates let through finds no job and leaves none.
LEMMA NoJobKeepsShape ==
  ASSUME JobShape, job.kind = "NONE", UNCHANGED job
  PROVE  JobShape'
  BY IdleKeepsShape DEF JobShape

\* Every action keeps the shape of the job.
LEMMA JobShapeStep ==
  ASSUME IInv, Next
  PROVE  JobShape'
<1> USE DEF IInv
<1>1. CASE \/ Bind \/ BindInvalid \/ Unbind \/ BeginFails \/ BeginSucceeds \/ End
           \/ CancelPollJob \/ PollWriteCompletes \/ PollWriteFails
  <2>1. job' = IdleJob
    BY <1>1 DEF Bind, BindInvalid, Unbind, BeginFails, BeginSucceeds, End, CancelPollJob,
                PollWriteCompletes, PollWriteFails, Rebind, FinishJob
  <2> QED BY <2>1, IdleKeepsShape
<1>2. CASE \/ PowerDown \/ Recovery \/ Settings \/ Transfers
  <2>1. job.kind = "NONE" /\ UNCHANGED job
    BY <1>2 DEF PowerDown, Recovery, Recover, SoftReset, ResetAndReapply, Settings,
                ApplySetting, SetThresholds, GetThresholds, WriteConfiguration,
                WriteIntConfiguration, SetLocal, Transfers, WriteRegister16,
                StartConversion, ReadIntConfiguration, TrackedTransfer, Online,
                Reachable, polling
  <2> QED BY <2>1, NoJobKeepsShape
<1>3. CASE StartAttach
  BY <1>3 DEF StartAttach, StartJob, StartedJob, JobShape, binding, WriteSteps
<1>4. CASE StartConfigureMeasurement
  <2>1. PICK m \in MeasFields, o \in StableModes :
          StartJob("CONFIGURE_MEASUREMENT", "WRITE_THRESHOLD_L",
                   [config EXCEPT !.meas = m, !.mode = o])
    BY <1>4 DEF StartConfigureMeasurement
  <2>2. /\ job'.kind = "CONFIGURE_MEASUREMENT" /\ job'.step = "WRITE_THRESHOLD_L"
        /\ job'.writesApplied = 0 /\ job'.resetApplied = FALSE
    BY <2>1 DEF StartJob, StartedJob
  <2>3. initialized /\ UNCHANGED initialized
    BY <1>4 DEF StartConfigureMeasurement, Online
  <2>4. health.state # "OFFLINE" /\ UNCHANGED health
    BY <1>4 DEF StartConfigureMeasurement, Online
  <2> QED BY <2>2, <2>3, <2>4 DEF JobShape, WriteSteps
<1>5. CASE StartResetAndReapply
  BY <1>5 DEF StartResetAndReapply, StartJob, StartedJob, JobShape, Reachable, WriteSteps
<1>6. CASE PollReadDeviceId
  <2>1. CASE job' = IdleJob
    BY <2>1, IdleKeepsShape
  <2>2. CASE job' = [job EXCEPT !.step = "WRITE_THRESHOLD_L"]
    BY <1>6, <2>2 DEF PollReadDeviceId, JobShape, IdleJob, binding, TypeOK, Jobs, WriteSteps
  <2> QED BY <1>6, <2>1, <2>2 DEF PollReadDeviceId, FinishJob
<1>7. CASE PollWriteReset
  <2>1. CASE job' = IdleJob
    BY <2>1, IdleKeepsShape
  <2>2. CASE job' = [job EXCEPT !.step = "WRITE_THRESHOLD_L", !.resetApplied = TRUE]
    BY <1>7, <2>2 DEF PollWriteReset, JobShape, IdleJob, binding, TypeOK, Jobs, WriteSteps
  <2> QED BY <1>7, <2>1, <2>2 DEF PollWriteReset, FinishJob
<1>8. CASE PollWriteContinues
  <2>1. /\ job.step \in {"WRITE_THRESHOLD_L", "WRITE_THRESHOLD_H", "WRITE_INT_CONFIG"}
        /\ job' = [job EXCEPT !.step = NextStep(job.step), !.writesApplied = @ + 1]
        /\ UNCHANGED <<bound, initialized>>
        /\ health' = IF initialized THEN Healthy ELSE health
    BY <1>8 DEF PollWriteContinues, binding, WriteSteps
  <2>2. NextStep(job.step) = CASE job.step = "WRITE_THRESHOLD_L" -> "WRITE_THRESHOLD_H"
                               [] job.step = "WRITE_THRESHOLD_H" -> "WRITE_INT_CONFIG"
                               [] job.step = "WRITE_INT_CONFIG"  -> "WRITE_CONFIG"
    BY DEF NextStep
  <2>3. /\ job'.kind = job.kind /\ job'.resetApplied = job.resetApplied
        /\ job'.step = NextStep(job.step) /\ job'.writesApplied = job.writesApplied + 1
    BY <2>1 DEF TypeOK, Jobs
  <2>4. job.kind # "NONE"
    BY <2>1 DEF JobShape, IdleJob
  <2>5. job'.writesApplied = CASE job'.step = "WRITE_THRESHOLD_H" -> 1
                               [] job'.step = "WRITE_INT_CONFIG"  -> 2
                               [] job'.step = "WRITE_CONFIG"      -> 3
                               [] OTHER -> 0
    BY <2>1, <2>2, <2>3 DEF JobShape
  <2>6. job'.step \in {"WRITE_THRESHOLD_H", "WRITE_INT_CONFIG", "WRITE_CONFIG"}
    BY <2>1, <2>2, <2>3
  <2>7. Healthy.state # "OFFLINE"
    BY DEF Healthy
  <2>8. CASE job.kind = "ATTACH"
    BY <2>1, <2>3, <2>5, <2>6, <2>8 DEF JobShape, WriteSteps
  <2>9. CASE job.kind = "CONFIGURE_MEASUREMENT"
    BY <2>1, <2>3, <2>5, <2>6, <2>7, <2>9 DEF JobShape, WriteSteps
  <2>10. CASE job.kind = "RESET_AND_REAPPLY"
    BY <2>1, <2>3, <2>5, <2>6, <2>10 DEF JobShape, WriteSteps
  <2> QED BY <2>4, <2>8, <2>9, <2>10 DEF TypeOK, Jobs, JobKinds
<1>9. CASE Device
  <2>1. UNCHANGED <<bound, initialized, health, job>>
    BY <1>9 DEF Device, OneShotCompletes, ResetFromOutside, binding, polling
  <2> QED BY <2>1 DEF JobShape
<1> QED BY <1>1, <1>2, <1>3, <1>4, <1>5, <1>6, <1>7, <1>8, <1>9
        DEF Next, Lifecycle, Jobbing, PollStep

-----------------------------------------------------------------------------
(* The three invariants. *)

\* A constructed driver satisfies the inductive invariant.
LEMMA InitIInv == Init => IInv
<1> SUFFICES ASSUME Init PROVE IInv
  OBVIOUS
<1>1. TypeOK
  BY DefaultConfigType, JobTypes, ConstantHealthTypes, ThresholdAssumption
     DEF Init, TypeOK, Clean, DirtyRecords, Statuses, DriverStatuses, PollStatuses
<1>2. JobShape
  BY DEF Init, JobShape, IdleJob
<1>3. HealthConsistent
  BY DEF Init, HealthConsistent, Uninitialized
<1> QED BY <1>1, <1>2, <1>3 DEF IInv

\* Every step, and every stutter, preserves it.
LEMMA NextIInv == IInv /\ [Next]_vars => IInv'
<1> SUFFICES ASSUME IInv, [Next]_vars PROVE IInv'
  OBVIOUS
<1>1. CASE Next
  BY <1>1, TypeStep, JobShapeStep, HealthStep DEF IInv
<1>2. CASE UNCHANGED vars
  BY <1>2 DEF vars, IInv, TypeOK, JobShape, HealthConsistent
<1> QED BY <1>1, <1>2

\* The inductive invariant holds in every behaviour, for every choice of register
\* values, status codes, thresholds and of what a failed write may do.
THEOREM Invariance == Spec => []IInv
  BY InitIInv, NextIInv, PTL DEF Spec

\* The driver's state is well typed: in particular the write counter of a poll job
\* never runs past its four writes and the failure counter stays in its byte.
THEOREM TypeCorrect == Spec => []TypeOK
<1>1. IInv => TypeOK
  BY DEF IInv
<1> QED BY <1>1, Invariance, PTL

\* A poll job's kind, step and counters fit together and fit the lifecycle,
\* whatever calls run between two polls.
THEOREM JobShapeInvariant == Spec => []JobShape
<1>1. IInv => JobShape
  BY DEF IInv
<1> QED BY <1>1, Invariance, PTL

\* Lifecycle flag, driver state and failure counter are consistent, for every
\* counter width and every offline threshold up to its maximum.
THEOREM HealthInvariant == Spec => []HealthConsistent
<1>1. IInv => HealthConsistent
  BY DEF IInv
<1> QED BY <1>1, Invariance, PTL

-----------------------------------------------------------------------------
(* What failed writes and resets from outside cannot break: the driver      *)
(* never believes in a burst framing that the device does not have, the    *)
(* first cause of a dirty configuration is kept, and OFFLINE is left only  *)
(* by a whole application, by a reset or downwards.                        *)

-----------------------------------------------------------------------------
(* Burst framing. *)

\* A driver that believes in no burst is safe.
LEMMA NoBurst ==
  ASSUME hwBurstEnabled' = FALSE
  PROVE  BurstFramingSafe'
  BY DEF BurstFramingSafe

\* A failed apply is framing-safe: the belief changes with the third write.
LEMMA ApplyFailsFraming ==
  ASSUME NEW r \in RegisterFiles, NEW c \in Configs, NEW b \in BOOLEAN,
         NEW d \in DirtyRecords, NEW k \in 0 .. 3, NEW st \in TransferErrors,
         ApplyFails(r, c, b, d, k, st), b => r.burst
  PROVE  BurstFramingSafe'
<1>1. regs' \in {Written(r, c, k), Written(r, c, k + 1)}
  BY DEF ApplyFails, AfterFailedWrite
<1>2. hwBurstEnabled' = IF k < 2 THEN b ELSE k # 2 /\ c.burst
  BY DEF ApplyFails, BurstAfterFailure
<1>0. c.burst \in BOOLEAN
  BY DEF Configs
<1>3. CASE k < 2
  BY <1>1, <1>2, <1>3 DEF Written, BurstFramingSafe
<1>4. CASE k = 2
  <2>1. BurstAfterFailure(c, k, b) = FALSE
    BY <1>4 DEF BurstAfterFailure
  <2> QED BY <2>1, NoBurst DEF ApplyFails
<1>5. CASE k = 3
  <2>1. hwBurstEnabled' = c.burst
    BY <1>0, <1>2, <1>5
  <2>2. regs'.burst = c.burst
    BY <1>1, <1>5 DEF Written
  <2> QED BY <2>1, <2>2 DEF BurstFramingSafe
<1> QED BY <1>3, <1>4, <1>5

\* A successful apply programs the framing it believes in.
LEMMA ApplySucceedsFraming ==
  ASSUME NEW c \in Configs, ApplySucceeds(c)
  PROVE  BurstFramingSafe'
  BY DEF ApplySucceeds, Image, BurstFramingSafe

\* Writes of other registers, failed or not, leave the framing alone.
LEMMA SameFraming ==
  ASSUME BurstFramingSafe, UNCHANGED hwBurstEnabled, regs'.burst = regs.burst
  PROVE  BurstFramingSafe'
  BY DEF BurstFramingSafe

\* The reset state auto-increments.
LEMMA ResetFraming == ResetRegisters.burst = TRUE
  BY DEF ResetRegisters, Image, DefaultConfig

\* Every action preserves the framing invariant.
LEMMA FramingStep ==
  ASSUME IInv, BurstFramingSafe, Next
  PROVE  BurstFramingSafe'
<1> USE DEF IInv
<1>0. /\ regs \in RegisterFiles /\ config \in Configs /\ hwBurstEnabled \in BOOLEAN
      /\ dirty \in DirtyRecords /\ job \in Jobs
  BY DEF TypeOK
<1>1. CASE Bind \/ BindInvalid \/ Unbind \/ SoftReset \/ PollWriteReset
  <2>1. CASE hwBurstEnabled' = FALSE
    BY <2>1, NoBurst
  <2> QED BY <1>1, <2>1 DEF Bind, BindInvalid, Unbind, SoftReset, PollWriteReset,
                            GeneralCallFails
<1>2. CASE BeginFails
  <2>1. DirtyAfterCancel(dirty, job) \in DirtyRecords
    BY <1>0, DirtyTypes DEF Statuses, DriverStatuses
  <2> QED BY <1>0, <1>2, <2>1, ApplyFailsFraming DEF BeginFails
<1>3. CASE BeginSucceeds
  BY <1>3, ApplySucceedsFraming DEF BeginSucceeds
<1>4. CASE End \/ PowerDown \/ StartConversion
  <2>1. \A o : PutCfg(regs, config.meas, o).burst = regs.burst
    BY <1>0 DEF PutCfg, RegisterFiles
  <2>2. regs'.burst = regs.burst
    BY <1>4, <2>1 DEF End, PowerDown, StartConversion, AfterFailedWrite
  <2>3. UNCHANGED hwBurstEnabled
    BY <1>4 DEF End, PowerDown, StartConversion
  <2> QED BY <2>2, <2>3, SameFraming
<1>5. CASE Recover
  BY <1>0, <1>5, ApplyFailsFraming, ApplySucceedsFraming, SameFraming
     DEF Recover, BurstFramingSafe
<1>6. CASE ResetAndReapply
  <2>1. ASSUME NEW k \in 0 .. 3, NEW st \in TransferErrors,
               ApplyFails(ResetRegisters, config, FALSE, MarkDirty(dirty, st), k, st)
        PROVE  BurstFramingSafe'
    <3>1. MarkDirty(dirty, st) \in DirtyRecords
      BY <1>0, DirtyTypes DEF Statuses
    <3> QED BY <1>0, <2>1, <3>1, ResetType, ApplyFailsFraming
  <2>2. CASE \E st \in TransferErrors : GeneralCallFails(st)
    BY <2>2, NoBurst DEF GeneralCallFails
  <2>3. CASE ApplySucceeds(config)
    BY <1>0, <2>3, ApplySucceedsFraming
  <2> QED BY <1>6, <2>1, <2>2, <2>3 DEF ResetAndReapply
<1>7. CASE ApplySetting
  <2>1. SettingTargets(config) \subseteq Configs
    BY <1>0, SettingTargetsType
  <2> QED BY <1>0, <1>7, <2>1, ApplyFailsFraming, ApplySucceedsFraming
          DEF ApplySetting, BurstFramingSafe
<1>8. CASE SetThresholds
  <2>1. \A l, h \in Thresholds : /\ PutLow(regs, l).burst = regs.burst
                                 /\ PutHigh(PutLow(regs, l), h).burst = regs.burst
    BY <1>0 DEF PutLow, PutHigh, RegisterFiles
  <2>2. regs'.burst = regs.burst
    BY <1>8, <2>1 DEF SetThresholds, AfterFailedWrite
  <2>3. UNCHANGED hwBurstEnabled
    BY <1>8 DEF SetThresholds
  <2> QED BY <2>2, <2>3, SameFraming
<1>9. CASE WriteConfiguration
  <2>1. \A m \in MeasFields, o \in Modes : PutCfg(regs, m, o).burst = regs.burst
    BY <1>0 DEF PutCfg, RegisterFiles
  <2>2. regs'.burst = regs.burst
    BY <1>9, <2>1 DEF WriteConfiguration, AfterFailedWrite
  <2>3. UNCHANGED hwBurstEnabled
    BY <1>9 DEF WriteConfiguration
  <2> QED BY <2>2, <2>3, SameFraming
<1>10. CASE WriteIntConfiguration
  <2>1. \A i \in IntFields, b \in BOOLEAN : PutInt(regs, i, b).burst = b
    BY <1>0 DEF PutInt, RegisterFiles
  <2> QED BY <1>10, <2>1 DEF WriteIntConfiguration, BurstFramingSafe
<1>11. CASE WriteRegister16
  <2>1. \A i \in IntFields, b \in BOOLEAN : PutInt(regs, i, b).burst = b
    BY <1>0 DEF PutInt, RegisterFiles
  <2>2. \A after \in RawTargets(regs) : after.burst = regs.burst
    <3>1. \A t \in Thresholds : /\ PutLow(regs, t).burst = regs.burst
                               /\ PutHigh(regs, t).burst = regs.burst
      BY <1>0 DEF PutLow, PutHigh, RegisterFiles
    <3>2. \A m \in MeasFields, o \in Modes : PutCfg(regs, m, o).burst = regs.burst
      BY <1>0 DEF PutCfg, RegisterFiles
    <3> QED BY <3>1, <3>2 DEF RawTargets
  <2>3. ASSUME NEW after \in RawTargets(regs),
               RawWrite(after, hwBurstEnabled, hwBurstEnabled)
        PROVE  BurstFramingSafe'
    <3>1. regs'.burst = regs.burst /\ UNCHANGED hwBurstEnabled
      BY <2>2, <2>3 DEF RawWrite, AfterFailedWrite
    <3> QED BY <3>1, SameFraming
  <2>4. ASSUME NEW i \in IntFields, NEW b \in BOOLEAN,
               RawWrite(PutInt(regs, i, b), b, FALSE)
        PROVE  BurstFramingSafe'
    BY <2>1, <2>4 DEF RawWrite, BurstFramingSafe
  <2> QED BY <1>11, <2>3, <2>4 DEF WriteRegister16
<1>12. CASE ReadIntConfiguration
  BY <1>12 DEF ReadIntConfiguration, BurstFramingSafe
<1>13. CASE \/ GetThresholds \/ SetLocal \/ TrackedTransfer \/ StartAttach
            \/ StartConfigureMeasurement \/ StartResetAndReapply \/ CancelPollJob
            \/ PollReadDeviceId
  <2>1. UNCHANGED <<hwBurstEnabled, regs>>
    BY <1>13 DEF GetThresholds, SetLocal, TrackedTransfer, StartAttach,
                 StartConfigureMeasurement, StartResetAndReapply, CancelPollJob,
                 PollReadDeviceId
  <2> QED BY <2>1, SameFraming
<1>14. CASE PollWriteContinues \/ PollWriteCompletes \/ PollWriteFails
  <2>1. /\ job.step \in WriteSteps
        /\ job.step # "WRITE_INT_CONFIG" =>
             StepWrite(regs, job.target, job.step).burst = regs.burst
        /\ job.step = "WRITE_INT_CONFIG" =>
             StepWrite(regs, job.target, job.step).burst = job.target.burst
    BY <1>0, <1>14 DEF PollWriteContinues, PollWriteCompletes, PollWriteFails, StepWrite,
         PutLow, PutHigh, PutInt, PutCfg, RegisterFiles, WriteSteps
  <2>2. CASE PollWriteContinues
    BY <2>1, <2>2 DEF PollWriteContinues, BurstFramingSafe
  <2>3. CASE PollWriteCompletes
    BY <2>1, <2>3 DEF PollWriteCompletes, BurstFramingSafe
  <2>4. CASE PollWriteFails
    BY <2>1, <2>4 DEF PollWriteFails, AfterFailedWrite, BurstFramingSafe
  <2> QED BY <1>14, <2>2, <2>3, <2>4
<1>15. CASE OneShotCompletes
  BY <1>0, <1>15 DEF OneShotCompletes, BurstFramingSafe, RegisterFiles
<1>16. CASE ResetFromOutside
  BY <1>16, ResetFraming DEF ResetFromOutside, BurstFramingSafe
<1> QED BY <1>1, <1>2, <1>3, <1>4, <1>5, <1>6, <1>7, <1>8, <1>9, <1>10, <1>11, <1>12,
           <1>13, <1>14, <1>15, <1>16
        DEF Next, Lifecycle, Recovery, Settings, Transfers, Jobbing, PollStep, Device

\* The driver never frames a transfer as a burst while the device's I2C_BURST bit is
\* clear: for every register value, whether or not failed writes land, and with the
\* device reset behind the driver's back at any point.
THEOREM FramingInvariant == Spec => []BurstFramingSafe
<1>1. Init => BurstFramingSafe
  BY DEF Init, BurstFramingSafe
<1>2. IInv /\ BurstFramingSafe /\ [Next]_vars => BurstFramingSafe'
  BY FramingStep DEF vars, BurstFramingSafe
<1> QED BY <1>1, <1>2, Invariance, PTL DEF Spec

-----------------------------------------------------------------------------
(* The first cause of a dirty configuration. *)

\* What an action may do to a dirty record.
KeepsCause(d, e) == d.set /\ e.set => e = d

\* Marking a record keeps the cause it has, and so does clearing it.
LEMMA MarkKeepsCause ==
  ASSUME NEW d \in DirtyRecords, NEW k, NEW j, NEW st, NEW err
  PROVE  /\ KeepsCause(d, d) /\ KeepsCause(d, Clean)
         /\ KeepsCause(d, MarkDirty(d, st))
         /\ KeepsCause(d, DirtyAfterFailure(d, k, st))
         /\ KeepsCause(d, DirtyAfterFailure(MarkDirty(d, st), k, err))
         /\ KeepsCause(d, DirtyAfterCancel(d, j))
         /\ KeepsCause(d, DirtyAfterFailure(DirtyAfterCancel(d, j), k, st))
         /\ KeepsCause(d, DirtyAfterJobFailure(d, j, st))
  BY DEF KeepsCause, Clean, MarkDirty, DirtyAfterFailure, DirtyAfterCancel,
         DirtyAfterJobFailure, DirtyRecords

\* The record of the first cause survives every action that leaves the
\* configuration dirty.
LEMMA CauseStep ==
  ASSUME IInv, Next
  PROVE  KeepsCause(dirty, dirty')
<1>0. dirty \in DirtyRecords
  BY DEF IInv, TypeOK
<1> USE <1>0, MarkKeepsCause
<1>1. CASE Lifecycle
  BY <1>1 DEF Lifecycle, Bind, BindInvalid, Unbind, BeginFails, BeginSucceeds, End,
              PowerDown, ApplyFails, ApplySucceeds
<1>2. CASE Recovery
  <2>1. CASE Recover
    BY <2>1 DEF Recover, ApplyFails, ApplySucceeds
  <2>2. CASE SoftReset
    BY <2>2 DEF SoftReset
  <2>3. CASE ResetAndReapply
    <3>1. ASSUME NEW k \in 0 .. 3, NEW st \in TransferErrors,
                 ApplyFails(ResetRegisters, config, FALSE, MarkDirty(dirty, st), k, st)
          PROVE  KeepsCause(dirty, dirty')
      <4>1. dirty' = DirtyAfterFailure(MarkDirty(dirty, st), k, st)
        BY <3>1 DEF ApplyFails
      <4> QED BY <4>1
    <3>2. CASE UNCHANGED dirty
      BY <3>2
    <3>3. CASE ApplySucceeds(config)
      BY <3>3 DEF ApplySucceeds
    <3> QED BY <2>3, <3>1, <3>2, <3>3 DEF ResetAndReapply
  <2> QED BY <1>2, <2>1, <2>2, <2>3 DEF Recovery
<1>3. CASE Settings
  BY <1>3 DEF Settings, ApplySetting, SetThresholds, GetThresholds, WriteConfiguration,
              WriteIntConfiguration, SetLocal, ApplyFails, ApplySucceeds
<1>4. CASE Transfers
  BY <1>4 DEF Transfers, WriteRegister16, RawWrite, StartConversion,
              ReadIntConfiguration, TrackedTransfer
<1>5. CASE Jobbing
  <2>1. CASE StartAttach \/ StartConfigureMeasurement \/ StartResetAndReapply
    BY <2>1 DEF StartAttach, StartConfigureMeasurement, StartResetAndReapply
  <2>2. CASE CancelPollJob
    BY <2>2 DEF CancelPollJob
  <2>3. CASE PollReadDeviceId \/ PollWriteReset \/ PollWriteContinues
    BY <2>3 DEF PollReadDeviceId, PollWriteReset, PollWriteContinues
  <2>4. CASE PollWriteCompletes
    BY <2>4 DEF PollWriteCompletes
  <2>5. CASE PollWriteFails
    BY <2>5 DEF PollWriteFails
  <2> QED BY <1>5, <2>1, <2>2, <2>3, <2>4, <2>5 DEF Jobbing, PollStep
<1>6. CASE Device
  BY <1>6 DEF Device, OneShotCompletes, ResetFromOutside
<1> QED BY <1>1, <1>2, <1>3, <1>4, <1>5, <1>6 DEF Next

\* While the configuration stays dirty, the status that first made it so is the one
\* the driver reports, through any sequence of failures, jobs, cancellations, binds,
\* resets and raw writes.
THEOREM RootCause == Spec => RootCauseKept
<1>1. IInv /\ [Next]_vars => [dirty.set /\ dirty'.set => dirty' = dirty]_vars
  BY CauseStep DEF KeepsCause
<1> QED BY <1>1, Invariance, PTL DEF Spec, RootCauseKept

-----------------------------------------------------------------------------
(* The OFFLINE latch. *)

\* A job that has reset the device runs on a driver that its reset brought back, and
\* nothing may take that driver OFFLINE before the job ends: its last write, which
\* declares the driver healthy, never finds the latch closed.
ResetJobOnline == job.resetApplied => health.state # "OFFLINE"

\* A job that starts, ends or is idle has not reset the device.
LEMMA NoResetOnline ==
  ASSUME job'.resetApplied = FALSE
  PROVE  ResetJobOnline'
  BY DEF ResetJobOnline

\* Every action keeps it.
LEMMA ResetJobStep ==
  ASSUME IInv, ResetJobOnline, Next
  PROVE  ResetJobOnline'
<1> USE DEF IInv
<1>0. job \in Jobs /\ IdleJob.resetApplied = FALSE /\ Healthy.state # "OFFLINE"
  BY DEF TypeOK, IdleJob, Healthy
<1>1. CASE \/ Bind \/ BindInvalid \/ Unbind \/ BeginFails \/ BeginSucceeds \/ End
           \/ CancelPollJob \/ PollWriteCompletes \/ PollWriteFails
  <2>1. job' = IdleJob
    BY <1>1 DEF Bind, BindInvalid, Unbind, BeginFails, BeginSucceeds, End, CancelPollJob,
                PollWriteCompletes, PollWriteFails, Rebind, FinishJob
  <2> QED BY <1>0, <2>1, NoResetOnline
<1>2. CASE PowerDown \/ Recovery \/ Settings \/ Transfers
  <2>1. job.kind = "NONE" /\ UNCHANGED job
    BY <1>2 DEF PowerDown, Recovery, Recover, SoftReset, ResetAndReapply, Settings,
                ApplySetting, SetThresholds, GetThresholds, WriteConfiguration,
                WriteIntConfiguration, SetLocal, Transfers, WriteRegister16,
                StartConversion, ReadIntConfiguration, TrackedTransfer, Online,
                Reachable, polling
  <2>2. job' = IdleJob
    BY <2>1 DEF JobShape
  <2> QED BY <1>0, <2>2, NoResetOnline
<1>3. CASE StartAttach \/ StartConfigureMeasurement \/ StartResetAndReapply
  <2>1. \E kind, step, target : job' = StartedJob(kind, step, target)
    BY <1>3 DEF StartAttach, StartConfigureMeasurement, StartResetAndReapply, StartJob
  <2> QED BY <2>1, NoResetOnline DEF StartedJob
<1>4. CASE PollReadDeviceId
  <2>1. ~job.resetApplied
    BY <1>0, <1>4 DEF PollReadDeviceId, JobShape, IdleJob, WriteSteps, Jobs, JobKinds
  <2>2. job' = IdleJob \/ job' = [job EXCEPT !.step = "WRITE_THRESHOLD_L"]
    BY <1>4 DEF PollReadDeviceId, FinishJob
  <2> QED BY <1>0, <2>1, <2>2, NoResetOnline DEF Jobs
<1>5. CASE PollWriteReset
  <2>1. job' = IdleJob \/ health' = Healthy
    BY <1>5 DEF PollWriteReset, FinishJob
  <2> QED BY <1>0, <2>1 DEF ResetJobOnline
<1>6. CASE PollWriteContinues
  <2>1. job'.resetApplied = job.resetApplied
    BY <1>0, <1>6 DEF PollWriteContinues, Jobs
  <2>2. health' = Healthy \/ health' = health
    BY <1>6 DEF PollWriteContinues
  <2> QED BY <1>0, <2>1, <2>2 DEF ResetJobOnline
<1>7. CASE Device
  <2>1. UNCHANGED <<job, health>>
    BY <1>7 DEF Device, OneShotCompletes, ResetFromOutside, polling
  <2> QED BY <2>1 DEF ResetJobOnline
<1> QED BY <1>1, <1>2, <1>3, <1>4, <1>5, <1>6, <1>7
        DEF Next, Lifecycle, Jobbing, PollStep

LatchOpens ==
  health.state = "OFFLINE" /\ health'.state # "OFFLINE" =>
    \/ health'.state = "UNINIT"
    \/ Synced' /\ ~dirty'.set
    \/ job.kind = "RESET_AND_REAPPLY" /\ job'.resetApplied

\* A transfer that fails on a driver that is OFFLINE leaves it OFFLINE, also when the
\* counter is saturated or the adapter refused the call.
LEMMA OfflineStays ==
  ASSUME IInv, health.state = "OFFLINE", NEW st \in TransferErrors
  PROVE  AfterTransfers(health, 0, st, offlineThreshold).state = "OFFLINE"
  BY MaxFailuresAssumption
     DEF IInv, TypeOK, HealthValues, HealthConsistent, AfterTransfers, Failed, Bump

\* A complete application leaves a device that holds the configuration.
LEMMA ApplySyncs ==
  ASSUME NEW c, ApplySucceeds(c), config' = c
  PROVE  Synced' /\ ~dirty'.set
  BY DEF ApplySucceeds, Synced, Holds, Image, Clean

\* Every action respects the latch.
LEMMA LatchStep ==
  ASSUME IInv, ResetJobOnline, Next
  PROVE  LatchOpens
<1> SUFFICES ASSUME health.state = "OFFLINE", health'.state # "OFFLINE"
             PROVE  \/ health'.state = "UNINIT"
                    \/ Synced' /\ ~dirty'.set
                    \/ job.kind = "RESET_AND_REAPPLY" /\ job'.resetApplied
  BY DEF LatchOpens
<1> USE DEF IInv
<1>0. job \in Jobs /\ health \in HealthValues
  BY DEF TypeOK
<1>1. health' # health /\ ~Online
  BY DEF Online
<1>2. CASE Bind \/ BindInvalid \/ Unbind \/ BeginFails
  <2>1. health' = Uninitialized
    BY <1>2 DEF Bind, BindInvalid, Unbind, BeginFails
  <2> QED BY <2>1 DEF Uninitialized
<1>3. CASE BeginSucceeds
  BY <1>3, ApplySyncs DEF BeginSucceeds, Rebind
<1>4. CASE End
  BY <1>0, <1>4 DEF End, HealthValues
<1>5. CASE PowerDown \/ Transfers
  BY <1>1, <1>5 DEF PowerDown, Transfers, WriteRegister16, StartConversion,
                    ReadIntConfiguration, TrackedTransfer
<1>6. CASE Settings
  BY <1>1, <1>6 DEF Settings, ApplySetting, SetThresholds, GetThresholds,
                    WriteConfiguration, WriteIntConfiguration, SetLocal
<1>7. CASE Recover
  <2>1. \A h : FailedRecovery(h).state = "OFFLINE"
    BY DEF FailedRecovery, Latched
  <2>2. ApplySucceeds(config) /\ config' = config
    BY <1>7, <2>1 DEF Recover, binding
  <2> QED BY <2>2, ApplySyncs
<1>8. \A st \in TransferErrors : ~GeneralCallFails(st)
  BY OfflineStays DEF GeneralCallFails
<1>9. CASE SoftReset
  BY <1>8, <1>9 DEF SoftReset, Uninitialized
<1>10. CASE ResetAndReapply
  <2>1. ASSUME NEW k \in 0 .. 3, NEW st \in TransferErrors,
               health' = [AfterTransfers(health, 1 + k, st, offlineThreshold)
                            EXCEPT !.state = "UNINIT"]
        PROVE  health'.state = "UNINIT"
    <3>1. AfterTransfers(health, 1 + k, st, offlineThreshold) \in HealthValues
      BY AfterTransfersType, 1 + k \in Nat DEF TypeOK
    <3> QED BY <2>1, <3>1 DEF HealthValues
  <2>2. CASE ApplySucceeds(config) /\ config' = config
    BY <2>2, ApplySyncs
  <2> QED BY <1>8, <1>10, <2>1, <2>2 DEF ResetAndReapply, binding
<1>11. CASE StartAttach \/ StartConfigureMeasurement \/ StartResetAndReapply \/ PollReadDeviceId
            \/ Device
  BY <1>1, <1>11 DEF StartAttach, StartConfigureMeasurement, StartResetAndReapply,
                     PollReadDeviceId, Device, OneShotCompletes, ResetFromOutside
<1>12. CASE CancelPollJob
  BY <1>0, <1>1, <1>12 DEF CancelPollJob, HealthValues
<1>13. CASE PollWriteReset
  <2>1. job.kind = "RESET_AND_REAPPLY"
    BY <1>0, <1>13 DEF PollWriteReset, JobShape, IdleJob, WriteSteps, Jobs, JobKinds
  <2>2. job'.resetApplied
    BY <1>0, <1>8, <1>13 DEF PollWriteReset, Jobs
  <2> QED BY <2>1, <2>2
<1>14. CASE PollWriteContinues \/ PollWriteCompletes \/ PollWriteFails
  <2>1. job.step \in WriteSteps
    BY <1>14 DEF PollWriteContinues, PollWriteCompletes, PollWriteFails, WriteSteps
  <2>2. job.kind = "ATTACH" /\ ~initialized
    BY <1>0, <2>1 DEF ResetJobOnline, JobShape, IdleJob, WriteSteps, Jobs, JobKinds
  <2> QED BY <2>2 DEF HealthConsistent
<1> QED BY <1>2, <1>3, <1>4, <1>5, <1>6, <1>7, <1>9, <1>10, <1>11, <1>12, <1>13, <1>14
        DEF Next, Lifecycle, Recovery, Jobbing, PollStep

\* A driver that has been declared OFFLINE comes back only by an application of its
\* whole configuration or by the reset of a reset job, or is taken down: for every
\* threshold, with a saturated failure counter, and whatever is called in between.
THEOREM LatchHolds == Spec => OfflineIsLatched
<1>1. Init => ResetJobOnline
  BY DEF Init, ResetJobOnline, IdleJob
<1>2. IInv /\ ResetJobOnline /\ [Next]_vars => ResetJobOnline'
  BY ResetJobStep DEF vars, ResetJobOnline
<1>3. IInv /\ ResetJobOnline /\ [Next]_vars =>
        [health.state = "OFFLINE" /\ health'.state # "OFFLINE" =>
           \/ health'.state = "UNINIT"
           \/ Synced' /\ ~dirty'.set
           \/ job.kind = "RESET_AND_REAPPLY" /\ job'.resetApplied]_vars
  BY LatchStep DEF LatchOpens
<1> QED BY <1>1, <1>2, <1>3, Invariance, PTL DEF Spec, OfflineIsLatched

-----------------------------------------------------------------------------
(* The length of a job: what there is of JobTerminates without fairness. *)

\* The most transfers a job may still make.
Remaining(j) ==
  CASE j.kind = "NONE" -> 0
    [] j.kind # "NONE" /\ j.step \in {"READ_DEVICE_ID", "WRITE_RESET"} -> 5
    [] OTHER -> 4 - j.writesApplied

\* Each poll of a job brings its end nearer, and no other call changes it except by
\* ending it.
JobShrinks ==
  /\ PollStep => Remaining(job') < Remaining(job)
  /\ job.kind # "NONE" => PollStep \/ job' = job \/ job' = IdleJob

LEMMA RemainingValues ==
  ASSUME IInv
  PROVE  /\ job.kind # "NONE" /\ job.step \in {"READ_DEVICE_ID", "WRITE_RESET"} =>
              Remaining(job) = 5 /\ job.writesApplied = 0
         /\ job.step \in WriteSteps =>
              /\ job.kind # "NONE" /\ Remaining(job) = 4 - job.writesApplied
              /\ job.writesApplied \in 0 .. 3
         /\ job.step \in {"READ_DEVICE_ID", "WRITE_RESET"} => job.kind # "NONE"
         /\ Remaining(IdleJob) = 0
  BY DEF IInv, JobShape, IdleJob, WriteSteps, Remaining

LEMMA ShrinkStep ==
  ASSUME IInv, Next
  PROVE  JobShrinks
<1>0. job \in Jobs
  BY DEF IInv, TypeOK
<1>1. ASSUME PollStep PROVE Remaining(job') < Remaining(job)
  <2>0. job.step \in WriteSteps \cup {"READ_DEVICE_ID", "WRITE_RESET"}
    BY <1>1 DEF PollStep, PollReadDeviceId, PollWriteReset, PollWriteContinues,
                PollWriteCompletes, PollWriteFails, WriteSteps
  <2>1. Remaining(job) \in 1 .. 5
    <3>1. CASE job.step \in WriteSteps
      BY <3>1, RemainingValues
    <3>2. CASE job.step \in {"READ_DEVICE_ID", "WRITE_RESET"}
      BY <3>2, RemainingValues
    <3> QED BY <2>0, <3>1, <3>2
  <2>2. CASE job' = IdleJob
    <3>1. Remaining(job') = 0
      BY <2>2, RemainingValues
    <3> QED BY <2>1, <3>1
  <2>3. CASE /\ job.step \in {"READ_DEVICE_ID", "WRITE_RESET"}
             /\ job'.kind = job.kind /\ job'.step = "WRITE_THRESHOLD_L"
             /\ job'.writesApplied = job.writesApplied
    <3>1. Remaining(job') = 4
      BY <2>3, RemainingValues DEF Remaining
    <3> QED BY <2>3, <3>1, RemainingValues
  <2>4. CASE PollWriteContinues
    <3>1. /\ job'.kind = job.kind /\ job'.writesApplied = job.writesApplied + 1
          /\ job'.step = NextStep(job.step) /\ job.step \in WriteSteps
          /\ job.step # "WRITE_CONFIG"
      BY <1>0, <2>4 DEF PollWriteContinues, Jobs
    <3>2. job'.step \in WriteSteps
      BY <3>1 DEF NextStep, WriteSteps
    <3>3. job'.kind # "NONE" /\ job'.step \notin {"READ_DEVICE_ID", "WRITE_RESET"}
      BY <3>1, <3>2, RemainingValues DEF WriteSteps
    <3>4. Remaining(job') = 4 - (job.writesApplied + 1)
      BY <3>1, <3>3 DEF Remaining
    <3> QED BY <3>1, <3>4, RemainingValues
  <2> QED
    BY <1>0, <1>1, <2>2, <2>3, <2>4 DEF PollStep, PollReadDeviceId, PollWriteReset,
       PollWriteCompletes, PollWriteFails, FinishJob, Jobs
<1>2. ASSUME job.kind # "NONE" PROVE PollStep \/ job' = job \/ job' = IdleJob
  <2>1. CASE Lifecycle
    BY <2>1 DEF Lifecycle, Bind, BindInvalid, Unbind, BeginFails, BeginSucceeds, End,
                PowerDown, Rebind, FinishJob, polling
  <2>2. CASE Recovery \/ Settings \/ Transfers \/ Device
    BY <2>2 DEF Recovery, Recover, SoftReset, ResetAndReapply, Settings, ApplySetting,
                SetThresholds, GetThresholds, WriteConfiguration, WriteIntConfiguration,
                SetLocal, Transfers, WriteRegister16, StartConversion,
                ReadIntConfiguration, TrackedTransfer, Device, OneShotCompletes,
                ResetFromOutside, polling
  <2>3. CASE Jobbing
    BY <1>2, <2>3 DEF Jobbing, StartAttach, StartConfigureMeasurement,
                      StartResetAndReapply, Online, Reachable, CancelPollJob, FinishJob
  <2> QED BY <2>1, <2>2, <2>3 DEF Next
<1> QED BY <1>1, <1>2 DEF JobShrinks

\* Each poll of a write job leaves it fewer transfers than before, whatever fails, and
\* no call between two polls gives it more: at most five polls with a budget end it.
THEOREM JobsShrink == Spec => [][JobShrinks]_vars
<1>1. IInv /\ [Next]_vars => JobShrinks \/ UNCHANGED vars
  BY ShrinkStep
<1> QED BY <1>1, InitIInv, NextIInv, PTL DEF Spec
=============================================================================
