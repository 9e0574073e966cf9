--------------------------- MODULE Freshness_proofs ---------------------------
(***************************************************************************)
(* Theorems about readiness, one-shot ownership and the read jobs, for any *)
(* conversion times, counter width and frame length, with or without a     *)
(* clock hook, INT hints, corrupt frames and a device in time; the two     *)
(* about the timing gates need InTime, stated below.                       *)
(***************************************************************************)
EXTENDS Freshness, TLAPS

-----------------------------------------------------------------------------
(* Constants. *)

LEMMA Times ==
  /\ ConversionTime \in Nat /\ OneShotBudget \in Nat /\ ReadTimeout \in Nat
  /\ RetryInterval \in Nat /\ Slots \in Nat /\ CounterModulo \in Nat \ {0}
  BY TimingAssumption, CounterAssumption

LEMMA Zeros ==
  /\ 0 \in 0 .. Slots /\ 0 \in 0 .. OneShotBudget
  /\ 0 \in 0 .. 2 * CounterModulo - 1 /\ 1 \in 0 .. 2 * CounterModulo - 1
  BY TimingAssumption, CounterAssumption

LEMMA CappedInRange ==
  ASSUME NEW n \in Nat, NEW cap \in Nat
  PROVE  Capped(n, cap) \in 0 .. cap
  BY DEF Capped

-----------------------------------------------------------------------------
(* What the helpers make of a driver. *)

\* A driver whose evidence, in power-down mode, has ended its ownership.
Released(d) ==
  /\ d \in Drivers
  /\ d.mode = "POWER_DOWN" /\ d.evidence => ~d.started

\* A driver with the evidence and the baseline of another.
SameEvidence(x, d) == x.evidence = d.evidence /\ x.baseline = d.baseline

LEMMA AgedDriver ==
  ASSUME NEW d, Released(d), NEW n \in Nat
  PROVE  Released(Aged(d, n)) /\ SameEvidence(Aged(d, n), d)
<1>1. d \in Drivers /\ d.convAge + n \in Nat /\ d.retryAge + n \in Nat
  BY Times DEF Released, Drivers, Ages
<1>2. /\ Capped(d.convAge + n, ReadTimeout) \in Ages /\ 0 \in Ages
      /\ Capped(d.retryAge + n, RetryInterval) \in 0 .. RetryInterval
  <2>1. Capped(d.convAge + n, ReadTimeout) \in 0 .. ReadTimeout
    BY <1>1, Times, CappedInRange
  <2>2. Capped(d.retryAge + n, RetryInterval) \in 0 .. RetryInterval
    BY <1>1, Times, CappedInRange
  <2> QED BY <2>1, <2>2, Times DEF Ages
<1> QED BY <1>1, <1>2 DEF Aged, Released, SameEvidence, Drivers

LEMMA RearmedDriver ==
  ASSUME NEW d, Released(d), NEW age \in 0 .. RetryInterval
  PROVE  /\ Released([d EXCEPT !.retryAge = age])
         /\ SameEvidence([d EXCEPT !.retryAge = age], d)
  BY DEF Released, SameEvidence, Drivers

LEMMA RetryAges == 0 \in 0 .. RetryInterval /\ RetryInterval \in 0 .. RetryInterval /\ 0 \in Ages
  BY Times DEF Ages

LEMMA FinishedDriver ==
  ASSUME NEW d, Released(d)
  PROVE  /\ Released(Finished(d)) /\ SameEvidence(Finished(d), d)
         /\ Released(RetryArmed(d)) /\ SameEvidence(RetryArmed(d), d)
  BY RearmedDriver, RetryAges DEF Finished, RetryArmed

LEMMA ObservedDriver ==
  ASSUME NEW d, Released(d), lag \in Ages
  PROVE  Released(Observed(d)) /\ SameEvidence(Observed(d), d)
<1>1. CASE ClockHook
  BY <1>1 DEF Observed, SameEvidence
<1>2. CASE ~ClockHook /\ timed
  BY <1>2, AgedDriver, Times DEF Observed, Ages
<1>3. CASE ~ClockHook /\ ~timed
  BY <1>3, RetryAges DEF Observed, Released, SameEvidence, Drivers
<1> QED BY <1>1, <1>2, <1>3

LEMMA AbandonedDriver ==
  ASSUME NEW d, Released(d)
  PROVE  Released(Abandoned(d)) /\ SameEvidence(Abandoned(d), d)
  BY DEF Abandoned, Released, SameEvidence, Drivers

LEMMA LatchedDriver ==
  ASSUME NEW d, Released(d)
  PROVE  Released(Latched(d)) /\ Latched(d).evidence /\ Latched(d).baseline = d.baseline
  BY DEF Latched, Released, Drivers

LEMMA ForgetfulDriver ==
  ASSUME NEW d, Released(d)
  PROVE  Released(NoEvidence(d)) /\ NoEvidence(d).baseline = d.baseline
  BY DEF NoEvidence, Released, Drivers

LEMMA ProbedDriver ==
  ASSUME NEW d, Released(d), NEW found
  PROVE  /\ Released(Probed(d, found))
         /\ Probed(d, found).baseline = d.baseline
         /\ found => Probed(d, found).evidence
  BY LatchedDriver, FinishedDriver DEF Probed, SameEvidence

LEMMA ConsumedDriver ==
  ASSUME NEW d, Released(d), NEW trusted \in BOOLEAN
  PROVE  Released(Consumed(d, trusted))
  BY RetryAges DEF Consumed, Released, Drivers

LEMMA RestartedDriver ==
  ASSUME NEW d, Released(d), NEW m \in StableModes, NEW s \in BOOLEAN
  PROVE  /\ Released(Restarted(d, m, s))
         /\ Released(ClearedRuntime(d, m)) /\ ~ClearedRuntime(d, m).evidence
<1>1. Released(Restarted(d, m, s)) /\ Released(Restarted(d, m, FALSE))
      /\ ~Restarted(d, m, FALSE).evidence
  BY RetryAges DEF Restarted, Released, Drivers
<1> QED BY <1>1 DEF ClearedRuntime, Released, Drivers

\* A readiness refresh keeps the baseline, and with one it leaves the flag alone.
LEMMA RefreshedDriver ==
  ASSUME NEW d, Released(d), NEW hint, device.flag \in BOOLEAN
  PROVE  /\ Released(Refreshed(d, hint).driver)
         /\ Refreshed(d, hint).driver.baseline = d.baseline
         /\ Refreshed(d, hint).flag \in BOOLEAN
         /\ d.baseline => Refreshed(d, hint).flag = device.flag
<1> DEFINE probing == ~d.evidence /\ RetryElapsed(d, timed)
           gate    == GateElapsed(d, "NONE", timed)
           counter == probing /\ d.baseline /\ (gate \/ hint)
           flags   == probing /\ ~d.baseline /\ gate
           after   == CASE counter -> Probed(d, CounterFresh(d))
                        [] flags   -> Probed(d, device.flag)
                        [] OTHER   -> d
<1>1. Refreshed(d, hint) = [driver |-> after, flag |-> device.flag /\ ~flags]
  BY DEF Refreshed
<1>2. after = Probed(d, CounterFresh(d)) \/ after = Probed(d, device.flag) \/ after = d
  OBVIOUS
<1> HIDE DEF after
<1>3. Released(after) /\ after.baseline = d.baseline
  BY <1>2, ProbedDriver
<1>4. (device.flag /\ ~flags) \in BOOLEAN
  OBVIOUS
<1>5. d.baseline => (device.flag /\ ~flags) = device.flag
  OBVIOUS
<1> QED BY <1>1, <1>3, <1>4, <1>5

LEMMA CapturedDriver ==
  ASSUME NEW d, Released(d)
  PROVE  Released(Captured(d))
  BY LatchedDriver DEF Captured

LEMMA GivenUpDriver ==
  ASSUME NEW d, Released(d)
  PROVE  Released(GivenUp(d)) /\ GivenUp(d).baseline = d.baseline
  BY AbandonedDriver DEF GivenUp, SameEvidence

-----------------------------------------------------------------------------
(* The invariant. *)

FreshInv == TypeOK /\ OwnershipReleased /\ ReadJobShape

LEMMA InvDriver == FreshInv => Released(driver)
  BY DEF FreshInv, TypeOK, OwnershipReleased, Released

\* What has to be shown of a step, in the terms of the lemmas above.
GhostTypes == /\ unseen \in 0 .. 2 * CounterModulo - 1
              /\ awaited \in BOOLEAN /\ history \in 0 .. Slots

LEMMA InvFrom ==
  /\ Released(driver) /\ timed \in BOOLEAN /\ lag \in Ages /\ job \in Jobs
  /\ device \in Devices /\ GhostTypes /\ result \in Results /\ ReadJobShape
  <=> FreshInv
  BY DEF FreshInv, TypeOK, OwnershipReleased, Released, GhostTypes

\* A driver without a job has no step to keep.
LEMMA IdleShape ==
  ASSUME job.kind = "NONE", job.step = "IDLE"
  PROVE  ReadJobShape
  BY DEF ReadJobShape

LEMMA JobIdle ==
  IdleJob \in Jobs /\ IdleJob.kind = "NONE" /\ IdleJob.step = "IDLE"
  BY RetryAges DEF IdleJob, Jobs, JobKinds, JobSteps

LEMMA NoneIsIdle ==
  ASSUME FreshInv, job.kind = "NONE"
  PROVE  job.step = "IDLE"
  BY DEF FreshInv, ReadJobShape

LEMMA ResultNone == "NONE" \in Results /\ "WARNING" \in Results
                    /\ "SAMPLE" \in Results /\ "FRAME" \in Results
  BY DEF Results

LEMMA DeviceTypes ==
  ASSUME device \in Devices
  PROVE  /\ device.flag \in BOOLEAN
         /\ \A f \in BOOLEAN : [device EXCEPT !.flag = f] \in Devices
         /\ \A w \in {"IDLE", "ONE_SHOT", "CONTINUOUS"} :
              /\ [device EXCEPT !.running = w, !.age = 0] \in Devices
              /\ \A f \in BOOLEAN : [running |-> w, age |-> 0, flag |-> f] \in Devices
  BY Zeros DEF Devices

LEMMA AgedJobType ==
  ASSUME job \in Jobs, NEW n \in Nat
  PROVE  /\ AgedJob(job, n) \in Jobs
         /\ AgedJob(job, n).kind = job.kind /\ AgedJob(job, n).step = job.step
<1>1. Capped(job.age + n, ReadTimeout) \in Ages /\ 0 \in Ages
  <2>1. job.age + n \in Nat
    BY Times DEF Jobs, Ages
  <2> QED BY <2>1, Times, CappedInRange, RetryAges DEF Ages
<1> QED BY <1>1 DEF AgedJob, Jobs

\* The driver is described by Released, so a step that keeps the job idle needs
\* its types only.
LEMMA IdleStep ==
  ASSUME FreshInv, job.kind = "NONE", job' = job, UNCHANGED clock,
         Released(driver)', device' \in Devices, GhostTypes', result' \in Results
  PROVE  FreshInv'
<1>1. job'.kind = "NONE" /\ job'.step = "IDLE"
  BY NoneIsIdle
<1>2. ReadJobShape'
  BY <1>1 DEF ReadJobShape
<1>3. timed' \in BOOLEAN /\ lag' \in Ages /\ job' \in Jobs
  BY DEF clock, FreshInv, TypeOK
<1> QED BY <1>2, <1>3 DEF FreshInv, TypeOK, OwnershipReleased, Released, GhostTypes

LEMMA FreshInit == Init => FreshInv
<1> SUFFICES ASSUME Init PROVE FreshInv
  OBVIOUS
<1>1. PICK m \in StableModes, f \in BOOLEAN :
    /\ driver = [mode |-> m, evidence |-> FALSE, started |-> m = "CONTINUOUS",
                 baseline |-> FALSE, convAge |-> 0, retryAge |-> RetryInterval]
    /\ timed = ClockHook
    /\ lag = 0
    /\ job = IdleJob
    /\ device = [running |-> IF m = "CONTINUOUS" THEN m ELSE "IDLE", age |-> 0,
                 flag |-> f]
    /\ unseen = IF f THEN 1 ELSE 0
    /\ awaited = FALSE
    /\ history = 0
    /\ result = "NONE"
  BY DEF Init
<1>2. Released(driver)
  BY <1>1, RetryAges DEF Released, Drivers
<1>3. timed \in BOOLEAN /\ lag \in Ages
  BY <1>1, RetryAges, SwitchAssumption
<1>4. device \in Devices
  BY <1>1, Zeros DEF Devices
<1>5. GhostTypes
  <2>1. unseen \in 0 .. 2 * CounterModulo - 1
    BY <1>1, Zeros
  <2>2. awaited \in BOOLEAN /\ history \in 0 .. Slots
    BY <1>1, Zeros
  <2> QED BY <2>1, <2>2 DEF GhostTypes
<1>6. ReadJobShape /\ job \in Jobs
  BY <1>1, JobIdle, IdleShape
<1> QED BY <1>1, <1>2, <1>3, <1>4, <1>5, <1>6, InvFrom, ResultNone

-----------------------------------------------------------------------------
(* Steps without a job. *)

LEMMA ConversionsStep == FreshInv /\ Conversions => FreshInv'
<1> SUFFICES ASSUME FreshInv, Conversions PROVE FreshInv'
  OBVIOUS
<1>0. Released(driver) /\ device \in Devices /\ GhostTypes /\ driver.mode \in StableModes
  BY InvDriver, InvFrom DEF Released, Drivers
<1>1. CASE StartConversion
  <2>1. Released(driver)'
    BY <1>0, <1>1, RestartedDriver DEF StartConversion, Released
  <2>2. device' \in Devices
    BY <1>0, <1>1, DeviceTypes DEF StartConversion, Running
  <2>3. GhostTypes'
    BY <1>0, <1>1 DEF StartConversion, Triggered, GhostTypes
  <2> QED BY <1>1, <2>1, <2>2, <2>3, IdleStep, ResultNone DEF StartConversion
<1>2. CASE StartConversionFails
  <2>1. Released(Abandoned(driver)) /\ SameEvidence(Abandoned(driver), driver)
    BY <1>0, AbandonedDriver
  <2> QED BY <1>2, <2>1, ResultNone
          DEF StartConversionFails, Quiet, ghosts, clock, Released, SameEvidence, FreshInv,
              TypeOK, OwnershipReleased, ReadJobShape
<1>3. CASE WriteConfiguration
  <2>1. Released(driver)'
    BY <1>0, <1>3, RestartedDriver DEF WriteConfiguration, Released, StableModes
  <2>2. device' \in Devices
    BY <1>0, <1>3, DeviceTypes DEF WriteConfiguration, Running
  <2>3. GhostTypes'
    <3>1. history' \in 0 .. Slots
      BY <1>0, <1>3, Zeros DEF WriteConfiguration, Triggered, GhostTypes
    <3>2. unseen' = unseen /\ awaited' \in BOOLEAN
      BY <1>3 DEF WriteConfiguration, Triggered
    <3> QED BY <1>0, <3>1, <3>2 DEF GhostTypes
  <2> QED BY <1>3, <2>1, <2>2, <2>3, IdleStep, ResultNone DEF WriteConfiguration
<1> QED BY <1>1, <1>2, <1>3 DEF Conversions

\* The driver after a configuration has been applied.
LEMMA AppliedDriver ==
  ASSUME NEW d, Released(d), NEW m \in StableModes, NEW s \in BOOLEAN, NEW age \in Ages
  PROVE  /\ Released([ClearedRuntime(d, m) EXCEPT !.started = s])
         /\ Released([ClearedRuntime(d, m) EXCEPT !.convAge = age])
<1>1. Released(ClearedRuntime(d, m)) /\ ~ClearedRuntime(d, m).evidence
  BY RestartedDriver
<1> QED BY <1>1 DEF Released, Drivers

LEMMA ApplicationsStep == FreshInv /\ Applications => FreshInv'
<1> SUFFICES ASSUME FreshInv, Applications PROVE FreshInv'
  OBVIOUS
<1>0. Released(driver) /\ device \in Devices /\ GhostTypes /\ driver.mode \in StableModes
  BY InvDriver, InvFrom DEF Released, Drivers
<1>1. \A m \in StableModes : Applied(m) => /\ Released(driver)' /\ history' \in 0 .. Slots
                                          /\ awaited' \in BOOLEAN /\ result' \in Results
                                          /\ UNCHANGED clock /\ job' = job
  <2> SUFFICES ASSUME NEW m \in StableModes, Applied(m)
               PROVE  /\ Released(driver)' /\ history' \in 0 .. Slots
                      /\ awaited' \in BOOLEAN /\ result' \in Results
                      /\ UNCHANGED clock /\ job' = job
    OBVIOUS
  <2>1. Released([ClearedRuntime(driver, m) EXCEPT !.started = m = "CONTINUOUS"])
    BY <1>0, AppliedDriver, RetryAges
  <2>2. Released(driver)'
    BY <2>1 DEF Applied, Released
  <2>3. history' \in 0 .. Slots
    BY Zeros DEF Applied
  <2>4. awaited' \in BOOLEAN /\ result' \in Results
    BY ResultNone DEF Applied
  <2> QED BY <2>2, <2>3, <2>4 DEF Applied
<1>2. CASE ApplyConfig
  <2>1. device' \in Devices
    BY <1>0, <1>2, DeviceTypes DEF ApplyConfig, Running
  <2>2. GhostTypes'
    BY <1>0, <1>1, <1>2 DEF ApplyConfig, GhostTypes
  <2> QED BY <1>1, <1>2, <2>1, <2>2, IdleStep DEF ApplyConfig
<1>3. CASE ResetAndReapply
  <2>1. device' \in Devices
    BY <1>0, <1>3, DeviceTypes DEF ResetAndReapply
  <2>2. GhostTypes'
    BY <1>1, <1>3, Zeros DEF ResetAndReapply, GhostTypes
  <2> QED BY <1>1, <1>3, <2>1, <2>2, IdleStep DEF ResetAndReapply
<1>4. CASE RecoverFails
  <2>1. Released(driver)'
    <3>1. PICK age \in Ages : driver' = [ClearedRuntime(driver, driver.mode) EXCEPT !.convAge = age]
      BY <1>4, RetryAges DEF RecoverFails
    <3>2. Released([ClearedRuntime(driver, driver.mode) EXCEPT !.convAge = age])
      BY <1>0, AppliedDriver
    <3> QED BY <3>1, <3>2 DEF Released
  <2> QED BY <1>0, <1>4, <2>1, IdleStep, ResultNone
          DEF RecoverFails, Quiet, ghosts, GhostTypes
<1> QED BY <1>2, <1>3, <1>4 DEF Applications

-----------------------------------------------------------------------------
(* Reads without a job, and tick(). *)

LEMMA AnyStep ==
  ASSUME Released(driver)', timed' \in BOOLEAN, lag' \in Ages, job' \in Jobs,
         device' \in Devices, GhostTypes', result' \in Results, ReadJobShape'
  PROVE  FreshInv'
  BY DEF FreshInv, TypeOK, OwnershipReleased, Released, GhostTypes

\* A job that stays at its step, next to a driver with the same evidence.
LEMMA KeptShape ==
  ASSUME ReadJobShape, job'.kind = job.kind, job'.step = job.step,
         driver'.evidence = driver.evidence, driver'.baseline = driver.baseline
  PROVE  ReadJobShape'
  BY DEF ReadJobShape

LEMMA ClockTypes == FreshInv => timed \in BOOLEAN /\ lag \in Ages /\ lag \in Nat /\ job \in Jobs
  BY Times DEF FreshInv, TypeOK, Ages

LEMMA QuietTypes ==
  ASSUME Quiet, GhostTypes
  PROVE  GhostTypes' /\ result' \in Results
  BY ResultNone DEF Quiet, ghosts, GhostTypes

LEMMA Arrival ==
  ASSUME NEW d, Released(d), NEW what \in {"SAMPLE", "FRAME"}, GhostTypes, Arrives(d, what)
  PROVE  Released(driver)' /\ GhostTypes' /\ result' \in Results
<1>1. PICK trusted \in Trusts :
        \/ driver' = NoEvidence(d) /\ Quiet
        \/ ~Duplicate(d, trusted) /\ Deliver(d, what, trusted)
  BY DEF Arrives
<1>2. trusted \in BOOLEAN
  BY <1>1 DEF Trusts
<1>3. CASE driver' = NoEvidence(d) /\ Quiet
  <2>1. Released(NoEvidence(d))
    BY ForgetfulDriver
  <2> QED BY <1>3, <2>1, QuietTypes DEF Released
<1>4. CASE Deliver(d, what, trusted)
  <2>1. Released(Consumed(d, trusted))
    BY <1>2, ConsumedDriver
  <2>2. unseen' \in 0 .. 2 * CounterModulo - 1
    BY <1>4, Zeros DEF Deliver, GhostTypes
  <2>3. history' \in 0 .. Slots /\ awaited' \in BOOLEAN
    BY <1>4, Zeros DEF Deliver, GhostTypes
  <2>4. result' \in Results
    BY <1>4, ResultNone DEF Deliver
  <2> QED BY <1>4, <2>1, <2>2, <2>3, <2>4 DEF Deliver, Released, GhostTypes
<1> QED BY <1>1, <1>3, <1>4

LEMMA ReadsStep == FreshInv /\ Reads => FreshInv'
<1> SUFFICES ASSUME FreshInv, Reads PROVE FreshInv'
  OBVIOUS
<1>0. Released(driver) /\ device \in Devices /\ GhostTypes /\ device.flag \in BOOLEAN
  BY InvDriver, InvFrom, DeviceTypes
<1>1. CASE ConversionReady
  <2>1. PICK hint \in Hints : /\ driver' = Refreshed(driver, hint).driver
                              /\ SetFlag(Refreshed(driver, hint).flag)
    BY <1>1 DEF ConversionReady
  <2>2. Released(Refreshed(driver, hint).driver) /\ Refreshed(driver, hint).flag \in BOOLEAN
    BY <1>0, RefreshedDriver
  <2>3. Released(driver)' /\ device' \in Devices
    BY <1>0, <2>1, <2>2, DeviceTypes DEF SetFlag, Released
  <2> QED BY <1>0, <1>1, <2>3, IdleStep, QuietTypes DEF ConversionReady
<1>2. CASE ReadFresh
  <2>1. PICK hint \in Hints, what \in {"SAMPLE", "FRAME"} :
          /\ SetFlag(Refreshed(driver, hint).flag)
          /\ Arrives(Refreshed(driver, hint).driver, what)
    BY <1>2 DEF ReadFresh
  <2>2. Released(Refreshed(driver, hint).driver) /\ Refreshed(driver, hint).flag \in BOOLEAN
    BY <1>0, RefreshedDriver
  <2>3. device' \in Devices
    BY <1>0, <2>1, <2>2, DeviceTypes DEF SetFlag
  <2>4. Released(driver)' /\ GhostTypes' /\ result' \in Results
    BY <1>0, <2>1, <2>2, Arrival
  <2> QED BY <1>2, <2>3, <2>4, IdleStep DEF ReadFresh
<1>3. CASE ReadFlags
  <2>1. Released(Captured(driver))
    BY <1>0, CapturedDriver
  <2>2. Released(driver)' /\ device' \in Devices
    BY <1>0, <1>3, <2>1, DeviceTypes DEF ReadFlags, SetFlag, Released
  <2> QED BY <1>0, <1>3, <2>2, IdleStep, QuietTypes DEF ReadFlags
<1>4. CASE ClearFlags
  <2>1. Released(NoEvidence(Captured(driver))) /\ Released(NoEvidence(driver))
    BY <1>0, CapturedDriver, ForgetfulDriver
  <2>2. Released(driver)' /\ device' \in Devices
    BY <1>0, <1>4, <2>1, DeviceTypes DEF ClearFlags, SetFlag, Released
  <2> QED BY <1>0, <1>4, <2>2, IdleStep, QuietTypes DEF ClearFlags
<1>5. CASE Tick
  <2> DEFINE d == Observed(driver)
  <2>1. Released(d) /\ SameEvidence(d, driver)
    BY <1>0, ClockTypes, ObservedDriver
  <2>2. /\ timed' \in BOOLEAN /\ lag' \in Ages /\ job' \in Jobs
        /\ job'.kind = job.kind /\ job'.step = job.step
    BY <1>5, ClockTypes, AgedJobType, RetryAges DEF Tick, ObserveHost
  <2>3. GhostTypes' /\ result' \in Results
    BY <1>0, <1>5, QuietTypes DEF Tick
  <2>4. CASE driver' = d /\ UNCHANGED device
    <3>1. ReadJobShape'
      BY <2>1, <2>2, <2>4, KeptShape DEF FreshInv, SameEvidence
    <3> QED BY <1>0, <2>1, <2>2, <2>3, <2>4, <3>1, AnyStep DEF Released
  <2>5. CASE /\ job.kind = "NONE"
             /\ \/ \E hint \in Hints : /\ driver' = GivenUp(Refreshed(d, hint).driver)
                                        /\ SetFlag(Refreshed(d, hint).flag)
                \/ driver' = GivenUp(d) /\ UNCHANGED device
    <3>1. Released(driver)' /\ device' \in Devices
      <4>1. CASE driver' = GivenUp(d) /\ UNCHANGED device
        BY <1>0, <2>1, <4>1, GivenUpDriver DEF Released
      <4>2. CASE \E hint \in Hints : /\ driver' = GivenUp(Refreshed(d, hint).driver)
                                     /\ SetFlag(Refreshed(d, hint).flag)
        <5>1. PICK hint \in Hints : /\ driver' = GivenUp(Refreshed(d, hint).driver)
                                    /\ SetFlag(Refreshed(d, hint).flag)
          BY <4>2
        <5>2. Released(Refreshed(d, hint).driver) /\ Refreshed(d, hint).flag \in BOOLEAN
          BY <1>0, <2>1, RefreshedDriver
        <5>3. Released(GivenUp(Refreshed(d, hint).driver))
          BY <5>2, GivenUpDriver
        <5> QED BY <1>0, <5>1, <5>2, <5>3, DeviceTypes DEF SetFlag, Released
      <4> QED BY <2>5, <4>1, <4>2
    <3>2. job'.kind = "NONE" /\ job'.step = "IDLE"
      BY <2>2, <2>5, NoneIsIdle
    <3>3. ReadJobShape'
      BY <3>2 DEF ReadJobShape
    <3> QED BY <2>2, <2>3, <3>1, <3>3, AnyStep
  <2> QED BY <1>5, <2>4, <2>5 DEF Tick
<1> QED BY <1>1, <1>2, <1>3, <1>4, <1>5 DEF Reads

-----------------------------------------------------------------------------
(* Read jobs. *)

\* The step a poll arrives at is one its driver justifies.
Justified(d, step) ==
  /\ step \in JobSteps \ {"IDLE"}
  /\ step = "READ_BURST_BLOCK" => d.evidence
  /\ step = "READ_COUNTER" => d.baseline /\ ~d.evidence
  /\ step = "READ_FLAGS" => ~d.baseline /\ ~d.evidence

LEMMA PolledJobType ==
  ASSUME FreshInv
  PROVE  /\ PolledJob \in Jobs /\ PolledJob.kind = job.kind /\ PolledJob.step = job.step
         /\ \A s \in JobSteps : /\ [PolledJob EXCEPT !.step = s] \in Jobs
                                 /\ [PolledJob EXCEPT !.step = s].kind = job.kind
                                 /\ [PolledJob EXCEPT !.step = s].step = s
<1>1. AgedJob(job, lag) \in Jobs /\ AgedJob(job, lag).kind = job.kind
      /\ AgedJob(job, lag).step = job.step
  BY ClockTypes, AgedJobType
<1>2. PolledJob \in Jobs /\ PolledJob.kind = job.kind /\ PolledJob.step = job.step
  BY <1>1 DEF PolledJob, Jobs
<1> QED BY <1>2 DEF Jobs

LEMMA NextStepJustified ==
  ASSUME FreshInv, job.kind # "NONE"
  PROVE  Justified(Observed(driver), NextStep(Observed(driver), PolledJob))
<1> DEFINE d == Observed(driver)
<1>1. Released(d) /\ d.evidence = driver.evidence /\ d.baseline = driver.baseline
  BY InvDriver, ClockTypes, ObservedDriver DEF SameEvidence
<1>2. PolledJob.step = job.step /\ job.step \in JobSteps \ {"IDLE"}
  BY PolledJobType, ClockTypes DEF FreshInv, ReadJobShape, Jobs
<1>3. CASE PolledJob.step # "WAIT_READY"
  <2>1. NextStep(d, PolledJob) = job.step
    BY <1>2, <1>3 DEF NextStep
  <2> QED BY <1>1, <1>2, <2>1 DEF FreshInv, ReadJobShape, Justified
<1>4. CASE PolledJob.step = "WAIT_READY" /\ d.evidence
  <2>1. NextStep(d, PolledJob) \in {"WAIT_READY", "READ_BURST_BLOCK"}
    BY <1>4 DEF NextStep
  <2> QED BY <1>4, <2>1 DEF Justified, JobSteps
<1>5. CASE PolledJob.step = "WAIT_READY" /\ ~d.evidence
  <2>1. \/ NextStep(d, PolledJob) = "WAIT_READY"
        \/ NextStep(d, PolledJob) = "READ_COUNTER" /\ d.baseline
        \/ NextStep(d, PolledJob) = "READ_FLAGS" /\ ~d.baseline
    BY <1>5 DEF NextStep
  <2> QED BY <1>5, <2>1 DEF Justified, JobSteps
<1> QED BY <1>3, <1>4, <1>5

\* A step justified for the driver after a poll keeps the shape of the job.
LEMMA JustifiedShape ==
  ASSUME NEW s, Justified(driver', s), job'.kind # "NONE", job'.step = s
  PROVE  ReadJobShape'
  BY DEF ReadJobShape, Justified

LEMMA EndedJob ==
  ASSUME job' = IdleJob
  PROVE  ReadJobShape' /\ job' \in Jobs
  BY JobIdle DEF ReadJobShape

LEMMA JobbingStep == FreshInv /\ Jobbing => FreshInv'
<1> SUFFICES ASSUME FreshInv, Jobbing PROVE FreshInv'
  OBVIOUS
<1> DEFINE d == Observed(driver)
<1>0. /\ Released(driver) /\ device \in Devices /\ GhostTypes
      /\ timed \in BOOLEAN /\ lag \in Ages
  BY InvDriver, InvFrom
<1>1. Released(d) /\ Released(Finished(d))
  BY <1>0, ObservedDriver, FinishedDriver
<1>2. ObserveHost => timed' \in BOOLEAN /\ lag' \in Ages
  BY RetryAges DEF ObserveHost
<1>3. CASE StartRead
  <2>1. Released(driver)'
    BY <1>0, <1>3, FinishedDriver DEF StartRead, Finished, Released
  <2>2. job' \in Jobs /\ job'.kind # "NONE" /\ job'.step = "WAIT_READY"
    <3>1. PICK kind \in {"READ_SAMPLE", "READ_BURST"} : job' = Started(kind)
      BY <1>3 DEF StartRead
    <3>2. Started(kind) \in Jobs
      BY RetryAges DEF Started, Jobs, JobKinds, JobSteps
    <3> QED BY <3>1, <3>2 DEF Started
  <2>3. ReadJobShape'
    BY <2>2 DEF ReadJobShape
  <2> QED BY <1>0, <1>3, <2>1, <2>2, <2>3, AnyStep, QuietTypes DEF StartRead, clock
<1>4. CASE CancelPollJob
  <2>1. Released(driver)'
    BY <1>0, <1>4, FinishedDriver DEF CancelPollJob, Finished, Released
  <2> QED BY <1>0, <1>4, <2>1, AnyStep, EndedJob, QuietTypes DEF CancelPollJob, clock
<1>5. CASE PollTimesOut
  <2>1. Released(Finished(Abandoned(d)))
    BY <1>1, AbandonedDriver, FinishedDriver
  <2>2. Released(driver)'
    BY <1>5, <2>1 DEF PollTimesOut, Released
  <2> QED BY <1>0, <1>2, <1>5, <2>2, AnyStep, EndedJob, QuietTypes DEF PollTimesOut
<1>6. CASE PollWaits
  <2> DEFINE s == NextStep(d, PolledJob)
  <2>1. Justified(d, s)
    BY <1>6, NextStepJustified DEF PollWaits
  <2>2. job' \in Jobs /\ job'.kind # "NONE" /\ job'.step = s
    <3>1. s \in JobSteps
      BY <2>1 DEF Justified
    <3> QED BY <1>6, <3>1, PolledJobType DEF PollWaits
  <2>3. ReadJobShape'
    BY <1>6, <2>1, <2>2, JustifiedShape DEF PollWaits
  <2>4. Released(driver)'
    BY <1>1, <1>6 DEF PollWaits, Released
  <2> QED BY <1>0, <1>2, <1>6, <2>2, <2>3, <2>4, AnyStep, QuietTypes DEF PollWaits
<1>7. ASSUME NEW found, Found(d, found), job.kind # "NONE"
      PROVE  Released(driver)' /\ job' \in Jobs /\ ReadJobShape'
  <2>1. Released(Probed(d, found)) /\ (found => Probed(d, found).evidence)
    BY <1>1, ProbedDriver
  <2>2. Released(driver)' /\ (found => driver'.evidence)
    BY <1>7, <2>1 DEF Found, Released
  <2> DEFINE s == IF found THEN "READ_BURST_BLOCK" ELSE "WAIT_READY"
  <2>3. s \in JobSteps
    BY DEF JobSteps
  <2>4. job' = [PolledJob EXCEPT !.step = s]
    BY <1>7 DEF Found
  <2> HIDE DEF s
  <2>5. job' \in Jobs /\ job'.kind # "NONE" /\ job'.step = s
    BY <1>7, <2>3, <2>4, PolledJobType
  <2>6. Justified(driver', s)
    BY <2>2 DEF Justified, JobSteps, s
  <2> QED BY <2>2, <2>5, <2>6, JustifiedShape
<1>8. CASE PollReadsFlags
  <2>1. Released(driver)' /\ job' \in Jobs /\ ReadJobShape'
    BY <1>7, <1>8 DEF PollReadsFlags, Polling
  <2>2. device' \in Devices
    BY <1>0, <1>8, DeviceTypes DEF PollReadsFlags, SetFlag
  <2> QED BY <1>0, <1>2, <1>8, <2>1, <2>2, AnyStep, QuietTypes DEF PollReadsFlags, Polling
<1>9. CASE PollReadsCounter
  <2>1. Released(driver)' /\ job' \in Jobs /\ ReadJobShape'
    BY <1>7, <1>9 DEF PollReadsCounter, Polling
  <2> QED BY <1>0, <1>2, <1>9, <2>1, AnyStep, QuietTypes DEF PollReadsCounter, Polling
<1>10. CASE PollReadsBlock
  <2>1. Released(driver)' /\ GhostTypes' /\ result' \in Results
    BY <1>0, <1>1, <1>10, Arrival DEF PollReadsBlock
  <2> QED BY <1>0, <1>2, <1>10, <2>1, AnyStep, EndedJob DEF PollReadsBlock, Polling
<1>11. CASE PollFails
  <2>1. Released(driver)'
    BY <1>1, <1>11 DEF PollFails, Released
  <2> QED BY <1>0, <1>2, <1>11, <2>1, AnyStep, EndedJob, QuietTypes DEF PollFails, Polling
<1> QED BY <1>3, <1>4, <1>5, <1>6, <1>8, <1>9, <1>10, <1>11 DEF Jobbing, Poll

-----------------------------------------------------------------------------
(* The device, time, and every step. *)

LEMMA ConvertedTypes ==
  ASSUME device \in Devices, GhostTypes, Converted
  PROVE  device' \in Devices /\ GhostTypes'
<1>1. device' \in Devices
  BY Zeros DEF Converted, Devices
<1>2. unseen' \in 0 .. 2 * CounterModulo - 1
  BY Times DEF Converted, NextUnseen, GhostTypes
<1>3. history' \in 0 .. Slots
  <2>1. history + 1 \in Nat
    BY Times DEF GhostTypes
  <2> QED BY <2>1, Times, CappedInRange DEF Converted
<1> QED BY <1>1, <1>2, <1>3 DEF Converted, GhostTypes

LEMMA EnvironmentStep == FreshInv /\ Environment => FreshInv'
<1> SUFFICES ASSUME FreshInv, Environment PROVE FreshInv'
  OBVIOUS
<1>0. /\ Released(driver) /\ device \in Devices /\ GhostTypes /\ job \in Jobs
      /\ timed \in BOOLEAN /\ lag \in Ages /\ lag \in Nat /\ ReadJobShape
  BY InvDriver, InvFrom, ClockTypes
<1>1. CASE ConversionEnds
  <2>1. device' \in Devices /\ GhostTypes'
    BY <1>0, <1>1, ConvertedTypes DEF ConversionEnds
  <2>2. ReadJobShape'
    BY <1>0, <1>1, KeptShape DEF ConversionEnds
  <2> QED BY <1>0, <1>1, <2>1, <2>2, AnyStep, ResultNone DEF ConversionEnds, clock, Released
<1>2. CASE TimePasses
  <2>1. device' \in Devices /\ GhostTypes'
    <3>1. CASE UNCHANGED <<device, ghosts>>
      BY <1>0, <3>1 DEF ghosts, GhostTypes
    <3>2. CASE Converted
      BY <1>0, <3>2, ConvertedTypes
    <3>3. CASE /\ device.running # "IDLE" /\ ~(device.age + 1 >= DueAt(device.running))
               /\ device' = [device EXCEPT !.age = @ + 1] /\ UNCHANGED ghosts
      <4>1. device.age + 1 \in 0 .. OneShotBudget
        BY <1>0, <3>3, TimingAssumption DEF DueAt, Devices
      <4> QED BY <1>0, <3>3, <4>1 DEF Devices, ghosts, GhostTypes
    <3> QED BY <1>2, <3>1, <3>2, <3>3 DEF TimePasses
  <2>2. CASE ClockHook
    <3>1. Released(Aged(driver, 1)) /\ SameEvidence(Aged(driver, 1), driver)
      BY <1>0, AgedDriver
    <3>2. Released(driver)' /\ SameEvidence(driver', driver) /\ lag' = lag
      BY <1>2, <2>2, <3>1 DEF TimePasses, Released
    <3>3. job' \in Jobs /\ job'.kind = job.kind /\ job'.step = job.step
      BY <1>0, <1>2, <2>2, AgedJobType DEF TimePasses
    <3>4. ReadJobShape'
      BY <1>0, <3>2, <3>3, KeptShape DEF SameEvidence
    <3> QED BY <1>0, <1>2, <2>1, <3>2, <3>3, <3>4, AnyStep, ResultNone DEF TimePasses
  <2>3. CASE ~ClockHook
    <3>1. driver' = driver /\ job' = job /\ lag' = Capped(lag + 1, ReadTimeout)
      BY <1>2, <2>3 DEF TimePasses
    <3>2. lag' \in Ages
      BY <1>0, <3>1, Times, CappedInRange DEF Ages
    <3>3. ReadJobShape' /\ Released(driver)'
      BY <1>0, <3>1, KeptShape DEF Released
    <3> QED BY <1>0, <1>2, <2>1, <3>1, <3>2, <3>3, AnyStep, ResultNone DEF TimePasses
  <2> QED BY <2>2, <2>3
<1> QED BY <1>1, <1>2 DEF Environment

LEMMA StutterStep == FreshInv /\ UNCHANGED vars => FreshInv'
  BY DEF vars, FreshInv, TypeOK, OwnershipReleased, ReadJobShape

LEMMA FreshStep == FreshInv /\ [Next]_vars => FreshInv'
  BY ConversionsStep, ApplicationsStep, ReadsStep, JobbingStep, EnvironmentStep,
     StutterStep DEF Next

-----------------------------------------------------------------------------
(* Theorems. *)

\* Every variable keeps its type, for any conversion time, timeout, counter width
\* and frame length.
THEOREM FreshTypes == Spec => []TypeOK
<1>1. FreshInv => TypeOK
  BY DEF FreshInv
<1> QED BY <1>1, FreshInit, FreshStep, PTL DEF Spec

\* Evidence of a finished one-shot conversion always ends its ownership: no later
\* startConversion() is refused because of a conversion whose sample is there.
THEOREM EvidenceEndsOwnership == Spec => []OwnershipReleased
<1>1. FreshInv => OwnershipReleased
  BY DEF FreshInv
<1> QED BY <1>1, FreshInit, FreshStep, PTL DEF Spec

\* No call between two polls takes away what the step of a read job was chosen on.
THEOREM ReadJobsKeepTheirGround == Spec => []ReadJobShape
<1>1. FreshInv => ReadJobShape
  BY DEF FreshInv
<1> QED BY <1>1, FreshInit, FreshStep, PTL DEF Spec

-----------------------------------------------------------------------------
(* What the flags and the baseline keep. *)

\* The ready flag of the device after actions that only set what it is converting.
LEMMA RunningKeepsFlag ==
  ASSUME device \in Devices, NEW w, Running(w)
  PROVE  device'.flag = device.flag
  BY DEF Running, Devices

LEMMA SetFlagIs ==
  ASSUME device \in Devices, NEW f, SetFlag(f)
  PROVE  device'.flag = f
  BY DEF SetFlag, Devices

\* A refresh of a driver with a baseline rewrites the flag it found.
LEMMA RefreshKeepsFlag ==
  ASSUME NEW d, NEW hint, Released(d), d.baseline, device \in Devices,
         SetFlag(Refreshed(d, hint).flag)
  PROVE  device'.flag = device.flag
<1>1. device.flag \in BOOLEAN
  BY DeviceTypes
<1>2. Refreshed(d, hint).flag = device.flag
  BY <1>1, RefreshedDriver
<1> QED BY <1>2, SetFlagIs

FlagsKept == driver.baseline /\ device.flag /\ ~device'.flag
               => ReadFlags \/ ClearFlags \/ ResetAndReapply

LEMMA FlagsStep == FreshInv /\ [Next]_vars => FlagsKept
<1> SUFFICES ASSUME FreshInv, [Next]_vars, driver.baseline, device.flag, ~device'.flag
             PROVE  ReadFlags \/ ClearFlags \/ ResetAndReapply
  BY DEF FlagsKept
<1>0. Released(driver) /\ device \in Devices /\ device.flag \in BOOLEAN /\ lag \in Ages
  BY InvDriver, InvFrom, DeviceTypes
<1>1. device' # device
  OBVIOUS
<1>2. ~UNCHANGED vars
  BY <1>1 DEF vars
<1>3. ~Conversions
  BY <1>0, <1>1, RunningKeepsFlag
     DEF Conversions, StartConversion, StartConversionFails, WriteConfiguration
<1>4. ~ApplyConfig /\ ~RecoverFails
  BY <1>0, <1>1, RunningKeepsFlag DEF ApplyConfig, RecoverFails
<1>5. \A d, hint : /\ Released(d) /\ d.baseline = driver.baseline
                   => ~SetFlag(Refreshed(d, hint).flag)
  BY <1>0, RefreshKeepsFlag
<1>6. ~ConversionReady /\ ~ReadFresh
  BY <1>0, <1>5 DEF ConversionReady, ReadFresh
<1>7. Released(Observed(driver)) /\ Observed(driver).baseline = driver.baseline
  BY <1>0, ObservedDriver DEF SameEvidence
<1>8. ~Tick
  BY <1>1, <1>5, <1>7 DEF Tick
<1>9. ~PollReadsFlags
  <2>1. job.kind # "NONE" => Justified(Observed(driver), NextStep(Observed(driver), PolledJob))
    BY NextStepJustified
  <2> QED BY <1>7, <2>1 DEF PollReadsFlags, Polling, Justified
<1>10. ~Jobbing
  BY <1>1, <1>9 DEF Jobbing, StartRead, CancelPollJob, Poll, PollTimesOut, PollWaits,
                    PollReadsCounter, PollReadsBlock, PollFails
<1>11. ~Converted
  BY <1>0 DEF Converted, Devices
<1>12. ~Environment
  <2>1. ~ConversionEnds
    BY <1>11 DEF ConversionEnds
  <2>2. ASSUME TimePasses PROVE device' = [device EXCEPT !.age = @ + 1]
    BY <1>1, <1>11, <2>2 DEF TimePasses
  <2> QED BY <1>0, <2>1, <2>2 DEF Environment, Devices
<1> QED BY <1>2, <1>3, <1>4, <1>6, <1>8, <1>10, <1>12 DEF Next, Applications, Reads

BaselineKept == driver.baseline /\ result' \in {"SAMPLE", "FRAME"} => unseen > 0

\* An accepted sample of a driver with a baseline has a counter of its own.
LEMMA AcceptedIsNew ==
  ASSUME NEW d, NEW what, d.baseline, GhostTypes, Arrives(d, what),
         result' \in {"SAMPLE", "FRAME"}
  PROVE  unseen > 0
<1>1. PICK trusted \in Trusts : ~Duplicate(d, trusted) /\ Deliver(d, what, trusted)
  BY DEF Arrives, Quiet
<1>2. trusted
  BY <1>1 DEF Deliver
<1>3. unseen % CounterModulo # 0
  BY <1>1, <1>2 DEF Duplicate, CounterFresh
<1>4. 0 % CounterModulo = 0
  BY Times
<1>5. unseen \in Nat /\ unseen # 0
  BY <1>3, <1>4, Times DEF GhostTypes
<1> QED BY <1>5

LEMMA BaselineStep == FreshInv /\ [Next]_vars => BaselineKept \/ UNCHANGED vars
<1> SUFFICES ASSUME FreshInv, Next, driver.baseline, result' \in {"SAMPLE", "FRAME"}
             PROVE  unseen > 0
  BY DEF BaselineKept
<1>0. /\ Released(driver) /\ device \in Devices /\ device.flag \in BOOLEAN
      /\ lag \in Ages /\ GhostTypes
  BY InvDriver, InvFrom, DeviceTypes
<1>1. result' # "NONE" /\ ~Quiet
  BY DEF Quiet
<1>2. ~Conversions /\ ~Applications /\ ~Environment
  BY <1>1 DEF Conversions, StartConversion, StartConversionFails, WriteConfiguration,
              Applications, ApplyConfig, ResetAndReapply, RecoverFails, Applied,
              Environment, ConversionEnds, TimePasses
<1>3. ~ConversionReady /\ ~ReadFlags /\ ~ClearFlags /\ ~Tick
  BY <1>1 DEF ConversionReady, ReadFlags, ClearFlags, Tick
<1>4. ~(StartRead \/ CancelPollJob \/ PollTimesOut \/ PollWaits \/ PollReadsFlags
         \/ PollReadsCounter \/ PollFails)
  BY <1>1 DEF StartRead, CancelPollJob, PollTimesOut, PollWaits, PollReadsFlags,
              PollReadsCounter, PollFails
<1>5. CASE ReadFresh
  <2>1. PICK hint \in Hints, what \in {"SAMPLE", "FRAME"} :
          Arrives(Refreshed(driver, hint).driver, what)
    BY <1>5 DEF ReadFresh
  <2>2. Refreshed(driver, hint).driver.baseline
    BY <1>0, RefreshedDriver
  <2> QED BY <1>0, <2>1, <2>2, AcceptedIsNew
<1>6. CASE PollReadsBlock
  <2>1. Released(Observed(driver)) /\ Observed(driver).baseline = driver.baseline
    BY <1>0, ObservedDriver DEF SameEvidence
  <2>2. Finished(Observed(driver)).baseline
    BY <2>1, FinishedDriver DEF SameEvidence
  <2> QED BY <1>0, <1>6, <2>2, AcceptedIsNew DEF PollReadsBlock
<1> QED BY <1>2, <1>3, <1>4, <1>5, <1>6 DEF Next, Reads, Jobbing, Poll

\* With a counter baseline no readiness probe consumes the device's flags: only the
\* application's own flag accesses and a device reset clear them.
THEOREM ProbesLeaveFlags == Spec => FlagsLeftAlone
<1>1. FreshInv /\ [Next]_vars => FlagsKept
  BY FlagsStep
<1> QED BY <1>1, FreshInit, FreshStep, PTL DEF Spec, FlagsLeftAlone, FlagsKept

\* Between two applications of a configuration no conversion is handed out twice as
\* fresh, for any counter width.
THEOREM BaselineNeverRepeats == Spec => NoRepeatOnBaseline
<1>1. FreshInv /\ [Next]_vars => BaselineKept \/ UNCHANGED vars
  BY BaselineStep
<1> QED BY <1>1, FreshInit, FreshStep, PTL DEF Spec, NoRepeatOnBaseline, BaselineKept

-----------------------------------------------------------------------------
(* What the gates mean.  With a clock hook, no INT hint, no flag reads of the
   application's own and a device in time, an open gate is a conversion. *)

InTime == ClockHook /\ OnTime /\ ~IntHint /\ ~OwnFlagReads

\* What a driver d that waits knows of a device v: u conversions are unseen, w says
\* that none has completed since the trigger, and h count since the gate's start.
Owned(d, v, u, w, h) ==
  /\ v.running # "IDLE" => v.age < DueAt(v.running)
  /\ d.mode = "CONTINUOUS" => v.running = "CONTINUOUS" /\ ~w
  /\ w /\ d.started => v.running = "ONE_SHOT" /\ d.convAge <= v.age
  /\ d.mode = "POWER_DOWN" /\ d.started /\ ~w => u > 0
  /\ d.mode = "CONTINUOUS" /\ d.started =>
       /\ u = 0 => d.convAge <= v.age
       /\ h = Slots \/ d.convAge <= h * ConversionTime + v.age

\* A step that transfers was chosen behind an open gate; a block, when it is a frame
\* of a FIFO_FULL driver.
Gated(step, kind, d) ==
  \/ step \in {"READ_FLAGS", "READ_COUNTER"}
  \/ step = "READ_BURST_BLOCK" /\ kind = "READ_BURST" /\ FifoFull /\ d.mode = "CONTINUOUS"

JobGate == Gated(job.step, job.kind, driver) => GateElapsed(driver, job.kind, TRUE)

GateInv == timed /\ Owned(driver, device, unseen, awaited, history) /\ JobGate

LEMMA Dues ==
  /\ 0 < DueAt("ONE_SHOT") /\ 0 < DueAt("CONTINUOUS")
  /\ DueAt("ONE_SHOT") = OneShotBudget /\ DueAt("CONTINUOUS") = ConversionTime
  BY TimingAssumption DEF DueAt

LEMMA ProductOrder ==
  ASSUME NEW a \in Nat, NEW b \in Nat, NEW c \in Nat \ {0}, a * c < b * c
  PROVE  a < b
<1> SUFFICES ASSUME b <= a PROVE FALSE
  OBVIOUS
<1>1. (a - b) * c >= 0
  <2>1. a - b \in Nat
    OBVIOUS
  <2> DEFINE k == a - b
  <2> HIDE DEF k
  <2>2. k \in Nat => k * c >= 0
    OBVIOUS
  <2> QED BY <2>1, <2>2 DEF k
<1>2. (a - b) * c = a * c - b * c
  OBVIOUS
<1>3. a * c \in Nat /\ b * c \in Nat
  OBVIOUS
<1> QED BY <1>1, <1>2, <1>3

\* An open gate of a driver that waits is a conversion nobody has been handed.
LEMMA GateIsConversion ==
  ASSUME NEW d \in Drivers, NEW v \in Devices, NEW u \in Nat, NEW w \in BOOLEAN,
         NEW h \in 0 .. Slots, Owned(d, v, u, w, h), d.started, NEW kind,
         GateElapsed(d, kind, TRUE)
  PROVE  u > 0 /\ ~w
<1>1. CASE d.mode = "CONTINUOUS"
  <2>1. ContinuousGate(kind) >= ConversionTime
    <3>1. Slots * ConversionTime >= ConversionTime
      <4>1. Slots >= 1 /\ Slots \in Nat /\ ConversionTime \in Nat
        BY TimingAssumption
      <4>2. (Slots - 1) * ConversionTime >= 0
        <5> DEFINE k == Slots - 1
        <5>1. k \in Nat
          BY <4>1
        <5> HIDE DEF k
        <5>2. k * ConversionTime >= 0
          BY <4>1, <5>1
        <5> QED BY <5>2 DEF k
      <4>3. (Slots - 1) * ConversionTime = Slots * ConversionTime - ConversionTime
        BY <4>1
      <4> QED BY <4>1, <4>2, <4>3
    <3> QED BY <3>1, Times DEF ContinuousGate
  <2>2. d.convAge >= ConversionTime
    <3>1. d.convAge >= ContinuousGate(kind)
      BY <1>1 DEF GateElapsed
    <3>2. d.convAge \in Nat /\ ContinuousGate(kind) \in Nat
      BY Times DEF Drivers, Ages, ContinuousGate
    <3> QED BY <2>1, <3>1, <3>2, Times
  <2>3. v.age < ConversionTime /\ v.age \in Nat /\ d.convAge \in Nat
    BY <1>1, Dues, Times DEF Owned, Devices, Drivers, Ages
  <2>4. u # 0
    BY <1>1, <2>2, <2>3, Times DEF Owned
  <2> QED BY <1>1, <2>4 DEF Owned
<1>2. CASE d.mode = "POWER_DOWN"
  <2>1. d.convAge >= OneShotBudget
    BY <1>2 DEF GateElapsed
  <2>2. v.age \in Nat /\ d.convAge \in Nat
    BY Times DEF Devices, Drivers, Ages
  <2>3. ~w
    <3> SUFFICES ASSUME w PROVE FALSE
      OBVIOUS
    <3>1. v.running = "ONE_SHOT" /\ d.convAge <= v.age
      BY DEF Owned
    <3>2. v.age < OneShotBudget
      BY <3>1, Dues DEF Owned
    <3> QED BY <2>1, <2>2, <3>1, <3>2, Times
  <2> QED BY <1>2, <2>3 DEF Owned
<1> QED BY <1>1, <1>2 DEF Drivers, StableModes

\* An open history gate is a whole frame of conversions.
LEMMA GateIsHistory ==
  ASSUME NEW d \in Drivers, NEW v \in Devices, NEW u, NEW w, NEW h \in 0 .. Slots,
         Owned(d, v, u, w, h), d.started, d.mode = "CONTINUOUS", FifoFull,
         GateElapsed(d, "READ_BURST", TRUE)
  PROVE  h >= Slots
<1>1. d.convAge >= Slots * ConversionTime
  BY DEF GateElapsed, ContinuousGate
<1>2. v.age < ConversionTime /\ v.age \in Nat /\ d.convAge \in Nat /\ h \in Nat
  BY Dues, Times DEF Owned, Devices, Drivers, Ages
<1>3. CASE h = Slots
  BY <1>3, Times
<1>4. CASE d.convAge <= h * ConversionTime + v.age
  <2>1. h * ConversionTime \in Nat /\ Slots * ConversionTime \in Nat
    BY <1>2, Times
  <2>2. (h + 1) * ConversionTime = h * ConversionTime + ConversionTime
    BY <1>2, Times
  <2>3. Slots * ConversionTime < (h + 1) * ConversionTime
    BY <1>1, <1>2, <1>4, <2>1, <2>2, Times
  <2>4. Slots < h + 1
    BY <1>2, <2>3, ProductOrder, TimingAssumption
  <2> QED BY <1>2, <2>4, Times
<1> QED BY <1>3, <1>4 DEF Owned

\* Giving up, latching, probing, pacing: the driver waits for no more than before.
Calmer(x, d) == /\ x.mode = d.mode /\ x.convAge = d.convAge
                /\ x.started => d.started

LEMMA CalmerOwned ==
  ASSUME NEW d, NEW x, NEW v, NEW y, NEW u, NEW w, NEW h, Owned(d, v, u, w, h),
         Calmer(x, d), y.running = v.running, y.age = v.age
  PROVE  Owned(x, y, u, w, h)
  BY DEF Owned, Calmer

LEMMA CalmingCalls ==
  ASSUME NEW d \in Drivers, NEW found
  PROVE  /\ Calmer(Probed(d, found), d) /\ Calmer(Abandoned(d), d)
         /\ Calmer(NoEvidence(d), d) /\ Calmer(Finished(d), d) /\ Calmer(d, d)
         /\ Calmer(GivenUp(d), d) /\ Calmer(Finished(Abandoned(d)), d)
  BY DEF Calmer, Probed, Latched, RetryArmed, Abandoned, NoEvidence, Finished, GivenUp, Drivers

LEMMA CalmerTwice ==
  ASSUME NEW d, NEW x, NEW y, Calmer(x, d), Calmer(y, x)
  PROVE  Calmer(y, d)
  BY DEF Calmer

\* A refresh that finds evidence looked behind an open gate.
LEMMA RefreshGated ==
  ASSUME NEW d \in Drivers, NEW hint \in Hints, ~IntHint, timed
  PROVE  /\ Calmer(Refreshed(d, hint).driver, d)
         /\ ~d.evidence /\ Refreshed(d, hint).driver.evidence => GateElapsed(d, "NONE", TRUE)
<1>1. hint = FALSE
  BY DEF Hints
<1> DEFINE probing == ~d.evidence /\ RetryElapsed(d, timed)
           gate    == GateElapsed(d, "NONE", timed)
           counter == probing /\ d.baseline /\ (gate \/ hint)
           flags   == probing /\ ~d.baseline /\ gate
           after   == CASE counter -> Probed(d, CounterFresh(d))
                        [] flags   -> Probed(d, device.flag)
                        [] OTHER   -> d
<1>2. Refreshed(d, hint).driver = after
  BY DEF Refreshed
<1>3. after = d \/ (gate /\ (after = Probed(d, CounterFresh(d)) \/ after = Probed(d, device.flag)))
  BY <1>1
<1>4. gate => GateElapsed(d, "NONE", TRUE)
  BY DEF GateElapsed
<1> HIDE DEF after, gate
<1>5. Calmer(after, d)
  BY <1>3, CalmingCalls
<1> QED BY <1>2, <1>3, <1>4, <1>5

\* Time does not close a gate.
LEMMA GateStays ==
  ASSUME NEW d \in Drivers, NEW kind, GateElapsed(d, kind, TRUE)
  PROVE  GateElapsed(Aged(d, 1), kind, TRUE)
<1>1. /\ Aged(d, 1).mode = d.mode /\ Aged(d, 1).started = d.started
      /\ d.started \/ d.mode = "CONTINUOUS" =>
           Aged(d, 1).convAge = Capped(d.convAge + 1, ReadTimeout)
  BY DEF Aged, Drivers
<1>2. \A g \in 0 .. ReadTimeout : d.convAge >= g => Capped(d.convAge + 1, ReadTimeout) >= g
  BY Times DEF Capped, Drivers, Ages
<1>3. OneShotBudget \in 0 .. ReadTimeout /\ ContinuousGate(kind) \in 0 .. ReadTimeout
  <2>1. ConversionTime \in 0 .. ReadTimeout /\ OneShotBudget \in 0 .. ReadTimeout
    BY TimingAssumption
  <2>2. FifoFull => Slots * ConversionTime \in 0 .. ReadTimeout
    BY TimingAssumption
  <2> QED BY <2>1, <2>2 DEF ContinuousGate
<1> QED BY <1>1, <1>2, <1>3 DEF GateElapsed

\* A poll arrives at a gated step only behind an open gate.
LEMMA NextStepGated ==
  ASSUME FreshInv, JobGate, NEW s, s = NextStep(driver, PolledJob), Gated(s, job.kind, driver)
  PROVE  GateElapsed(driver, job.kind, TRUE)
<1>1. PolledJob.step = job.step /\ PolledJob.kind = job.kind
  BY PolledJobType
<1>2. CASE job.step # "WAIT_READY"
  BY <1>1, <1>2 DEF NextStep, JobGate
<1>3. CASE job.step = "WAIT_READY"
  BY <1>1, <1>3 DEF NextStep, Gated
<1> QED BY <1>2, <1>3

-----------------------------------------------------------------------------
(* The gate invariant, step by step. *)

LEMMA ObservedByHook == ClockHook => Observed(driver) = driver
  BY DEF Observed

LEMMA InitGate == InTime /\ Init => GateInv
<1> SUFFICES ASSUME InTime, Init PROVE GateInv
  OBVIOUS
<1>1. timed /\ JobGate
  BY DEF InTime, Init, JobGate, Gated, IdleJob
<1>2. Owned(driver, device, unseen, awaited, history)
  BY Dues, Times DEF Init, Owned, StableModes
<1> QED BY <1>1, <1>2 DEF GateInv

\* A driver whose gate starts with its device.
LEMMA FreshlyOwned ==
  ASSUME NEW d \in Drivers, NEW v, NEW u, NEW w, NEW h \in Nat, d.convAge = 0, v.age = 0,
         d.mode = "CONTINUOUS" => v.running = "CONTINUOUS" /\ ~w,
         v.running \in {"IDLE", "ONE_SHOT", "CONTINUOUS"},
         d.mode = "POWER_DOWN" /\ d.started => v.running = "ONE_SHOT" /\ w
  PROVE  Owned(d, v, u, w, h)
<1>1. h * ConversionTime \in Nat
  BY Times
<1> QED BY <1>1, Dues DEF Owned, Drivers, StableModes

\* With no job there is no step to gate.
LEMMA IdleGate ==
  ASSUME job'.step \in {"IDLE", "WAIT_READY"}
  PROVE  JobGate'
  BY DEF JobGate, Gated

LEMMA ConversionsGate ==
  ASSUME FreshInv, GateInv, Conversions
  PROVE  GateInv'
<1>0. /\ driver \in Drivers /\ device \in Devices /\ driver.mode \in StableModes
      /\ history \in Nat
  BY Times DEF FreshInv, TypeOK, Drivers
<1>a. driver' \in Drivers /\ history' \in Nat
  <2>1. FreshInv'
    BY ConversionsStep
  <2> QED BY <2>1, Times DEF FreshInv, TypeOK
<1>b. timed' = timed /\ job' = job
  BY DEF Conversions, StartConversion, StartConversionFails, WriteConfiguration, clock
<1>1. CASE StartConversion
  <2>1. /\ driver'.mode = "POWER_DOWN" /\ driver'.convAge = 0
        /\ device'.running = "ONE_SHOT" /\ device'.age = 0 /\ awaited' = TRUE
    BY <1>0, <1>1 DEF StartConversion, Triggered, StableModes, Restarted, Running, Drivers, Devices
  <2>2. Owned(driver, device, unseen, awaited, history)'
    BY <1>a, <2>1, FreshlyOwned
  <2>3. job'.step = "IDLE"
    BY <1>1, <1>b, NoneIsIdle DEF StartConversion
  <2> QED BY <1>b, <2>2, <2>3, IdleGate DEF GateInv
<1>2. CASE StartConversionFails
  <2>1. driver' = Abandoned(driver) /\ UNCHANGED <<device, unseen, awaited, history>>
    BY <1>2 DEF StartConversionFails, Quiet, ghosts
  <2>2. Calmer(driver', driver)
    BY <1>0, <2>1, CalmingCalls
  <2>3. Owned(driver, device, unseen, awaited, history)'
    BY <2>1, <2>2, CalmerOwned DEF GateInv
  <2>4. JobGate'
    BY <1>b, <1>0, <2>1 DEF GateInv, JobGate, Gated, GateElapsed, Abandoned, Drivers
  <2> QED BY <1>b, <2>3, <2>4 DEF GateInv
<1>3. CASE WriteConfiguration
  <2>1. job'.step = "IDLE"
    BY <1>3, <1>b, NoneIsIdle DEF WriteConfiguration
  <2>2. Owned(driver, device, unseen, awaited, history)'
    <3>1. \/ /\ driver' = Restarted(driver, "CONTINUOUS", TRUE)
             /\ Running("CONTINUOUS") /\ awaited' = FALSE
          \/ /\ driver' = Restarted(driver, "POWER_DOWN", FALSE)
             /\ Running("IDLE") /\ awaited' = FALSE
          \/ /\ driver' = Restarted(driver, "POWER_DOWN", TRUE)
             /\ Running("ONE_SHOT") /\ awaited' = TRUE
      BY <1>3 DEF WriteConfiguration, Triggered
    <3>2. /\ driver'.convAge = 0 /\ device'.age = 0
          /\ driver'.mode = "CONTINUOUS" => device'.running = "CONTINUOUS" /\ ~awaited'
          /\ device'.running \in {"IDLE", "ONE_SHOT", "CONTINUOUS"}
          /\ driver'.mode = "POWER_DOWN" /\ driver'.started =>
               device'.running = "ONE_SHOT" /\ awaited'
      <4>1. CASE /\ driver' = Restarted(driver, "CONTINUOUS", TRUE)
                 /\ Running("CONTINUOUS") /\ awaited' = FALSE
        BY <1>0, <4>1 DEF Restarted, Running, Drivers, Devices
      <4>2. CASE /\ driver' = Restarted(driver, "POWER_DOWN", FALSE)
                 /\ Running("IDLE") /\ awaited' = FALSE
        BY <1>0, <4>2 DEF Restarted, Running, Drivers, Devices
      <4>3. CASE /\ driver' = Restarted(driver, "POWER_DOWN", TRUE)
                 /\ Running("ONE_SHOT") /\ awaited' = TRUE
        BY <1>0, <4>3 DEF Restarted, Running, Drivers, Devices
      <4> QED BY <3>1, <4>1, <4>2, <4>3
    <3> QED BY <1>a, <3>2, FreshlyOwned
  <2> QED BY <1>b, <2>1, <2>2, IdleGate DEF GateInv
<1> QED BY <1>1, <1>2, <1>3 DEF Conversions

LEMMA ApplicationsGate ==
  ASSUME FreshInv, GateInv, Applications
  PROVE  GateInv'
<1>0. driver \in Drivers /\ device \in Devices /\ driver.mode \in StableModes
  BY DEF FreshInv, TypeOK, Drivers
<1>a. driver' \in Drivers /\ history' \in Nat
  <2>1. FreshInv'
    BY ApplicationsStep
  <2> QED BY <2>1, Times DEF FreshInv, TypeOK
<1>b. /\ timed' = timed /\ job' = job /\ job.kind = "NONE"
  BY DEF Applications, ApplyConfig, ResetAndReapply, RecoverFails, Applied, clock
<1>c. JobGate'
  BY <1>b, NoneIsIdle, IdleGate
<1>1. CASE ApplyConfig \/ ResetAndReapply
  <2>1. PICK m \in StableModes :
          /\ driver' = [ClearedRuntime(driver, m) EXCEPT !.started = m = "CONTINUOUS"]
          /\ awaited' = FALSE
          /\ device'.running = IF m = "CONTINUOUS" THEN m ELSE "IDLE"
          /\ device'.age = 0
    <3>1. CASE ApplyConfig
      BY <1>0, <3>1 DEF ApplyConfig, Applied, Running, Devices
    <3>2. CASE ResetAndReapply
      BY <3>2 DEF ResetAndReapply, Applied
    <3> QED BY <1>1, <3>1, <3>2
  <2>2. /\ driver'.mode = m /\ driver'.started = (m = "CONTINUOUS") /\ driver'.convAge = 0
    BY <1>0, <2>1 DEF ClearedRuntime, Restarted, Drivers, StableModes
  <2>3. Owned(driver, device, unseen, awaited, history)'
    BY <1>a, <2>1, <2>2, FreshlyOwned
  <2> QED BY <1>b, <1>c, <2>3 DEF GateInv
<1>2. CASE RecoverFails
  <2>1. PICK a \in Ages : driver' = [ClearedRuntime(driver, driver.mode) EXCEPT !.convAge = a]
    BY <1>2, RetryAges DEF RecoverFails
  <2>2. driver'.mode = driver.mode /\ driver'.started = FALSE
    BY <1>0, <2>1 DEF ClearedRuntime, Restarted, Drivers, StableModes
  <2>3. UNCHANGED <<device, unseen, awaited, history>>
    BY <1>2 DEF RecoverFails, Quiet, ghosts
  <2>4. Owned(driver, device, unseen, awaited, history)'
    BY <2>2, <2>3 DEF GateInv, Owned
  <2> QED BY <1>b, <1>c, <2>4 DEF GateInv
<1> QED BY <1>1, <1>2 DEF Applications

\* An arrival restarts the gate of a continuous driver and ends any other wait.
LEMMA ArrivalOwned ==
  ASSUME FreshInv, NEW d \in Drivers, NEW what, Arrives(d, what),
         Owned(d, device, unseen, awaited, history),
         device'.running = device.running, device'.age = device.age
  PROVE  Owned(driver, device, unseen, awaited, history)'
<1>1. PICK trusted \in Trusts :
        \/ driver' = NoEvidence(d) /\ Quiet
        \/ Deliver(d, what, trusted)
  BY DEF Arrives
<1>2. CASE driver' = NoEvidence(d) /\ Quiet
  <2>1. Calmer(driver', d) /\ UNCHANGED <<unseen, awaited, history>>
    BY <1>2, CalmingCalls DEF Quiet, ghosts
  <2> QED BY <2>1, CalmerOwned
<1>3. CASE Deliver(d, what, trusted)
  <2>1. /\ driver'.mode = d.mode /\ driver'.started = (d.mode = "CONTINUOUS")
        /\ driver'.convAge = 0
    BY <1>3 DEF Deliver, Consumed, Drivers
  <2>2. awaited' = awaited /\ history' = 0
    BY <1>3 DEF Deliver
  <2>3. device.age \in Nat /\ 0 * ConversionTime = 0
    BY Times DEF FreshInv, TypeOK, Devices
  <2>4. d.mode # "CONTINUOUS" => ~driver'.started
    BY <2>1
  <2>5. driver'.convAge <= device'.age
    BY <2>1, <2>3
  <2>6. driver'.convAge <= history' * ConversionTime + device'.age
    BY <2>1, <2>2, <2>3
  <2> QED BY <2>1, <2>2, <2>4, <2>5, <2>6 DEF Owned
<1> QED BY <1>1, <1>2, <1>3

LEMMA FlagFields ==
  ASSUME device \in Devices, NEW f, SetFlag(f) \/ UNCHANGED device
  PROVE  device'.running = device.running /\ device'.age = device.age
  BY DEF SetFlag, Devices

LEMMA ReadsGate ==
  ASSUME FreshInv, GateInv, InTime, Reads
  PROVE  GateInv'
<1>0. driver \in Drivers /\ device \in Devices /\ Released(driver) /\ device.flag \in BOOLEAN
  BY InvDriver, DeviceTypes DEF FreshInv, TypeOK
<1>1. CASE ConversionReady
  <2>1. PICK hint \in Hints : /\ driver' = Refreshed(driver, hint).driver
                              /\ SetFlag(Refreshed(driver, hint).flag)
    BY <1>1 DEF ConversionReady
  <2>2. Calmer(driver', driver)
    BY <1>0, <2>1, RefreshGated DEF GateInv, InTime
  <2>3. UNCHANGED <<unseen, awaited, history, timed, job>> /\ job.kind = "NONE"
    BY <1>1 DEF ConversionReady, Quiet, ghosts, clock
  <2>4. device'.running = device.running /\ device'.age = device.age
    BY <1>0, <2>1, FlagFields
  <2>5. Owned(driver, device, unseen, awaited, history)'
    BY <2>2, <2>3, <2>4, CalmerOwned DEF GateInv
  <2> QED BY <2>3, <2>5, NoneIsIdle, IdleGate DEF GateInv
<1>2. CASE ReadFresh
  <2>1. PICK hint \in Hints, what \in {"SAMPLE", "FRAME"} :
          /\ SetFlag(Refreshed(driver, hint).flag)
          /\ Arrives(Refreshed(driver, hint).driver, what)
    BY <1>2 DEF ReadFresh
  <2> DEFINE d == Refreshed(driver, hint).driver
  <2>2. Calmer(d, driver) /\ d \in Drivers
    <3>1. Calmer(d, driver)
      BY <1>0, RefreshGated DEF GateInv, InTime
    <3>2. Released(d)
      BY <1>0, RefreshedDriver
    <3> QED BY <3>1, <3>2 DEF Released
  <2>3. device'.running = device.running /\ device'.age = device.age
    BY <1>0, <2>1, FlagFields
  <2>4. Owned(d, device, unseen, awaited, history)
    BY <2>2, CalmerOwned DEF GateInv
  <2> HIDE DEF d
  <2>5. Arrives(d, what)
    BY <2>1 DEF d
  <2>6. Owned(driver, device, unseen, awaited, history)'
    BY <2>2, <2>3, <2>4, <2>5, ArrivalOwned
  <2>7. UNCHANGED <<timed, job>> /\ job.kind = "NONE"
    BY <1>2 DEF ReadFresh, clock
  <2> QED BY <2>6, <2>7, NoneIsIdle, IdleGate DEF GateInv
<1>3. CASE Tick
  <2>1. timed' = TRUE /\ UNCHANGED <<unseen, awaited, history>>
    BY <1>3 DEF Tick, ObserveHost, Quiet, ghosts
  <2>2. job'.kind = job.kind /\ job'.step = job.step
    BY <1>3, ClockTypes, AgedJobType DEF Tick
  <2>3. CASE driver' = driver /\ UNCHANGED device
    BY <2>1, <2>2, <2>3 DEF GateInv, JobGate
  <2>4. CASE /\ job.kind = "NONE"
             /\ \/ \E hint \in Hints : /\ driver' = GivenUp(Refreshed(driver, hint).driver)
                                        /\ SetFlag(Refreshed(driver, hint).flag)
                \/ driver' = GivenUp(driver) /\ UNCHANGED device
    <3>1. Calmer(driver', driver) /\ device'.running = device.running /\ device'.age = device.age
      <4>1. CASE driver' = GivenUp(driver) /\ UNCHANGED device
        BY <1>0, <4>1, CalmingCalls
      <4>2. CASE \E hint \in Hints : /\ driver' = GivenUp(Refreshed(driver, hint).driver)
                                     /\ SetFlag(Refreshed(driver, hint).flag)
        <5>1. PICK hint \in Hints : /\ driver' = GivenUp(Refreshed(driver, hint).driver)
                                    /\ SetFlag(Refreshed(driver, hint).flag)
          BY <4>2
        <5> DEFINE d == Refreshed(driver, hint).driver
        <5>2. Calmer(d, driver) /\ d \in Drivers
          <6>1. Calmer(d, driver)
            BY <1>0, RefreshGated DEF GateInv, InTime
          <6>2. Released(d)
            BY <1>0, RefreshedDriver
          <6> QED BY <6>1, <6>2 DEF Released
        <5> HIDE DEF d
        <5>3. Calmer(GivenUp(d), d)
          BY <5>2, CalmingCalls
        <5>4. Calmer(GivenUp(d), driver)
          BY <5>2, <5>3, CalmerTwice
        <5>5. device'.running = device.running /\ device'.age = device.age
          BY <1>0, <5>1, FlagFields
        <5> QED BY <5>1, <5>4, <5>5 DEF d
      <4> QED BY <2>4, <4>1, <4>2
    <3>2. Owned(driver, device, unseen, awaited, history)'
      BY <2>1, <3>1, CalmerOwned DEF GateInv
    <3>3. JobGate'
      BY <2>2, <2>4, NoneIsIdle, IdleGate
    <3> QED BY <2>1, <3>2, <3>3 DEF GateInv
  <2> QED BY <1>3, <2>3, <2>4, ObservedByHook DEF Tick, InTime
<1> QED BY <1>1, <1>2, <1>3 DEF Reads, ReadFlags, ClearFlags, InTime
\* A call that gives up, finishes or probes keeps what a waiting driver knows.
LEMMA CalmKept ==
  ASSUME GateInv, Calmer(driver', driver), device'.running = device.running,
         device'.age = device.age, UNCHANGED ghosts
  PROVE  Owned(driver, device, unseen, awaited, history)'
<1>1. UNCHANGED <<unseen, awaited, history>>
  BY DEF ghosts
<1> QED BY <1>1, CalmerOwned DEF GateInv

\* A probe of a job that found a conversion leaves the gate of its frame open.
LEMMA FoundGated ==
  ASSUME FreshInv, GateInv, driver \in Drivers, NEW s \in {"READ_FLAGS", "READ_COUNTER"},
         NextStep(driver, PolledJob) = s, NEW found, Found(driver, found)
  PROVE  JobGate'
<1>1. GateElapsed(driver, job.kind, TRUE)
  <2>1. Gated(s, job.kind, driver)
    BY DEF Gated
  <2> QED BY <2>1, NextStepGated DEF GateInv
<1>2. driver' = Probed(driver, found)
  BY DEF Found
<1>3. driver'.mode = driver.mode /\ driver'.convAge = driver.convAge
  BY <1>2, CalmingCalls DEF Calmer
<1>4. job'.kind = job.kind /\ job'.step \in {"READ_BURST_BLOCK", "WAIT_READY"}
  BY PolledJobType DEF Found, JobSteps
<1>5. SUFFICES ASSUME driver'.mode = "CONTINUOUS"
               PROVE  GateElapsed(driver, job.kind, TRUE)'
  BY <1>4 DEF JobGate, Gated
<1>6. driver.convAge >= ContinuousGate(job.kind)
  BY <1>1, <1>3, <1>5 DEF GateElapsed
<1> QED BY <1>3, <1>4, <1>5, <1>6 DEF GateElapsed, ContinuousGate

LEMMA JobbingGate ==
  ASSUME FreshInv, GateInv, InTime, Jobbing
  PROVE  GateInv'
<1>0. driver \in Drivers /\ device \in Devices /\ Observed(driver) = driver
  BY InvDriver, ObservedByHook DEF FreshInv, TypeOK, InTime
<1>1. timed'
  BY DEF GateInv, Jobbing, StartRead, CancelPollJob, Poll, PollTimesOut, PollWaits,
         PollReadsFlags, PollReadsCounter, PollReadsBlock, PollFails, Polling, ObserveHost,
         clock
<1>2. CASE StartRead \/ CancelPollJob \/ PollTimesOut \/ PollFails
  <2>1. \/ driver' = Finished(driver)
        \/ driver' = Finished(Abandoned(driver))
    BY <1>0, <1>2 DEF StartRead, CancelPollJob, PollTimesOut, PollFails, Finished
  <2>2. Calmer(driver', driver) /\ UNCHANGED <<device, ghosts>>
    BY <1>0, <1>2, <2>1, CalmingCalls
       DEF StartRead, CancelPollJob, PollTimesOut, PollFails, Quiet
  <2>3. job'.step \in {"IDLE", "WAIT_READY"}
    BY <1>2 DEF StartRead, CancelPollJob, PollTimesOut, PollFails, Started, IdleJob
  <2> QED BY <1>1, <2>2, <2>3, CalmKept, IdleGate DEF GateInv
<1>3. CASE PollWaits
  <2>1. driver' = driver /\ UNCHANGED <<device, ghosts>>
    BY <1>0, <1>3 DEF PollWaits, Quiet
  <2>2. Owned(driver, device, unseen, awaited, history)'
    BY <1>0, <2>1, CalmingCalls, CalmKept
  <2> DEFINE s == NextStep(driver, PolledJob)
  <2>3. job'.kind = job.kind /\ job'.step = s
    <3>1. s \in JobSteps
      BY <1>0, <1>3, NextStepJustified DEF PollWaits, Justified
    <3>2. job' = [PolledJob EXCEPT !.step = s]
      BY <1>0, <1>3 DEF PollWaits
    <3> HIDE DEF s
    <3> QED BY <3>1, <3>2, PolledJobType
  <2>4. Gated(s, job.kind, driver) => GateElapsed(driver, job.kind, TRUE)
    BY NextStepGated DEF GateInv
  <2> HIDE DEF s
  <2>5. JobGate'
    BY <2>1, <2>3, <2>4 DEF JobGate, Gated, GateElapsed, ContinuousGate
  <2> QED BY <1>1, <2>2, <2>5 DEF GateInv
<1>4. CASE PollReadsFlags
  <2>1. Found(driver, device.flag) /\ SetFlag(FALSE) /\ UNCHANGED ghosts
        /\ NextStep(driver, PolledJob) = "READ_FLAGS"
    BY <1>0, <1>4 DEF PollReadsFlags, Polling, Quiet
  <2>2. Calmer(driver', driver)
    BY <1>0, <2>1, CalmingCalls DEF Found
  <2>3. device'.running = device.running /\ device'.age = device.age
    BY <1>0, <2>1, FlagFields
  <2>4. JobGate'
    BY <1>0, <2>1, FoundGated
  <2> QED BY <1>1, <2>1, <2>2, <2>3, <2>4, CalmKept DEF GateInv
<1>5. CASE PollReadsCounter
  <2>1. Found(driver, CounterFresh(driver)) /\ UNCHANGED <<device, ghosts>>
        /\ NextStep(driver, PolledJob) = "READ_COUNTER"
    BY <1>0, <1>5 DEF PollReadsCounter, Polling, Quiet
  <2>2. Calmer(driver', driver)
    BY <1>0, <2>1, CalmingCalls DEF Found
  <2>3. JobGate'
    BY <1>0, <2>1, FoundGated
  <2> QED BY <1>1, <2>1, <2>2, <2>3, CalmKept DEF GateInv
<1>6. CASE PollReadsBlock
  <2>1. PICK what \in {"FRAME", "SAMPLE"} : Arrives(Finished(driver), what)
    BY <1>0, <1>6 DEF PollReadsBlock
  <2>2. UNCHANGED device /\ job'.step = "IDLE"
    BY <1>6 DEF PollReadsBlock, IdleJob
  <2>3. Finished(driver) \in Drivers /\ Calmer(Finished(driver), driver)
    BY <1>0, InvDriver, FinishedDriver, CalmingCalls DEF Released
  <2>4. Owned(Finished(driver), device, unseen, awaited, history)
    BY <2>3, CalmerOwned DEF GateInv
  <2>5. Owned(driver, device, unseen, awaited, history)'
    BY <2>1, <2>2, <2>3, <2>4, ArrivalOwned
  <2> QED BY <1>1, <2>2, <2>5, IdleGate DEF GateInv
<1> QED BY <1>2, <1>3, <1>4, <1>5, <1>6 DEF Jobbing, Poll

\* A conversion that ends serves every wait, and counts for the history.
LEMMA ConvertedOwned ==
  ASSUME FreshInv, GateInv, NEW d, d.mode = driver.mode, d.started = driver.started,
         d.convAge \in Nat, d.convAge <= driver.convAge + 1, Converted,
         driver' = d, device.running # "IDLE"
  PROVE  Owned(driver, device, unseen, awaited, history)'
<1>0. /\ driver \in Drivers /\ device \in Devices /\ history \in 0 .. Slots /\ history \in Nat
      /\ unseen \in Nat /\ driver.convAge \in Nat /\ device.age \in Nat
  BY Times DEF FreshInv, TypeOK, Drivers, Devices, Ages
<1>1. unseen' > 0 /\ ~awaited' /\ device'.age = 0
      /\ device'.running = IF device.running = "ONE_SHOT" THEN "IDLE" ELSE device.running
  BY <1>0, Times DEF Converted, NextUnseen, Devices
<1>2. device'.running # "IDLE" => device'.age < DueAt(device'.running)
  BY <1>0, <1>1, Dues, Times DEF Devices
<1>3. driver.mode = "CONTINUOUS" => device.running = "CONTINUOUS"
  BY DEF GateInv, Owned
<1>4. ASSUME driver.mode = "CONTINUOUS", driver.started, history' # Slots
      PROVE  d.convAge <= history' * ConversionTime + device'.age
  <2>1. history # Slots /\ history' = history + 1
    BY <1>0, <1>4, Times DEF Converted, Capped
  <2>2. driver.convAge <= history * ConversionTime + device.age
    BY <1>4, <2>1 DEF GateInv, Owned
  <2>3. device.age + 1 <= ConversionTime
    BY <1>0, <1>3, <1>4, Dues, Times DEF GateInv, Owned
  <2>4. history * ConversionTime \in Nat /\ ConversionTime \in Nat
    BY <1>0, Times
  <2>5. history' * ConversionTime = history * ConversionTime + ConversionTime
    BY <1>0, <2>1, Times
  <2> HIDE DEF Converted
  <2> DEFINE p == history * ConversionTime
             q == history' * ConversionTime
  <2>6. p \in Nat /\ q = p + ConversionTime /\ driver.convAge <= p + device.age
    BY <2>2, <2>4, <2>5
  <2> HIDE DEF p, q
  <2>7. d.convAge <= q + 0
    BY <1>0, <2>3, <2>4, <2>6
  <2> QED BY <1>1, <2>7 DEF q
<1> QED BY <1>1, <1>2, <1>3, <1>4 DEF Owned

LEMMA EnvironmentGate ==
  ASSUME FreshInv, GateInv, InTime, Environment
  PROVE  GateInv'
<1>0. /\ driver \in Drivers /\ device \in Devices /\ driver.convAge \in Nat
      /\ device.age \in Nat /\ history \in Nat /\ job \in Jobs /\ timed' = timed
  BY Times DEF FreshInv, TypeOK, Drivers, Devices, Ages, Environment, ConversionEnds,
               TimePasses, clock
<1>1. CASE ConversionEnds
  <2>1. driver' = driver /\ job' = job /\ Converted /\ device.running # "IDLE"
    BY <1>1 DEF ConversionEnds
  <2>2. Owned(driver, device, unseen, awaited, history)'
    BY <1>0, <2>1, ConvertedOwned
  <2>3. JobGate'
    BY <2>1 DEF GateInv, JobGate, Gated, GateElapsed, ContinuousGate
  <2> QED BY <1>0, <2>2, <2>3 DEF GateInv
<1>2. CASE TimePasses
  <2> DEFINE d == Aged(driver, 1)
  <2>1. driver' = d /\ job' = AgedJob(job, 1)
    BY <1>2 DEF TimePasses, InTime
  <2>2. /\ d.mode = driver.mode /\ d.started = driver.started
        /\ d.convAge \in Nat /\ d.convAge <= driver.convAge + 1
    BY <1>0, Times DEF Aged, Capped, Drivers
  <2>3. job'.kind = job.kind /\ job'.step = job.step
    BY <1>0, <2>1, AgedJobType
  <2>4. JobGate'
    <3>1. Gated(job.step, job.kind, driver) => GateElapsed(d, job.kind, TRUE)
      BY <1>0, GateStays DEF GateInv, JobGate
    <3> HIDE DEF d
    <3> QED BY <2>1, <2>2, <2>3, <3>1 DEF JobGate, Gated, GateElapsed, ContinuousGate
  <2> HIDE DEF d
  <2>5. CASE Converted /\ device.running # "IDLE"
    <3>1. Owned(driver, device, unseen, awaited, history)'
      BY <2>1, <2>2, <2>5, ConvertedOwned
    <3> QED BY <1>0, <2>4, <3>1 DEF GateInv
  <2>6. CASE device.running = "IDLE" /\ UNCHANGED <<device, ghosts>>
    <3>1. driver.mode # "CONTINUOUS" /\ ~(awaited /\ driver.started)
      BY <2>6 DEF GateInv, Owned
    <3>2. UNCHANGED <<unseen, awaited, history>>
      BY <2>6 DEF ghosts
    <3>3. Owned(driver, device, unseen, awaited, history)'
      BY <2>1, <2>2, <2>6, <3>1, <3>2 DEF GateInv, Owned
    <3> QED BY <1>0, <2>4, <3>3 DEF GateInv
  <2>7. CASE /\ device.running # "IDLE" /\ ~(device.age + 1 >= DueAt(device.running))
             /\ device' = [device EXCEPT !.age = @ + 1] /\ UNCHANGED ghosts
    <3>1. device'.running = device.running /\ device'.age = device.age + 1
      BY <1>0, <2>7 DEF Devices
    <3>2. UNCHANGED <<unseen, awaited, history>>
      BY <2>7 DEF ghosts
    <3>3. device.age + 1 < DueAt(device.running)
      BY <1>0, <2>7, Dues, Times DEF DueAt
    <3>4. history * ConversionTime \in Nat
      BY <1>0, Times
    <3> DEFINE p == history * ConversionTime
    <3>5. p \in Nat /\ (p + device.age) + 1 = p + device'.age
      BY <1>0, <3>1, <3>4
    <3> HIDE DEF p
    <3>6. driver.convAge <= p + device.age => driver'.convAge <= p + device'.age
      BY <1>0, <2>1, <2>2, <3>1, <3>5
    <3>7. driver.convAge <= device.age => driver'.convAge <= device'.age
      BY <1>0, <2>1, <2>2, <3>1
    <3>8. Owned(driver, device, unseen, awaited, history)
      BY DEF GateInv
    <3>9. Owned(driver, device, unseen, awaited, history)'
      BY <2>1, <2>2, <3>1, <3>2, <3>3, <3>6, <3>7, <3>8 DEF Owned, p
    <3> QED BY <1>0, <2>4, <3>9 DEF GateInv
  <2> QED BY <1>2, <2>5, <2>6, <2>7 DEF TimePasses, InTime
<1> QED BY <1>1, <1>2 DEF Environment

LEMMA GateStep == InTime /\ FreshInv /\ GateInv /\ [Next]_vars => GateInv'
<1>1. InTime /\ FreshInv /\ GateInv /\ Next => GateInv'
  BY ConversionsGate, ApplicationsGate, ReadsGate, JobbingGate, EnvironmentGate DEF Next
<1>2. GateInv /\ UNCHANGED vars => GateInv'
  BY DEF vars, GateInv, Owned, JobGate, Gated, GateElapsed, ContinuousGate
<1> QED BY <1>1, <1>2

-----------------------------------------------------------------------------
(* What an open gate promises. *)

ConcludesRight ==
  driver.started /\ ~driver.evidence /\ (driver'.evidence \/ result' \in {"SAMPLE", "FRAME"})
    => unseen > 0 /\ ~awaited

LEMMA ConclusionStep ==
  ASSUME InTime, FreshInv, GateInv, Next
  PROVE  ConcludesRight
<1> SUFFICES ASSUME driver.started, ~driver.evidence,
                    driver'.evidence \/ result' \in {"SAMPLE", "FRAME"}
             PROVE  \E kind : GateElapsed(driver, kind, TRUE)
  <2>1. /\ driver \in Drivers /\ device \in Devices /\ unseen \in Nat /\ awaited \in BOOLEAN
        /\ history \in 0 .. Slots
    BY Times DEF FreshInv, TypeOK
  <2> QED BY <2>1, GateIsConversion DEF GateInv, ConcludesRight
<1>0. driver \in Drivers /\ Observed(driver) = driver /\ timed
  BY ObservedByHook DEF FreshInv, TypeOK, InTime, GateInv
<1>1. ASSUME result' = "NONE", driver'.evidence = driver.evidence
      PROVE  FALSE
  BY <1>1
<1>2. ASSUME NEW hint \in Hints, Refreshed(driver, hint).driver.evidence
      PROVE  GateElapsed(driver, "NONE", TRUE)
  BY <1>0, <1>2, RefreshGated DEF InTime
<1>3. CASE Conversions \/ Applications
  <2>1. result' = "NONE"
    BY <1>3 DEF Conversions, StartConversion, StartConversionFails, WriteConfiguration,
                Applications, ApplyConfig, ResetAndReapply, RecoverFails, Applied, Quiet
  <2>2. driver'.evidence = FALSE \/ driver'.evidence = driver.evidence
    <3>1. CASE StartConversion \/ WriteConfiguration
      BY <1>0, <3>1 DEF StartConversion, WriteConfiguration, Restarted, Drivers
    <3>2. CASE StartConversionFails
      BY <1>0, <3>2 DEF StartConversionFails, Abandoned, Drivers
    <3>3. CASE Applications
      BY <1>0, <3>3 DEF Applications, ApplyConfig, ResetAndReapply, RecoverFails, Applied,
                        ClearedRuntime, Restarted, Drivers
    <3> QED BY <1>3, <3>1, <3>2, <3>3 DEF Conversions
  <2> QED BY <1>1, <2>1, <2>2
<1>4. CASE ConversionReady
  BY <1>2, <1>4 DEF ConversionReady, Quiet
<1>5. CASE ReadFresh
  BY <1>2, <1>5 DEF ReadFresh
<1>6. CASE Tick
  <2>1. result' = "NONE" /\ driver'.evidence
    BY <1>6 DEF Tick, Quiet
  <2>2. \A x : x \in Drivers /\ GivenUp(x).evidence => x.evidence
    BY DEF GivenUp, Abandoned, Drivers
  <2>3. PICK hint \in Hints : driver' = GivenUp(Refreshed(driver, hint).driver)
    BY <1>0, <1>6, <2>1, <2>2 DEF Tick
  <2>4. Refreshed(driver, hint).driver \in Drivers
    <3>1. Released(driver) /\ device.flag \in BOOLEAN
      BY InvDriver, DeviceTypes DEF FreshInv, TypeOK
    <3> QED BY <3>1, RefreshedDriver DEF Released
  <2> QED BY <1>2, <2>1, <2>2, <2>3, <2>4
<1>7. CASE StartRead \/ CancelPollJob \/ PollTimesOut \/ PollWaits \/ PollFails
  <2>1. result' = "NONE"
    BY <1>7 DEF StartRead, CancelPollJob, PollTimesOut, PollWaits, PollFails, Quiet
  <2>2. driver'.evidence = driver.evidence
    BY <1>0, <1>7 DEF StartRead, CancelPollJob, PollTimesOut, PollWaits, PollFails,
                      Finished, Abandoned, Drivers
  <2> QED BY <1>1, <2>1, <2>2
<1>8. CASE PollReadsFlags \/ PollReadsCounter
  <2>1. PICK s \in {"READ_FLAGS", "READ_COUNTER"} : NextStep(driver, PolledJob) = s
    BY <1>0, <1>8 DEF PollReadsFlags, PollReadsCounter, Polling
  <2>2. Gated(s, job.kind, driver)
    BY DEF Gated
  <2> QED BY <2>1, <2>2, NextStepGated DEF GateInv
<1>9. ~PollReadsBlock
  BY <1>0, NextStepJustified DEF PollReadsBlock, Polling, Justified
<1>10. ~Environment
  <2>1. Environment => result' = "NONE" /\ driver'.evidence = driver.evidence
    BY <1>0 DEF Environment, ConversionEnds, TimePasses, Aged, Drivers
  <2> QED BY <1>1, <2>1
<1>11. ~ReadFlags /\ ~ClearFlags
  BY DEF ReadFlags, ClearFlags, InTime
<1> QED BY <1>3, <1>4, <1>5, <1>6, <1>7, <1>8, <1>9, <1>10, <1>11
        DEF Next, Reads, Jobbing, Poll

FrameIsWhole ==
  job.kind = "READ_BURST" /\ FifoFull /\ driver.mode = "CONTINUOUS" /\ driver.started
    /\ result' = "FRAME" => history >= Slots

LEMMA FrameStep ==
  ASSUME InTime, FreshInv, GateInv, Next
  PROVE  FrameIsWhole
<1> SUFFICES ASSUME job.kind = "READ_BURST", FifoFull, driver.mode = "CONTINUOUS",
                    driver.started, result' = "FRAME"
             PROVE  history >= Slots
  BY DEF FrameIsWhole
<1>0. /\ driver \in Drivers /\ device \in Devices /\ history \in 0 .. Slots
      /\ Observed(driver) = driver
  BY ObservedByHook DEF FreshInv, TypeOK, InTime
<1>1. PollReadsBlock
  <2>1. ~Quiet /\ result' # "NONE" /\ job.kind # "NONE"
    BY DEF Quiet
  <2> QED BY <2>1
          DEF Next, Conversions, StartConversion, StartConversionFails, WriteConfiguration,
              Applications, ApplyConfig, ResetAndReapply, RecoverFails, Applied,
              Reads, ConversionReady, ReadFresh, ReadFlags, ClearFlags, Tick,
              Jobbing, StartRead, CancelPollJob, Poll, PollTimesOut, PollWaits,
              PollReadsFlags, PollReadsCounter, PollFails,
              Environment, ConversionEnds, TimePasses
<1>2. NextStep(driver, PolledJob) = "READ_BURST_BLOCK"
  BY <1>0, <1>1 DEF PollReadsBlock, Polling
<1>3. Gated("READ_BURST_BLOCK", job.kind, driver)
  BY DEF Gated
<1>4. GateElapsed(driver, "READ_BURST", TRUE)
  BY <1>2, <1>3, NextStepGated DEF GateInv
<1> QED BY <1>0, <1>4, GateIsHistory DEF GateInv

\* With a clock hook, a device in time, no INT hint and nobody else reading FLAGS, a
\* driver that waits never concludes too early, for any conversion time and budget.
THEOREM ReadyIsConverted == ASSUME InTime PROVE Spec => ReadyMeansConverted
<1>1. Init => FreshInv /\ GateInv
  BY FreshInit, InitGate
<1>2. FreshInv /\ GateInv /\ [Next]_vars => FreshInv' /\ GateInv'
  BY FreshStep, GateStep
<1>3. FreshInv /\ GateInv /\ [Next]_vars => ConcludesRight \/ UNCHANGED vars
  BY ConclusionStep
<1> QED BY <1>1, <1>2, <1>3, PTL DEF Spec, ReadyMeansConverted, ConcludesRight

\* Under the same conditions a FIFO_FULL burst job of a running driver publishes a
\* whole frame of its interval, for any number of slots.
THEOREM FifoFrameIsWhole == ASSUME InTime PROVE Spec => FifoFrameComplete
<1>1. Init => FreshInv /\ GateInv
  BY FreshInit, InitGate
<1>2. FreshInv /\ GateInv /\ [Next]_vars => FreshInv' /\ GateInv'
  BY FreshStep, GateStep
<1>3. FreshInv /\ GateInv /\ [Next]_vars => FrameIsWhole \/ UNCHANGED vars
  BY FrameStep
<1> QED BY <1>1, <1>2, <1>3, PTL DEF Spec, FifoFrameComplete, FrameIsWhole

-----------------------------------------------------------------------------
(* The deadline of a read job: what there is of ReadJobEnds without fairness. *)

\* How long ago the job was first polled, on the clock as it stands now.
ReadAge == IF job.armed THEN Capped(job.age + lag, ReadTimeout) ELSE 0

\* No call puts the deadline off or takes it back, time brings it nearer, the first
\* poll sets it, and the poll that finds it over ends the job.
DeadlineRuns ==
  /\ job.kind # "NONE" /\ job'.kind # "NONE" =>
       job'.kind = job.kind /\ (job.armed => job'.armed) /\ ReadAge' >= ReadAge
  /\ TimePasses /\ job.armed /\ ReadAge < ReadTimeout => ReadAge' = ReadAge + 1
  /\ Poll => job'.kind = "NONE" \/ (job'.armed /\ ReadAge < ReadTimeout)

LEMMA ReadAges ==
  ASSUME FreshInv
  PROVE  /\ job.age \in Nat /\ lag \in Nat /\ ReadTimeout \in Nat
         /\ job.age <= ReadTimeout /\ job.armed \in BOOLEAN /\ ReadAge \in Nat
<1>1. /\ job.age \in Nat /\ lag \in Nat /\ ReadTimeout \in Nat
      /\ job.age <= ReadTimeout /\ job.armed \in BOOLEAN
  BY Times DEF FreshInv, TypeOK, Jobs, Ages
<1> QED BY <1>1 DEF ReadAge, Capped

\* A job as a poll finds it is as old as it is.
LEMMA PolledAge ==
  ASSUME FreshInv
  PROVE  /\ PolledJob.armed /\ PolledJob.kind = job.kind
         /\ PolledJob.age = ReadAge
         /\ \A s : [PolledJob EXCEPT !.step = s].age = ReadAge
                  /\ [PolledJob EXCEPT !.step = s].armed
                  /\ [PolledJob EXCEPT !.step = s].kind = job.kind
<1>1. job \in Jobs
  BY DEF FreshInv, TypeOK
<1> QED BY <1>1 DEF PolledJob, AgedJob, ReadAge, Jobs

\* A poll ends the job, or leaves it with what age it had.
LEMMA PollMoves ==
  ASSUME FreshInv, Poll
  PROVE  \/ job' = IdleJob
         \/ /\ job'.kind = job.kind /\ job'.armed /\ job'.age = ReadAge /\ lag' = 0
            /\ ReadAge < ReadTimeout
<1>1. CASE PollTimesOut \/ PollReadsBlock \/ PollFails
  BY <1>1 DEF PollTimesOut, PollReadsBlock, PollFails
<1>2. CASE PollWaits \/ PollReadsFlags \/ PollReadsCounter
  <2>1. /\ PolledJob.age < ReadTimeout /\ lag' = 0
        /\ \E s : job' = [PolledJob EXCEPT !.step = s]
    BY <1>2 DEF PollWaits, PollReadsFlags, PollReadsCounter, Polling, ObserveHost, Found
  <2> QED BY <2>1, PolledAge
<1> QED BY <1>1, <1>2 DEF Poll

\* A unit of time is a unit of the job's age.
LEMMA TimeMoves ==
  ASSUME FreshInv, TimePasses
  PROVE  /\ job'.kind = job.kind /\ job'.armed = job.armed /\ ReadAge' >= ReadAge
         /\ job.armed /\ ReadAge < ReadTimeout => ReadAge' = ReadAge + 1
<1>1. job \in Jobs
  BY DEF FreshInv, TypeOK
<1>2. CASE job' = AgedJob(job, 1) /\ lag' = lag
  <2>1. /\ job'.kind = job.kind /\ job'.armed = job.armed
        /\ job'.age = IF job.armed THEN Capped(job.age + 1, ReadTimeout) ELSE 0
    BY <1>1, <1>2 DEF AgedJob, Jobs
  <2> QED BY <1>2, <2>1, ReadAges DEF ReadAge, Capped
<1>3. CASE lag' = Capped(lag + 1, ReadTimeout) /\ job' = job
  BY <1>3, ReadAges DEF ReadAge, Capped
<1> QED BY <1>2, <1>3 DEF TimePasses

LEMMA DeadlineStep ==
  ASSUME FreshInv, Next
  PROVE  DeadlineRuns
<1>1. Poll => job'.kind = "NONE" \/ (job'.armed /\ ReadAge < ReadTimeout)
  BY PollMoves, JobIdle
<1>2. TimePasses /\ job.armed /\ ReadAge < ReadTimeout => ReadAge' = ReadAge + 1
  BY TimeMoves
<1>3. ASSUME job.kind # "NONE", job'.kind # "NONE"
      PROVE  job'.kind = job.kind /\ (job.armed => job'.armed) /\ ReadAge' >= ReadAge
  <2>1. CASE Poll
    <3>1. /\ job'.kind = job.kind /\ job'.armed /\ job'.age = ReadAge /\ lag' = 0
          /\ ReadAge < ReadTimeout
      BY <1>3, <2>1, PollMoves, JobIdle
    <3> QED BY <3>1, ReadAges DEF ReadAge, Capped
  <2>2. CASE TimePasses
    BY <2>2, TimeMoves
  <2>3. CASE Tick
    <3>1. job' = AgedJob(job, lag) /\ lag' = 0 /\ job \in Jobs
      BY <2>3 DEF Tick, ObserveHost, FreshInv, TypeOK
    <3>2. /\ job'.kind = job.kind /\ job'.armed = job.armed
          /\ job'.age = ReadAge
      BY <3>1 DEF AgedJob, Jobs, ReadAge
    <3> QED BY <3>1, <3>2, ReadAges DEF ReadAge, Capped
  <2>4. CASE StartConversionFails \/ ConversionEnds
    <3>1. job' = job /\ lag' = lag
      BY <2>4 DEF StartConversionFails, ConversionEnds, clock
    <3> QED BY <3>1, ReadAges DEF ReadAge
  <2>5. ~CancelPollJob
    BY <1>3, JobIdle DEF CancelPollJob
  <2>6. /\ ~StartConversion /\ ~WriteConfiguration /\ ~Applications /\ ~StartRead
        /\ ~ConversionReady /\ ~ReadFresh /\ ~ReadFlags /\ ~ClearFlags
    BY <1>3 DEF StartConversion, WriteConfiguration, Applications, ApplyConfig,
                ResetAndReapply, RecoverFails, StartRead, ConversionReady, ReadFresh,
                ReadFlags, ClearFlags
  <2> QED BY <2>1, <2>2, <2>3, <2>4, <2>5, <2>6
          DEF Next, Conversions, Reads, Jobbing, Environment
<1> QED BY <1>1, <1>2, <1>3 DEF DeadlineRuns

\* A read job's deadline is set by its first poll, comes nearer with every unit of
\* time, is put off by no call, and the poll that finds it over ends the job: with
\* time passing and polls going on, no read job stays.
THEOREM ReadDeadlineRuns == Spec => [][DeadlineRuns]_vars
<1>1. FreshInv /\ [Next]_vars => DeadlineRuns \/ UNCHANGED vars
  BY DeadlineStep
<1> QED BY <1>1, FreshInit, FreshStep, PTL DEF Spec
=============================================================================
