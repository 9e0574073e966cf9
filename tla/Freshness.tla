------------------------------ MODULE Freshness ------------------------------
(***************************************************************************)
(* What makes a sample fresh: the readiness evidence of an initialized and *)
(* online driver, its one-shot ownership, the counter baseline, the timing *)
(* gates, and the two poll-chunked read jobs, against a device that        *)
(* converts on its own and a clock that the driver may see late.           *)
(*                                                                         *)
(* Times are ages, counted on the clock the driver reads and saturating at *)
(* ReadTimeout, the largest bound any age is compared with.  Without the   *)
(* nowMs hook that clock only moves when tick() or poll() brings a time;   *)
(* "lag" is how far it is behind.                                          *)
(*                                                                         *)
(* The device's sample counter is represented by "unseen", the conversions *)
(* completed since the last trusted sample was handed out: while a         *)
(* baseline exists the device's counter differs from it by unseen modulo   *)
(* CounterModulo.                                                          *)
(*                                                                         *)
(* A failed transfer changes nothing here but what its handler changes;    *)
(* writes that fail yet land are DriverLifecycle's subject.  Burst framing *)
(* is taken to be enabled; BurstRead has the register-by-register reads.   *)
(*                                                                         *)
(* UncappedAged, ForgottenWakeUp, NoDuplicates, ProbesFlags, OpenFifoGate, *)
(* KeptOwnership, ClearFlagsUnguarded and RearmedDeadline are plausible    *)
(* slips of the definition that follows each; no action uses them.  They   *)
(* show that the properties would notice.                                  *)
(***************************************************************************)
EXTENDS Naturals

CONSTANTS
  ConversionTime,  \* getConversionTimeMs
  OneShotBudget,   \* getOneShotBudgetMs: conversion plus wake-up
  RetryInterval,   \* conversionTimeMs / 16, at least 1
  ReadTimeout,     \* _readTimeoutMs
  CounterModulo,   \* SAMPLE_COUNT_MODULO
  Slots,           \* SAMPLE_SLOT_COUNT
  ClockHook,       \* Config::nowMs is set
  FifoFull,        \* Config::intConfig is FIFO_FULL
  IntHint,         \* an INT pin hook is set and may read as asserted
  OnTime,          \* conversions end within their nominal time
  OwnFlagReads,    \* the application reads FLAGS itself
  CorruptFrames    \* sample frames may arrive malformed

ASSUME TimingAssumption ==
  /\ {ConversionTime, RetryInterval} \subseteq Nat \ {0}
  /\ OneShotBudget \in Nat /\ OneShotBudget >= ConversionTime
  /\ ReadTimeout \in Nat /\ ReadTimeout > OneShotBudget
  /\ Slots \in Nat \ {0}
  /\ FifoFull => ReadTimeout > Slots * ConversionTime

ASSUME CounterAssumption == CounterModulo \in Nat \ {0, 1}

ASSUME SwitchAssumption ==
  {ClockHook, FifoFull, IntHint, OnTime, OwnFlagReads, CorruptFrames} \subseteq BOOLEAN

VARIABLES
  driver,      \* readiness evidence, one-shot ownership, baseline and their ages
  timed,       \* a clock hook, or _timeBaseValid
  lag,         \* time since the last observation of the caller's clock
  job,         \* the read job: _pollJob, _pollStep and its deadline
  device,      \* what the device is converting, since when, and its ready flag
  unseen,      \* conversions since the last trusted delivery (cyclic)
  awaited,     \* no conversion has completed since the last one-shot trigger
  history,     \* conversions since the driver last restarted its gate
  result       \* what the last call handed out

vars == <<driver, timed, lag, job, device, unseen, awaited, history, result>>
clock == <<timed, lag>>
ghosts == <<unseen, awaited, history>>

Capped(n, cap) == IF n > cap THEN cap ELSE n

StableModes == {"POWER_DOWN", "CONTINUOUS"}
Ages == 0 .. ReadTimeout

\* retryAge = RetryInterval stands for a retry that is not armed or has elapsed.
Drivers == [mode : StableModes, evidence : BOOLEAN, started : BOOLEAN,
            baseline : BOOLEAN, convAge : Ages, retryAge : 0 .. RetryInterval]

JobKinds == {"NONE", "READ_SAMPLE", "READ_BURST"}
JobSteps == {"IDLE", "WAIT_READY", "READ_FLAGS", "READ_COUNTER", "READ_BURST_BLOCK"}
Jobs == [kind : JobKinds, step : JobSteps, armed : BOOLEAN, age : Ages]
IdleJob == [kind |-> "NONE", step |-> "IDLE", armed |-> FALSE, age |-> 0]

Devices == [running : {"IDLE", "ONE_SHOT", "CONTINUOUS"}, age : 0 .. OneShotBudget,
            flag : BOOLEAN]

\* A sample with a bad CRC or exponent is handed out with a warning.
Results == {"NONE", "WARNING", "SAMPLE", "FRAME"}

TypeOK ==
  /\ driver \in Drivers
  /\ timed \in BOOLEAN
  /\ lag \in Ages
  /\ job \in Jobs
  /\ device \in Devices
  /\ unseen \in 0 .. 2 * CounterModulo - 1
  /\ awaited \in BOOLEAN
  /\ history \in 0 .. Slots
  /\ result \in Results

\* Just initialized, in either mode.  The device may have converted before, and
\* its ready flag may be left over from that.
Init ==
  \E m \in StableModes, f \in BOOLEAN :
    /\ driver = [mode |-> m, evidence |-> FALSE, started |-> m = "CONTINUOUS",
                 baseline |-> FALSE, convAge |-> 0, retryAge |-> RetryInterval]
    /\ timed = ClockHook
    /\ lag = 0
    /\ job = IdleJob
    /\ device = [running |-> IF m = "CONTINUOUS" THEN m ELSE "IDLE", age |-> 0,
                 flag |-> f]
    /\ unseen = IF f THEN 1 ELSE 0
    /\ awaited = FALSE
    /\ history = 0
    /\ result = "NONE"

-----------------------------------------------------------------------------
(* The clock. *)

\* Ages that nothing will compare stay at 0.
UncappedAged(d, n) ==
  [d EXCEPT !.convAge = IF d.started \/ d.mode = "CONTINUOUS" THEN @ + n ELSE 0]
Aged(d, n) ==
  [d EXCEPT !.convAge = IF d.started \/ d.mode = "CONTINUOUS"
                          THEN Capped(@ + n, ReadTimeout) ELSE 0,
            !.retryAge = Capped(@ + n, RetryInterval)]

AgedJob(j, n) == [j EXCEPT !.age = IF j.armed THEN Capped(@ + n, ReadTimeout) ELSE 0]

\* _observeHostMs: the first time observed rebases an in-flight conversion and
\* disarms the retry; a configured hook makes the argument irrelevant.
Observed(d) ==
  CASE ClockHook -> d
    [] ~ClockHook /\ timed -> Aged(d, lag)
    [] ~ClockHook /\ ~timed ->
         [d EXCEPT !.convAge = IF d.started THEN 0 ELSE @, !.retryAge = RetryInterval]

ObserveHost == timed' = TRUE /\ lag' = 0

-----------------------------------------------------------------------------
(* Gates, evidence and the baseline. *)

RetryElapsed(d, clocked) == ~clocked \/ d.retryAge = RetryInterval

OpenFifoGate(kind) == ConversionTime
ContinuousGate(kind) ==
  IF kind = "READ_BURST" /\ FifoFull THEN Slots * ConversionTime ELSE ConversionTime

ForgottenWakeUp(d, kind, clocked) ==
  \/ ~clocked
  \/ d.mode = "CONTINUOUS" /\ d.convAge >= ContinuousGate(kind)
  \/ d.mode # "CONTINUOUS" /\ (d.started => d.convAge >= ConversionTime)
GateElapsed(d, kind, clocked) ==
  \/ ~clocked
  \/ d.mode = "CONTINUOUS" /\ d.convAge >= ContinuousGate(kind)
  \/ d.mode # "CONTINUOUS" /\ (d.started => d.convAge >= OneShotBudget)

CounterFresh(d) == d.baseline => unseen % CounterModulo # 0

NoDuplicates(d, trusted) == FALSE
Duplicate(d, trusted) == trusted /\ ~CounterFresh(d)

\* _latchReadinessEvidence: evidence from any source ends one-shot ownership.
KeptOwnership(d) == [d EXCEPT !.evidence = TRUE]
Latched(d) == [d EXCEPT !.evidence = TRUE, !.started = @ /\ d.mode = "CONTINUOUS"]

RetryArmed(d) == [d EXCEPT !.retryAge = 0]
NoEvidence(d) == [d EXCEPT !.evidence = FALSE]
Abandoned(d)  == [d EXCEPT !.started = @ /\ d.mode = "CONTINUOUS"]

\* A probe for readiness latches what it found or waits before the next one.
Probed(d, found) == IF found THEN Latched(d) ELSE RetryArmed(d)

\* _refreshReadinessEvidence: the driver and the device's ready flag after it.  A
\* counter probe leaves the flag alone, a FLAGS probe clears it.
ProbesFlags(d, hint) ==
  LET flags == ~d.evidence /\ RetryElapsed(d, timed) /\ GateElapsed(d, "NONE", timed)
  IN  [driver |-> IF flags THEN Probed(d, device.flag) ELSE d,
       flag   |-> device.flag /\ ~flags]
Refreshed(d, hint) ==
  LET probing == ~d.evidence /\ RetryElapsed(d, timed)
      gate    == GateElapsed(d, "NONE", timed)
      counter == probing /\ d.baseline /\ (gate \/ hint)
      flags   == probing /\ ~d.baseline /\ gate
  IN  [driver |-> CASE counter -> Probed(d, CounterFresh(d))
                    [] flags   -> Probed(d, device.flag)
                    [] OTHER   -> d,
       flag   |-> device.flag /\ ~flags]

Hints  == IF IntHint THEN BOOLEAN ELSE {FALSE}
Trusts == IF CorruptFrames THEN BOOLEAN ELSE {TRUE}

\* _markFreshSampleConsumedAt
Consumed(d, trusted) ==
  [d EXCEPT !.baseline = @ \/ trusted, !.evidence = FALSE,
            !.started = d.mode = "CONTINUOUS", !.convAge = 0]

\* Driver d hands out the newest sample, or a frame that starts with it.
Deliver(d, what, trusted) ==
  /\ driver' = Consumed(d, trusted)
  /\ result' = IF trusted THEN what ELSE "WARNING"
  /\ unseen' = IF trusted THEN 0 ELSE unseen
  /\ history' = 0
  /\ UNCHANGED awaited

\* The call hands out nothing and touches neither device nor history.
Quiet == result' = "NONE" /\ UNCHANGED ghosts

SetFlag(f) == device' = [device EXCEPT !.flag = f]

-----------------------------------------------------------------------------
(* Starting conversions. *)

\* A driver in mode m whose evidence is dropped, its gate starting now.
Restarted(d, m, started) ==
  [d EXCEPT !.mode = m, !.evidence = FALSE, !.started = started,
            !.convAge = 0, !.retryAge = RetryInterval]

ClearedRuntime(d, m) == [Restarted(d, m, FALSE) EXCEPT !.baseline = FALSE]

Running(what) == device' = [device EXCEPT !.running = what, !.age = 0]

Triggered == awaited' = TRUE /\ UNCHANGED <<unseen, history>>

Expired(d) == d.mode # "CONTINUOUS" /\ d.started /\ d.convAge >= ReadTimeout

StartConversion ==
  /\ job.kind = "NONE"
  /\ driver.mode # "CONTINUOUS"
  /\ driver.started => Expired(driver)
  /\ driver' = Restarted(driver, driver.mode, TRUE)
  /\ Running("ONE_SHOT") /\ Triggered
  /\ result' = "NONE"
  /\ UNCHANGED <<clock, job>>

\* startConversion() gives up the lost conversion before its write fails, or is
\* refused next to a read job.
StartConversionFails ==
  /\ Expired(driver)
  /\ driver' = Abandoned(driver)
  /\ Quiet
  /\ UNCHANGED <<clock, job, device>>

\* writeConfiguration() of any of the modes; the counter baseline survives it.
WriteConfiguration ==
  /\ job.kind = "NONE"
  /\ \/ /\ driver' = Restarted(driver, "CONTINUOUS", TRUE)
        /\ Running("CONTINUOUS")
        /\ history' = 0
        /\ awaited' = FALSE
        /\ UNCHANGED unseen
     \/ /\ driver' = Restarted(driver, "POWER_DOWN", FALSE)
        /\ Running("IDLE")
        /\ awaited' = FALSE
        /\ UNCHANGED <<unseen, history>>
     \/ /\ driver' = Restarted(driver, "POWER_DOWN", TRUE)
        /\ Running("ONE_SHOT") /\ Triggered
  /\ result' = "NONE"
  /\ UNCHANGED <<clock, job>>

\* A complete application of a configuration in mode m: begin(), the setters,
\* recover(), powerDown(), or the last poll of a configuration job.
Applied(m) ==
  /\ driver' = [ClearedRuntime(driver, m) EXCEPT !.started = m = "CONTINUOUS"]
  /\ history' = 0
  /\ awaited' = FALSE
  /\ result' = "NONE"
  /\ UNCHANGED <<clock, job>>

ApplyConfig ==
  /\ job.kind = "NONE"
  /\ \E m \in StableModes :
       /\ Applied(m)
       /\ Running(IF m = "CONTINUOUS" THEN m ELSE "IDLE")
  /\ UNCHANGED unseen

\* The same after a general-call reset, which clears flag and result registers.
ResetAndReapply ==
  /\ job.kind = "NONE"
  /\ \E m \in StableModes :
       /\ Applied(m)
       /\ device' = [running |-> IF m = "CONTINUOUS" THEN m ELSE "IDLE",
                     age |-> 0, flag |-> FALSE]
  /\ unseen' = 0

\* recover() drops the runtime state before it applies; with the application
\* failed, the gate of a continuous driver counts from a zero stamp.
RecoverFails ==
  /\ job.kind = "NONE"
  /\ \E age \in IF driver.mode = "CONTINUOUS" THEN Ages ELSE {0} :
       driver' = [ClearedRuntime(driver, driver.mode) EXCEPT !.convAge = age]
  /\ Quiet
  /\ UNCHANGED <<clock, job, device>>

-----------------------------------------------------------------------------
(* Synchronous readiness and reads. *)

ConversionReady ==
  /\ job.kind = "NONE"
  /\ \E hint \in Hints :
       LET r == Refreshed(driver, hint)
       IN  driver' = r.driver /\ SetFlag(r.flag)
  /\ Quiet
  /\ UNCHANGED <<clock, job>>

\* A sample the driver d has evidence for arrives.
Arrives(d, what) ==
  \E trusted \in Trusts :
    \/ /\ Duplicate(d, trusted)
       /\ driver' = NoEvidence(d)
       /\ Quiet
    \/ /\ ~Duplicate(d, trusted)
       /\ Deliver(d, what, trusted)

\* readSample, readBurst, readSampleSlot(0) and every helper made of them.  When
\* not ready, or when the transfer fails, they are ConversionReady.
ReadFresh ==
  /\ job.kind = "NONE"
  /\ \E hint \in Hints, what \in {"SAMPLE", "FRAME"} :
       LET r == Refreshed(driver, hint)
       IN  /\ r.driver.evidence
           /\ SetFlag(r.flag)
           /\ Arrives(r.driver, what)
  /\ UNCHANGED <<clock, job>>

\* readFlags and raw reads of FLAGS keep the ready bit as evidence at any time.
Captured(d) == IF device.flag THEN Latched(d) ELSE d

ReadFlags ==
  /\ OwnFlagReads
  /\ job.kind = "NONE"
  /\ driver' = Captured(driver)
  /\ SetFlag(FALSE)
  /\ Quiet
  /\ UNCHANGED <<clock, job>>

\* clearFlags reads and forgets; writing FLAGS forgets without reading.
ClearFlagsUnguarded ==
  /\ OwnFlagReads
  /\ driver' \in {NoEvidence(Captured(driver)), NoEvidence(driver)}
  /\ SetFlag(FALSE)
  /\ Quiet
  /\ UNCHANGED <<clock, job>>
ClearFlags ==
  /\ OwnFlagReads
  /\ job.kind = "NONE"
  /\ driver' \in {NoEvidence(Captured(driver)), NoEvidence(driver)}
  /\ SetFlag(FALSE)
  /\ Quiet
  /\ UNCHANGED <<clock, job>>

\* tick(): probes when the gate is over, and gives up a one-shot that is lost.
GivenUp(d) == IF Expired(d) /\ ~d.evidence THEN Abandoned(d) ELSE d

Tick ==
  LET d   == Observed(driver)
      due == IF d.mode = "CONTINUOUS" THEN d.convAge >= ConversionTime
                                      ELSE d.started /\ d.convAge >= OneShotBudget
  IN  /\ ObserveHost
      /\ IF job.kind = "NONE" /\ ~d.evidence /\ due
           THEN \/ \E hint \in Hints :
                     LET r == Refreshed(d, hint)
                     IN  driver' = GivenUp(r.driver) /\ SetFlag(r.flag)
                \/ driver' = GivenUp(d) /\ UNCHANGED device      \* the read fails
           ELSE driver' = d /\ UNCHANGED device
      /\ job' = AgedJob(job, lag)
      /\ Quiet

-----------------------------------------------------------------------------
(* The poll-chunked read jobs. *)

Started(kind) == [kind |-> kind, step |-> "WAIT_READY", armed |-> FALSE, age |-> 0]

StartRead ==
  /\ job.kind = "NONE"
  /\ driver.mode = "CONTINUOUS" \/ driver.started \/ driver.evidence
  /\ job' \in {Started("READ_SAMPLE"), Started("READ_BURST")}
  /\ driver' = [driver EXCEPT !.retryAge = RetryInterval]
  /\ Quiet
  /\ UNCHANGED <<clock, device>>

CancelPollJob ==
  /\ job.kind # "NONE"
  /\ job' = IdleJob
  /\ driver' = [driver EXCEPT !.retryAge = RetryInterval]
  /\ Quiet
  /\ UNCHANGED <<clock, device>>

\* The job as a poll finds it: its deadline starts with its first poll.
RearmedDeadline == [AgedJob(job, lag) EXCEPT !.armed = TRUE, !.age = 0]
PolledJob == [AgedJob(job, lag) EXCEPT !.armed = TRUE]

\* Where a poll gets without a transfer.
NextStep(d, j) ==
  LET gate == GateElapsed(d, j.kind, TRUE)
  IN  CASE j.step # "WAIT_READY" -> j.step
        [] j.step = "WAIT_READY" /\ d.evidence ->
             IF d.mode = "CONTINUOUS" /\ j.kind = "READ_BURST" /\ FifoFull /\ ~gate
               THEN "WAIT_READY" ELSE "READ_BURST_BLOCK"
        [] j.step = "WAIT_READY" /\ ~d.evidence ->
             IF ~RetryElapsed(d, TRUE) \/ ~gate THEN "WAIT_READY"
             ELSE IF d.baseline THEN "READ_COUNTER" ELSE "READ_FLAGS"

Finished(d) == [d EXCEPT !.retryAge = RetryInterval]

\* The deadline is checked before anything else, whatever the budget.
PollTimesOut ==
  /\ job.kind # "NONE"
  /\ PolledJob.age >= ReadTimeout
  /\ driver' = Finished(Abandoned(Observed(driver)))
  /\ job' = IdleJob
  /\ ObserveHost
  /\ Quiet
  /\ UNCHANGED device

\* Nothing to transfer yet, or no budget for it.
PollWaits ==
  /\ job.kind # "NONE"
  /\ PolledJob.age < ReadTimeout
  /\ driver' = Observed(driver)
  /\ job' = [PolledJob EXCEPT !.step = NextStep(Observed(driver), PolledJob)]
  /\ ObserveHost
  /\ Quiet
  /\ UNCHANGED device

\* A poll that gets to a transfer of its own.
Polling(step) ==
  /\ job.kind # "NONE"
  /\ PolledJob.age < ReadTimeout
  /\ NextStep(Observed(driver), PolledJob) = step
  /\ ObserveHost

Found(d, found) ==
  /\ driver' = Probed(d, found)
  /\ job' = [PolledJob EXCEPT !.step = IF found THEN "READ_BURST_BLOCK" ELSE "WAIT_READY"]

PollReadsFlags ==
  /\ Polling("READ_FLAGS")
  /\ Found(Observed(driver), device.flag)
  /\ SetFlag(FALSE)
  /\ Quiet

PollReadsCounter ==
  /\ Polling("READ_COUNTER")
  /\ Found(Observed(driver), CounterFresh(driver))
  /\ Quiet
  /\ UNCHANGED device

PollReadsBlock ==
  /\ Polling("READ_BURST_BLOCK")
  /\ LET d == Finished(Observed(driver))
     IN  Arrives(d, IF job.kind = "READ_BURST" THEN "FRAME" ELSE "SAMPLE")
  /\ job' = IdleJob
  /\ UNCHANGED device

\* A failed transfer ends the job.
PollFails ==
  /\ \E s \in {"READ_FLAGS", "READ_COUNTER", "READ_BURST_BLOCK"} : Polling(s)
  /\ driver' = Finished(Observed(driver))
  /\ job' = IdleJob
  /\ Quiet
  /\ UNCHANGED device

Poll == PollTimesOut \/ PollWaits \/ PollReadsFlags \/ PollReadsCounter
          \/ PollReadsBlock \/ PollFails

-----------------------------------------------------------------------------
(* The device and time. *)

NextUnseen == IF unseen = 2 * CounterModulo - 1 THEN CounterModulo ELSE unseen + 1

Converted ==
  /\ device' = [device EXCEPT !.age = 0, !.flag = TRUE,
                  !.running = IF @ = "ONE_SHOT" THEN "IDLE" ELSE @]
  /\ unseen' = NextUnseen
  /\ awaited' = FALSE
  /\ history' = Capped(history + 1, Slots)

\* A conversion may end early; one that is not OnTime may also never end.
ConversionEnds ==
  /\ device.running # "IDLE"
  /\ Converted
  /\ result' = "NONE"
  /\ UNCHANGED <<driver, clock, job>>

\* A conversion that is OnTime ends no later than its nominal time.
DueAt(running) == IF running = "ONE_SHOT" THEN OneShotBudget ELSE ConversionTime

TimePasses ==
  /\ IF ClockHook
       THEN driver' = Aged(driver, 1) /\ job' = AgedJob(job, 1) /\ UNCHANGED lag
       ELSE lag' = Capped(lag + 1, ReadTimeout) /\ UNCHANGED <<driver, job>>
  /\ IF ~OnTime \/ device.running = "IDLE"
       THEN UNCHANGED <<device, ghosts>>
       ELSE IF device.age + 1 >= DueAt(device.running)
              THEN Converted
              ELSE device' = [device EXCEPT !.age = @ + 1] /\ UNCHANGED ghosts
  /\ result' = "NONE"
  /\ UNCHANGED timed

-----------------------------------------------------------------------------
Conversions == StartConversion \/ StartConversionFails \/ WriteConfiguration
Applications == ApplyConfig \/ ResetAndReapply \/ RecoverFails
Reads == ConversionReady \/ ReadFresh \/ ReadFlags \/ ClearFlags \/ Tick
Jobbing == StartRead \/ CancelPollJob \/ Poll
Environment == ConversionEnds \/ TimePasses

Next == Conversions \/ Applications \/ Reads \/ Jobbing \/ Environment

Spec == Init /\ [][Next]_vars

\* Time goes on and the owner of a job keeps calling poll().
FairSpec == Spec /\ WF_vars(TimePasses) /\ WF_vars(Poll)
-----------------------------------------------------------------------------
(* Properties. *)

\* Evidence that a one-shot conversion is complete, from whatever source it came,
\* ends the driver's ownership of it: a powered-down driver never both has a
\* sample to hand out and refuses the next startConversion().
OwnershipReleased ==
  driver.mode = "POWER_DOWN" /\ driver.evidence => ~driver.started

\* Nothing that may run between two polls takes away what the step of a read job
\* was chosen on: a block is read on evidence, the counter is compared with a
\* baseline, and FLAGS are only consumed while there is none.
ReadJobShape ==
  /\ job.kind = "NONE" <=> job.step = "IDLE"
  /\ job.step = "READ_BURST_BLOCK" => driver.evidence
  /\ job.step = "READ_COUNTER" => driver.baseline /\ ~driver.evidence
  /\ job.step = "READ_FLAGS" => ~driver.baseline /\ ~driver.evidence

\* After the first trusted sample no readiness probe, of a synchronous call, of
\* tick() or of a job, clears the device's flags: "readiness probes use the
\* counter and leave FLAGS untouched".
FlagsLeftAlone ==
  [][driver.baseline /\ device.flag /\ ~device'.flag =>
       ReadFlags \/ ClearFlags \/ ResetAndReapply]_vars

\* Between two applications of a configuration no conversion is handed out twice
\* as fresh, whatever flags, hints, late clocks and corrupt frames led there.
NoRepeatOnBaseline ==
  [][driver.baseline /\ result' \in {"SAMPLE", "FRAME"} => unseen > 0]_vars

\* A driver that waits for a conversion concludes that it is over, or hands out a
\* sample, only after the device completed one since the trigger that nobody has
\* been handed yet.
ReadyMeansConverted ==
  [][driver.started /\ ~driver.evidence
       /\ (driver'.evidence \/ result' \in {"SAMPLE", "FRAME"}) =>
     unseen > 0 /\ ~awaited]_vars

\* A burst job of a running continuous FIFO_FULL driver publishes its frame only
\* when all its slots are conversions of the interval it waited for.
FifoFrameComplete ==
  [][job.kind = "READ_BURST" /\ FifoFull /\ driver.mode = "CONTINUOUS"
       /\ driver.started /\ result' = "FRAME" => history >= Slots]_vars

\* The same, of every such job: "FIFO_FULL burst jobs still need the full history
\* interval before publishing four slots" (src/OPT4001.cpp, _pollReadJob).
FifoFrameAlwaysComplete ==
  [][job.kind = "READ_BURST" /\ FifoFull /\ driver.mode = "CONTINUOUS"
       /\ result' = "FRAME" => history >= Slots]_vars

\* A fresh sample is "a newly observed conversion" (README.md), and "valid samples
\* with the same counter as the last accepted fresh sample are still rejected"
\* (docs/integration/driver-contracts.md): no conversion is handed out twice.
FreshNeverRepeats ==
  [][result' \in {"SAMPLE", "FRAME"} => unseen > 0]_vars

\* A sampled INT level is "only a hint to check the counter, never proof that a
\* conversion completed" (docs/integration/driver-contracts.md): while the device
\* is still busy with the triggered one-shot, its owner is not told it is over.
HintProvesNothing ==
  [][driver.mode = "POWER_DOWN" /\ driver.started /\ ~driver.evidence
       /\ (driver'.evidence \/ result' # "NONE") => ~awaited]_vars

\* A read job ends as long as its owner polls and the clock advances, with any
\* budget and even when the conversion it waits for is lost.
ReadJobEnds == job.kind # "NONE" ~> job.kind = "NONE"
=============================================================================
