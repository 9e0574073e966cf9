# A TLA+ verification development of the OPT4001 driver

The repository is a C++ driver for the TI OPT4001 ambient-light sensor
(`src/OPT4001.cpp`, `include/OPT4001/`). It keeps a cached configuration that is
meant to mirror four device registers, a health tracker that latches OFFLINE,
poll-chunked jobs that spread multi-transfer operations over calls of `poll()`,
and bookkeeping that decides when a sample is *fresh*. There are no threads: the
caller serializes access, so what interleaves are public calls, the steps of a
job, the device and the clock. The repository also holds two command-line consoles
(`examples/01_basic_bringup_cli/main.cpp` for Arduino, `examples/esp_idf/basic/`)
that are its owners on a board, with sessions that span many turns of a loop.

Paths below are relative to the repository's root; `OPT4001.cpp` is
`src/OPT4001.cpp`.

## Inventory

| Part | State it keeps | Operations | What makes it correct |
|---|---|---|---|
| Lifecycle and binding | `_bound`, `_initialized`, `_config` | `bind`, `unbind`, `begin`, `end`, `startAttach` | initialized, driver state and health agree; a re-bind leaves no half-finished job unreported |
| Health and OFFLINE latch | `_driverState`, `_consecutiveFailures`, counters and timestamps | `_updateHealth`, `_recordFailure`, `_reassertOfflineLatch` | state follows the failure run; OFFLINE is left only through a full re-application or down to UNINIT |
| Configuration and dirty flag | `_config`, `_hardwareConfigDirty`, `_hardwareConfigDirtyError`; the device's registers | setters, thresholds, typed and raw register writes, `_applyConfig`, `recover`, `softReset`, `resetAndReapply` | not dirty means that the device holds the cached configuration; the first cause of dirt is kept |
| Transport gate and burst framing | `_allowOfflineI2c`, `_hwBurstEnabled` | `_i2cWriteReadTracked`, `_i2cWriteTrackedAddr`, `_writeRegister16Tracked`, `_readRegister16Tracked` | BUSY next to a job, OFFLINE unless recovering; never frame a burst the device would not auto-increment through |
| Write jobs | `_pollJob`, `_pollStep`, `_pollTargetConfig`, `_pollWritesApplied`, `_pollResetApplied` | `startConfigureMeasurement`, `startResetAndReapply`, `startAttach`, `poll`, `cancelPollJob` | nothing between two polls disturbs the job or is undone by it; it ends, and an interrupted one is reported |
| Readiness and freshness | `_conversionReady`, `_sampleAvailable`, `_lastFreshCounter*`, retry stamp | `_refreshReadinessEvidence`, `conversionReady`, `tick`, `readFlags`, `clearFlags` | no conversion is handed out twice; FLAGS are left to the application once a baseline exists |
| One-shot ownership | `_conversionStarted`, `_conversionStartMs`, `_pendingMode` | `startConversion`, `tick`, `_latchReadinessEvidence` | released exactly when the conversion is proved over or lost |
| Read jobs | `_pollJob`, `_pollStep`, `_pollReadStartMs` | `startReadSample`, `startReadBurst`, `poll` | end by delivery, failure or deadline; FIFO frames wait for their history |
| Sample and burst reads | `_lastSample`, `_lastBurst` | `readSample`, `readBurst`, `readSampleSlot`, helpers | a frame read register by register is one instant's history |
| Clock | `_hostMs`, `_timeBaseValid` | `tick`, `poll`, `Config::nowMs` | gates mean elapsed time; late or first observations never make a sample early |
| Blocking reads | none | `readFreshBlocking` and helpers | end in time, also on a stopped clock; TIMEOUT means that the time has passed |
| Numeric helpers | none | CRC, ADC codes, thresholds, counter delta, register packing, timing tables and budgets | agree with the datasheet's definitions over all inputs |
| Bus adapters | the ESP-IDF device handle and its address | `wireWrite`, `wireWriteRead`, `espStatus`, the ESP-IDF transfers | OK only for a complete transfer; no bus fault is reported as a local refusal |
| Console line input | the line buffer | `FixedLineBuffer::push`, `readLine` | delivers the line that was typed, or nothing of it |
| Console sessions | `watchState`, `stressState` | `handleWatch`, `serviceStress`, `stop`, the commands | each ends, counts what happened, and survives the other and the commands |
| Address and package change | the driver's binding, the handle, the selected profile | `rebeginWithConfig`, `rebeginWithProfile` | succeeds or leaves what there was; handle, selection and driver agree |
| Self-check | what it captured | `runSelfTest` of both consoles | puts the application's settings back |
| Board support, printing, host tools | their own | pins, colours, bus scan, HIL runner, release checks | no part of the driver |

How they interact: every public call passes the transport gate, whose result
feeds the health tracker. Applying a configuration rewrites all four registers,
clears the dirty flag and drops readiness and baseline. A job shares all of this
state with the calls that may run between its polls: most transfers are refused
with BUSY, but `cancelPollJob`, `bind`, `end`, `tick`, the getters and the device
are not. The hard behaviours are therefore failures in the middle of a
multi-register update (and failed writes that landed), calls between two polls,
resets behind the driver's back, evidence that is stale when it is used, a
counter that wraps after 16 conversions, time that is only seen now and then and
whose stamps wrap, a FIFO window that moves while it is read, and console sessions
that share one driver, each of which takes the other's evidence, jobs and
conversions. `PROJECT.json` lists each with its line
under `hazards`.

## Modules

| Module | What it is | Code |
|---|---|---|
| `Registers` | the cached configuration, the four registers, what they hold after a prefix of the four writes | `Config.h`, `CommandTable.h`, `_applyConfig` |
| `Health` | the health tracker as a function of transfer results | `OPT4001.cpp` 2452-2517 |
| `DriverLifecycle` | lifecycle, health latch, configuration, dirty flag, burst framing, write jobs; EXTENDS the two above, refines `HonestCache` | 174-488, 589-657, 725-798, 1215-1876, 2299-2343, 2523-2557, 2651-2781 |
| `HonestCache` | abstract specification: the cached configuration is never believed of a device that does not hold it, and never takes up what the device does not hold | the contract of the setters and jobs |
| `DriverLifecycle_proofs`, `DriverLifecycleSync_proofs` | theorems about types, health, framing, latch and the length of jobs; theorems about the dirty flag, the jobs' results and `HonestCache` | |
| `Freshness` | readiness evidence, one-shot ownership, the counter baseline, gates, clock, read jobs, and a converting device | 297-332, 552-587, 663-715, 800-971, 1140-1190, 1901-2012, 2559-2649, 2787-2909 |
| `HistoryWindow` | abstract specification: a burst frame is the device's history at one instant | the contract of `readBurst` |
| `Freshness_proofs` | its inductive invariants and eight theorems | |
| `BurstRead` | `readBurst` without burst framing, one register per step, while conversions shift the window; refines `HistoryWindow` | 861-935, 2359-2384, 2420-2446 |
| `TimeBase` | 32-bit stamps that wrap, the two clocks, the gate and sample ages made of them, `readFreshBlocking` with its stall guard | 297-332, 663-715, 936-1133, 1901-2012, 2787-2909, 2990-3015; `OPT4001.h` 761-806 |
| `TimeBase_proofs` | its inductive invariants, five theorems, and the measure by which a blocking read ends | |
| `Numeric` | register fields, result frames and their CRC, threshold encoding, the block address check, timing tables and budgets, as pure operators | 26-95, 107-112, 1637-1670, 1726-1744, 2014-2061, 2209-2251, 2420-2446, 2801-2828, 2911-2987 |
| `NumericInputs` | the inputs on which the conversions are checked, and what is asked of each; EXTENDS `Numeric` and `Transports` | |
| `Numeric_proofs` | the block check for every start and length, the nearest threshold for every format, the round trip of the register codecs, the CRC for every frame, the adapters for every length, the budgets | |
| `Transports` | the two bus adapters as functions of what the bus API answers | `I2cTransport.h`, `Opt4001IdfI2cTransport.cpp` |
| `AtomicProfile` | abstract specification: a change of address and package happens at once or not at all | the contract of the two functions below |
| `ProfileChange` | `rebeginWithConfig` and `rebeginWithProfile` with every failure and rollback; EXTENDS `Transports`, refines `AtomicProfile` | both consoles' `main.cpp`, 174-376 |
| `SelfCheck` | both `runSelfTest` and what they leave of the settings | Arduino `main.cpp` 1533-1792, ESP-IDF `main.cpp` 690-773 |
| `LineBuffer` | the consoles' fixed line buffer, character by character | `CliLineBuffer.h`, `CliShell.h` |
| `CliDriver` | the driver as its console sees it: the replies of every call, without registers, frames and health | 43-2909 |
| `CliClient` | abstract specification: an initialized driver and its device, where each step is a reply of `CliDriver`, a unit of time or a conversion | 43-2909 |
| `ConsoleView` | the driver of `Freshness` on a console's scale of time, and how it looks to the console; refines `CliClient` | 2787-2909 |
| `ConsoleView_proofs` | TLAPS's proof of that refinement | |
| `Parts_proofs` | theorems about `BurstRead` and its refinement, `ProfileChange`, `SelfCheck` and `LineBuffer`, and about the parts side by side as `MCParts` runs them | |
| `Console` | the main loop, the watch, the stress session and the commands; EXTENDS `CliDriver` | Arduino `main.cpp` 39-2932 |
| `Console_proofs` | theorems about it and the driver it shares | |
| `MC*` | modules that TLC runs; the constants' values are in the `.cfg` files | |

### DriverLifecycle

`config` is `_config` (field groups no property tells apart are one abstract
value, see `Registers`), `regs` the device's registers, `dirty` the flag with its
cause, `job` the write job with its target, `health` the state and failure run.

A synchronous call is one action: nothing can run between its transfers. The
result of a call with several transfers is how many succeeded before the first
failure, so every prefix of a multi-register update is a branch of the action. A
job is one action per transfer. Guards are the transport gate (`Online`,
`Reachable` under `ScopedOfflineI2cAllowance`) and the call's own early returns;
a call that is refused changes nothing and is not an action. Registers may hold
anything initially: the host restarts, the device need not.

The environment is a parameter. `FailedWriteMayLand` lets a write that reports a
bus error take effect; `ExternalReset` lets the device reset on its own.
`LocalErrors` are codes with which an adapter refuses a call before the bus
(`INVALID_PARAM`, `INVALID_CONFIG`): they do not count as failures and cannot
have landed.

`CacheIsHonest` sees the driver as `HonestCache` does: the cached configuration, the
device's registers and how far the one stands for the other. An initialized driver is
trusted unless it is dirty or has a job that has reset the device. A failed setter, a
cancelled job, a raw write and a reset are then the abstract `Doubt`, every single
transfer of a job is a stutter or a change within doubt, and only a whole application
is an `Apply`.

### Freshness

The driver is taken to be initialized and online. Times are ages that saturate at
the largest bound they are compared with; without the clock hook the driver's
ages move only when `tick()` or `poll()` brings a time (`lag`). The device's
counter is represented by `unseen`, the conversions since the last trusted
delivery: with a baseline, the device's counter differs from it by `unseen`
modulo `CounterModulo`. `awaited` and `history` are auxiliary: no conversion since
the last trigger, and conversions since the gate was last restarted.

The device may finish early, late or never unless `OnTime`, and its ready flag
survives counter-based reads. `OwnFlagReads` adds an application that reads or
clears FLAGS, `IntHint` an INT pin that may read as asserted at any time,
`CorruptFrames` samples with a bad CRC or exponent. A poll with a budget of several
transfers is several polls with no time between them. `StartConversion` and the
applications of a configuration appear here by what they do to readiness, and in
`DriverLifecycle` by what they do to registers.

### BurstRead and HistoryWindow

A register's content is the number of the conversion it belongs to; the counter
field is that number modulo `CounterModulo`. The device may complete a conversion
between any two transfers. `ReadsOneWindow` says that, seen through the cached
frame, the nine transfers are one atomic read. It needs fewer conversions during a
call than the counter can tell apart (`NoWrapAssumption`), and that a torn newest
pair fails its CRC; a four-bit CRC misses some, and the driver cannot do better.
Burst framing reads the block in one transfer, which the device latches: that read
is taken as atomic.

### TimeBase

A stamp is a time modulo `ClockModulo` and an age is a difference modulo
`ClockModulo`, as `uint32_t` subtraction has it. True times (`at`, `since`), which
the code does not have, are kept next to the stamps so that the properties can
compare the two. `hook` is chosen once: with it every observation is exact, without
it `tick` and `poll` bring the time, and a call may come before the first of them.
`conv` is what the driver owns: a conversion (`on`), or the evidence that one is over
(`ready`), which ends the ownership and leaves no gate to wait for (`Latched`).
`readFreshBlocking` is one action per test, observation and read of its loop; what
a probe or a read finds is left open (evidence or none, a sample or a duplicate),
and at most `PassLimit` units go by between two of its tests.

### ProfileChange, AtomicProfile and Transports

`driver` is the life (unbound, bound, ready) and the profile (address and package)
of the device object; `handle` and `selected` are the ESP-IDF console's bus handle
and selection. A change goes through taking the handle, `bind`, `begin` and, after
a failure, the same steps back; each may fail. The functions run without yielding,
so nothing else happens in between: the steps are kept apart because a failure
between any two of them leaves a different remainder. `ChangesAtomically` maps a
change in progress to the driver it started from and the profile it was asked for.
`Transports` gives the reason why `handle` matters: a transfer to an address
without a handle is `INVALID_PARAM`, which the driver returns without counting it.

### SelfCheck

The Arduino check captures thresholds and INT settings, tries the setters, and
puts the captured values back; the ESP-IDF check only reads, but reading the
thresholds adopts what the device holds. Every call may fail with any prefix of its
writes done. A device that was reset before the check is a legal start:
`SettingsComeBack` then promises the *device's* thresholds, since the capture reads
them. The application's own are lost in that case without any reported failure.

### LineBuffer

One action per character: letters, blanks, backspace, the end of a line. `typed` is
auxiliary, what was typed since the last end; the property says what the user
meant by it (each backspace takes back one character) and compares. What the user
meant, `Edited`, is a function of all the keys; the buffer sees only the last one.

### CliDriver and Console

`CliDriver` gives each public call as the set of its replies (driver, device,
status). It is coarser than `Freshness` and `DriverLifecycle`: time is counted in
conversion budgets, any transfer may fail (the bus, or the OFFLINE latch), and the
data of a conversion is gone. `Console` runs `loop()`: `tick`, a step of the watch, a
step of the stress session, at most one command, and again; time passes and
conversions end at any point. Commands of one effect are one action: the setters are
one kind, and which operation of its mix the stress session does next is left open.
`meddled` is auxiliary: a command, `tick` or the watch changed the job or the poll
status under a stress session in its POLL phase. The commands include those that read
or clear FLAGS and those that write a configuration; `job poll n` with a budget of
several transfers is several commands in a row. `read N` and `selfcheck` make many calls
within one turn: a command may keep the turn for another call (`Calling`), and no part
of the loop runs before it gives the turn up.

Observed while modelling, and visible in the guards and exemptions of the
properties: a watch that waits in continuous mode and is then switched to
power-down has no conversion deadline of its own (0), so its next turn records a
timeout; a continuous watch waits for ever for a device that does not convert;
`end` or `begin` under a stress session leaves it in its POLL phase, where `poll()`
without a job returns the last status, so an OK may be counted for nothing
(`StressOkMeansRead` exempts `meddled`); a stress session in its READY phase has no
deadline (`SessionsEnd` exempts `Stranded`); ending a stress session cancels any
active job, the user's included.

### ConsoleView and CliClient

What `Console` shows of the sessions is worth as much as `CliDriver` is true to the
driver, so the two models of readiness, ownership and read jobs are compared. `Seen`
maps the detailed driver to the console's: an age that nothing reads is 0, a retry is
armed or not, a job has not yet, or has had, its first poll, and `unread` is the counter
against the baseline or, without one, a flag that is set or was latched. `ViewSpec` is
`Freshness` on the console's scale, where the conversion, its budget and the retry
distance are one unit of time, with a clock hook and without FIFO_FULL. It leaves out
polls of a zero budget, which the console never makes (`PollMayTransfer`), and a
counter that goes round while a baseline exists (`CounterTells`), since `CliDriver` has
no counter. INT hints, corrupt frames, lost conversions and raw FLAGS reads stay in.
`SeenAsCliDriver` says that every step is then a reply to some call.

Stating it corrected `CliDriver`: FLAGS read by a register read are evidence of a
conversion that the counter may know to be old, a configuration write keeps the baseline
while a whole application forgets it, and `recover()` that fails has already forgotten it.

### Numeric

A register is a number and a mask is the lowest bit and the width of a field, so
`(raw & MASK) >> BIT` is a quotient and a remainder. A result frame is the set of
its bits that are 1, and an XOR is the parity of a cardinality. Lux is counted in
ADC codes (lux divided by the package's LSB), where every comparison of
`luxToThreshold` is made: quotients by powers of two and the added half are exact
in a `double` for integer codes in the register's range. `NumericInputs` has one
initial state per input and no other steps.

## Runs

| Run | Question | Result |
|---|---|---|
| `lifecycle_tracking` | With failures that leave no trace, is the dirty flag exact, is every partial or interrupted update reported, and do write jobs end? | `CleanMeansApplied`, `JobPrefixWritten`, `JobOkMeansApplied`, `InterruptedJobReported`, `CacheIsHonest`, `JobTerminates` hold |
| `lifecycle_hostile` | With failed writes that land and resets from outside, do lifecycle, health, framing, job target and latch stay consistent? | `TypeOK`, `HealthConsistent`, `BurstFramingSafe`, `PollTargetCurrent`, `RootCauseKept`, `OfflineIsLatched` hold |
| `lifecycle_uncertain` | Is a possibly partial update always reported? | `PartialUpdateReported` is violated, see findings |
| `freshness_hostile` | Late clock, dead device, hints, raw FLAGS reads, corrupt frames: is nothing handed out twice, and do read jobs end? | `TypeOK`, `ReadJobShape`, `FlagsLeftAlone`, `NoRepeatOnBaseline`, `ReadJobEnds` hold |
| `freshness_gates` | With a clock hook and a device in time, do the gates mean what they say? | `ReadyMeansConverted`, `FifoFrameComplete` hold |
| `freshness_repeat`, `freshness_history`, `freshness_hint` | Three sentences of the documentation | violated, see findings |
| `parts` | Burst reads, profile changes, the clock and blocking reads, line input, the self-check, and the conversions on all their inputs, each on its own | `CodecRoundTrip`, `DisturbanceNoticed`, `NearestThreshold`, `BlockAcceptsExactly`, `TimeoutCoversGates`, `TransferVerdict`, `PartsTypeOK`, `ReadsOneWindow`, `TransportAgrees`, `ChangesAtomically`, `GateKeepsTime`, `SampleNotRejuvenated`, `TimeoutIsDue`, `BlockingEnds`, `DeliversTheLine`, `SettingsComeBack` hold |
| `console` | Do the watch and the stress session, next to each other, `tick` and every command, count what happened and end? | `TypeOK`, `StressOkMeansRead`, `WatchTimeoutWaited`, `SessionsEnd` hold |
| `console_view` | Does the detailed driver do only what the console's driver may? | `SeenAsCliDriver` holds |
| `console_watch` | Is a watch with all its results over? | `WatchClosed` is violated, see findings |

`parts` runs `MCParts`: six components that share no variable, of which each
behaviour picks one at the start and leaves the others at rest. It is the disjoint
sum of six state spaces, not a product. That evidence ends the ownership of a
conversion, `EvidenceEndsOwnership`, is proved, and checked in `console_view` as a
part of the refinement.

### Bounds

- Lifecycle: two threshold values where a written register must be told from an
  unwritten one, one value of the other field groups (the operating mode and the
  burst bit already vary), two `local` values where a setter runs next to a job.
  `MaxFailures` stands for 255: a counter that saturates at 1, 2 or 3 meets the
  same comparisons, and the theorem holds for every value. `offlineThreshold` is 0
  (normalized) to 3.
- Freshness: conversion, budget, retry and deadline are the smallest times that keep
  their order in the code; the gates run has a conversion time of 2 so that the
  middle of a conversion exists. The counter wraps after 2 or 3 conversions, so
  that aliases are common. Frames have 2 or 3 slots where only the gate matters.
- Burst: the real 8 registers; `MaxNewest` = 9 conversions, two during a call, a
  counter that wraps at 3, so that every tear and every alias is reached.
- Clock: it wraps at 6 within 9 units of time, and the budget, the release and the
  caller's timeout differ, so that each limit is crossed before, at and after the
  wrap; the stall limit 3 stands for a million observations.
- Profiles: two addresses, two packages and an address that no package accepts.
- Lines: seven keys for a buffer of four (three characters) and an output of three,
  so that a line can be too long, be erased from the too long state, and be followed
  by another. Self-check: three threshold values, which two defaults and one other need.
- Console: a read timeout of two conversion budgets, a watch deadline of one, two
  results, one operation and one write per job: each is the smallest that tells
  "not yet" from "over". The commands are all there. A session of more operations
  repeats its phases, which carry nothing over.
- Console's view: the console's one unit for conversion, budget and retry, a read timeout
  of three units, so that a gate is open before a deadline is over, and a counter that
  tells three conversions apart.
- Numeric: all 65536 raw register values and all configurations. Frames with at most two
  data bits set, times every change of one bit or two neighbouring ones
  (`NeighbouringErrorsNoticed` is the theorem for every frame). Changes two positions
  apart can go unnoticed by these XOR lists, so the property stops at neighbours. The
  threshold format is reduced to 4-bit results and exponents 0 to 3 (the code's 35-bit
  codes are beyond TLC's integers); the guard stays below half of the largest quantum, as
  4096 is below half of 2^23; `ThresholdIsNearest` is the theorem for every format.
  Because nearest values of ordered requests are ordered, `NearestThreshold` is also why
  `enableThresholdInterruptLux` does not reject a window that is in order in lux. The
  budgets are checked for all twelve conversion times, with and without quick wake-up, and
  the adapters for every answer of their bus API with lengths around 0 and the capacity.

Only `parts` disables the deadlock check: a self-check ends, a conversion's input has no
next step, and the conversions of a burst run are bounded.

### Fairness

`FairSpec` of `DriverLifecycle` is weak fairness of `PollStep`: the owner of an
active job keeps calling `poll()` with a non-zero budget, which is the contract of
poll jobs (`docs/integration/driver-contracts.md`). Nothing is assumed about which
transfers succeed. In `Freshness`, `poll()` is fair and time passes: without a
clock no deadline can expire. The device and all other calls are not fair.

In `TimeBase` only the blocking loop itself is fair; the clock may stop for ever,
which is what its stall guard is for. In `Console` the loop runs, time passes, and
a conversion that is running ends; commands are not fair, and `SessionsEnd` speaks of
the time when nobody types any more. The device is fair there because the stress
session and the watch are promised an end only by a device that converts.

## Findings

Five things the repository says that the code does not keep; each is a run that
expects its violation, with the quotation in `PROJECT.json`.

1. A failed *first* write of a multi-register update is not reported as dirty even
   though a failed write may have reached the device (`lifecycle_uncertain`).
   Everything the driver says is exact when failed writes leave no trace: that is
   `CleanMeansApplied`.
2. After a configuration is applied, the counter baseline is gone while the
   device's ready flag may be left over from a counter-based read: a fresh read of
   a powered-down driver hands out the same conversion again
   (`freshness_repeat`). Between two applications it cannot happen:
   `NoRepeatOnBaseline`.
3. A failed `recover()` leaves a continuous driver with a zero conversion stamp, so
   the FIFO_FULL history gate is open at once (`freshness_history`). While a
   conversion run is owned the gate holds: `FifoFrameComplete`.
4. An asserted INT level opens the counter probe before the one-shot gate; with an
   earlier conversion unread, the counter differs from the baseline and the
   one-shot is reported over while it is still in flight (`freshness_hint`).
   Without the hint `ReadyMeansConverted` holds.
5. A continuous watch whose last result is a failed readiness check returns before
   the test that closes it (`examples/01_basic_bringup_cli/main.cpp:788`): it stays
   active without anything left to do, and a new one is refused (`console_watch`).
   That case is exempted in `SessionsEnd`, which holds for every other.

## Proofs

TLAPS checks these for every value of the constants (any sets of register values
and status codes, any saturation bound and thresholds, any times, counter widths
and profiles), from the named assumptions of the modules that declare them alone:

| Theorem | Statement |
|---|---|
| `TypeCorrect` | `Spec => []TypeOK` of `DriverLifecycle` |
| `JobShapeInvariant` | `Spec => []JobShape` |
| `HealthInvariant` | `Spec => []HealthConsistent` |
| `FramingInvariant` | `Spec => []BurstFramingSafe` |
| `RootCause` | `Spec => RootCauseKept` |
| `TargetInvariant` | `Spec => []PollTargetCurrent` |
| `CleanInvariant` | `Spec => [](CleanFailures => CleanMeansApplied)` |
| `PrefixInvariant` | `Spec => [](CleanFailures => JobPrefixWritten)` |
| `LatchHolds` | `Spec => OfflineIsLatched` |
| `ClearedOnlyWhenApplied` | `CleanFailures` implies `Spec => DirtyClearedByFullApply`: the flag falls only with a whole application or with `unbind()` (in the runs a part of `CacheIsHonest`) |
| `InterruptionIsReported` | `CleanFailures` implies `Spec => InterruptedJobReported` |
| `OkMeansApplied` | `CleanFailures` implies `Spec => JobOkMeansApplied` |
| `DriverIsHonest` | `CleanFailures` implies `Spec => CacheIsHonest`: the driver implements `HonestCache` |
| `JobsShrink` | each poll of a write job leaves it fewer transfers, no other call gives it more |
| `FreshTypes` | `Spec => []TypeOK` of `Freshness` |
| `EvidenceEndsOwnership` | `Spec => []OwnershipReleased`: evidence from any source ends one-shot ownership |
| `ReadJobsKeepTheirGround` | `Spec => []ReadJobShape` |
| `ProbesLeaveFlags` | `Spec => FlagsLeftAlone` |
| `BaselineNeverRepeats` | `Spec => NoRepeatOnBaseline` |
| `ReadyIsConverted` | `InTime` implies `Spec => ReadyMeansConverted` |
| `FifoFrameIsWhole` | `InTime` implies `Spec => FifoFrameComplete` |
| `ReadDeadlineRuns` | a read job's deadline is set by its first poll, put off by no call, and the poll that finds it over ends the job |
| `TimeSpecTypeOK`, `SpecGateKeepsTime`, `SpecSampleNotRejuvenated`, `SpecTimeoutIsDue` | `TimeSpec => []TimeTypeOK`, `[]GateKeepsTime`, `[]SampleNotRejuvenated` and `TimeoutIsDue`, for a clock that wraps anywhere |
| `BlockingReadRuns` | every step of a blocking read brings its return nearer, none takes it back: it is over after a bounded number of its steps, on any clock |
| `ConsoleSeesTheDriver` | `ConsoleScale` implies `ViewSpec => SeenAsCliDriver`: the detailed driver implements the console's |
| `BurstTypes` | `Spec => []TypeOK` of `BurstRead` |
| `BurstRefinesWindow` | `Spec => ReadsOneWindow`: the detailed read implements the atomic one |
| `ProfileTypes` | `ProfileSpec => []ProfileTypeOK` |
| `AgreementInvariant` | `ProfileSpec => []TransportAgrees` |
| `ChangeRefinesAtomic` | `ProfileSpec => ChangesAtomically`: a change with its failures and rollback implements the atomic one |
| `SelfCheckTypes`, `SelfCheckRestores` | `SelfSpec => []SelfTypeOK` and `[]SettingsComeBack` |
| `LineTypes`, `LineDelivered` | `LineSpec => []LineTypeOK` and `DeliversTheLine`, for any alphabet, capacity and number of keys |
| `PartsRunAlone`, `PartsTypes` | `PartsSpec` implies the specification of each part, and `[]PartsTypeOK` |
| `ConsoleTypes`, `StressCountsReads`, `WatchIsPatient` | `Spec => []TypeOK`, `StressOkMeansRead` and `WatchTimeoutWaited` of `Console` |
| `BlockGuardExact`, `BlocksExact` | `isValidPublicRegisterBlock` accepts exactly the blocks whose every byte is public, from any register and of any length; `BlockAcceptsExactly` |
| `ThresholdIsNearest`, `ThresholdsNearest` | `luxToThreshold` is valid and nearest for every format and request; `NearestThreshold` |
| `NeighbouringErrorsNoticed`, `DisturbancesNoticed` | no frame is accepted with one bit or two neighbouring bits wrong; `DisturbanceNoticed` |
| `CodecsRoundTrip` | `CodecRoundTrip`: what the driver encodes it decodes back, and every register it accepts is encoded as it was |
| `TimeoutsCoverGates`, `VerdictsRight` | `TimeoutCoversGates`, and `TransferVerdict` for any length of a transfer |

**DriverLifecycle.** `IInv == TypeOK /\ JobShape /\ HealthConsistent` is inductive, and
its parts need each other: `HealthConsistent` needs `JobShape` because a counted failure
of a configure or reset job must be known to happen on an initialized driver.
`DriverLifecycle_proofs` holds the lemmas about the operators the actions share -
`_applyConfig` prefixes, failed transfers, the latch - and the step lemmas for each part.
`BurstFramingSafe` is preserved step by step relative to `IInv`: an INT_CONFIGURATION
write that fails and may have cleared the bit drops the belief in the same action, and the
reset state has the bit set (`ResetFraming`). The sync invariant adds: the target of a job
is current (`PollTargetCurrent`), its prefix is in the registers (`JobPrefixWritten`), and
not dirty means synchronized (`CleanMeansApplied`); a configure job between its writes
keeps the last one only because its first three writes repeat what a clean driver already
has, which is where `PollTargetCurrent` is needed. `CleanFailures == ~FailedWriteMayLand
/\ ~ExternalReset` are the hypotheses the last two cannot do without: finding 1 and an
outside reset break them. The action properties follow from these invariants. A successful
transfer is the only way out of OFFLINE besides a lifecycle call, and the tracked
transport refuses it there; the one write that is not refused, the restore of a job that
has reset the device, never runs on an OFFLINE driver (`ResetJobOnline`), so
`OfflineIsLatched` needs `JobShape`. A job that ends OK wrote its last register on top of
the prefix `JobPrefixWritten` describes, which is `JobOkMeansApplied`; a dirty flag that
falls was cleared by such an end or by a whole blocking apply. `CacheIsHonest` needs all
of the sync invariant. A step that ends trusted is an abstract `Change`, by
`CleanMeansApplied` of the next state, or comes out of doubt or from below, and then is
one of the four whole applications (`NoTrustGained`); a step that ends in doubt found the
driver initialized and left the cache alone, or changed it by what it has just written or
read (`InDoubt`).

**Freshness.** `FreshInv == TypeOK /\ OwnershipReleased /\ ReadJobShape` is inductive.
Every action changes the driver by a few operators (`Aged`, `Latched`, `Probed`,
`Consumed`, `Refreshed` ...); one lemma each says that they keep a driver `Released`
and what they do to evidence and baseline. For a poll, `NextStepJustified` shows that
the step it arrives at is one that evidence and baseline justify, which is what
`ReadJobShape` needs of the next state. `FlagsLeftAlone` follows because a probe of a
driver with a baseline rewrites the flag it found (`RefreshKeepsFlag`) and because, by
`ReadJobShape`, no job is at READ_FLAGS then. `NoRepeatOnBaseline` follows because
every delivery passes `Duplicate`, and an `unseen` that is not 0 modulo the counter's
width is not 0.

The last two theorems are about the timing gates and need `InTime == ClockHook /\ OnTime
/\ ~IntHint /\ ~OwnFlagReads`, the assumptions of `freshness_gates`; finding 4 shows what
an INT hint does without them. `GateInv` relates the driver's age to the device's: a
driver that waits for a triggered one-shot counts no longer than the device has been
converting, a continuous one with nothing unseen neither, and its age is at most one
conversion time per conversion of its interval plus the age of the one under way
(`Owned`); and a transfer step of a job was chosen behind an open gate (`JobGate`). An
open gate then is an unseen conversion (`GateIsConversion`), and the gate of a whole frame
a whole frame of conversions (`GateIsHistory`). The calls that give up, probe or finish
leave a driver `Calmer`, one that waits for no more than before.

**ConsoleView.** `ViewInv` is `FreshInv`, a clock that is never late, and a job that no poll
left at a probe. Each helper of `Freshness` (`Latched`, `Abandoned`, `Consumed`, `Restarted`,
...) is matched once with the operator of `CliDriver` that stands for it, by comparing the
two drivers field by field (`Has`, `AlikeSame`). A probe, a refresh and a frame are then
replies of theirs (`SeenProbe`, `SeenRefreshed`, `SeenArrives`), each action is a reply of
its call, and `Answered` makes a reply a step. Two places need care: dropped evidence takes
the conversion with it if it was a flag already cleared (`Dropped`), and a job disarms its
retry when it ends while `Freshness` does so before the frame (`CliFrameRetried`).

**TimeBase.** `TimeInv` says of each stamp which true time it is, modulo the clock: the
last observation's (`HostInv`), the start of a conversion (`ConvInv`), a sample's, which is
never later than the sample (`SampleInv`), and the start and the last look of a
blocking call (`LoopInv`). A difference of two stamps is the difference of their times as
long as that is shorter than the clock (`StampDifference`), also across a wrap; what is
older is exactly what the properties leave out. `BlockingReadRuns` counts the steps a
blocking read has still to make (`StepsLeft`): a pass that sees time move uses up some of
the caller's timeout, one that does not some of the stall limit, and neither comes back.

**BurstRead.** The invariant says that each register read so far belongs to a window
between the one that was newest at the start and the one that is newest now, a shadow
never to an older window than the result before it, and that a published trusted frame is
the window of some conversion. At the end of a call the counter is compared with the first
register's; fewer conversions than `CounterModulo` went by (`NoWrapAssumption`), so equal
counters are equal conversions (`ModuloTells`) and the window never moved. The end of such
a call then is the abstract `Publish`; an untrusted frame is a `Warn`, a conversion a
`Convert`, and the single transfers are stutters.

**ProfileChange.** `TransportAgrees` alone is not inductive: `ChangeInv` adds what a
change in progress may rely on, that the console shows the old profile until the
handle has been replaced and the new one after, and that what was saved is a driver
with the old one. The refinement needs only that restoring a saved driver gives what
`Kept` allows.

**SelfCheck.** `SelfInv` follows the check's order: until the capture nothing has been
written (`Untouched`); what was captured is what the check found, the device's
thresholds when it adopts them (`Captured`); a setting that has been put back is the
captured one (`PutBackDone`), and the recovery at the end, unless it fails, leaves the
device with the cache (`Recovered`).

**LineBuffer.** `LineInv`: the buffer is exactly what the keys since the last end of line
spell, unless they once spelt too much, and then it discards. The line that the keys
spell is a recursive function of their number. That such a function exists and that the
histories of a longer and a shorter input agree is proved by the least number where it
could fail (`Smallest`). The trimming of the code then gives the one blank-free middle of
the line.

**Parts.** `MCParts` puts six components next to each other; each of its steps is a step of one
of them and a stutter of the others. So `PartsSpec` implies the specification of every part, and
what is proved of a part holds of the run.

**Console.** `ConsoleInv` is about a driver that any command may have changed: a job that
writes has something left to write (`Sound`), a watch that waits has a deadline within its
bounds and has waited what the deadline is short of (`Patience`), and a stress session in
its POLL phase that nobody meddled with still has the job it started (`SessionInv`). One
lemma for each public call says which of these its replies keep, and the commands follow.

**Numeric.** Encoding: for each exponent, rounding and clamping give the nearest multiple
of its quantum that the format can hold (`RoundingIsNearest`), and the encoder keeps the
exponent with the least error, so no other threshold is nearer. CRC: the parity of a set
whose element is toggled flips, so each wrong bit flips the syndromes it enters; bits 0
and 1 of the CRC together notice every single bit and every pair of neighbours. The
adapters are a case analysis over their branches. Codecs: a register is a sum of fields in
a mixed radix, each below what the next one counts in, so that quotient and remainder take
out of it what was put in, one field at a time; a register that passes the driver's checks
is the sum of the fields that were read from it.

Model-checked only: the liveness properties `JobTerminates`, `ReadJobEnds`, `BlockingEnds`
and `SessionsEnd`, because fairness and ENABLED are out of the prover's reach. `JobsShrink`,
`ReadDeadlineRuns` and `BlockingReadRuns` are what the first three rest on besides fairness:
each step brings the end nearer and none takes it back. Every invariant, action property and
refinement of the runs that pass is stated by a theorem.

## Not modelled

- Conversion to lux in floating point and the full-scale and resolution tables: no
  decision of the driver depends on them.
- Totals, timestamps and messages of the health tracker: nothing decides on them.
- Pure getters of caches, and the validation of single configuration fields (one
  choice between `Bind` and `BindInvalid`). `readLatestSample` neither uses nor changes
  evidence: only what it does to the cached sample's stamp is modelled, in `TimeBase`.
- That a torn newest pair may pass the four-bit CRC, about one in sixteen:
  `BurstRead` takes it as noticed, and no code of the driver could do better.
- That a full turn of the sample counter, 16 conversions that nobody read, is noticed:
  the driver cannot, and refuses the next sample as a duplicate. `Freshness` has such
  turns; what it shows is that no sample is repeated (`NoRepeatOnBaseline`), not that
  none is lost.
- That registers which somebody else reset are noticed: nothing tells the driver. Against
  an external reset the runs check burst framing, health, jobs and the latch
  (`lifecycle_hostile`); what the cache is worth is checked and proved without one.
- The mix of a register write that fails yet lands with freshness: `Freshness`
  gives a failed write no effect on the conversion, `DriverLifecycle` has no
  freshness; `CliDriver` has both, coarsely.
- The ESP-IDF console's own stress session and watch: the first has the phases of
  the Arduino one, the second is one blocking read per turn.
- A console that has been up for 24.8 days or more: its watch compares deadlines as
  signed differences of the clock, which `Console` counts down.
- Board support, printing and diagnostics of the examples, the hardware-in-the-loop
  runner, the release checks and scripts: no state that the driver or a session
  depends on.

## Plan

1. Lifecycle core, freshness, burst window, clock and blocking reads, numeric
   helpers, adapters, console input, sessions, profile change, self-check: modelled
   and checked.
2. Every safety invariant, every action property and the four refinements of the
   passing runs: proved.
3. What is left: the write jobs and the lifecycle calls of `CliDriver` against
   `DriverLifecycle`, as `ConsoleView` does it for readiness and the read jobs; a
   measure for the console's sessions, as the jobs and the blocking read have one;
   the ESP-IDF console's watch.
