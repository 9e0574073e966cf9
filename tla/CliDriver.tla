------------------------------ MODULE CliDriver ------------------------------
(***************************************************************************)
(* The driver as its command-line owner sees it: every public call the     *)
(* console makes is an operator that returns the set of its replies, each  *)
(* the driver's state, the device's state and the status code afterwards.  *)
(* Freshness and DriverLifecycle are the detailed models; here the data of *)
(* a conversion, the registers and the health counters are gone, and any   *)
(* transfer may fail, which stands for the bus and for the OFFLINE latch   *)
(* alike.  A failed configuration write may still have landed.             *)
(*                                                                         *)
(* One unit of time is a conversion budget: a gate is open once one unit   *)
(* has passed.  A read job's "left" is 0 until its deadline is armed and   *)
(* one more than its age after; another job's "left" counts the transfers  *)
(* it has still to make.  In continuous mode the code's _conversionStarted *)
(* decides nothing, and "started" stays FALSE.                             *)
(***************************************************************************)
EXTENDS Naturals

CONSTANTS
  ReadTimeout,  \* _readTimeoutMs, in conversion budgets
  Writes        \* the configuration writes of one job

ASSUME CliDriverAssumption ==
  ReadTimeout \in Nat \ {0} /\ Writes \in Nat \ {0}

StableModes == {"POWER_DOWN", "CONTINUOUS"}

JobKinds == {"NONE", "READ", "CONFIG", "ATTACH", "RESET"}
Larger(a, b) == IF a > b THEN a ELSE b
Jobs == [kind : JobKinds, left : 0 .. Larger(ReadTimeout, Writes) + 1, to : StableModes]
IdleJob == [kind |-> "NONE", left |-> 0, to |-> "POWER_DOWN"]

Drivers == [phase : {"UNBOUND", "BOUND", "READY"}, mode : StableModes,
            started : BOOLEAN, evidence : BOOLEAN, retry : BOOLEAN,
            age : 0 .. ReadTimeout, job : Jobs, last : {"OK", "IN_PROGRESS", "FAILED"}]

\* unread: the device shows a conversion that the driver takes for new, by its
\* counter against the baseline or, while there is none, by the ready flag.
Devices == [running : {"IDLE", "ONE_SHOT", "CONTINUOUS"}, unread : BOOLEAN]

Reply(d, v, st) == [d |-> d, v |-> v, st |-> st]
Failed(d, v) == {Reply(d, v, "FAILED")}

-----------------------------------------------------------------------------
(* State the calls share. *)

Converting(d) == d.phase = "READY" /\ (d.started \/ d.mode = "CONTINUOUS")
JobActive(d) == d.job.kind # "NONE"

Released(d) == [d EXCEPT !.started = FALSE, !.age = IF d.mode = "CONTINUOUS" THEN @ ELSE 0]

\* _clearRuntimeState: a continuous gate counts from time zero, whenever that was.
Cleared(d, age) ==
  [d EXCEPT !.started = FALSE, !.evidence = FALSE, !.retry = FALSE, !.age = age]
Clearings(d) ==
  {Cleared(d, age) : age \in IF d.mode = "CONTINUOUS" THEN 0 .. ReadTimeout ELSE {0}}

\* _finishPollJob.  Which status other than OK it was is only printed.
Finished(d, st) ==
  [d EXCEPT !.job = IdleJob, !.last = IF st = "OK" THEN "OK" ELSE "FAILED", !.retry = FALSE]

\* Un-initialized, still bound.
Down(d) == [Cleared(d, 0) EXCEPT !.phase = "BOUND"]

\* A whole configuration written, in the driver and in the device.  The baseline is
\* gone: what the device shows by its flag may be old, and may be nothing.
Applied(d, m) == [Cleared(d, 0) EXCEPT !.phase = "READY", !.mode = m]
Running(v, m) == [v EXCEPT !.running = IF m = "CONTINUOUS" THEN m ELSE "IDLE"]
Forgetting(v) == {[v EXCEPT !.unread = u] : u \in BOOLEAN}
ResetDevice == [running |-> "IDLE", unread |-> FALSE]

\* Time passes: the conversion, the armed read job and the retry grow older.
Aged(d) ==
  [d EXCEPT
     !.age = IF Converting(d) /\ @ < ReadTimeout THEN @ + 1 ELSE @,
     !.retry = FALSE,
     !.job = IF @.kind = "READ" /\ @.left \in 1 .. ReadTimeout
               THEN [@ EXCEPT !.left = d.job.left + 1] ELSE @]

\* The device completes a conversion.
Ended(v) ==
  [running |-> IF v.running = "ONE_SHOT" THEN "IDLE" ELSE v.running, unread |-> TRUE]

-----------------------------------------------------------------------------
(* Readiness. *)

\* A probe of the counter or of FLAGS, once the transport gate is passed.
Probed(d, v) ==
  Failed(d, v) \cup
  {Reply(IF v.unread THEN [Released(d) EXCEPT !.evidence = TRUE] ELSE [d EXCEPT !.retry = TRUE],
         v, "OK")}

GateOpen(d) == Converting(d) => d.age >= 1

\* _refreshReadinessEvidence; an INT hint may ask for the counter before the
\* gate.  The caller reads "ready" off the evidence.
Refreshed(d, v) ==
  IF d.evidence \/ d.retry THEN {Reply(d, v, "OK")}
  ELSE (IF GateOpen(d) THEN {} ELSE {Reply(d, v, "OK")}) \cup
       (IF JobActive(d) THEN {Reply(d, v, "BUSY")} ELSE Probed(d, v))

ConversionReady(d, v) ==
  IF d.phase # "READY" THEN Failed(d, v) ELSE Refreshed(d, v) \cup Failed(d, v)

\* The frame itself: a sample the baseline already knows is a duplicate, and a
\* malformed one is handed out without being compared or moving the baseline.
Consumed(d) ==
  [Released(d) EXCEPT !.evidence = FALSE, !.age = 0]
FrameRead(d, v) ==
  LET read == [v EXCEPT !.unread = FALSE]
  IN Failed(d, v) \cup {Reply(Consumed(d), w, "WARN") : w \in {v, read}} \cup
     IF v.unread THEN {Reply(Consumed(d), read, "OK")}
                 ELSE {Reply([d EXCEPT !.evidence = FALSE], v, "NOT_READY")}

\* readSample, and readSampleSlot for the newest slot.
ReadSample(d, v) ==
  IF d.phase # "READY" THEN Failed(d, v)
  ELSE UNION {IF r.st # "OK" THEN {r}
              ELSE IF ~r.d.evidence THEN {Reply(r.d, r.v, "NOT_READY")}
              ELSE IF JobActive(r.d) THEN {Reply(r.d, r.v, "BUSY")}
              ELSE FrameRead(r.d, r.v) : r \in Refreshed(d, v)}

\* FLAGS read for their own sake are evidence too, even of a conversion that the
\* counter shows to be an old one.
Captured(d) == {d, [Released(d) EXCEPT !.evidence = TRUE]}

\* readFlagsRaw and the other register reads of the stress mix.
ReadRegister(d, v) ==
  IF d.phase # "READY" THEN Failed(d, v)
  ELSE IF JobActive(d) THEN {Reply(d, v, "BUSY")}
  ELSE Failed(d, v) \cup {Reply(e, v, "OK") : e \in Captured(d)}

\* clearFlags and clearConversionReadyFlag read or write FLAGS and forget.
ClearFlags(d, v) ==
  IF d.phase # "READY" THEN Failed(d, v)
  ELSE IF JobActive(d) THEN {Reply(d, v, "BUSY")}
  ELSE Failed(d, v) \cup
       UNION {{Reply([e EXCEPT !.evidence = FALSE], w, "OK") : e \in Captured(d)} :
                w \in {v, [v EXCEPT !.unread = FALSE]}}

-----------------------------------------------------------------------------
(* Conversions and their mode. *)

\* An expired ownership is dropped before anything is refused.
Forgotten(d) == IF d.started /\ d.age >= ReadTimeout THEN Released(d) ELSE d

\* Evidence is dropped with what it stands for, if that was a flag already cleared.
Dropping(d, v) == {v} \cup IF d.evidence THEN {[v EXCEPT !.unread = FALSE]} ELSE {}

\* In mode m from here on, with a one-shot conversion or without.
Restarted(d, m, started) == [Cleared(d, 0) EXCEPT !.mode = m, !.started = started]
Triggered(d, v, st) ==
  {Reply(Restarted(d, "POWER_DOWN", TRUE), [w EXCEPT !.running = "ONE_SHOT"], st) :
     w \in Dropping(d, v)}

StartConversion(d, v) ==
  LET f == Forgotten(d) IN
  IF d.phase # "READY" THEN Failed(d, v)
  ELSE IF d.mode = "CONTINUOUS" \/ f.started \/ JobActive(d) THEN {Reply(f, v, "BUSY")}
  ELSE Failed(f, v) \cup Triggered(f, v, "IN_PROGRESS")

\* tick: probes an open gate when no job is active, and lets an ownership expire;
\* OFFLINE it does neither.
Tick(d, v) ==
  IF d.phase # "READY" \/ JobActive(d) \/ ~Converting(d) \/ d.evidence \/ ~GateOpen(d)
  THEN {Reply(d, v, "OK")}
  ELSE {Reply(d, v, "OK")} \cup
       {[r EXCEPT !.d = IF @.evidence THEN @ ELSE Forgotten(@)] : r \in Refreshed(d, v)}

\* setMode and powerDown: one configuration write, which may land though it fails.
SetMode(d, v, m) ==
  IF d.phase # "READY" THEN Failed(d, v)
  ELSE IF JobActive(d) THEN {Reply(d, v, "BUSY")}
  ELSE Failed(d, v) \cup Failed(d, Running(v, m)) \cup
       {Reply(Applied(d, m), w, "OK") : w \in Forgetting(Running(v, m))}

\* writeConfiguration, of a one-shot mode too: the baseline survives it.
WriteConfiguration(d, v) ==
  IF d.phase # "READY" THEN Failed(d, v)
  ELSE IF JobActive(d) THEN {Reply(d, v, "BUSY")}
  ELSE Failed(d, v) \cup Failed(d, [v EXCEPT !.running = "ONE_SHOT"]) \cup
       Triggered(d, v, "IN_PROGRESS") \cup
       UNION {Failed(d, Running(v, m)) \cup
              {Reply(Restarted(d, m, FALSE), Running(w, m), "OK") : w \in Dropping(d, v)} :
                m \in StableModes}

-----------------------------------------------------------------------------
(* Poll-chunked jobs. *)

WithJob(d, kind, left, to) ==
  {[d EXCEPT !.job = [kind |-> kind, left |-> left, to |-> to], !.last = "IN_PROGRESS"]}

StartJob(d, v, accepted, jobs) ==
  IF ~accepted THEN Failed(d, v)
  ELSE IF JobActive(d) THEN {Reply(d, v, "BUSY")}
  ELSE {Reply(e, v, "IN_PROGRESS") : e \in jobs}

\* startReadSample and startReadBurst: refused as well while burst framing is
\* off or the driver is OFFLINE.
StartRead(d, v) ==
  Failed(d, v) \cup
  StartJob(d, v, d.phase = "READY",
           IF Converting(d) \/ d.evidence
           THEN WithJob([d EXCEPT !.retry = FALSE], "READ", 0, "POWER_DOWN") ELSE {})

StartConfigure(d, v, m) == StartJob(d, v, d.phase = "READY", WithJob(d, "CONFIG", Writes, m))
StartReset(d, v) == StartJob(d, v, d.phase = "READY", WithJob(d, "RESET", Writes + 1, d.mode))
StartAttach(d, v) == StartJob(d, v, d.phase = "BOUND", WithJob(d, "ATTACH", Writes + 1, d.mode))

JobEnds(d, v, st) == {Reply(Finished(d, st), v, st)}
StillRunning(d, v) ==
  {Reply([d EXCEPT !.last = "IN_PROGRESS"], v, "IN_PROGRESS")}

\* _pollReadJob, one instruction of it.
ReadDeadlinePassed(d) == d.job.left > ReadTimeout
PollRead(d, v) ==
  LET a == [d EXCEPT !.job.left = IF @ = 0 THEN 1 ELSE @] IN
  IF ReadDeadlinePassed(a) THEN JobEnds(Released(a), v, "FAILED")
  ELSE IF a.evidence
  THEN UNION {JobEnds(r.d, r.v, r.st) : r \in FrameRead(a, v)}
  ELSE IF a.retry \/ ~GateOpen(a) THEN StillRunning(a, v)
  ELSE UNION {IF r.st = "OK" THEN StillRunning(r.d, r.v) ELSE JobEnds(r.d, r.v, r.st) :
                r \in Probed(a, v)}

ResetApplied(d) == d.job.kind = "RESET" /\ d.job.left <= Writes

\* What a failed write job leaves: a reset that was applied un-initializes.
WriteJobFails(d, v) ==
  LET e == IF ResetApplied(d) THEN Down(d) ELSE d
      landed == CASE d.job.left = 1 -> {v, Running(v, d.job.to)}
                  [] d.job.kind = "RESET" /\ d.job.left > Writes -> {v, ResetDevice}
                  [] OTHER -> {v}
  IN UNION {JobEnds(e, w, "FAILED") : w \in landed}

\* _pollConfigJob and _pollResetAndReapplyJob, one transfer.
PollWrite(d, v) ==
  LET resets == d.job.kind = "RESET" /\ d.job.left = Writes + 1
      next == [d EXCEPT !.job.left = @ - 1]
  IN WriteJobFails(d, v) \cup
     IF d.job.left = 1
     THEN UNION {JobEnds(Applied(d, d.job.to), w, "OK") : w \in Forgetting(Running(v, d.job.to))}
     ELSE IF resets THEN UNION {StillRunning(e, ResetDevice) : e \in Clearings(next)}
     ELSE StillRunning(next, v)

Poll(d, v) ==
  CASE d.job.kind = "NONE" -> {Reply(d, v, d.last)}
    [] d.job.kind = "READ" -> PollRead(d, v)
    [] OTHER -> PollWrite(d, v)

\* cancelPollJob: attaching, or having reset, leaves the driver uninitialized.
CancelJob(d, v) ==
  LET lost == d.job.kind = "ATTACH" \/ ResetApplied(d)
  IN IF ~JobActive(d) THEN {Reply(d, v, "OK")}
     ELSE JobEnds(IF lost THEN Down(d) ELSE d, v, "FAILED")

-----------------------------------------------------------------------------
(* Lifecycle. *)

Fresh(phase, m) ==
  [phase |-> phase, mode |-> m, started |-> FALSE, evidence |-> FALSE, retry |-> FALSE,
   age |-> 0, job |-> IdleJob, last |-> "OK"]

Unbound == Fresh("UNBOUND", "POWER_DOWN")
Bind(v, m) == {Reply(Fresh("BOUND", m), v, "OK")}

\* begin binds, probes and applies; an unsuitable Config leaves it unbound.
Begin(v, m, suitable) ==
  IF ~suitable THEN Failed(Unbound, v)
  ELSE {Reply(Fresh("READY", m), w, "OK") : w \in Forgetting(Running(v, m))} \cup
       Failed(Fresh("BOUND", m), v) \cup Failed(Fresh("BOUND", m), Running(v, m))

\* end powers the device down if it can, and forgets the job and its status.
End(d, v) ==
  LET e == [Down(d) EXCEPT !.phase = IF d.phase = "UNBOUND" THEN "UNBOUND" ELSE @,
                           !.job = IdleJob, !.last = "OK"]
  IN {Reply(e, w, "OK") :
        w \in {v} \cup (IF d.phase = "READY" THEN {Running(v, "POWER_DOWN")} ELSE {})}

\* recover: identify, then rewrite everything.
Recover(d, v) ==
  IF d.phase # "READY" THEN Failed(d, v)
  ELSE IF JobActive(d) THEN {Reply(d, v, "BUSY")}
  ELSE Failed(d, v) \cup
       UNION {{Reply(Applied(d, d.mode), Running(w, d.mode), "OK")} \cup
              UNION {Failed(e, w) \cup Failed(e, Running(w, d.mode)) : e \in Clearings(d)} :
                w \in Forgetting(v)}

\* softReset and resetAndReapply; the general call may land though it fails.
ResetCall(d, v, then) ==
  IF d.phase # "READY" THEN Failed(d, v)
  ELSE IF JobActive(d) THEN {Reply(d, v, "BUSY")}
  ELSE Failed(d, v) \cup Failed(d, ResetDevice) \cup then
SoftReset(d, v) ==
  ResetCall(d, v, {Reply(Down(d), ResetDevice, "OK")})
ResetAndReapply(d, v) ==
  ResetCall(d, v,
    {Reply(Applied(d, d.mode), Running(ResetDevice, d.mode), "OK"),
     Reply(Down(d), ResetDevice, "FAILED"),
     Reply(Down(d), Running(ResetDevice, d.mode), "FAILED")})
=============================================================================
