------------------------------- MODULE Console -------------------------------
(***************************************************************************)
(* The cooperative main loop of the bring-up console: each turn runs the   *)
(* driver's tick, one step of the watch, one step of the stress session    *)
(* and at most one command, all of them callers of one driver.  The        *)
(* sessions span many turns, so a command, the other session or the tick   *)
(* may act between any two of their steps.                                 *)
(*                                                                         *)
(* Time is in conversion budgets, as in CliDriver.  A watch's cadence and  *)
(* its minimum poll distance are one unit at most: "paced" and "polled"    *)
(* are set when the next step or poll must wait for time to pass.  The     *)
(* stress mix leaves open which of its operations is next.                 *)
(*                                                                         *)
(* Overrun, StaleDeadline, Patient and Unchecked are plausible slips of    *)
(* the definition that follows each; no action uses them.                  *)
(***************************************************************************)
EXTENDS CliDriver

CONSTANTS
  Deadline,      \* a watch's patience: one-shot budget plus BLOCKING_READ_TIMEOUT_MS
  MaxResults,    \* results a watch may ask for (bound)
  MaxOperations  \* operations a stress session may ask for (bound)

ASSUME ConsoleAssumption == {Deadline, MaxResults, MaxOperations} \subseteq Nat \ {0}

VARIABLES
  drv,      \* the driver
  dev,      \* the device
  watch,    \* watchState
  stress,   \* stressState
  turn,     \* the next part of loop()
  user,     \* whether somebody still types commands
  meddled   \* the stress session's job or its status changed under it (ghost)

vars == <<drv, dev, watch, stress, turn, user, meddled>>

\* wait: waitingConversion, and what began it: a pending continuous sample or a
\* conversion whose start was accepted.  left counts down to the conversion
\* deadline (0: passed, or never set), since up from the accepted start (ghost);
\* late: the last recorded result is the conversion timeout.
Watches == [active : BOOLEAN, wait : {"NO", "PENDING", "STARTED"},
            remaining : 0 .. MaxResults, left : 0 .. Deadline, since : 0 .. Deadline,
            paced : BOOLEAN, polled : BOOLEAN, late : BOOLEAN]
NoWatch == [active |-> FALSE, wait |-> "NO", remaining |-> 0, left |-> 0, since |-> 0,
            paced |-> FALSE, polled |-> FALSE, late |-> FALSE]

\* todo: total - completed.
Stresses == [phase : {"OFF", "START", "READY", "POLL", "SLOT"}, mixed : BOOLEAN,
             todo : 0 .. MaxOperations]
NoStress == [phase |-> "OFF", mixed |-> FALSE, todo |-> 0]

Turns == {"TICK", "WATCH", "STRESS", "INPUT"}

TypeOK ==
  /\ drv \in Drivers
  /\ dev \in Devices
  /\ watch \in Watches
  /\ stress \in Stresses
  /\ turn \in Turns
  /\ user \in {"THERE", "GONE"}
  /\ meddled \in BOOLEAN

\* setup() has run begin with the default configuration; the device may have been
\* converting before that.
Init ==
  /\ \E v \in Devices : \E r \in Begin(v, "POWER_DOWN", TRUE) : drv = r.d /\ dev = r.v
  /\ watch = NoWatch
  /\ stress = NoStress
  /\ turn = "TICK"
  /\ user = "THERE"
  /\ meddled = FALSE

DriverIs(r) == drv' = r.d /\ dev' = r.v

-----------------------------------------------------------------------------
(* The environment. *)

Older(w) ==
  [w EXCEPT !.left = IF @ > 0 THEN @ - 1 ELSE 0,
            !.since = IF w.wait = "STARTED" /\ @ < Deadline THEN @ + 1 ELSE @,
            !.paced = FALSE, !.polled = FALSE]

TimePasses ==
  /\ drv' = Aged(drv)
  /\ watch' = Older(watch)
  /\ UNCHANGED <<dev, stress, turn, user, meddled>>

ConversionEnds ==
  /\ dev.running # "IDLE"
  /\ dev' = Ended(dev)
  /\ UNCHANGED <<drv, watch, stress, turn, user, meddled>>

\* A brown-out: the conversion is lost, and the counter may look moved.
ConversionLost ==
  /\ dev.running # "IDLE"
  /\ \E u \in BOOLEAN : dev' = [running |-> "IDLE", unread |-> u]
  /\ UNCHANGED <<drv, watch, stress, turn, user, meddled>>

-----------------------------------------------------------------------------
(* The watch. *)

Recorded(w) ==
  [w EXCEPT !.remaining = @ - 1, !.wait = "NO", !.paced = TRUE, !.polled = FALSE,
            !.since = 0, !.late = FALSE]
Closed(w) == IF w.remaining = 0 THEN [NoWatch EXCEPT !.late = w.late] ELSE w

\* The minimum poll distance only throttles the retries of a pending sample.
Resting(w) ==
  IF drv.mode = "CONTINUOUS"
  THEN w.paced \/ (w.wait # "NO" /\ w.polled)
  ELSE IF w.wait = "NO" THEN w.paced ELSE w.polled

Overrun == watch.active /\ ~Resting(watch)
Watching == watch.active /\ watch.remaining > 0 /\ ~Resting(watch)

WatchTurn(w) ==
  /\ turn = "WATCH" /\ turn' = "STRESS"
  /\ watch' = w
  /\ UNCHANGED <<stress, user, meddled>>

WatchIdles ==
  /\ ~Watching
  /\ WatchTurn(watch)
  /\ UNCHANGED <<drv, dev>>

\* A failed readiness check is recorded and returns past the closing test.
UnclosedOnFailure(w) == w
Pending(w) == [w EXCEPT !.wait = "PENDING", !.polled = TRUE, !.since = 0]
WatchContinuous ==
  /\ Watching
  /\ drv.mode = "CONTINUOUS"
  /\ \E r \in ConversionReady(drv, dev) :
       LET ready == r.st = "OK" /\ r.d.evidence
       IN CASE r.st # "OK" -> DriverIs(r) /\ WatchTurn(UnclosedOnFailure(Recorded(watch)))
            [] r.st = "OK" /\ ~ready -> DriverIs(r) /\ WatchTurn(Pending(watch))
            [] ready -> \E s \in ReadSample(r.d, r.v) :
                          DriverIs(s) /\ WatchTurn(Closed(Recorded(watch)))

StartAccepted(st) == st \in {"IN_PROGRESS", "BUSY"}

StaleDeadline(w) ==
  [w EXCEPT !.wait = "STARTED", !.since = 0, !.paced = TRUE, !.polled = FALSE]
Awaiting(w) ==
  [w EXCEPT !.wait = "STARTED", !.left = Deadline, !.since = 0, !.paced = TRUE,
            !.polled = FALSE]

WatchStarts ==
  /\ Watching
  /\ drv.mode # "CONTINUOUS"
  /\ watch.wait = "NO"
  /\ \E r \in StartConversion(drv, dev) :
       /\ DriverIs(r)
       /\ WatchTurn(IF StartAccepted(r.st) THEN Awaiting(watch)
                    ELSE Closed(Recorded(watch)))

\* tryReadSample: not ready is no error.
Patient(w, r) ==
  IF r.st # "NOT_READY" THEN Closed(Recorded(w)) ELSE [w EXCEPT !.polled = TRUE]
AfterPoll(w, r) ==
  CASE r.st # "NOT_READY" -> Closed(Recorded(w))
    [] r.st = "NOT_READY" /\ w.left = 0 -> Closed([Recorded(w) EXCEPT !.late = TRUE])
    [] OTHER -> [w EXCEPT !.polled = TRUE]

WatchPolls ==
  /\ Watching
  /\ drv.mode # "CONTINUOUS"
  /\ watch.wait # "NO"
  /\ \E r \in ReadSample(drv, dev) : DriverIs(r) /\ WatchTurn(AfterPoll(watch, r))

-----------------------------------------------------------------------------
(* The stress session. *)

\* finishStress cancels whatever poll job is active.
StressOver(d, v) == CancelJob(d, v)

StressTurn == turn = "STRESS" /\ turn' = "INPUT" /\ UNCHANGED <<watch, user>>

\* recordStressStatus: the next operation, or the end of the session.
StressRecords(r) ==
  /\ meddled' = FALSE
  /\ IF stress.todo = 1
     THEN stress' = NoStress /\ \E c \in StressOver(r.d, r.v) : DriverIs(c)
     ELSE stress' = [stress EXCEPT !.todo = @ - 1, !.phase = "START"] /\ DriverIs(r)

StressWaits(r, phase) ==
  /\ stress' = [stress EXCEPT !.phase = phase]
  /\ meddled' = FALSE
  /\ DriverIs(r)

StressIdles ==
  /\ stress.phase = "OFF"
  /\ StressTurn
  /\ UNCHANGED <<drv, dev, stress, meddled>>

Unchecked(st) == TRUE
ReadStarted(st) == st = "IN_PROGRESS"

\* Sampling operations start a conversion first, or share the one under way.
StressSamples ==
  /\ stress.phase = "START"
  /\ StressTurn
  /\ \E r \in StartConversion(drv, dev) :
       IF ~StartAccepted(r.st) THEN StressRecords(r)
       ELSE \/ stress.mixed /\ StressWaits(r, "READY")
            \/ \E s \in StartRead(r.d, r.v) :
                 IF ReadStarted(s.st) THEN StressWaits(s, "POLL") ELSE StressRecords(s)

StressReadsRegister ==
  /\ stress.phase = "START"
  /\ stress.mixed
  /\ StressTurn
  /\ \E r \in ReadRegister(drv, dev) : StressRecords(r)

StressChecksReady ==
  /\ stress.phase = "READY"
  /\ StressTurn
  /\ \E r \in ConversionReady(drv, dev) :
       IF r.st # "OK" THEN StressRecords(r)
       ELSE StressWaits(r, IF r.d.evidence THEN "SLOT" ELSE "READY")

StressReadsSlot ==
  /\ stress.phase = "SLOT"
  /\ StressTurn
  /\ \E r \in ReadSample(drv, dev) : StressRecords(r)

StressPolls ==
  /\ stress.phase = "POLL"
  /\ StressTurn
  /\ \E r \in Poll(drv, dev) :
       IF r.st = "IN_PROGRESS"
       THEN DriverIs(r) /\ UNCHANGED <<stress, meddled>>
       ELSE StressRecords(r)

-----------------------------------------------------------------------------
(* Commands.  A refused one changes nothing, which is NoCommand. *)

Typed == turn = "INPUT" /\ turn' = "TICK" /\ user = "THERE" /\ UNCHANGED user

\* "read N" and selfcheck make many such calls, with no other part of the loop
\* between them.
Calling == turn = "INPUT" /\ turn' \in {"INPUT", "TICK"} /\ user = "THERE" /\ UNCHANGED user

Noted ==
  meddled' = (stress'.phase = "POLL" /\ (meddled \/ drv'.job # drv.job \/ drv'.last # drv.last))

SessionsStop == watch' = NoWatch /\ stress' = NoStress
SessionsGoOn == UNCHANGED <<watch, stress>>

\* finishStress, when a session is active.
StressStopped(d, v) ==
  IF stress.phase = "OFF" THEN {Reply(d, v, "OK")} ELSE StressOver(d, v)

NoCommand ==
  /\ turn = "INPUT" /\ turn' = "TICK"
  /\ UNCHANGED <<drv, dev, watch, stress, user, meddled>>

UserLeaves == user = "THERE" /\ user' = "GONE"
              /\ UNCHANGED <<drv, dev, watch, stress, turn, meddled>>

\* startWatch leaves a stress session alone.
WatchCommand(n) ==
  /\ Typed /\ drv.phase = "READY" /\ ~watch.active
  /\ watch' = [NoWatch EXCEPT !.active = TRUE, !.remaining = n]
  /\ UNCHANGED <<drv, dev, stress, meddled>>

StressCommand(n, mixed) ==
  /\ Typed /\ drv.phase = "READY"
  /\ \E c \in StressStopped(drv, dev) : DriverIs(c)
  /\ watch' = NoWatch
  /\ stress' = [phase |-> "START", mixed |-> mixed, todo |-> n]
  /\ Noted

StopCommand ==
  /\ Typed /\ SessionsStop
  /\ \E c \in StressStopped(drv, dev) : \E r \in CancelJob(c.d, c.v) : DriverIs(r)
  /\ Noted

\* addr and pkg: the next configuration, or back to the previous one.
Rebegun ==
  UNION {UNION {
    IF b.st = "OK" THEN {b}
    ELSE CASE drv.phase = "UNBOUND" -> {Reply(Unbound, b.v, "FAILED")}
           [] drv.phase = "BOUND"   -> Bind(b.v, drv.mode)
           [] drv.phase = "READY"   -> Begin(b.v, drv.mode, TRUE) :
      b \in UNION {Begin(e.v, IF drv.phase = "READY" THEN drv.mode ELSE "POWER_DOWN", fit) :
                     fit \in BOOLEAN}} : e \in End(drv, dev)}

\* bind, unbind, addr and pkg stop both sessions.
BindingCommand ==
  /\ Typed /\ SessionsStop
  /\ \E r \in Bind(dev, "POWER_DOWN") \cup {Reply(Unbound, dev, "OK")} \cup Rebegun : DriverIs(r)
  /\ Noted

\* begin, end, reset and resetreapply stop the watch only.
LifecycleCommand ==
  /\ Typed
  /\ watch' = NoWatch /\ UNCHANGED stress
  /\ \E r \in End(drv, dev) \cup SoftReset(drv, dev) \cup ResetAndReapply(drv, dev)
              \cup UNION {Begin(e.v, "POWER_DOWN", TRUE) : e \in End(drv, dev)} : DriverIs(r)
  /\ Noted

\* attach and job ...
JobCommand ==
  /\ Typed /\ SessionsGoOn
  /\ \E r \in StartAttach(drv, dev) \cup StartRead(drv, dev) \cup StartReset(drv, dev)
              \cup Poll(drv, dev) \cup CancelJob(drv, dev)
              \cup UNION {StartConfigure(drv, dev, m) : m \in StableModes} : DriverIs(r)
  /\ Noted

\* start, tryread, poll, the register reads and writes, flags clear, powerdown, mode,
\* the setters and recover.
DirectCommand ==
  /\ Calling /\ SessionsGoOn
  /\ \E r \in StartConversion(drv, dev) \cup ReadSample(drv, dev) \cup ConversionReady(drv, dev)
              \cup ReadRegister(drv, dev) \cup Recover(drv, dev)
              \cup ClearFlags(drv, dev) \cup WriteConfiguration(drv, dev)
              \cup UNION {SetMode(drv, dev, m) : m \in StableModes} : DriverIs(r)
  /\ Noted

-----------------------------------------------------------------------------
(* Commands that wait: time passes while neither session runs. *)

Started(d, v) ==
  IF d.mode = "CONTINUOUS" THEN {Reply(d, v, "BUSY")} ELSE StartConversion(d, v)

\* What one unit of waiting may find: the device done, or still converting.
Later(r) ==
  {Reply(Aged(r.d), v, "OK") :
     v \in {r.v} \cup (IF r.v.running = "IDLE" THEN {} ELSE {Ended(r.v)})}

\* readFreshBlocking: the sample, an error, or the timeout after waiting.
WaitingRead(r) ==
  LET now == ReadSample(r.d, r.v) IN
  \/ \E s \in now : s.st # "NOT_READY" /\ DriverIs(s) /\ UNCHANGED watch
  \/ \E s \in now : /\ s.st = "NOT_READY"
                    /\ \E l \in Later(s) : \E q \in ReadSample(l.d, l.v) : DriverIs(q)
                    /\ watch' = Older(watch)

ReadCommand ==
  /\ Calling
  /\ UNCHANGED stress
  /\ \E r \in Started(drv, dev) :
       IF StartAccepted(r.st) THEN WaitingRead(r) ELSE DriverIs(r) /\ UNCHANGED watch
  /\ Noted

\* waitForFreshSampleReady, then readburst, slot, mlux or ulux: a stress session
\* is ended only once the start was accepted.
FreshCommand ==
  /\ Typed
  /\ \E r \in Started(drv, dev) :
       IF ~StartAccepted(r.st) THEN DriverIs(r) /\ SessionsGoOn
       ELSE /\ stress' = NoStress
            /\ \E c \in StressStopped(r.d, r.v) : WaitingRead(c)
  /\ Noted

-----------------------------------------------------------------------------
TickTurn ==
  /\ turn = "TICK" /\ turn' = "WATCH"
  /\ \E r \in Tick(drv, dev) : DriverIs(r)
  /\ UNCHANGED <<watch, stress, user, meddled>>

WatchStep == WatchIdles \/ WatchContinuous \/ WatchStarts \/ WatchPolls
StressStep ==
  \/ StressIdles \/ StressSamples \/ StressReadsRegister
  \/ StressChecksReady \/ StressReadsSlot \/ StressPolls
Loop == TickTurn \/ WatchStep \/ StressStep \/ NoCommand

Command ==
  \/ \E n \in 1 .. MaxResults : WatchCommand(n)
  \/ \E n \in 1 .. MaxOperations, mixed \in BOOLEAN : StressCommand(n, mixed)
  \/ StopCommand \/ BindingCommand \/ LifecycleCommand \/ JobCommand
  \/ DirectCommand \/ ReadCommand \/ FreshCommand

Next ==
  \/ Loop \/ Command \/ UserLeaves
  \/ TimePasses \/ ConversionEnds \/ ConversionLost

Spec == Init /\ [][Next]_vars

\* loop() runs for ever, time goes on, and a device that keeps converting gets
\* to the end of a conversion.
FairSpec == Spec /\ WF_vars(Loop) /\ WF_vars(TimePasses) /\ WF_vars(ConversionEnds)

-----------------------------------------------------------------------------
(* Properties. *)

\* An OK counted for a polled operation is a sample read in that very poll,
\* unless a command took or replaced the session's job under it (serviceStress,
\* StressPhase::POLL).
StressOkMeansRead ==
  [][/\ turn = "STRESS" /\ stress.phase = "POLL" /\ ~meddled
     /\ stress' # stress
     /\ drv'.last = "OK"
     => drv.evidence /\ dev.unread /\ ~dev'.unread]_vars

\* A conversion timeout is recorded only when the conversion was given its whole
\* deadline since its start was accepted.  A wait carried over from continuous
\* mode has no deadline of its own.
WatchTimeoutWaited ==
  [][watch'.late /\ watch'.wait = "NO" /\ watch.wait = "STARTED" => watch.since = Deadline]_vars

\* What may hold a watch for ever: a device that stopped converting in continuous
\* mode, and the failure that consumed the last result (handleWatch returns past
\* its closing test).  What may hold a stress session: a wait, without a deadline,
\* for a conversion nobody is making (StressPhase::READY).
WatchHeld ==
  watch.remaining = 0 \/ (drv.mode = "CONTINUOUS" /\ dev.running = "IDLE")
Stranded ==
  stress.phase = "READY" /\ ~drv.evidence /\ ~dev.unread

\* Once nobody types, each session comes to its end, although the two and the tick
\* take each other's conversions and evidence.
SessionsEnd ==
  /\ user = "GONE" /\ watch.active ~> ~watch.active \/ WatchHeld
  /\ user = "GONE" /\ stress.phase # "OFF" ~> stress.phase = "OFF" \/ Stranded

\* A watch that has all its results is over (handleWatch's closing test).
WatchClosed == watch.active => watch.remaining > 0
=============================================================================
