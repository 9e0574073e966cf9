------------------------------ MODULE TimeBase ------------------------------
(***************************************************************************)
(* The driver's clock and the 32-bit stamps taken from it.  Freshness and  *)
(* Console count ages; here are the stamps and the unsigned differences    *)
(* those ages stand for, with a clock that wraps, a clock hook or a clock  *)
(* fed by tick() and poll(), a caller that reads before it has fed any     *)
(* time, and readFreshBlocking(), which spins on the clock and must give   *)
(* up when it stands still.  The driver is initialized and in power-down   *)
(* mode, without an INT pin; what a probe or a read finds is left open.    *)
(*                                                                         *)
(* Time starts at zero with the clock.  The fields "at" and "since" are    *)
(* true times that the code does not have; PastStrictly, NotRebased,       *)
(* SampleRebased and NoStallLimit are slips of the definitions that follow *)
(* them.                                                                   *)
(***************************************************************************)
EXTENDS Integers

CONSTANTS
  ClockModulo,   \* 2^32
  Budget,        \* getOneShotBudgetMs
  ReleaseAfter,  \* _readTimeoutMs
  CallerTimeout, \* timeoutMs of a blocking read
  StallLimit,    \* CLOCK_STALL_ITERATIONS
  PassLimit,     \* time that may pass between two tests of the timeout
  MaxTime        \* bound on time

ASSUME TimeAssumption ==
  /\ {ClockModulo, Budget, ReleaseAfter, CallerTimeout, StallLimit, PassLimit, MaxTime}
       \subseteq Nat \ {0}
  /\ Budget <= ReleaseAfter /\ ReleaseAfter < ClockModulo
  /\ CallerTimeout + PassLimit < ClockModulo

VARIABLES
  hook,     \* Config::nowMs is set
  time,     \* true time, in milliseconds since the clock started
  host,     \* _hostMs, _timeBaseValid
  conv,     \* the conversion the driver owns, or the evidence that one is over
  sample,   \* the cached sample's stamp
  loop      \* the readFreshBlocking() in progress

timeVars == <<hook, time, host, conv, sample, loop>>

Stamps == 0 .. ClockModulo - 1
Times == 0 .. MaxTime

\* on: _conversionStarted; ready: _conversionReady, _sampleAvailable.
NoConv == [on |-> FALSE, ready |-> FALSE, stamp |-> 0, at |-> 0, since |-> 0]
NoSample == [on |-> FALSE, stamp |-> 0, at |-> 0, since |-> 0]
NoCall == [step |-> "IDLE", start |-> 0, last |-> 0, stalled |-> 0,
           at |-> 0, pass |-> 0, moved |-> 0]
CallSteps == {"IDLE", "TEST", "OBSERVE", "READ", "TIMEOUT", "STALLED", "ANSWERED"}
InCall == loop.step \in {"TEST", "OBSERVE", "READ"}

TimeTypeOK ==
  /\ hook \in BOOLEAN /\ time \in Times
  /\ host \in [ms : Stamps, valid : BOOLEAN, at : Times]
  /\ conv \in [on : BOOLEAN, ready : BOOLEAN, stamp : Stamps, at : Times, since : Times]
  /\ sample \in [on : BOOLEAN, stamp : Stamps, at : Times, since : Times]
  /\ loop \in [step : CallSteps, start : Stamps, last : Stamps, stalled : 0 .. StallLimit,
               at : Times, pass : 0 .. PassLimit, moved : 0 .. StallLimit]

TimeInit ==
  /\ hook \in BOOLEAN
  /\ time = 0
  /\ host = [ms |-> 0, valid |-> FALSE, at |-> 0]
  /\ conv = NoConv /\ sample = NoSample /\ loop = NoCall

-----------------------------------------------------------------------------
\* The clock as the program sees it; and _nowMs, with the true time it is of.
Clock == time % ClockModulo
NowMs == IF hook THEN Clock ELSE host.ms
NowAt == IF hook THEN time ELSE host.at

HasTimeBase == hook \/ host.valid

\* static_cast<uint32_t>(nowMs - stamp)
Elapsed(ms, stamp) == (ms - stamp) % ClockModulo

PastStrictly(ms, stamp, limit) == Elapsed(ms, stamp) > limit
Past(ms, stamp, limit) == Elapsed(ms, stamp) >= limit

\* _pollReadGateElapsed: nothing holds back a driver that owns no conversion.
GateOpen == HasTimeBase /\ conv.on => Past(NowMs, conv.stamp, Budget)

\* _latchReadinessEvidence: whatever proved a one-shot over, its owner is free.
Latched == [NoConv EXCEPT !.ready = TRUE]

NotRebased(c) == c
Rebased(c) == IF c.on THEN [c EXCEPT !.stamp = Clock, !.since = time] ELSE c

SampleRebased(s) == IF s.on THEN [s EXCEPT !.stamp = Clock, !.since = time] ELSE s
SampleKept(s) == s

\* _observeHostMs, and what a tick() after it finds of the conversion o.
First == ~hook /\ ~host.valid
Observe ==
  /\ host' = IF hook THEN host ELSE [ms |-> Clock, valid |-> TRUE, at |-> time]
  /\ sample' = IF First THEN SampleKept(sample) ELSE sample
Observed == IF First THEN Rebased(conv) ELSE conv

Tick ==
  /\ ~InCall
  /\ Observe
  /\ LET c == Observed
         due == c.on /\ ~c.ready /\ Past(Clock, c.stamp, Budget)
         lost == Past(Clock, c.stamp, ReleaseAfter)
     IN  conv' \in IF due THEN {Latched, IF lost THEN NoConv ELSE c} ELSE {c}
  /\ UNCHANGED <<hook, time, loop>>

\* poll() of an idle driver.
Poll ==
  /\ ~InCall
  /\ Observe
  /\ conv' = Observed
  /\ UNCHANGED <<hook, time, loop>>

-----------------------------------------------------------------------------
\* A conversion that nobody collected is given up for a new one.
Owned == conv.on /\ ~Past(NowMs, conv.stamp, ReleaseAfter)
Started(c) ==
  c = [on |-> TRUE, ready |-> FALSE, stamp |-> NowMs, at |-> time,
       since |-> IF HasTimeBase THEN NowAt ELSE time]

StartConversion ==
  /\ ~InCall /\ ~Owned
  /\ \/ Started(conv')
     \/ conv' = IF conv.on THEN NoConv ELSE conv      \* the write failed
  /\ UNCHANGED <<hook, time, host, sample, loop>>

\* conversionReady(), and the first half of every fresh read.
Probe ==
  /\ ~InCall
  /\ ~conv.ready /\ GateOpen
  /\ conv' = Latched
  /\ UNCHANGED <<hook, time, host, sample, loop>>

Cached(s) == s = [on |-> TRUE, stamp |-> NowMs, at |-> time, since |-> NowAt]

\* A duplicate takes the evidence with it; a read that fails changes nothing.
ReadSample ==
  /\ ~InCall
  /\ conv.ready
  /\ Cached(sample') \/ UNCHANGED sample
  /\ conv' = NoConv
  /\ UNCHANGED <<hook, time, host, loop>>

\* The register as it is, fresh or not.
ReadLatestSample ==
  /\ ~InCall
  /\ Cached(sample')
  /\ UNCHANGED <<hook, time, host, conv, loop>>

-----------------------------------------------------------------------------
\* readFreshBlocking: only with a clock hook, and only if the conversion starts
\* or is in progress.
BeginCall ==
  /\ ~InCall /\ hook
  /\ IF Owned THEN UNCHANGED conv ELSE Started(conv')
  /\ loop' = [NoCall EXCEPT !.step = "TEST", !.start = NowMs, !.last = NowMs, !.at = time]
  /\ UNCHANGED <<hook, time, host, sample>>

TestTimeout ==
  /\ loop.step = "TEST"
  /\ loop' = [loop EXCEPT
       !.pass = 0,
       !.step = IF Past(NowMs, loop.start, CallerTimeout) THEN "TIMEOUT" ELSE "OBSERVE"]
  /\ UNCHANGED <<hook, time, host, conv, sample>>

Stalled(ms) == IF ms = loop.last THEN loop.stalled + 1 ELSE 0

NoStallLimit(n) == FALSE
GivesUp(n) == n >= StallLimit

AddCapped(n, cap) == IF n < cap THEN n + 1 ELSE n

\* "moved" counts the observations since the clock last moved.
ObserveClock ==
  /\ loop.step = "OBSERVE"
  /\ LET n == Stalled(NowMs)
     IN loop' = [loop EXCEPT
          !.last = NowMs,
          !.stalled = IF n > StallLimit THEN StallLimit ELSE n,
          !.moved = AddCapped(@, StallLimit),
          !.step = IF GivesUp(n) THEN "STALLED" ELSE "READ"]
  /\ UNCHANGED <<hook, time, host, conv, sample>>

\* A sample, with its CRC right or wrong, ends the call, and so does a probe or a
\* read that fails; if there is no evidence, or it was of a duplicate, the loop
\* yields and starts a new pass.
ReadOnce ==
  /\ loop.step = "READ"
  /\ LET seen == conv.ready \/ GateOpen
     IN  \/ /\ seen /\ Cached(sample') /\ conv' = NoConv
            /\ loop' = [loop EXCEPT !.step = "ANSWERED"]
         \/ /\ conv' \in {conv} \cup (IF seen THEN {Latched} ELSE {})
            /\ loop' = [loop EXCEPT !.step = "ANSWERED"]
            /\ UNCHANGED sample
         \/ /\ conv' \in {conv} \cup (IF seen THEN {NoConv} ELSE {})
            /\ loop' = [loop EXCEPT !.step = "TEST"]
            /\ UNCHANGED sample
  /\ UNCHANGED <<hook, time, host>>

BlockingLoop == TestTimeout \/ ObserveClock \/ ReadOnce

\* Time goes on between any two steps; it may also stand still for good.
TimePasses ==
  /\ time < MaxTime
  /\ InCall => loop.pass < PassLimit
  /\ time' = time + 1
  /\ loop' = IF InCall THEN [loop EXCEPT !.pass = @ + 1, !.moved = 0] ELSE loop
  /\ UNCHANGED <<hook, host, conv, sample>>

TimeNext ==
  \/ Tick \/ Poll \/ StartConversion \/ Probe \/ ReadSample \/ ReadLatestSample
  \/ BeginCall \/ BlockingLoop \/ TimePasses

\* A blocking call runs on; nothing is assumed of the clock.
TimeFairness == WF_timeVars(BlockingLoop)

TimeSpec == TimeInit /\ [][TimeNext]_timeVars /\ TimeFairness
-----------------------------------------------------------------------------
(* Properties. *)

\* The gate of a conversion follows the clock across its wrap: with a clock hook
\* it is open exactly when the budget has passed, for every age a stamp can tell.
\* With a caller's clock it opens early by no more than that clock was late when
\* the conversion started, and a first timestamp that arrives with a conversion
\* in flight never opens it early.
GateKeepsTime ==
  conv.on =>
    /\ hook /\ time - conv.at < ClockModulo => (GateOpen <=> time - conv.at >= Budget)
    /\ HasTimeBase /\ GateOpen => time - conv.since >= Budget

\* A cached sample never looks younger than it is, to whoever asks at the right
\* time: neither when the driver's clock was late or had not started when it was
\* cached, nor across a wrap, until the stamp is as old as the clock is long.
SampleNotRejuvenated ==
  sample.on /\ time - sample.since < ClockModulo =>
    Elapsed(Clock, sample.stamp) >= time - sample.at

\* A blocking read says TIMEOUT only when the caller's time has passed, and at most
\* one pass later, wherever the clock wrapped in between; and it blames the clock
\* only when that stood still for StallLimit observations in a row.
TimeoutIsDue ==
  [][/\ loop.step = "TEST" /\ loop'.step = "TIMEOUT" =>
          time - loop.at \in CallerTimeout .. CallerTimeout + PassLimit - 1
     /\ loop.step # "STALLED" /\ loop'.step = "STALLED" =>
          loop'.moved >= StallLimit]_timeVars

\* A blocking read ends, also if the clock stops and no conversion ever does.
BlockingEnds == InCall ~> ~InCall
=============================================================================
