---------------------------- MODULE TimeBase_proofs ----------------------------
(***************************************************************************)
(* The unsigned differences of the driver's stamps stand for ages: theorems*)
(* for any clock width, budget, timeouts and bound on time.                *)
(***************************************************************************)
EXTENDS TimeBase, TLAPS

-----------------------------------------------------------------------------
(* Arithmetic of a clock that wraps. *)

\* A multiple of m that is less than m away from zero is zero.
LEMMA MultipleNearZero ==
  ASSUME NEW m \in Nat \ {0}, NEW k \in Int, m * k < m, -m < m * k
  PROVE  k = 0
<1>1. CASE k >= 1
  <2> DEFINE j == k - 1
  <2>1. j \in Nat /\ k = j + 1
    BY <1>1
  <2> HIDE DEF j
  <2>2. m * (j + 1) = m * j + m /\ m * j >= 0
    BY <2>1
  <2> QED BY <2>1, <2>2
<1>2. CASE k <= -1
  <2> DEFINE j == -1 - k
  <2>1. j \in Nat /\ k = -(j + 1)
    BY <1>2
  <2> HIDE DEF j
  <2>2. m * (j + 1) = m * j + m /\ m * j >= 0 /\ m * (-(j + 1)) = -(m * (j + 1))
    BY <2>1
  <2> QED BY <2>1, <2>2
<1> QED BY <1>1, <1>2

\* Names for quotient and remainder, for the provers to match.
Quot(x, m) == x \div m
Rem(x, m) == x % m

LEMMA Division ==
  ASSUME NEW m \in Nat \ {0}, NEW x \in Int
  PROVE  /\ Quot(x, m) \in Int /\ Rem(x, m) \in 0 .. m - 1
         /\ x = m * Quot(x, m) + Rem(x, m)
<1>1. x \div m \in Int /\ x % m \in 0 .. m - 1
  OBVIOUS
<1>2. m * (x \div m) + (x % m) = x
  BY SMTT(60)
<1> QED BY <1>1, <1>2 DEF Quot, Rem

\* The remainder is the only number below m that differs by a multiple of m.
LEMMA RemainderUnique ==
  ASSUME NEW m \in Nat \ {0}, NEW x \in Int, NEW k \in Int, NEW d \in 0 .. m - 1,
         x = d + m * k
  PROVE  Rem(x, m) = d
<1> DEFINE q == Quot(x, m)
           r == Rem(x, m)
           j == q - k
<1>1. x = m * q + r /\ r \in 0 .. m - 1 /\ q \in Int
  BY Division
<1> HIDE DEF q, r
<1>2. j \in Int /\ m * j = m * q - m * k
  BY <1>1
<1>3. m * q \in Int /\ m * k \in Int
  BY <1>1
<1> HIDE DEF j
<1>4. m * j = d - r
  BY <1>1, <1>2, <1>3
<1>5. m * j < m /\ -m < m * j
  BY <1>1, <1>4
<1>6. j = 0
  BY <1>2, <1>5, MultipleNearZero
<1> QED BY <1>1, <1>4, <1>6 DEF r

\* The difference of two stamps is the time between them, modulo the clock.
LEMMA StampDifference ==
  ASSUME NEW m \in Nat \ {0}, NEW b \in Nat, NEW a \in Nat
  PROVE  Rem(Rem(a, m) - Rem(b, m), m) = Rem(a - b, m)
<1> DEFINE p == Quot(a, m)
           q == Quot(b, m)
           n == Quot(a - b, m)
           r == Rem(a, m)
           s == Rem(b, m)
           d == Rem(a - b, m)
           k == n - (p - q)
<1>1. a = m * p + r /\ p \in Int /\ r \in 0 .. m - 1
  BY Division
<1>2. b = m * q + s /\ q \in Int /\ s \in 0 .. m - 1
  BY Division
<1>3. a - b = m * n + d /\ n \in Int /\ d \in 0 .. m - 1
  BY Division
<1> HIDE DEF p, q, n, r, s, d
<1>4. k \in Int /\ m * k = m * n - (m * p - m * q)
  BY <1>1, <1>2, <1>3
<1>5. m * p \in Int /\ m * q \in Int /\ m * n \in Int
  BY <1>1, <1>2, <1>3
<1> HIDE DEF k
<1>6. r - s = d + m * k /\ r - s \in Int
  BY <1>1, <1>2, <1>3, <1>4, <1>5
<1>7. Rem(r - s, m) = d
  BY <1>3, <1>4, <1>6, RemainderUnique
<1> QED BY <1>7 DEF d, r, s

\* ... which is that time itself while it is less than the clock is long, and never
\* more than it.
LEMMA ElapsedIsTime ==
  ASSUME NEW b \in Nat, NEW a \in Nat, b <= a
  PROVE  /\ Elapsed(a % ClockModulo, b % ClockModulo) \in Nat
         /\ Elapsed(a % ClockModulo, b % ClockModulo) <= a - b
         /\ a - b < ClockModulo => Elapsed(a % ClockModulo, b % ClockModulo) = a - b
<1>1. ClockModulo \in Nat \ {0} /\ a - b \in Nat
  BY TimeAssumption
<1> DEFINE d == Rem(a - b, ClockModulo)
           q == Quot(a - b, ClockModulo)
<1>2. Elapsed(a % ClockModulo, b % ClockModulo) = d
  BY <1>1, StampDifference DEF Elapsed, Rem
<1>3. d \in Nat /\ q \in Int /\ a - b = ClockModulo * q + d
  BY <1>1, Division
<1>4. q \in Nat
  BY <1>1 DEF Quot
<1>5. ASSUME a - b < ClockModulo PROVE d = a - b
  BY <1>1, <1>5 DEF Rem
<1> HIDE DEF d, q
<1>6. ClockModulo * q \in Nat
  BY <1>1, <1>4
<1>7. d <= a - b
  BY <1>1, <1>3, <1>6
<1> QED BY <1>2, <1>3, <1>5, <1>7

\* Two times less than the clock's length apart have different stamps.
LEMMA StampsTell ==
  ASSUME NEW b \in Nat, NEW a \in Nat, b <= a, a - b < ClockModulo,
         a % ClockModulo = b % ClockModulo
  PROVE  a = b
<1>1. ClockModulo \in Nat \ {0}
  BY TimeAssumption
<1>2. a % ClockModulo \in Nat /\ (a % ClockModulo) - (b % ClockModulo) = 0
  BY <1>1
<1>3. Elapsed(a % ClockModulo, b % ClockModulo) = 0
  BY <1>1, <1>2 DEF Elapsed
<1> QED BY <1>3, ElapsedIsTime

LEMMA StampOf ==
  ASSUME NEW t \in Nat
  PROVE  t % ClockModulo \in Stamps
  BY TimeAssumption DEF Stamps

-----------------------------------------------------------------------------
(* Types. *)

LEMMA NowTypes ==
  ASSUME TimeTypeOK
  PROVE  Clock \in Stamps /\ NowMs \in Stamps /\ NowAt \in Times /\ 0 \in Stamps /\ 0 \in Times
  BY StampOf, TimeAssumption DEF TimeTypeOK, Clock, NowMs, NowAt, Times, Stamps

LEMMA StartedType ==
  ASSUME TimeTypeOK, Started(conv')
  PROVE  conv' \in [on : BOOLEAN, ready : BOOLEAN, stamp : Stamps, at : Times, since : Times]
<1>1. time \in Times
  BY DEF TimeTypeOK
<1> QED BY <1>1, NowTypes DEF Started

LEMMA CachedType ==
  ASSUME TimeTypeOK, Cached(sample')
  PROVE  sample' \in [on : BOOLEAN, stamp : Stamps, at : Times, since : Times]
<1>1. time \in Times
  BY DEF TimeTypeOK
<1> QED BY <1>1, NowTypes DEF Cached

LEMMA NoConvType ==
  {NoConv, Latched} \subseteq
    [on : BOOLEAN, ready : BOOLEAN, stamp : Stamps, at : Times, since : Times]
<1>1. 0 \in Stamps /\ 0 \in Times
  BY TimeAssumption DEF Stamps, Times
<1>2. NoConv \in [on : BOOLEAN, ready : BOOLEAN, stamp : Stamps, at : Times, since : Times]
  BY <1>1 DEF NoConv
<1> QED BY <1>2 DEF Latched

LEMMA ObservedType ==
  ASSUME TimeTypeOK, Observe
  PROVE  /\ host' \in [ms : Stamps, valid : BOOLEAN, at : Times]
         /\ sample' = sample
         /\ Observed \in [on : BOOLEAN, ready : BOOLEAN, stamp : Stamps, at : Times,
                          since : Times]
<1>1. Clock \in Stamps /\ time \in Times
  BY NowTypes DEF TimeTypeOK
<1>2. host' \in [ms : Stamps, valid : BOOLEAN, at : Times] /\ sample' = sample
  BY <1>1 DEF TimeTypeOK, Observe, SampleKept
<1>3. [conv EXCEPT !.stamp = Clock, !.since = time]
         \in [on : BOOLEAN, ready : BOOLEAN, stamp : Stamps, at : Times, since : Times]
  BY <1>1 DEF TimeTypeOK
<1> QED BY <1>2, <1>3 DEF Observed, Rebased, TimeTypeOK

LEMMA TimeTypeStep ==
  ASSUME TimeTypeOK, [TimeNext]_timeVars
  PROVE  TimeTypeOK'
<1> DEFINE ConvType == [on : BOOLEAN, ready : BOOLEAN, stamp : Stamps, at : Times, since : Times]
           LoopType == [step : CallSteps, start : Stamps, last : Stamps,
                        stalled : 0 .. StallLimit, at : Times, pass : 0 .. PassLimit,
                        moved : 0 .. StallLimit]
<1>1. /\ StallLimit \in Nat \ {0} /\ PassLimit \in Nat \ {0}
      /\ NowMs \in Stamps /\ 0 \in Stamps /\ 0 \in Times
  BY TimeAssumption, NowTypes
<1>2. /\ hook \in BOOLEAN /\ time \in Times
      /\ host \in [ms : Stamps, valid : BOOLEAN, at : Times]
      /\ conv \in ConvType /\ loop \in LoopType
      /\ sample \in [on : BOOLEAN, stamp : Stamps, at : Times, since : Times]
  BY DEF TimeTypeOK
<1>3. NoConv \in ConvType /\ Latched \in ConvType
  BY NoConvType
<1> HIDE DEF ConvType
<1>4. CASE Tick
  <2>1. host' \in [ms : Stamps, valid : BOOLEAN, at : Times] /\ sample' = sample
        /\ Observed \in ConvType
    BY <1>4, ObservedType DEF Tick, ConvType
  <2>2. conv' \in {NoConv, Latched, Observed}
    BY <1>4 DEF Tick
  <2>3. conv' \in ConvType
    BY <1>3, <2>1, <2>2
  <2> QED BY <1>2, <1>4, <2>1, <2>3 DEF Tick, TimeTypeOK, ConvType
<1>5. CASE Poll
  BY <1>2, <1>5, ObservedType DEF Poll, TimeTypeOK
<1>6. CASE StartConversion
  <2>1. conv' \in ConvType
    BY <1>2, <1>3, <1>6, StartedType DEF StartConversion, ConvType
  <2> QED BY <1>2, <1>6, <2>1 DEF StartConversion, TimeTypeOK, ConvType
<1>7. CASE Probe
  <2>1. conv' \in ConvType
    BY <1>3, <1>7 DEF Probe
  <2> QED BY <1>2, <1>7, <2>1 DEF Probe, TimeTypeOK, ConvType
<1>8. CASE ReadSample \/ ReadLatestSample
  BY <1>2, <1>3, <1>8, CachedType DEF ReadSample, ReadLatestSample, TimeTypeOK, ConvType
<1>9. CASE BeginCall
  <2>1. conv' \in ConvType
    BY <1>2, <1>9, StartedType DEF BeginCall, ConvType
  <2>2. loop' = [step |-> "TEST", start |-> NowMs, last |-> NowMs, stalled |-> 0,
                 at |-> time, pass |-> 0, moved |-> 0]
    BY <1>9 DEF BeginCall, NoCall
  <2>3. 0 \in 0 .. StallLimit /\ 0 \in 0 .. PassLimit
    BY <1>1
  <2>4. loop' \in LoopType
    BY <1>1, <1>2, <2>2, <2>3 DEF CallSteps
  <2> QED BY <1>2, <1>9, <2>1, <2>4 DEF BeginCall, TimeTypeOK, ConvType
<1>10. CASE TestTimeout
  <2>1. PICK step \in CallSteps : loop' = [loop EXCEPT !.pass = 0, !.step = step]
    BY <1>10 DEF TestTimeout, CallSteps
  <2>2. 0 \in 0 .. PassLimit
    BY <1>1
  <2>3. loop' \in LoopType
    BY <1>2, <2>1, <2>2
  <2> QED BY <1>2, <1>10, <2>3 DEF TestTimeout, TimeTypeOK, ConvType
<1>11. CASE ObserveClock
  <2> DEFINE n == Stalled(NowMs)
             c == IF n > StallLimit THEN StallLimit ELSE n
  <2>1. n \in Nat /\ c \in 0 .. StallLimit
    BY <1>1, <1>2 DEF Stalled
  <2>2. AddCapped(loop.moved, StallLimit) \in 0 .. StallLimit
    BY <1>1, <1>2 DEF AddCapped
  <2>3. loop' = [loop EXCEPT
          !.last = NowMs, !.stalled = c, !.moved = AddCapped(loop.moved, StallLimit),
          !.step = IF GivesUp(n) THEN "STALLED" ELSE "READ"]
    BY <1>2, <1>11 DEF ObserveClock
  <2> HIDE DEF n, c
  <2>4. loop' \in LoopType
    BY <1>1, <1>2, <2>1, <2>2, <2>3 DEF CallSteps
  <2> QED BY <1>2, <1>11, <2>4 DEF ObserveClock, TimeTypeOK, ConvType
<1>12. CASE ReadOnce
  <2>1. loop' \in LoopType
    BY <1>2, <1>12 DEF ReadOnce, CallSteps
  <2>2. conv' \in ConvType
    BY <1>2, <1>3, <1>12 DEF ReadOnce
  <2>3. sample' \in [on : BOOLEAN, stamp : Stamps, at : Times, since : Times]
    BY <1>2, <1>12, CachedType DEF ReadOnce
  <2> QED BY <1>2, <1>12, <2>1, <2>2, <2>3 DEF ReadOnce, TimeTypeOK, ConvType
<1>13. CASE TimePasses
  <2>1. time' \in Times
    BY <1>2, <1>13, TimeAssumption DEF TimePasses, Times
  <2>2. CASE InCall
    <3>1. loop.pass + 1 \in 0 .. PassLimit
      BY <1>1, <1>2, <1>13, <2>2 DEF TimePasses
    <3>2. loop' = [loop EXCEPT !.pass = loop.pass + 1, !.moved = 0]
      BY <1>2, <1>13, <2>2 DEF TimePasses
    <3>3. 0 \in 0 .. StallLimit
      BY <1>1
    <3>4. loop' \in LoopType
      BY <1>2, <3>1, <3>2, <3>3
    <3> QED BY <1>2, <1>13, <2>1, <3>4 DEF TimePasses, TimeTypeOK, ConvType
  <2>3. CASE ~InCall
    BY <1>2, <1>13, <2>1, <2>3 DEF TimePasses, TimeTypeOK, ConvType
  <2> QED BY <2>2, <2>3
<1>14. CASE UNCHANGED timeVars
  BY <1>2, <1>14 DEF timeVars, TimeTypeOK, ConvType
<1> QED
  BY <1>4, <1>5, <1>6, <1>7, <1>8, <1>9, <1>10, <1>11, <1>12, <1>13, <1>14
     DEF TimeNext, BlockingLoop

LEMMA TimeTypeInit == TimeInit => TimeTypeOK
  BY TimeAssumption
     DEF TimeInit, TimeTypeOK, NoConv, NoSample, NoCall, Stamps, Times, CallSteps

\* Stamps stay in the clock's range, counts within their limits.
THEOREM TimeSpecTypeOK == TimeSpec => []TimeTypeOK
  BY TimeTypeInit, TimeTypeStep, PTL DEF TimeSpec

-----------------------------------------------------------------------------
(* What the stamps are stamps of. *)

\* The caller's clock shows the time at which it was last fed.
HostInv == host.at <= time /\ host.ms = host.at % ClockModulo

\* A conversion's stamp is that of its start, with a clock hook, and once there is
\* a time base it is that of a time the clock has already shown.
ConvInv ==
  conv.on =>
    /\ conv.at <= time /\ conv.since <= time
    /\ hook => conv.stamp = conv.at % ClockModulo
    /\ HasTimeBase => conv.stamp = conv.since % ClockModulo /\ conv.since <= NowAt

\* A sample's stamp is that of a time no later than the sample.
SampleInv ==
  sample.on =>
    /\ sample.stamp = sample.since % ClockModulo
    /\ sample.since <= sample.at /\ sample.at <= time

\* The call last saw the clock at time t, and it cannot have counted more stalls
\* than observations since, unless the clock has moved.
SeenAt(t) ==
  loop.last = t % ClockModulo /\ (t = time => loop.stalled <= loop.moved)

\* A call in progress is never older than its timeout and one pass.
LoopInv ==
  InCall =>
    /\ hook
    /\ loop.at <= time /\ loop.start = loop.at % ClockModulo
    /\ time - loop.at <= CallerTimeout - 1 + loop.pass
    /\ \E t \in loop.at .. time : SeenAt(t)

TimeInv == TimeTypeOK /\ HostInv /\ ConvInv /\ SampleInv /\ LoopInv

LEMMA HostStep ==
  ASSUME TimeTypeOK, HostInv, [TimeNext]_timeVars
  PROVE  HostInv'
<1>1. time \in Nat /\ host.at \in Nat
  BY DEF TimeTypeOK, Times
<1>2. CASE Observe /\ time' = time
  BY <1>1, <1>2 DEF HostInv, Observe, Clock
<1>3. CASE host' = host /\ time' \in {time, time + 1}
  BY <1>1, <1>3 DEF HostInv
<1> QED
  BY <1>2, <1>3 DEF TimeNext, BlockingLoop, Tick, Poll, StartConversion, Probe,
     ReadSample, ReadLatestSample, BeginCall, TestTimeout, ObserveClock, ReadOnce,
     TimePasses, timeVars

\* The driver's clock shows the time it is of.
LEMMA NowIsOf ==
  ASSUME TimeTypeOK, HostInv
  PROVE  NowMs = NowAt % ClockModulo /\ NowAt \in Nat /\ NowAt <= time
  BY DEF TimeTypeOK, Times, HostInv, NowMs, NowAt, Clock

LEMMA StartedInv ==
  ASSUME TimeTypeOK, HostInv, Started(conv'), UNCHANGED <<hook, time, host>>
  PROVE  ConvInv'
<1>1. time \in Nat /\ NowAt \in Nat /\ NowAt <= time /\ NowMs = NowAt % ClockModulo
  BY NowIsOf DEF TimeTypeOK, Times
<1>2. conv' = [on |-> TRUE, ready |-> FALSE, stamp |-> NowMs, at |-> time,
               since |-> IF HasTimeBase THEN NowAt ELSE time]
  BY DEF Started
<1>3. hook => NowAt = time
  BY DEF NowAt
<1>4. NowAt' = NowAt /\ HasTimeBase' = HasTimeBase
  BY DEF NowAt, HasTimeBase
<1> QED BY <1>1, <1>2, <1>3, <1>4 DEF ConvInv

LEMMA ObservedInv ==
  ASSUME TimeTypeOK, HostInv, ConvInv, Observe, UNCHANGED <<hook, time>>, Observed.on
  PROVE  /\ Observed.at <= time /\ Observed.since <= time
         /\ hook => Observed.stamp = Observed.at % ClockModulo
         /\ Observed.stamp = Observed.since % ClockModulo /\ Observed.since <= NowAt'
<1>1. time \in Nat /\ host.at \in Nat /\ host.at <= time /\ conv.at \in Nat
      /\ conv.since \in Nat
  BY DEF TimeTypeOK, Times, HostInv
<1>2. NowAt' = time
  BY DEF NowAt, Observe
<1>3. CASE First /\ conv.on
  <2>1. Observed = [conv EXCEPT !.stamp = Clock, !.since = time]
    BY <1>3 DEF Observed, Rebased
  <2>2. Observed.at = conv.at /\ Observed.stamp = Clock /\ Observed.since = time
    BY <2>1 DEF TimeTypeOK
  <2> QED BY <1>1, <1>2, <1>3, <2>2 DEF ConvInv, First, Clock
<1>4. CASE First /\ ~conv.on
  BY <1>4 DEF Observed, Rebased
<1>5. CASE ~First
  <2>1. Observed = conv /\ HasTimeBase
    BY <1>5 DEF Observed, First, HasTimeBase, TimeTypeOK
  <2> QED BY <1>1, <1>2, <2>1 DEF ConvInv
<1> QED BY <1>3, <1>4, <1>5

LEMMA ConvStep ==
  ASSUME TimeTypeOK, HostInv, ConvInv, [TimeNext]_timeVars
  PROVE  ConvInv'
<1>1. time \in Nat /\ host.at \in Nat /\ conv.at \in Nat /\ conv.since \in Nat
  BY DEF TimeTypeOK, Times
<1>2. ASSUME conv'.on => /\ conv.on /\ conv'.at = conv.at /\ conv'.stamp = conv.stamp
                        /\ conv'.since = conv.since,
             time' \in {time, time + 1}, UNCHANGED <<hook, host>>
      PROVE  ConvInv'
  BY <1>1, <1>2 DEF ConvInv, HasTimeBase, NowAt
<1>3. ASSUME Observe, UNCHANGED <<hook, time>>,
             conv'.on => /\ Observed.on /\ conv'.at = Observed.at
                        /\ conv'.stamp = Observed.stamp /\ conv'.since = Observed.since
      PROVE  ConvInv'
  BY <1>1, <1>3, ObservedInv DEF ConvInv
<1>4. ~NoConv.on /\ ~Latched.on
  BY DEF NoConv, Latched
<1>5. CASE Tick
  <2>1. conv' \in {NoConv, Latched, Observed}
    BY <1>5 DEF Tick
  <2>2. Observe /\ UNCHANGED <<hook, time>>
    BY <1>5 DEF Tick
  <2> QED BY <1>3, <1>4, <2>1, <2>2
<1>6. CASE Poll
  BY <1>3, <1>6 DEF Poll
<1>7. CASE StartConversion
  BY <1>2, <1>4, <1>7, StartedInv DEF StartConversion
<1>8. CASE Probe
  BY <1>2, <1>4, <1>8 DEF Probe
<1>9. CASE BeginCall
  BY <1>2, <1>9, StartedInv DEF BeginCall
<1>10. CASE ReadSample \/ ReadLatestSample \/ ReadOnce
  BY <1>2, <1>4, <1>10 DEF ReadSample, ReadLatestSample, ReadOnce
<1>11. CASE TestTimeout \/ ObserveClock \/ TimePasses \/ UNCHANGED timeVars
  BY <1>2, <1>11 DEF TestTimeout, ObserveClock, TimePasses, timeVars
<1> QED
  BY <1>5, <1>6, <1>7, <1>8, <1>9, <1>10, <1>11 DEF TimeNext, BlockingLoop

LEMMA SampleStep ==
  ASSUME TimeTypeOK, HostInv, SampleInv, [TimeNext]_timeVars
  PROVE  SampleInv'
<1>1. time \in Nat /\ sample.at \in Nat
  BY DEF TimeTypeOK, Times
<1>2. CASE sample' = sample /\ time' \in {time, time + 1}
  BY <1>1, <1>2 DEF SampleInv
<1>3. CASE Cached(sample') /\ time' = time
  <2>1. sample' = [on |-> TRUE, stamp |-> NowMs, at |-> time, since |-> NowAt]
    BY <1>3 DEF Cached
  <2> QED BY <1>1, <1>3, <2>1, NowIsOf DEF SampleInv
<1>4. CASE Observe /\ time' = time
  BY <1>2, <1>4, ObservedType
<1> QED
  BY <1>2, <1>3, <1>4 DEF TimeNext, BlockingLoop, Tick, Poll, StartConversion, Probe,
     ReadSample, ReadLatestSample, BeginCall, TestTimeout, ObserveClock, ReadOnce,
     TimePasses, timeVars

-----------------------------------------------------------------------------
(* The blocking read. *)

\* The timeout test is exact: the call is always younger than the clock is long.
LEMMA CallAge ==
  ASSUME TimeTypeOK, LoopInv, InCall
  PROVE  /\ time - loop.at \in Nat /\ time - loop.at < ClockModulo
         /\ Past(NowMs, loop.start, CallerTimeout) <=> time - loop.at >= CallerTimeout
<1>1. time \in Nat /\ loop.at \in Nat /\ loop.pass \in 0 .. PassLimit
  BY DEF TimeTypeOK, Times
<1>2. hook /\ loop.at <= time /\ loop.start = loop.at % ClockModulo
      /\ time - loop.at <= CallerTimeout - 1 + loop.pass
  BY DEF LoopInv
<1>3. /\ CallerTimeout \in Nat /\ PassLimit \in Nat /\ ClockModulo \in Nat
      /\ CallerTimeout + PassLimit < ClockModulo
  BY TimeAssumption
<1>4. time - loop.at \in Nat /\ time - loop.at < ClockModulo
  BY <1>1, <1>2, <1>3
<1>5. NowMs = time % ClockModulo
  BY <1>2 DEF NowMs, Clock
<1>6. Elapsed(time % ClockModulo, loop.at % ClockModulo) = time - loop.at
  BY <1>1, <1>2, <1>4, ElapsedIsTime
<1> QED BY <1>2, <1>4, <1>5, <1>6 DEF Past

\* A clock that shows what it last showed has not moved since.
LEMMA StallsCounted ==
  ASSUME TimeTypeOK, LoopInv, InCall, NowMs = loop.last
  PROVE  loop.stalled <= loop.moved
<1>1. PICK t \in loop.at .. time : SeenAt(t)
  BY DEF LoopInv
<1>2. time \in Nat /\ loop.at \in Nat
  BY DEF TimeTypeOK, Times
<1>3. t \in Nat /\ loop.at <= t /\ t <= time
  BY <1>1, <1>2
<1>4. ClockModulo \in Nat /\ time - t < ClockModulo
  BY <1>2, <1>3, CallAge, TimeAssumption
<1>5. time % ClockModulo = t % ClockModulo
  BY <1>1 DEF LoopInv, NowMs, Clock, SeenAt
<1>6. time = t
  BY <1>2, <1>3, <1>4, <1>5, StampsTell
<1> QED BY <1>1, <1>6 DEF SeenAt

LEMMA LoopStep ==
  ASSUME TimeTypeOK, LoopInv, [TimeNext]_timeVars
  PROVE  LoopInv'
<1>1. /\ time \in Nat /\ loop.at \in Nat /\ loop.pass \in 0 .. PassLimit
      /\ loop.stalled \in 0 .. StallLimit /\ loop.moved \in 0 .. StallLimit
  BY DEF TimeTypeOK, Times
<1>2. /\ CallerTimeout \in Nat \ {0} /\ PassLimit \in Nat \ {0} /\ StallLimit \in Nat \ {0}
  BY TimeAssumption
<1>3. CASE UNCHANGED <<hook, time>> /\ loop' = loop
  BY <1>3 DEF LoopInv, InCall, SeenAt
<1>4. CASE BeginCall
  <2>1. loop' = [step |-> "TEST", start |-> Clock, last |-> Clock, stalled |-> 0,
                 at |-> time, pass |-> 0, moved |-> 0] /\ hook' /\ time' = time
    BY <1>4 DEF BeginCall, NoCall, NowMs
  <2>2. /\ loop'.at = time /\ loop'.start = time % ClockModulo /\ loop'.pass = 0
        /\ loop'.last = time % ClockModulo /\ loop'.stalled = 0 /\ loop'.moved = 0
    BY <2>1 DEF Clock
  <2>3. time \in loop'.at .. time' /\ SeenAt(time)'
    BY <1>1, <2>1, <2>2 DEF SeenAt
  <2> QED BY <1>1, <1>2, <2>1, <2>2, <2>3 DEF LoopInv
<1>5. CASE TestTimeout
  <2>1. InCall
    BY <1>5 DEF TestTimeout, InCall
  <2>2. PICK step \in {"TIMEOUT", "OBSERVE"} :
          /\ loop' = [loop EXCEPT !.pass = 0, !.step = step]
          /\ step = "OBSERVE" => ~Past(NowMs, loop.start, CallerTimeout)
    BY <1>5 DEF TestTimeout
  <2>3. /\ loop'.pass = 0 /\ loop'.step = step /\ loop'.at = loop.at
        /\ loop'.start = loop.start /\ loop'.last = loop.last
        /\ loop'.stalled = loop.stalled /\ loop'.moved = loop.moved
    BY <2>2 DEF TimeTypeOK
  <2>4. UNCHANGED <<hook, time>>
    BY <1>5 DEF TestTimeout
  <2>5. ASSUME InCall' PROVE time - loop.at <= CallerTimeout - 1
    <3>1. step = "OBSERVE"
      BY <2>2, <2>3, <2>5 DEF InCall
    <3> QED BY <1>1, <1>2, <2>1, <2>2, <3>1, CallAge
  <2>6. \A t \in loop.at .. time : SeenAt(t) => SeenAt(t)'
    BY <2>3, <2>4 DEF SeenAt
  <2> QED BY <1>1, <1>2, <2>1, <2>3, <2>4, <2>5, <2>6 DEF LoopInv
<1>6. CASE ObserveClock
  <2>1. InCall
    BY <1>6 DEF ObserveClock, InCall
  <2> DEFINE n == Stalled(NowMs)
             m == AddCapped(loop.moved, StallLimit)
             c == IF n > StallLimit THEN StallLimit ELSE n
  <2>2. PICK step \in CallSteps :
          loop' = [loop EXCEPT !.last = NowMs, !.stalled = c, !.moved = m, !.step = step]
    BY <1>6 DEF ObserveClock, CallSteps
  <2>3. c <= m
    <3>1. CASE NowMs = loop.last
      BY <1>1, <1>2, <2>1, <3>1, StallsCounted DEF Stalled, AddCapped
    <3>2. CASE NowMs # loop.last
      BY <1>1, <1>2, <3>2 DEF Stalled, AddCapped
    <3> QED BY <3>1, <3>2
  <2> HIDE DEF n, m, c
  <2>4. /\ loop'.last = NowMs /\ loop'.stalled = c /\ loop'.moved = m /\ loop'.at = loop.at
        /\ loop'.start = loop.start /\ loop'.pass = loop.pass
    BY <2>2 DEF TimeTypeOK
  <2>5. UNCHANGED <<hook, time>>
    BY <1>6 DEF ObserveClock
  <2>6. hook /\ loop.at <= time /\ NowMs = time % ClockModulo
    BY <2>1 DEF LoopInv, NowMs, Clock
  <2>7. SeenAt(time)' /\ time \in loop.at .. time
    BY <1>1, <2>3, <2>4, <2>5, <2>6 DEF SeenAt
  <2> QED BY <2>1, <2>4, <2>5, <2>7 DEF LoopInv
<1>7. CASE ReadOnce
  <2>1. InCall /\ UNCHANGED <<hook, time>>
    BY <1>7 DEF ReadOnce, InCall
  <2>2. PICK step \in {"ANSWERED", "TEST"} : loop' = [loop EXCEPT !.step = step]
    BY <1>7 DEF ReadOnce
  <2>3. /\ loop'.pass = loop.pass /\ loop'.at = loop.at
        /\ loop'.start = loop.start /\ loop'.last = loop.last
        /\ loop'.stalled = loop.stalled /\ loop'.moved = loop.moved
    BY <2>2 DEF TimeTypeOK
  <2>4. \A t \in loop.at .. time : SeenAt(t) => SeenAt(t)'
    BY <2>1, <2>3 DEF SeenAt
  <2> QED BY <2>1, <2>3, <2>4 DEF LoopInv
<1>8. CASE TimePasses /\ InCall
  <2>1. hook' = hook /\ time' = time + 1
        /\ loop' = [loop EXCEPT !.pass = loop.pass + 1, !.moved = 0]
    BY <1>8 DEF TimePasses
  <2>2. /\ loop'.pass = loop.pass + 1 /\ loop'.at = loop.at
        /\ loop'.start = loop.start /\ loop'.last = loop.last
    BY <2>1 DEF TimeTypeOK
  <2>3. PICK t \in loop.at .. time : SeenAt(t)
    BY <1>8 DEF LoopInv
  <2>4. t \in loop'.at .. time' /\ t # time' /\ SeenAt(t)'
    BY <1>1, <2>1, <2>2, <2>3 DEF SeenAt
  <2>5. /\ hook' /\ loop'.at <= time' /\ loop'.start = loop'.at % ClockModulo
        /\ time' - loop'.at <= CallerTimeout - 1 + loop'.pass
    BY <1>1, <1>2, <1>8, <2>1, <2>2 DEF LoopInv
  <2> QED BY <2>4, <2>5 DEF LoopInv
<1>9. CASE TimePasses /\ ~InCall
  BY <1>9 DEF TimePasses, LoopInv, InCall
<1> QED
  BY <1>3, <1>4, <1>5, <1>6, <1>7, <1>8, <1>9 DEF TimeNext, BlockingLoop, Tick, Poll,
     StartConversion, Probe, ReadSample, ReadLatestSample, timeVars

-----------------------------------------------------------------------------
(* The theorems. *)

LEMMA TimeInvInit == TimeInit => TimeInv
<1>1. 0 % ClockModulo = 0
  BY TimeAssumption
<1> QED BY <1>1, TimeTypeInit
  DEF TimeInit, TimeInv, HostInv, ConvInv, SampleInv, LoopInv, InCall, NoConv, NoSample, NoCall

LEMMA TimeInvStep == TimeInv /\ [TimeNext]_timeVars => TimeInv'
  BY TimeTypeStep, HostStep, ConvStep, SampleStep, LoopStep DEF TimeInv

LEMMA TimeSpecInv == TimeSpec => []TimeInv
  BY TimeInvInit, TimeInvStep, PTL DEF TimeSpec

LEMMA GateFromInv ==
  ASSUME TimeInv
  PROVE  GateKeepsTime
<1> SUFFICES ASSUME conv.on
             PROVE  /\ hook /\ time - conv.at < ClockModulo
                         => (GateOpen <=> time - conv.at >= Budget)
                    /\ HasTimeBase /\ GateOpen => time - conv.since >= Budget
  BY DEF GateKeepsTime
<1>1. time \in Nat /\ conv.at \in Nat /\ conv.since \in Nat
  BY DEF TimeInv, TimeTypeOK, Times
<1>2. NowMs = NowAt % ClockModulo /\ NowAt \in Nat /\ NowAt <= time
  BY NowIsOf DEF TimeInv
<1>3. conv.at <= time /\ Budget \in Nat
  BY TimeAssumption DEF TimeInv, ConvInv
<1>4. ASSUME hook, time - conv.at < ClockModulo
      PROVE  GateOpen <=> time - conv.at >= Budget
  <2>1. NowMs = time % ClockModulo /\ conv.stamp = conv.at % ClockModulo /\ HasTimeBase
    BY <1>4 DEF NowMs, Clock, TimeInv, ConvInv, HasTimeBase
  <2>2. Elapsed(time % ClockModulo, conv.at % ClockModulo) = time - conv.at
    BY <1>1, <1>3, <1>4, ElapsedIsTime
  <2> QED BY <2>1, <2>2 DEF GateOpen, Past
<1>5. ASSUME HasTimeBase, GateOpen
      PROVE  time - conv.since >= Budget
  <2>1. conv.stamp = conv.since % ClockModulo /\ conv.since <= NowAt
    BY <1>5 DEF TimeInv, ConvInv
  <2> DEFINE e == Elapsed(NowAt % ClockModulo, conv.since % ClockModulo)
  <2>2. e \in Nat /\ e <= NowAt - conv.since
    BY <1>1, <1>2, <2>1, ElapsedIsTime
  <2>3. e >= Budget
    BY <1>2, <1>5, <2>1 DEF GateOpen, Past
  <2> HIDE DEF e
  <2> QED BY <1>1, <1>2, <1>3, <2>2, <2>3
<1> QED BY <1>4, <1>5

\* A conversion's gate opens with its budget and never before, for every width of
\* the clock and wherever it wraps.
THEOREM SpecGateKeepsTime == TimeSpec => []GateKeepsTime
  BY TimeSpecInv, GateFromInv, PTL

LEMMA SampleFromInv ==
  ASSUME TimeInv
  PROVE  SampleNotRejuvenated
<1> SUFFICES ASSUME sample.on, time - sample.since < ClockModulo
             PROVE  Elapsed(Clock, sample.stamp) >= time - sample.at
  BY DEF SampleNotRejuvenated
<1>1. time \in Nat /\ sample.at \in Nat /\ sample.since \in Nat
  BY DEF TimeInv, TimeTypeOK, Times
<1>2. /\ sample.stamp = sample.since % ClockModulo
      /\ sample.since <= sample.at /\ sample.at <= time
  BY DEF TimeInv, SampleInv
<1>3. Elapsed(time % ClockModulo, sample.since % ClockModulo) = time - sample.since
  BY <1>1, <1>2, ElapsedIsTime
<1> QED BY <1>1, <1>2, <1>3 DEF Clock

\* A cached sample never looks younger than it is, whatever clock it was stamped by.
THEOREM SpecSampleNotRejuvenated == TimeSpec => []SampleNotRejuvenated
  BY TimeSpecInv, SampleFromInv, PTL

LEMMA TimeoutStep ==
  ASSUME TimeInv, [TimeNext]_timeVars
  PROVE  /\ loop.step = "TEST" /\ loop'.step = "TIMEOUT" =>
              time - loop.at \in CallerTimeout .. CallerTimeout + PassLimit - 1
         /\ loop.step # "STALLED" /\ loop'.step = "STALLED" => loop'.moved >= StallLimit
<1>1. TimeTypeOK /\ LoopInv
  BY DEF TimeInv
<1>2. /\ time \in Nat /\ loop.at \in Nat /\ loop.pass \in 0 .. PassLimit
      /\ loop.stalled \in 0 .. StallLimit /\ loop.moved \in 0 .. StallLimit
  BY <1>1 DEF TimeTypeOK, Times
<1>3. /\ CallerTimeout \in Nat \ {0} /\ PassLimit \in Nat \ {0} /\ StallLimit \in Nat \ {0}
  BY TimeAssumption
<1>4. CASE TestTimeout
  <2>1. InCall
    BY <1>4 DEF TestTimeout, InCall
  <2>2. loop'.step = IF Past(NowMs, loop.start, CallerTimeout) THEN "TIMEOUT" ELSE "OBSERVE"
    BY <1>1, <1>4 DEF TestTimeout, TimeTypeOK
  <2>3. time - loop.at <= CallerTimeout - 1 + loop.pass
    BY <1>1, <2>1 DEF LoopInv
  <2>4. time - loop.at \in Nat
        /\ (Past(NowMs, loop.start, CallerTimeout) <=> time - loop.at >= CallerTimeout)
    BY <1>1, <2>1, CallAge
  <2>5. loop'.step = "TIMEOUT" => time - loop.at >= CallerTimeout
    BY <2>2, <2>4
  <2> QED BY <1>2, <1>3, <2>2, <2>3, <2>5
<1>5. CASE ObserveClock
  <2>1. InCall
    BY <1>5 DEF ObserveClock, InCall
  <2> DEFINE n == Stalled(NowMs)
             m == AddCapped(loop.moved, StallLimit)
             c == IF n > StallLimit THEN StallLimit ELSE n
             step == IF GivesUp(n) THEN "STALLED" ELSE "READ"
  <2>2. loop' = [loop EXCEPT !.last = NowMs, !.stalled = c, !.moved = m, !.step = step]
    BY <1>5 DEF ObserveClock
  <2>3. GivesUp(n) => m >= StallLimit
    <3>1. CASE NowMs = loop.last
      BY <1>1, <1>2, <1>3, <2>1, <3>1, StallsCounted DEF Stalled, AddCapped, GivesUp
    <3>2. CASE NowMs # loop.last
      BY <1>3, <3>2 DEF Stalled, GivesUp
    <3> QED BY <3>1, <3>2
  <2> HIDE DEF n, m, c
  <2>4. loop'.moved = m /\ loop'.step = step
    BY <1>1, <2>2 DEF TimeTypeOK
  <2> QED BY <1>5, <2>3, <2>4 DEF ObserveClock
<1>6. CASE BeginCall
  <2>1. loop'.step = "TEST"
    BY <1>6 DEF BeginCall, NoCall
  <2> QED BY <2>1
<1>7. CASE ReadOnce
  <2>1. loop'.step \in {"ANSWERED", "TEST"} /\ loop.step = "READ"
    BY <1>1, <1>7 DEF ReadOnce, TimeTypeOK
  <2> QED BY <2>1
<1>8. CASE TimePasses
  <2>1. loop'.step = loop.step
    BY <1>1, <1>8 DEF TimePasses, TimeTypeOK
  <2> QED BY <2>1
<1> QED
  BY <1>4, <1>5, <1>6, <1>7, <1>8 DEF TimeNext, BlockingLoop, Tick, Poll,
     StartConversion, Probe, ReadSample, ReadLatestSample, timeVars

\* A blocking read times out within one pass of the caller's timeout and never early,
\* and blames the clock only for StallLimit observations of one time.
THEOREM SpecTimeoutIsDue == TimeSpec => TimeoutIsDue
<1>1. TimeInv /\ [TimeNext]_timeVars =>
        [/\ loop.step = "TEST" /\ loop'.step = "TIMEOUT" =>
              time - loop.at \in CallerTimeout .. CallerTimeout + PassLimit - 1
         /\ loop.step # "STALLED" /\ loop'.step = "STALLED" =>
              loop'.moved >= StallLimit]_timeVars
  BY TimeoutStep
<1> QED BY <1>1, TimeSpecInv, PTL DEF TimeSpec, TimeoutIsDue
-----------------------------------------------------------------------------
(***************************************************************************)
(* What keeps a blocking read from going round for ever, without fairness. *)
(* Its time runs out; until the clock moves on its patience does, and an   *)
(* observation that finds the clock moved restores less patience than the  *)
(* passing of time gave.  So every step in a call, of the loop or of the   *)
(* clock, brings its end nearer.                                           *)
(***************************************************************************)
TimeLeft == CallerTimeout + PassLimit - 1 - (time - loop.at)
Patience == IF NowMs # loop.last THEN StallLimit + 1 ELSE StallLimit - loop.stalled
StepsOfPass == CASE loop.step = "READ" -> 2 [] loop.step = "TEST" -> 1 [] OTHER -> 0

Weighed(t, p, s) == 3 * (t + p) + s
StepsLeft == Weighed(TimeLeft * (StallLimit + 2), Patience, StepsOfPass)

MostSteps == 3 * ((CallerTimeout + PassLimit - 1) * (StallLimit + 2) + StallLimit + 1) + 2

CallRuns == InCall => ~InCall' \/ StepsLeft' < StepsLeft

LEMMA Product ==
  ASSUME NEW a \in Nat, NEW b \in Nat, NEW w \in Nat, a <= b
  PROVE  a * w \in Nat /\ a * w <= b * w
<1>1. a * w \in Nat /\ b * w \in Nat /\ (b - a) * w >= 0
  <2> DEFINE d == b - a
  <2>1. d \in Nat
    OBVIOUS
  <2> HIDE DEF d
  <2>2. d * w >= 0 /\ a * w \in Nat /\ b * w \in Nat
    BY <2>1
  <2> QED BY <2>2 DEF d
<1>2. (b - a) * w = b * w - a * w
  OBVIOUS
<1> QED BY <1>1, <1>2

\* A later step of the pass, or less patience, or less time.
LEMMA Lower ==
  ASSUME NEW t \in Nat, NEW p \in Nat, NEW q \in Nat, NEW r \in 0 .. 2, NEW s \in 0 .. 2,
         NEW w \in Nat
  PROVE  /\ s < r => Weighed(t, p, s) < Weighed(t, p, r)
         /\ q < p => Weighed(t, q, s) < Weighed(t, p, r)
         /\ q < w => Weighed(t - w, q, r) < Weighed(t, p, r)
<1>1. s < r => 3 * (t + p) + s < 3 * (t + p) + r
  OBVIOUS
<1>2. q < p => 3 * (t + q) + s < 3 * (t + p) + r
  OBVIOUS
<1>3. q < w => 3 * ((t - w) + q) + r < 3 * (t + p) + r
  OBVIOUS
<1> QED BY <1>1, <1>2, <1>3 DEF Weighed

LEMMA CallMeasured ==
  ASSUME TimeTypeOK, LoopInv, InCall
  PROVE  /\ TimeLeft \in Nat /\ TimeLeft <= CallerTimeout + PassLimit - 1
         /\ Patience \in 0 .. StallLimit + 1 /\ StepsOfPass \in 0 .. 2
<1>1. /\ time \in Nat /\ loop.at \in Nat /\ loop.pass \in 0 .. PassLimit
      /\ loop.stalled \in 0 .. StallLimit
  BY DEF TimeTypeOK, Times
<1>2. loop.at <= time /\ time - loop.at <= CallerTimeout - 1 + loop.pass
  BY DEF LoopInv
<1>3. /\ CallerTimeout \in Nat \ {0} /\ PassLimit \in Nat \ {0} /\ StallLimit \in Nat \ {0}
  BY TimeAssumption
<1>4. TimeLeft \in Nat /\ TimeLeft <= CallerTimeout + PassLimit - 1
  BY <1>1, <1>2, <1>3 DEF TimeLeft
<1>5. Patience \in 0 .. StallLimit + 1
  BY <1>1, <1>3 DEF Patience
<1>6. StepsOfPass \in 0 .. 2
  BY DEF StepsOfPass
<1> QED BY <1>4, <1>5, <1>6

LEMMA CallBounded ==
  ASSUME TimeTypeOK, LoopInv, InCall
  PROVE  StepsLeft \in 0 .. MostSteps
<1> DEFINE w == StallLimit + 2
           most == CallerTimeout + PassLimit - 1
<1>1. w \in Nat /\ most \in Nat /\ StallLimit \in Nat
  BY TimeAssumption
<1>2. /\ TimeLeft \in Nat /\ TimeLeft <= most
      /\ Patience \in 0 .. StallLimit + 1 /\ StepsOfPass \in 0 .. 2
  BY CallMeasured
<1> HIDE DEF w, most
<1>3. TimeLeft * w \in Nat /\ TimeLeft * w <= most * w /\ most * w \in Nat
  BY <1>1, <1>2, Product
<1> DEFINE t == TimeLeft * w
           m == most * w
<1>4. StepsLeft = 3 * (t + Patience) + StepsOfPass
      /\ MostSteps = 3 * (m + StallLimit + 1) + 2
  BY DEF StepsLeft, Weighed, MostSteps, w, most
<1>5. t \in Nat /\ t <= m /\ m \in Nat
  BY <1>3
<1> HIDE DEF t, m
<1> QED BY <1>1, <1>2, <1>4, <1>5

LEMMA CallStep ==
  ASSUME TimeInv, TimeTypeOK', TimeNext, InCall, InCall'
  PROVE  StepsLeft' < StepsLeft
<1>1. TimeTypeOK /\ LoopInv
  BY DEF TimeInv
<1>2. /\ loop.stalled \in 0 .. StallLimit /\ loop'.stalled \in 0 .. StallLimit
      /\ StallLimit \in Nat \ {0} /\ time \in Nat /\ loop.at \in Nat
      /\ CallerTimeout \in Nat /\ PassLimit \in Nat
  BY <1>1, TimeAssumption DEF TimeTypeOK, Times
<1>3. /\ TimeLeft \in Nat /\ Patience \in Nat /\ Patience <= StallLimit + 1
      /\ StepsOfPass \in 0 .. 2
  BY <1>1, <1>2, CallMeasured
<1>4. hook /\ NowMs = Clock
  BY <1>1 DEF LoopInv, NowMs
<1> DEFINE t == TimeLeft * (StallLimit + 2)
<1>5. t \in Nat /\ StepsLeft = Weighed(t, Patience, StepsOfPass) /\ StallLimit + 2 \in Nat
  BY <1>2, <1>3, Product DEF StepsLeft
\* The clock stands: a later step of the pass, or less patience.
<1>6. CASE TestTimeout
  <2>1. loop' = [loop EXCEPT !.pass = 0, !.step = "OBSERVE"] /\ loop.step = "TEST"
        /\ UNCHANGED <<hook, time, host>>
    BY <1>1, <1>6 DEF TestTimeout, InCall, TimeTypeOK
  <2>2. /\ loop'.step = "OBSERVE" /\ loop'.at = loop.at /\ loop'.last = loop.last
        /\ loop'.stalled = loop.stalled
    BY <1>1, <2>1 DEF TimeTypeOK
  <2>3. TimeLeft' = TimeLeft /\ Patience' = Patience /\ StepsOfPass = 1 /\ StepsOfPass' = 0
    BY <2>1, <2>2 DEF TimeLeft, Patience, StepsOfPass, NowMs, Clock
  <2>4. StepsLeft' = Weighed(t, Patience, StepsOfPass')
    BY <2>3 DEF StepsLeft
  <2> HIDE DEF t
  <2> QED BY <1>3, <1>5, <2>3, <2>4, Lower
<1>7. CASE ReadOnce
  <2>1. loop' = [loop EXCEPT !.step = "TEST"] /\ loop.step = "READ"
        /\ UNCHANGED <<hook, time, host>>
    BY <1>1, <1>7 DEF ReadOnce, InCall, TimeTypeOK
  <2>2. /\ loop'.step = "TEST" /\ loop'.at = loop.at /\ loop'.last = loop.last
        /\ loop'.stalled = loop.stalled
    BY <1>1, <2>1 DEF TimeTypeOK
  <2>3. TimeLeft' = TimeLeft /\ Patience' = Patience /\ StepsOfPass = 2 /\ StepsOfPass' = 1
    BY <2>1, <2>2 DEF TimeLeft, Patience, StepsOfPass, NowMs, Clock
  <2>4. StepsLeft' = Weighed(t, Patience, StepsOfPass')
    BY <2>3 DEF StepsLeft
  <2> HIDE DEF t
  <2> QED BY <1>3, <1>5, <2>3, <2>4, Lower
<1>8. CASE ObserveClock
  <2> DEFINE n == Stalled(NowMs)
             step == IF GivesUp(n) THEN "STALLED" ELSE "READ"
  <2>1. /\ loop.step = "OBSERVE" /\ UNCHANGED <<hook, time, host>>
        /\ loop' = [loop EXCEPT
             !.last = NowMs, !.stalled = IF n > StallLimit THEN StallLimit ELSE n,
             !.moved = AddCapped(loop.moved, StallLimit), !.step = step]
    BY <1>8 DEF ObserveClock
  <2> HIDE DEF step
  <2>2. loop'.step = step /\ loop'.at = loop.at /\ loop'.last = NowMs
        /\ loop'.stalled = IF n > StallLimit THEN StallLimit ELSE n
    BY <1>1, <2>1 DEF TimeTypeOK
  <2>3. n < StallLimit /\ loop'.step = "READ"
    BY <1>2, <2>2 DEF step, GivesUp, InCall, Stalled
  <2>4. loop'.stalled = n /\ NowMs' = loop'.last
    BY <1>2, <2>1, <2>2, <2>3 DEF NowMs, Clock, Stalled
  <2>5. TimeLeft' = TimeLeft /\ Patience' = StallLimit - n
        /\ StepsOfPass = 0 /\ StepsOfPass' = 2
    BY <2>1, <2>2, <2>3, <2>4 DEF TimeLeft, Patience, StepsOfPass
  <2>6. n \in Nat /\ StallLimit - n < Patience
    BY <1>2, <2>3 DEF Patience, Stalled
  <2>7. StepsLeft' = Weighed(t, StallLimit - n, 2)
    BY <2>5 DEF StepsLeft
  <2>8. StallLimit - n \in Nat
    BY <1>2, <2>3, <2>6
  <2> HIDE DEF n, t
  <2> QED BY <1>3, <1>5, <2>5, <2>6, <2>7, <2>8, Lower
\* Time passes: the step may restore patience, but never as much as it costs.
<1>9. CASE TimePasses
  <2>1. time' = time + 1 /\ hook' = hook
        /\ loop' = [loop EXCEPT !.pass = loop.pass + 1, !.moved = 0]
    BY <1>9 DEF TimePasses
  <2>2. loop'.step = loop.step /\ loop'.at = loop.at
    BY <1>1, <2>1 DEF TimeTypeOK
  <2>3. TimeLeft' = TimeLeft - 1 /\ StepsOfPass' = StepsOfPass
    BY <1>2, <2>1, <2>2 DEF TimeLeft, StepsOfPass
  <2>4. Patience' \in Nat /\ Patience' < StallLimit + 2
    BY <1>2 DEF Patience
  <2>5. TimeLeft' * (StallLimit + 2) = t - (StallLimit + 2)
    <3>1. \A a, w \in Nat : (a - 1) * w = a * w - w
      OBVIOUS
    <3> QED BY <1>3, <1>5, <2>3, <3>1
  <2>6. StepsLeft' = Weighed(t - (StallLimit + 2), Patience', StepsOfPass)
    BY <2>3, <2>5 DEF StepsLeft
  <2> HIDE DEF t
  <2> QED BY <1>3, <1>5, <2>4, <2>6, Lower
<1> QED
  BY <1>6, <1>7, <1>8, <1>9 DEF TimeNext, BlockingLoop, Tick, Poll, StartConversion,
     Probe, ReadSample, ReadLatestSample, BeginCall

\* A blocking read is over after at most MostSteps steps, its own and the clock's: with
\* no fairness but that it takes them, and for a clock that may stop or wrap.
THEOREM BlockingReadRuns ==
  TimeSpec => [](InCall => StepsLeft \in 0 .. MostSteps) /\ [][CallRuns]_timeVars
<1>1. TimeInv => (InCall => StepsLeft \in 0 .. MostSteps)
  BY CallBounded DEF TimeInv
<1>2. TimeInv /\ TimeInv' /\ [TimeNext]_timeVars => [CallRuns]_timeVars
  BY CallStep DEF TimeInv, CallRuns
<1> QED BY <1>1, <1>2, TimeSpecInv, PTL DEF TimeSpec
=============================================================================
