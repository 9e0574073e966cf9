-------------------------- MODULE ConsoleView_proofs --------------------------
(***************************************************************************)
(* The driver implements the console's driver: every step of Freshness is  *)
(* a reply that CliDriver gives to some call, for any timeout, counter     *)
(* width, INT hint and corrupt frames.  Each action is matched with the    *)
(* call that makes it; the helpers of both modules are matched first, and  *)
(* drivers are compared field by field.                                    *)
(***************************************************************************)
EXTENDS ConsoleView, Freshness_proofs

-----------------------------------------------------------------------------
(* The drivers of CliDriver, field by field. *)

Statuses == {"OK", "FAILED"}

\* An initialized driver with the given fields, of mode, ownership, evidence, retry,
\* age, job and last status.
Has(x, m, s, e, r, a, j, l) ==
  /\ x \in Cli!Drivers
  /\ x.phase = "READY" /\ x.mode = m /\ (x.started <=> s) /\ (x.evidence <=> e)
  /\ (x.retry <=> r) /\ x.age = a /\ x.job = j /\ x.last = l

\* Records with the same fields are the same; so are drivers with the same fields,
\* the Boolean ones compared as truth values.
LEMMA SameRecord ==
  ASSUME NEW A, NEW B, NEW C, NEW D, NEW E, NEW F, NEW G, NEW H,
         NEW x \in [phase : A, mode : B, started : C, evidence : D, retry : E,
                    age : F, job : G, last : H],
         NEW y \in [phase : A, mode : B, started : C, evidence : D, retry : E,
                    age : F, job : G, last : H],
         x.phase = y.phase, x.mode = y.mode, x.started = y.started, x.evidence = y.evidence,
         x.retry = y.retry, x.age = y.age, x.job = y.job, x.last = y.last
  PROVE  x = y
  OBVIOUS

Alike(x, y) ==
  /\ x \in Cli!Drivers /\ y \in Cli!Drivers
  /\ x.phase = y.phase /\ x.mode = y.mode /\ (x.started <=> y.started)
  /\ (x.evidence <=> y.evidence) /\ (x.retry <=> y.retry)
  /\ x.age = y.age /\ x.job = y.job /\ x.last = y.last

LEMMA AlikeSame ==
  ASSUME NEW x, NEW y, Alike(x, y)
  PROVE  x = y
<1>1. x \in Cli!Drivers /\ y \in Cli!Drivers
  BY DEF Alike
<1>2. /\ x.started \in BOOLEAN /\ x.evidence \in BOOLEAN /\ x.retry \in BOOLEAN
      /\ y.started \in BOOLEAN /\ y.evidence \in BOOLEAN /\ y.retry \in BOOLEAN
  BY <1>1 DEF Cli!Drivers
<1>3. x.phase = y.phase /\ x.mode = y.mode /\ x.age = y.age /\ x.job = y.job /\ x.last = y.last
  BY DEF Alike
<1>4. x.started = y.started
  BY <1>2 DEF Alike
<1>5. x.evidence = y.evidence
  BY <1>2 DEF Alike
<1>6. x.retry = y.retry
  BY <1>2 DEF Alike
<1> QED BY <1>1, <1>3, <1>4, <1>5, <1>6, SameRecord DEF Cli!Drivers

\* A record of typed fields.
LEMMA RecordType ==
  ASSUME NEW A, NEW B, NEW C, NEW D, NEW E, NEW F, NEW G, NEW H,
         NEW a \in A, NEW b \in B, NEW c \in C, NEW d \in D, NEW e \in E, NEW f \in F,
         NEW g \in G, NEW h \in H
  PROVE  [phase |-> a, mode |-> b, started |-> c, evidence |-> d, retry |-> e, age |-> f,
          job |-> g, last |-> h]
         \in [phase : A, mode : B, started : C, evidence : D, retry : E, age : F, job : G,
              last : H]
  OBVIOUS

SeenAge(d) == IF d.started \/ d.mode = "CONTINUOUS" THEN d.convAge ELSE 0
SeenLast(j, st) == IF j.kind = "NONE" THEN st ELSE "IN_PROGRESS"

\* What the console sees of a driver, field by field.
LEMMA SeenHas ==
  ASSUME NEW d \in Drivers, NEW j \in Jobs, NEW st \in Statuses
  PROVE  /\ SeenJob(j) \in Cli!Jobs
         /\ Has(SeenDriver(d, j, st), d.mode, d.started /\ d.mode # "CONTINUOUS", d.evidence,
                d.retryAge < RetryInterval, SeenAge(d), SeenJob(j), SeenLast(j, st))
<1>1. ReadTimeout \in Nat
  BY TimingAssumption
<1>2. SeenJob(j) \in Cli!Jobs
  BY <1>1 DEF SeenJob, Jobs, Ages, Cli!Jobs, Cli!JobKinds, Cli!Larger, Cli!StableModes
<1>3. d.convAge \in 0 .. ReadTimeout /\ 0 \in 0 .. ReadTimeout
  BY <1>1 DEF Drivers, Ages
<1>4. d.mode \in Cli!StableModes
  BY DEF Drivers, StableModes, Cli!StableModes
<1>5. d.evidence \in BOOLEAN /\ (d.started /\ d.mode # "CONTINUOUS") \in BOOLEAN
      /\ (d.retryAge < RetryInterval) \in BOOLEAN
  BY DEF Drivers
<1>6. SeenAge(d) \in 0 .. ReadTimeout
  BY <1>3 DEF SeenAge
<1>7. SeenLast(j, st) \in {"OK", "IN_PROGRESS", "FAILED"}
  BY DEF SeenLast, Statuses
<1>8. "READY" \in {"UNBOUND", "BOUND", "READY"}
  OBVIOUS
<1>9. SeenDriver(d, j, st) \in Cli!Drivers
  BY <1>2, <1>4, <1>5, <1>6, <1>7, <1>8, RecordType, Zenon
     DEF SeenDriver, Cli!Drivers, SeenAge, SeenLast
<1> QED BY <1>2, <1>9 DEF SeenDriver, Has, SeenAge, SeenLast

LEMMA ZeroAge == 0 \in 0 .. ReadTimeout
  BY TimingAssumption

\* What CliDriver's helpers do to one.
LEMMA CliHelpers ==
  ASSUME NEW x, NEW m, NEW s, NEW e, NEW r, NEW a, NEW j, NEW l, Has(x, m, s, e, r, a, j, l)
  PROVE  /\ Has(Cli!Released(x), m, FALSE, e, r, IF m = "CONTINUOUS" THEN a ELSE 0, j, l)
         /\ \A f \in BOOLEAN : Has([x EXCEPT !.evidence = f], m, s, f, r, a, j, l)
         /\ \A f \in BOOLEAN : Has([x EXCEPT !.retry = f], m, s, e, f, a, j, l)
<1>1. Has(Cli!Released(x), m, FALSE, e, r, IF m = "CONTINUOUS" THEN a ELSE 0, j, l)
  BY ZeroAge DEF Has, Cli!Released, Cli!Drivers
<1>2. ASSUME NEW f \in BOOLEAN PROVE Has([x EXCEPT !.evidence = f], m, s, f, r, a, j, l)
  BY DEF Has, Cli!Drivers
<1>3. ASSUME NEW f \in BOOLEAN PROVE Has([x EXCEPT !.retry = f], m, s, e, f, a, j, l)
  BY DEF Has, Cli!Drivers
<1> QED BY <1>1, <1>2, <1>3

LEMMA CliCleared ==
  ASSUME NEW x, NEW m, NEW s, NEW e, NEW r, NEW a, NEW j, NEW l, Has(x, m, s, e, r, a, j, l),
         NEW b \in 0 .. ReadTimeout
  PROVE  Has(Cli!Cleared(x, b), m, FALSE, FALSE, FALSE, b, j, l)
  BY DEF Has, Cli!Cleared, Cli!Drivers

LEMMA CliConsumed ==
  ASSUME NEW x, NEW m, NEW s, NEW e, NEW r, NEW a, NEW j, NEW l, Has(x, m, s, e, r, a, j, l)
  PROVE  Has(Cli!Consumed(x), m, FALSE, FALSE, r, 0, j, l)
<1> DEFINE y == Cli!Released(x)
<1>1. Has(y, m, FALSE, e, r, IF m = "CONTINUOUS" THEN a ELSE 0, j, l)
  BY CliHelpers
<1> HIDE DEF y
<1>2. Has([y EXCEPT !.evidence = FALSE, !.age = 0], m, FALSE, FALSE, r, 0, j, l)
  BY <1>1, ZeroAge DEF Has, Cli!Drivers
<1> QED BY <1>2 DEF Cli!Consumed, y

LEMMA CliRestarted ==
  ASSUME NEW x, NEW m, NEW s, NEW e, NEW r, NEW a, NEW j, NEW l, Has(x, m, s, e, r, a, j, l),
         NEW n \in Cli!StableModes, NEW b \in BOOLEAN
  PROVE  /\ Has(Cli!Restarted(x, n, b), n, b, FALSE, FALSE, 0, j, l)
         /\ Has(Cli!Applied(x, n), n, FALSE, FALSE, FALSE, 0, j, l)
<1> DEFINE y == Cli!Cleared(x, 0)
<1>1. Has(y, m, FALSE, FALSE, FALSE, 0, j, l)
  BY CliCleared, ZeroAge
<1> HIDE DEF y
<1>2. Has([y EXCEPT !.mode = n, !.started = b], n, b, FALSE, FALSE, 0, j, l)
  BY <1>1 DEF Has, Cli!Drivers
<1>3. Has([y EXCEPT !.phase = "READY", !.mode = n], n, FALSE, FALSE, FALSE, 0, j, l)
  BY <1>1 DEF Has, Cli!Drivers
<1> QED BY <1>2, <1>3 DEF Cli!Restarted, Cli!Applied, y

LEMMA CliFinished ==
  ASSUME NEW x, NEW m, NEW s, NEW e, NEW r, NEW a, NEW j, NEW l, Has(x, m, s, e, r, a, j, l),
         NEW st
  PROVE  Has(Cli!Finished(x, st), m, s, e, FALSE, a, Cli!IdleJob,
             IF st = "OK" THEN "OK" ELSE "FAILED")
<1>1. Cli!IdleJob \in Cli!Jobs
  BY TimingAssumption DEF Cli!IdleJob, Cli!Jobs, Cli!JobKinds, Cli!StableModes, Cli!Larger
<1> DEFINE i == Cli!IdleJob
           k == IF st = "OK" THEN "OK" ELSE "FAILED"
<1>2. k \in {"OK", "IN_PROGRESS", "FAILED"}
  OBVIOUS
<1> HIDE DEF i, k
<1>3. Has([x EXCEPT !.job = i, !.last = k, !.retry = FALSE], m, s, e, FALSE, a, i, k)
  BY <1>1, <1>2 DEF Has, Cli!Drivers, i
<1> QED BY <1>3 DEF i, k, Cli!Finished

-----------------------------------------------------------------------------
\* Evidence that is latched ends the ownership that the console sees.
LEMMA SeenLatched ==
  ASSUME NEW d \in Drivers, NEW j \in Jobs, NEW st \in Statuses
  PROVE  SeenDriver(Latched(d), j, st)
           = [Cli!Released(SeenDriver(d, j, st)) EXCEPT !.evidence = TRUE]
<1> DEFINE x == SeenDriver(Latched(d), j, st)
           y == [Cli!Released(SeenDriver(d, j, st)) EXCEPT !.evidence = TRUE]
<1>1. /\ Latched(d) \in Drivers /\ Latched(d).mode = d.mode /\ Latched(d).evidence
      /\ Latched(d).started <=> d.started /\ d.mode = "CONTINUOUS"
      /\ Latched(d).convAge = d.convAge /\ Latched(d).retryAge = d.retryAge
  BY DEF Latched, Drivers
<1>2. Has(x, d.mode, FALSE, TRUE, d.retryAge < RetryInterval,
          IF d.mode = "CONTINUOUS" THEN d.convAge ELSE 0, SeenJob(j), SeenLast(j, st))
  BY <1>1, SeenHas DEF Has, SeenAge
<1>3. Has(y, d.mode, FALSE, TRUE, d.retryAge < RetryInterval,
          IF d.mode = "CONTINUOUS" THEN SeenAge(d) ELSE 0, SeenJob(j), SeenLast(j, st))
  BY SeenHas, CliHelpers
<1> HIDE DEF x, y
<1>4. x = y
  <2>1. Alike(x, y)
    BY <1>2, <1>3 DEF Has, Alike, SeenAge
  <2> QED BY <2>1, AlikeSame
<1> QED BY <1>4 DEF x, y

(* The same of the devices. *)

\* A device that runs as r, with a conversion unread or not.
Looks(x, r, u) == x \in Cli!Devices /\ x.running = r /\ (x.unread <=> u)

\* Devices that look the same are the same.
LEMMA LooksSame ==
  ASSUME NEW x, NEW y, NEW r, NEW u, NEW w, Looks(x, r, u), Looks(y, r, w), u <=> w
  PROVE  x = y
<1>1. x \in Cli!Devices /\ y \in Cli!Devices /\ x.running = y.running /\ (x.unread <=> y.unread)
  BY DEF Looks
<1>2. x.unread \in BOOLEAN /\ y.unread \in BOOLEAN
  BY <1>1 DEF Cli!Devices
<1> QED BY <1>1, <1>2 DEF Cli!Devices

Unread(d, v, n) == IF d.baseline THEN n % CounterModulo # 0 ELSE v.flag \/ d.evidence

\* What the console sees of a device.
LEMMA SeenLooks ==
  ASSUME NEW d \in Drivers, NEW v \in Devices, NEW n
  PROVE  Looks(SeenDevice(d, v, n), v.running, Unread(d, v, n))
<1>1. Unread(d, v, n) \in BOOLEAN
  BY DEF Unread, Drivers, Devices
<1> DEFINE u == Unread(d, v, n)
<1> HIDE DEF u
<1>2. SeenDevice(d, v, n) = [running |-> v.running, unread |-> u]
  BY DEF SeenDevice, Unread, u
<1>3. u \in BOOLEAN
  BY <1>1 DEF u
<1>4. Looks([running |-> v.running, unread |-> u], v.running, u)
  BY <1>3 DEF Looks, Cli!Devices, Devices
<1> QED BY <1>2, <1>4 DEF u

\* What CliDriver's helpers do to one.
LEMMA CliDevice ==
  ASSUME NEW x, NEW r, NEW u, Looks(x, r, u)
  PROVE  /\ \A f \in BOOLEAN : Looks([x EXCEPT !.unread = f], r, f)
         /\ \A w \in {"IDLE", "ONE_SHOT", "CONTINUOUS"} : Looks([x EXCEPT !.running = w], w, u)
         /\ \A m \in Cli!StableModes :
              Looks(Cli!Running(x, m), IF m = "CONTINUOUS" THEN m ELSE "IDLE", u)
         /\ Looks(Cli!Ended(x), IF r = "ONE_SHOT" THEN "IDLE" ELSE r, TRUE)
<1>1. ASSUME NEW f \in BOOLEAN PROVE Looks([x EXCEPT !.unread = f], r, f)
  BY DEF Looks, Cli!Devices
<1>2. ASSUME NEW w \in {"IDLE", "ONE_SHOT", "CONTINUOUS"}
      PROVE  Looks([x EXCEPT !.running = w], w, u)
  BY DEF Looks, Cli!Devices
<1>3. ASSUME NEW m \in Cli!StableModes
      PROVE  Looks(Cli!Running(x, m), IF m = "CONTINUOUS" THEN m ELSE "IDLE", u)
  <2> DEFINE w == IF m = "CONTINUOUS" THEN m ELSE "IDLE"
  <2>1. w \in {"IDLE", "ONE_SHOT", "CONTINUOUS"}
    OBVIOUS
  <2> HIDE DEF w
  <2>2. Looks([x EXCEPT !.running = w], w, u)
    BY <1>2, <2>1
  <2> QED BY <2>2 DEF w, Cli!Running
<1>4. Looks(Cli!Ended(x), IF r = "ONE_SHOT" THEN "IDLE" ELSE r, TRUE)
  BY DEF Looks, Cli!Ended, Cli!Devices
<1> QED BY <1>1, <1>2, <1>3, <1>4

-----------------------------------------------------------------------------
(* What the helpers of Freshness do, seen by the console. *)

\* Giving up the ownership; arming and disarming the retry; dropping the evidence;
\* handing out a sample; starting over.
LEMMA SeenAbandoned ==
  ASSUME NEW d \in Drivers, NEW j \in Jobs, NEW st \in Statuses
  PROVE  SeenDriver(Abandoned(d), j, st) = Cli!Released(SeenDriver(d, j, st))
<1> DEFINE x == SeenDriver(Abandoned(d), j, st)
           y == Cli!Released(SeenDriver(d, j, st))
<1>1. /\ Abandoned(d) \in Drivers /\ Abandoned(d).mode = d.mode
      /\ Abandoned(d).evidence = d.evidence
      /\ Abandoned(d).started <=> d.started /\ d.mode = "CONTINUOUS"
      /\ Abandoned(d).convAge = d.convAge /\ Abandoned(d).retryAge = d.retryAge
  BY DEF Abandoned, Drivers
<1>2. Has(x, d.mode, FALSE, d.evidence, d.retryAge < RetryInterval,
          IF d.mode = "CONTINUOUS" THEN d.convAge ELSE 0, SeenJob(j), SeenLast(j, st))
  BY <1>1, SeenHas DEF Has, SeenAge
<1>3. Has(y, d.mode, FALSE, d.evidence, d.retryAge < RetryInterval,
          IF d.mode = "CONTINUOUS" THEN SeenAge(d) ELSE 0, SeenJob(j), SeenLast(j, st))
  BY SeenHas, CliHelpers
<1> HIDE DEF x, y
<1>4. Alike(x, y)
  BY <1>2, <1>3 DEF Has, Alike, SeenAge
<1>5. x = y
  BY <1>4, AlikeSame
<1> QED BY <1>5 DEF x, y

LEMMA SeenRetries ==
  ASSUME NEW d \in Drivers, NEW j \in Jobs, NEW st \in Statuses, RetryInterval = 1
  PROVE  /\ SeenDriver(RetryArmed(d), j, st) = [SeenDriver(d, j, st) EXCEPT !.retry = TRUE]
         /\ SeenDriver(Finished(d), j, st) = [SeenDriver(d, j, st) EXCEPT !.retry = FALSE]
<1> DEFINE x == SeenDriver(RetryArmed(d), j, st)
           y == [SeenDriver(d, j, st) EXCEPT !.retry = TRUE]
           z == SeenDriver(Finished(d), j, st)
           u == [SeenDriver(d, j, st) EXCEPT !.retry = FALSE]
<1>1. /\ RetryArmed(d) \in Drivers /\ RetryArmed(d).mode = d.mode
      /\ RetryArmed(d).evidence = d.evidence /\ RetryArmed(d).started = d.started
      /\ RetryArmed(d).convAge = d.convAge /\ RetryArmed(d).retryAge < RetryInterval
  BY DEF RetryArmed, Drivers
<1>2. /\ Finished(d) \in Drivers /\ Finished(d).mode = d.mode
      /\ Finished(d).evidence = d.evidence /\ Finished(d).started = d.started
      /\ Finished(d).convAge = d.convAge /\ ~(Finished(d).retryAge < RetryInterval)
  BY DEF Finished, Drivers
<1>3. /\ Has(x, d.mode, d.started /\ d.mode # "CONTINUOUS", d.evidence, TRUE, SeenAge(d),
             SeenJob(j), SeenLast(j, st))
      /\ Has(z, d.mode, d.started /\ d.mode # "CONTINUOUS", d.evidence, FALSE, SeenAge(d),
             SeenJob(j), SeenLast(j, st))
  BY <1>1, <1>2, SeenHas DEF Has, SeenAge
<1>4. /\ Has(y, d.mode, d.started /\ d.mode # "CONTINUOUS", d.evidence, TRUE, SeenAge(d),
             SeenJob(j), SeenLast(j, st))
      /\ Has(u, d.mode, d.started /\ d.mode # "CONTINUOUS", d.evidence, FALSE, SeenAge(d),
             SeenJob(j), SeenLast(j, st))
  BY SeenHas, CliHelpers
<1> HIDE DEF x, y, z, u
<1>5. Alike(x, y) /\ Alike(z, u)
  BY <1>3, <1>4 DEF Has, Alike
<1>6. x = y /\ z = u
  BY <1>5, AlikeSame
<1> QED BY <1>6 DEF x, y, z, u

LEMMA SeenNoEvidence ==
  ASSUME NEW d \in Drivers, NEW j \in Jobs, NEW st \in Statuses
  PROVE  SeenDriver(NoEvidence(d), j, st) = [SeenDriver(d, j, st) EXCEPT !.evidence = FALSE]
<1> DEFINE x == SeenDriver(NoEvidence(d), j, st)
           y == [SeenDriver(d, j, st) EXCEPT !.evidence = FALSE]
<1>1. /\ NoEvidence(d) \in Drivers /\ NoEvidence(d).mode = d.mode
      /\ ~NoEvidence(d).evidence /\ NoEvidence(d).started = d.started
      /\ NoEvidence(d).convAge = d.convAge /\ NoEvidence(d).retryAge = d.retryAge
  BY DEF NoEvidence, Drivers
<1>2. Has(x, d.mode, d.started /\ d.mode # "CONTINUOUS", FALSE, d.retryAge < RetryInterval,
          SeenAge(d), SeenJob(j), SeenLast(j, st))
  BY <1>1, SeenHas DEF Has, SeenAge
<1>3. Has(y, d.mode, d.started /\ d.mode # "CONTINUOUS", FALSE, d.retryAge < RetryInterval,
          SeenAge(d), SeenJob(j), SeenLast(j, st))
  BY SeenHas, CliHelpers
<1> HIDE DEF x, y
<1>4. Alike(x, y)
  BY <1>2, <1>3 DEF Has, Alike
<1>5. x = y
  BY <1>4, AlikeSame
<1> QED BY <1>5 DEF x, y

LEMMA SeenConsumed ==
  ASSUME NEW d \in Drivers, NEW j \in Jobs, NEW st \in Statuses, NEW trusted \in BOOLEAN
  PROVE  SeenDriver(Consumed(d, trusted), j, st) = Cli!Consumed(SeenDriver(d, j, st))
<1> DEFINE x == SeenDriver(Consumed(d, trusted), j, st)
           y == Cli!Consumed(SeenDriver(d, j, st))
           c == Consumed(d, trusted)
<1>1. /\ c \in Drivers /\ c.mode = d.mode /\ ~c.evidence
      /\ c.started <=> d.mode = "CONTINUOUS"
      /\ c.convAge = 0 /\ c.retryAge = d.retryAge
  BY RetryAges DEF Consumed, Drivers
<1> HIDE DEF c
<1>2. Has(SeenDriver(c, j, st), d.mode, FALSE, FALSE, d.retryAge < RetryInterval,
          0, SeenJob(j), SeenLast(j, st))
  BY <1>1, SeenHas DEF Has, SeenAge
<1>3. Has(y, d.mode, FALSE, FALSE, d.retryAge < RetryInterval,
          0, SeenJob(j), SeenLast(j, st))
  BY SeenHas, CliConsumed
<1> HIDE DEF x, y
<1>4. Alike(SeenDriver(c, j, st), y)
  BY <1>2, <1>3 DEF Has, Alike
<1>5. SeenDriver(c, j, st) = y
  BY <1>4, AlikeSame
<1> QED BY <1>5 DEF c, y

LEMMA SeenRestarted ==
  ASSUME NEW d \in Drivers, NEW j \in Jobs, NEW st \in Statuses, RetryInterval = 1,
         NEW m \in StableModes, NEW b \in BOOLEAN, NEW c \in BOOLEAN,
         c <=> b /\ m # "CONTINUOUS"
  PROVE  SeenDriver(Restarted(d, m, b), j, st) = Cli!Restarted(SeenDriver(d, j, st), m, c)
<1> DEFINE x == Restarted(d, m, b)
           y == Cli!Restarted(SeenDriver(d, j, st), m, c)
<1>1. /\ x \in Drivers /\ x.mode = m /\ ~x.evidence /\ (x.started <=> b)
      /\ x.convAge = 0 /\ ~(x.retryAge < RetryInterval)
  <2>1. x \in Drivers /\ x.convAge = 0 /\ x.retryAge = RetryInterval
    BY RetryAges DEF Restarted, Drivers
  <2>2. x.mode = m /\ ~x.evidence /\ (x.started <=> b)
    BY DEF Restarted, Drivers
  <2>3. ~(RetryInterval < RetryInterval)
    OBVIOUS
  <2> QED BY <2>1, <2>2, <2>3
<1> HIDE DEF x
<1>2. Has(SeenDriver(x, j, st), m, c, FALSE, FALSE, 0, SeenJob(j), SeenLast(j, st))
  BY <1>1, SeenHas DEF Has, SeenAge
<1>3. m \in Cli!StableModes
  BY DEF StableModes, Cli!StableModes
<1>4. Has(y, m, c, FALSE, FALSE, 0, SeenJob(j), SeenLast(j, st))
  BY <1>3, SeenHas, CliRestarted
<1> HIDE DEF y
<1>5. Alike(SeenDriver(x, j, st), y)
  BY <1>2, <1>4 DEF Has, Alike
<1>6. SeenDriver(x, j, st) = y
  BY <1>5, AlikeSame
<1> QED BY <1>6 DEF x, y

-----------------------------------------------------------------------------
(* The console's view.  With its clock hook the driver is never late, and  *)
(* a poll that may transfer leaves no probe for the next one.              *)

\* The invariant: that of Freshness, a clock that is never late, and no probe left
\* undone between two polls.
ViewInv ==
  /\ FreshInv
  /\ timed /\ lag = 0 /\ last \in Statuses
  /\ job.step \in {"IDLE", "WAIT_READY", "READ_BURST_BLOCK"}

\* It holds in the beginning and after every step.
LEMMA ViewInitInv == ConsoleScale /\ ViewInit => ViewInv
<1> SUFFICES ASSUME ConsoleScale, ViewInit PROVE ViewInv
  OBVIOUS
<1>1. FreshInv
  BY FreshInit DEF ViewInit
<1> QED BY <1>1 DEF ViewInit, Init, ViewInv, IdleJob, ConsoleScale, Statuses

LEMMA ViewStepInv == ConsoleScale /\ ViewInv /\ [ViewNext]_viewVars => ViewInv'
<1> SUFFICES ASSUME ConsoleScale, ViewInv, [ViewNext]_viewVars PROVE ViewInv'
  OBVIOUS
<1>1. FreshInv'
  BY FreshStep DEF ViewInv, ViewNext, viewVars
<1>2. timed' /\ lag' = 0 /\ job'.step \in {"IDLE", "WAIT_READY", "READ_BURST_BLOCK"}
  <2>1. job \in Jobs
    BY DEF ViewInv, FreshInv, TypeOK
  <2>2. CASE UNCHANGED <<timed, lag, job>>
    BY <2>2 DEF ViewInv
  <2>3. CASE Tick \/ TimePasses
    <3>1. \E n : job' = AgedJob(job, n) \/ job' = job
      BY <2>3 DEF Tick, TimePasses
    <3>2. job'.step = job.step
      BY <2>1, <3>1 DEF AgedJob, Jobs
    <3> QED BY <2>3, <3>2 DEF Tick, TimePasses, ObserveHost, ViewInv, ConsoleScale
  <2>4. CASE StartRead \/ CancelPollJob
    <3>1. timed' /\ lag' = 0
      BY <2>4 DEF StartRead, CancelPollJob, clock, ViewInv
    <3>2. job' \in {Started("READ_SAMPLE"), Started("READ_BURST"), IdleJob}
      BY <2>4 DEF StartRead, CancelPollJob
    <3>3. /\ IdleJob.step = "IDLE"
          /\ Started("READ_SAMPLE").step = "WAIT_READY"
          /\ Started("READ_BURST").step = "WAIT_READY"
      BY DEF Started, IdleJob
    <3> QED BY <3>1, <3>2, <3>3
  <2>5. CASE Poll
    <3>1. timed' /\ lag' = 0
      BY <2>5 DEF Poll, PollTimesOut, PollWaits, PollReadsFlags, PollReadsCounter,
         PollReadsBlock, PollFails, Polling, ObserveHost
    <3>2. CASE PollWaits
      <4>1. CASE ViewNext
        BY <3>1, <3>2, <4>1 DEF ViewNext, PollMayTransfer
      <4>2. CASE UNCHANGED viewVars
        BY <3>1, <4>2 DEF viewVars, vars, ViewInv
      <4> QED BY <4>1, <4>2
    <3>3. CASE PollReadsFlags \/ PollReadsCounter
      <4>1. PICK b \in BOOLEAN :
              job' = [PolledJob EXCEPT !.step = IF b THEN "READ_BURST_BLOCK" ELSE "WAIT_READY"]
        BY <3>3 DEF PollReadsFlags, PollReadsCounter, Found, CounterFresh
      <4>2. PolledJob \in Jobs
        BY PolledJobType DEF ViewInv
      <4> QED BY <3>1, <4>1, <4>2 DEF Jobs
    <3>4. CASE PollTimesOut \/ PollReadsBlock \/ PollFails
      BY <3>1, <3>4 DEF PollTimesOut, PollReadsBlock, PollFails, IdleJob
    <3> QED BY <2>5, <3>2, <3>3, <3>4 DEF Poll
  <2> QED BY <2>2, <2>3, <2>4, <2>5 DEF ViewNext, viewVars, vars, Next, Conversions,
        StartConversion, StartConversionFails, WriteConfiguration, Applications, ApplyConfig,
        Applied, ResetAndReapply, RecoverFails, Reads, ConversionReady, ReadFresh, ReadFlags,
        ClearFlags, Jobbing, Environment, ConversionEnds, clock
<1>3. last' \in Statuses
  <2>1. CASE ViewNext
    BY <2>1 DEF ViewNext, Remembers, ViewInv, Statuses
  <2>2. CASE UNCHANGED viewVars
    BY <2>2 DEF viewVars, ViewInv
  <2> QED BY <2>1, <2>2
<1> QED BY <1>1, <1>2, <1>3 DEF ViewInv

-----------------------------------------------------------------------------
(* Readiness. *)

\* Gate, retry and activity are the console's.
LEMMA CliGate ==
  ASSUME ConsoleScale, NEW d \in Drivers, NEW j \in Jobs, NEW st \in Statuses, NEW kind
  PROVE  LET s == SeenDriver(d, j, st)
         IN  /\ GateElapsed(d, kind, TRUE) <=> Cli!GateOpen(s)
             /\ RetryElapsed(d, TRUE) <=> ~s.retry
             /\ Cli!Converting(s) <=> d.started \/ d.mode = "CONTINUOUS"
             /\ s.evidence = d.evidence /\ s.phase = "READY" /\ s.mode = d.mode
             /\ s.job = SeenJob(j)
             /\ Cli!JobActive(s) <=> j.kind # "NONE"
<1> DEFINE s == SeenDriver(d, j, st)
<1>1. /\ s.phase = "READY" /\ s.mode = d.mode /\ (s.started <=> d.started /\ d.mode # "CONTINUOUS")
      /\ s.evidence = d.evidence /\ (s.retry <=> d.retryAge < RetryInterval)
      /\ s.age = SeenAge(d) /\ s.job = SeenJob(j)
  BY DEF SeenDriver, SeenAge
<1>2. d.convAge \in Nat /\ d.retryAge \in 0 .. 1 /\ RetryInterval = 1
  BY Times DEF Drivers, Ages, ConsoleScale
<1> HIDE DEF s
<1>3. Cli!Converting(s) <=> d.started \/ d.mode = "CONTINUOUS"
  BY <1>1 DEF Cli!Converting
<1>4. RetryElapsed(d, TRUE) <=> ~s.retry
  BY <1>1, <1>2 DEF RetryElapsed
<1>5. GateElapsed(d, kind, TRUE) <=> Cli!GateOpen(s)
  BY <1>1, <1>2, <1>3 DEF GateElapsed, ContinuousGate, Cli!GateOpen, ConsoleScale, SeenAge
<1>6. Cli!JobActive(s) <=> j.kind # "NONE"
  BY <1>1 DEF Cli!JobActive, SeenJob
<1> QED BY <1>1, <1>3, <1>4, <1>5, <1>6 DEF s

\* A probe finds what the console's probe finds.
LEMMA SeenProbe ==
  ASSUME ConsoleScale, NEW d \in Drivers, NEW j \in Jobs, NEW st \in Statuses,
         NEW v \in Devices, NEW n, NEW found \in BOOLEAN, NEW f \in BOOLEAN,
         ~d.evidence,
         \/ d.baseline /\ (found <=> n % CounterModulo # 0)
         \/ ~d.baseline /\ (found <=> v.flag) /\ f = FALSE
  PROVE  /\ Cli!Reply(SeenDriver(Probed(d, found), j, st),
                      SeenDevice(Probed(d, found), [v EXCEPT !.flag = f], n), "OK")
               \in Cli!Probed(SeenDriver(d, j, st), SeenDevice(d, v, n))
         /\ Probed(d, found).evidence <=> found
         /\ Probed(d, found) \in Drivers
<1> DEFINE s == SeenDriver(d, j, st)
           u == SeenDevice(d, v, n)
           p == Probed(d, found)
           w == [v EXCEPT !.flag = f]
<1>1. /\ p \in Drivers /\ (p.evidence <=> found) /\ p.baseline = d.baseline
  BY RetryAges DEF Probed, Latched, RetryArmed, Drivers
<1>2. SeenDriver(p, j, st) = IF found THEN [Cli!Released(s) EXCEPT !.evidence = TRUE]
                             ELSE [s EXCEPT !.retry = TRUE]
  <2>1. CASE found
    BY <2>1, SeenLatched DEF Probed
  <2>2. CASE ~found
    BY <2>2, SeenRetries DEF Probed, ConsoleScale
  <2> QED BY <2>1, <2>2
<1>3. w \in Devices /\ w.running = v.running /\ w.flag = f
  BY DEF Devices
<1>4. Unread(p, w, n) <=> Unread(d, v, n)
  BY <1>1, <1>3 DEF Unread
<1>5. SeenDevice(p, w, n) = u
  <2> HIDE DEF p, w
  <2>1. Looks(SeenDevice(p, w, n), v.running, Unread(p, w, n))
    BY <1>1, <1>3, SeenLooks
  <2> QED BY <2>1, <1>4, SeenLooks, LooksSame
<1>6. u.unread <=> found
  <2>1. u.unread <=> Unread(d, v, n)
    BY SeenLooks DEF Looks
  <2> QED BY <2>1 DEF Unread
<1> HIDE DEF s, u, p, w
<1>7. Cli!Reply(SeenDriver(p, j, st), u, "OK") \in Cli!Probed(s, u)
  BY <1>2, <1>6 DEF Cli!Probed
<1> QED BY <1>1, <1>5, <1>7 DEF s, u, p, w

\* _refreshReadinessEvidence, while no job runs.
LEMMA SeenRefreshed ==
  ASSUME ConsoleScale, timed, device \in Devices, NEW d \in Drivers, NEW j \in Jobs,
         j.kind = "NONE", NEW st \in Statuses, NEW hint \in BOOLEAN
  PROVE  LET r == Refreshed(d, hint)
         IN  /\ Cli!Reply(SeenDriver(r.driver, j, st),
                          SeenDevice(r.driver, [device EXCEPT !.flag = r.flag], unseen), "OK")
                   \in Cli!Refreshed(SeenDriver(d, j, st), SeenDevice(d, device, unseen))
             /\ r.driver \in Drivers /\ r.flag \in BOOLEAN
<1> DEFINE s == SeenDriver(d, j, st)
           v == SeenDevice(d, device, unseen)
           probing == ~d.evidence /\ RetryElapsed(d, timed)
           gate    == GateElapsed(d, "NONE", timed)
           counter == probing /\ d.baseline /\ (gate \/ hint)
           flags   == probing /\ ~d.baseline /\ gate
           after   == CASE counter -> Probed(d, CounterFresh(d))
                        [] flags   -> Probed(d, device.flag)
                        [] OTHER   -> d
           flag    == device.flag /\ ~flags
           Done(x, f) ==
             /\ Cli!Reply(SeenDriver(x, j, st),
                          SeenDevice(x, [device EXCEPT !.flag = f], unseen), "OK")
                   \in Cli!Refreshed(s, v)
             /\ x \in Drivers /\ f \in BOOLEAN
<1>1. Refreshed(d, hint) = [driver |-> after, flag |-> flag]
  BY DEF Refreshed
<1>2. device.flag \in BOOLEAN /\ d.baseline \in BOOLEAN /\ d.evidence \in BOOLEAN
      /\ flag \in BOOLEAN
  BY DEF Devices, Drivers
<1>3. /\ gate <=> Cli!GateOpen(s)
      /\ RetryElapsed(d, timed) <=> ~s.retry
      /\ s.evidence = d.evidence
      /\ ~Cli!JobActive(s)
  BY CliGate DEF RetryElapsed, GateElapsed
<1>4. /\ counter => after = Probed(d, CounterFresh(d))
      /\ flags => after = Probed(d, device.flag) /\ flag = FALSE
      /\ ~counter /\ ~flags => after = d /\ flag = device.flag
  BY <1>2
<1> SUFFICES Done(after, flag)
  <2>1. Refreshed(d, hint).driver = after /\ Refreshed(d, hint).flag = flag
    BY <1>1
  <2> HIDE DEF after, flag
  <2> QED BY <2>1
<1> HIDE DEF s, v, gate
<1>5. CASE counter
  <2> DEFINE found == CounterFresh(d)
  <2>1. found \in BOOLEAN /\ (found <=> unseen % CounterModulo # 0)
    BY <1>5 DEF CounterFresh
  <2> HIDE DEF found, flag
  <2>2. Cli!Reply(SeenDriver(Probed(d, found), j, st),
                  SeenDevice(Probed(d, found), [device EXCEPT !.flag = flag], unseen), "OK")
          \in Cli!Probed(s, v)
        /\ Probed(d, found) \in Drivers
    BY <1>2, <1>5, <2>1, SeenProbe DEF s, v
  <2>3. Cli!Probed(s, v) \subseteq Cli!Refreshed(s, v)
    BY <1>3, <1>5 DEF Cli!Refreshed
  <2> HIDE DEF after
  <2>4. after = Probed(d, found)
    BY <1>4, <1>5 DEF found
  <2> QED BY <1>2, <2>2, <2>3, <2>4
<1>6. CASE flags
  <2> DEFINE found == device.flag
  <2>1. flag = FALSE
    BY <1>6
  <2> HIDE DEF flag
  <2>2. Cli!Reply(SeenDriver(Probed(d, device.flag), j, st),
                  SeenDevice(Probed(d, device.flag), [device EXCEPT !.flag = flag], unseen),
                  "OK") \in Cli!Probed(s, v)
        /\ Probed(d, device.flag) \in Drivers
    BY <1>2, <1>6, <2>1, SeenProbe DEF s, v
  <2>3. Cli!Probed(s, v) \subseteq Cli!Refreshed(s, v)
    BY <1>3, <1>6 DEF Cli!Refreshed
  <2> HIDE DEF after
  <2>4. after = Probed(d, device.flag)
    BY <1>4, <1>6
  <2> QED BY <1>2, <2>2, <2>3, <2>4
<1>7. CASE ~counter /\ ~flags
  <2>1. after = d /\ flag = device.flag
    BY <1>4, <1>7
  <2>2. [device EXCEPT !.flag = device.flag] = device
    BY DEF Devices
  <2>3. Cli!Reply(s, v, "OK") \in Cli!Refreshed(s, v)
    BY <1>2, <1>3, <1>7 DEF Cli!Refreshed
  <2>4. Done(d, device.flag)
    BY <1>2, <2>2, <2>3 DEF s, v
  <2> HIDE DEF after, flag, Done
  <2> QED BY <2>1, <2>4
<1> QED BY <1>5, <1>6, <1>7

\* The frame that a driver with evidence reads.
LEMMA SeenArrives ==
  ASSUME NEW d \in Drivers, d.evidence, NEW j \in Jobs, NEW st \in Statuses,
         device' \in Devices, unseen \in Nat, NEW what \in {"SAMPLE", "FRAME"},
         Arrives(d, what)
  PROVE  /\ driver' \in Drivers
         /\ \E status \in {"OK", "WARN", "NOT_READY"} :
              /\ Cli!Reply(SeenDriver(driver', j, st), SeenDevice(driver', device', unseen'),
                           status)
                   \in Cli!FrameRead(SeenDriver(d, j, st), SeenDevice(d, device', unseen))
              /\ status = "OK" <=> result' \in {"SAMPLE", "FRAME"}
<1> DEFINE s == SeenDriver(d, j, st)
           v == SeenDevice(d, device', unseen)
           read == [v EXCEPT !.unread = FALSE]
<1>0. Looks(v, device'.running, Unread(d, device', unseen))
  BY SeenLooks
<1>1. v.unread <=> Unread(d, device', unseen)
  BY <1>0 DEF Looks
<1>2. Looks(read, device'.running, FALSE)
  BY <1>0, CliDevice
<1>3. PICK trusted \in BOOLEAN :
        \/ /\ Duplicate(d, trusted)
           /\ driver' = NoEvidence(d)
           /\ Quiet
        \/ /\ ~Duplicate(d, trusted)
           /\ Deliver(d, what, trusted)
  BY DEF Arrives, Trusts
<1>4. NoEvidence(d) \in Drivers /\ NoEvidence(d).baseline = d.baseline
  BY DEF NoEvidence, Drivers
<1>5. /\ Consumed(d, trusted) \in Drivers /\ ~Consumed(d, trusted).evidence
      /\ Consumed(d, trusted).baseline <=> d.baseline \/ trusted
  BY RetryAges DEF Consumed, Drivers
<1> HIDE DEF s, v, read
<1>6. CASE Duplicate(d, trusted) /\ driver' = NoEvidence(d) /\ Quiet
  <2>1. d.baseline /\ ~(unseen % CounterModulo # 0) /\ unseen' = unseen /\ result' = "NONE"
    BY <1>6 DEF Duplicate, CounterFresh, Quiet, ghosts
  <2>2. ~v.unread
    BY <1>1, <2>1 DEF Unread
  <2>3. Looks(SeenDevice(driver', device', unseen'), device'.running,
              Unread(driver', device', unseen'))
    BY <1>4, <1>6, SeenLooks
  <2>4. Unread(driver', device', unseen') <=> Unread(d, device', unseen)
    BY <1>4, <1>6, <2>1 DEF Unread
  <2>5. SeenDevice(driver', device', unseen') = v
    BY <1>0, <2>3, <2>4, LooksSame
  <2>6. SeenDriver(driver', j, st) = [s EXCEPT !.evidence = FALSE]
    BY <1>6, SeenNoEvidence DEF s
  <2>7. Cli!Reply([s EXCEPT !.evidence = FALSE], v, "NOT_READY") \in Cli!FrameRead(s, v)
    BY <2>2 DEF Cli!FrameRead
  <2> QED BY <1>4, <1>6, <2>1, <2>5, <2>6, <2>7 DEF s, v
<1>7. CASE ~Duplicate(d, trusted) /\ Deliver(d, what, trusted)
  <2>1. /\ driver' = Consumed(d, trusted)
        /\ result' = IF trusted THEN what ELSE "WARNING"
        /\ unseen' = IF trusted THEN 0 ELSE unseen
    BY <1>7 DEF Deliver
  <2>2. SeenDriver(driver', j, st) = Cli!Consumed(s)
    BY <2>1, SeenConsumed DEF s
  <2>3. Looks(SeenDevice(driver', device', unseen'), device'.running,
              Unread(driver', device', unseen'))
    BY <1>5, <2>1, SeenLooks
  <2>4. CASE trusted
    <3>1. v.unread
      BY <1>1, <1>7, <2>4 DEF Duplicate, CounterFresh, Unread
    <3>2. ~Unread(driver', device', unseen')
      <4>1. 0 % CounterModulo = 0
        BY CounterAssumption
      <4> QED BY <1>5, <2>1, <2>4, <4>1 DEF Unread
    <3>3. SeenDevice(driver', device', unseen') = read
      BY <1>2, <2>3, <3>2, LooksSame
    <3>4. Cli!Reply(Cli!Consumed(s), read, "OK") \in Cli!FrameRead(s, v)
      BY <3>1 DEF Cli!FrameRead, read
    <3> QED BY <1>5, <2>1, <2>2, <2>4, <3>3, <3>4 DEF s, v
  <2>5. CASE ~trusted
    <3>1. Unread(driver', device', unseen') => Unread(d, device', unseen)
      BY <1>5, <2>1, <2>5 DEF Unread
    <3>2. SeenDevice(driver', device', unseen') \in {v, read}
      <4>1. CASE Unread(driver', device', unseen')
        BY <1>0, <2>3, <3>1, <4>1, LooksSame
      <4>2. CASE ~Unread(driver', device', unseen')
        BY <1>2, <2>3, <4>2, LooksSame
      <4> QED BY <4>1, <4>2
    <3>3. \A w \in {v, read} : Cli!Reply(Cli!Consumed(s), w, "WARN") \in Cli!FrameRead(s, v)
      BY DEF Cli!FrameRead, read
    <3> QED BY <1>5, <2>1, <2>2, <2>5, <3>2, <3>3 DEF s, v
  <2> QED BY <2>4, <2>5
<1> QED BY <1>3, <1>6, <1>7

-----------------------------------------------------------------------------
(* Each action is a call's reply. *)

\* The console's driver and device in this state.
Seen == SeenDriver(driver, job, last)
SeenDev == SeenDevice(driver, device, unseen)

\* What the invariant says of them, now and after a step.
LEMMA InView ==
  ASSUME ConsoleScale, ViewInv
  PROVE  /\ driver \in Drivers /\ device \in Devices /\ job \in Jobs /\ last \in Statuses
         /\ unseen \in Nat /\ timed /\ lag = 0 /\ ReadJobShape
         /\ Observed(driver) = driver
         /\ Looks(SeenDev, device.running, Unread(driver, device, unseen))
         /\ Has(Seen, driver.mode, driver.started /\ driver.mode # "CONTINUOUS", driver.evidence,
                driver.retryAge < RetryInterval, SeenAge(driver), SeenJob(job), SeenLast(job, last))
<1>1. /\ driver \in Drivers /\ device \in Devices /\ job \in Jobs /\ last \in Statuses
      /\ unseen \in Nat /\ timed /\ lag = 0 /\ ReadJobShape
  BY CounterAssumption DEF ViewInv, FreshInv, TypeOK
<1>2. Observed(driver) = driver
  BY DEF Observed, ConsoleScale
<1> QED BY <1>1, <1>2, SeenHas, SeenLooks DEF Seen, SeenDev

LEMMA InViewNext ==
  ASSUME ConsoleScale, ViewInv'
  PROVE  /\ driver' \in Drivers /\ device' \in Devices /\ job' \in Jobs /\ last' \in Statuses
         /\ unseen' \in Nat
         /\ Looks(SeenDev', device'.running, Unread(driver', device', unseen'))
         /\ Has(Seen', driver'.mode, driver'.started /\ driver'.mode # "CONTINUOUS",
                driver'.evidence, driver'.retryAge < RetryInterval, SeenAge(driver'),
                SeenJob(job'), SeenLast(job', last'))
<1>1. /\ driver' \in Drivers /\ device' \in Devices /\ job' \in Jobs /\ last' \in Statuses
      /\ unseen' \in Nat
  BY CounterAssumption DEF ViewInv, FreshInv, TypeOK
<1> QED BY <1>1, SeenHas, SeenLooks DEF Seen, SeenDev

\* One reply among those of any call is a call.
LEMMA Answered ==
  ASSUME NEW st, Cli!Reply(Seen', SeenDev', st) \in Cli!Replies(Seen, SeenDev)
  PROVE  Cli!Call
<1> DEFINE r == Cli!Reply(Seen', SeenDev', st)
<1>1. r.d = Seen' /\ r.v = SeenDev'
  BY DEF Cli!Reply
<1>2. r \in Cli!Replies(Seen, SeenDev)
  OBVIOUS
<1> HIDE DEF r
<1> QED BY <1>1, <1>2 DEF Cli!Call, Seen, SeenDev

\* The last status stays unless a job ends.
LEMMA LastKept ==
  ASSUME Remembers, job.kind = "NONE" \/ job'.kind # "NONE"
  PROVE  last' = last
  BY DEF Remembers

\* The abstract state with the same job, for a call outside the jobs.
LEMMA SameJob ==
  ASSUME ConsoleScale, ViewInv, job.kind = "NONE"
  PROVE  /\ ~Cli!JobActive(Seen) /\ Seen.phase = "READY" /\ Seen.mode = driver.mode
         /\ Seen.evidence = driver.evidence
  BY InView, CliGate DEF Seen

\* Evidence is dropped with the flag it was read from.
LEMMA Dropped ==
  ASSUME ConsoleScale, ViewInv, ViewInv', NEW s, s.evidence = driver.evidence,
         driver'.baseline = driver.baseline, ~driver'.evidence,
         device'.flag = device.flag, unseen' = unseen
  PROVE  \E w \in Cli!Dropping(s, SeenDev) :
           Looks(w, device.running, Unread(driver', device', unseen'))
<1>1. Looks(SeenDev, device.running, Unread(driver, device, unseen))
  BY InView
<1>2. CASE Unread(driver', device', unseen') <=> Unread(driver, device, unseen)
  <2>1. Looks(SeenDev, device.running, Unread(driver', device', unseen'))
    BY <1>1, <1>2 DEF Looks
  <2> QED BY <2>1 DEF Cli!Dropping
<1>3. CASE ~(Unread(driver', device', unseen') <=> Unread(driver, device, unseen))
  <2>1. driver.evidence /\ ~Unread(driver', device', unseen')
    BY <1>3 DEF Unread
  <2>2. Looks([SeenDev EXCEPT !.unread = FALSE], device.running, FALSE)
    BY <1>1, CliDevice
  <2>3. Looks([SeenDev EXCEPT !.unread = FALSE], device.running,
              Unread(driver', device', unseen'))
    BY <2>1, <2>2 DEF Looks
  <2> QED BY <2>1, <2>3 DEF Cli!Dropping
<1> QED BY <1>2, <1>3

\* A one-shot conversion triggered, by startConversion or by a configuration.
LEMMA TriggeredSeen ==
  ASSUME ConsoleScale, ViewInv, ViewInv', job.kind = "NONE", Remembers,
         job' = job, unseen' = unseen,
         driver' = Restarted(driver, "POWER_DOWN", TRUE),
         device' = [device EXCEPT !.running = "ONE_SHOT", !.age = 0]
  PROVE  /\ \E w \in Cli!Dropping(Seen, SeenDev) : SeenDev' = [w EXCEPT !.running = "ONE_SHOT"]
         /\ Seen' = Cli!Restarted(Seen, "POWER_DOWN", TRUE)
<1>1. /\ driver \in Drivers /\ job \in Jobs /\ last \in Statuses /\ last' = last
      /\ device \in Devices
  BY InView, LastKept
<1>2. Seen' = Cli!Restarted(Seen, "POWER_DOWN", TRUE)
  BY <1>1, SeenRestarted DEF Seen, ConsoleScale, StableModes
<1>3. driver'.baseline = driver.baseline /\ ~driver'.evidence
  BY <1>1 DEF Restarted, Drivers
<1>4. device'.flag = device.flag /\ device'.running = "ONE_SHOT"
  BY <1>1 DEF Devices
<1>5. PICK w \in Cli!Dropping(Seen, SeenDev) :
        Looks(w, device.running, Unread(driver', device', unseen'))
  BY <1>3, <1>4, Dropped, SameJob
<1>6. Looks([w EXCEPT !.running = "ONE_SHOT"], "ONE_SHOT", Unread(driver', device', unseen'))
  BY <1>5, CliDevice
<1>7. Looks(SeenDev', "ONE_SHOT", Unread(driver', device', unseen'))
  BY <1>4, InViewNext
<1>8. SeenDev' = [w EXCEPT !.running = "ONE_SHOT"]
  BY <1>6, <1>7, LooksSame
<1> QED BY <1>2, <1>5, <1>8

\* startConversion, and the ownership it gives up though it fails.
LEMMA StartSeen ==
  ASSUME ConsoleScale, ViewInv, ViewInv', StartConversion, Remembers
  PROVE  Cli!Call
<1> DEFINE s == Seen
           v == SeenDev
           f == Cli!Forgotten(s)
<1>1. /\ driver \in Drivers
      /\ Has(s, driver.mode, driver.started /\ driver.mode # "CONTINUOUS", driver.evidence,
             driver.retryAge < RetryInterval, SeenAge(driver), SeenJob(job), SeenLast(job, last))
  BY InView
<1>2. /\ job.kind = "NONE" /\ driver.mode # "CONTINUOUS"
      /\ driver.started => Expired(driver)
      /\ driver' = Restarted(driver, driver.mode, TRUE)
      /\ device' = [device EXCEPT !.running = "ONE_SHOT", !.age = 0]
      /\ unseen' = unseen /\ job' = job
  BY DEF StartConversion, Running, Triggered
<1>3. driver.mode = "POWER_DOWN"
  BY <1>1, <1>2 DEF Drivers, StableModes
<1>5. /\ \E w \in Cli!Dropping(s, v) : SeenDev' = [w EXCEPT !.running = "ONE_SHOT"]
      /\ Seen' = Cli!Restarted(s, "POWER_DOWN", TRUE)
  BY <1>2, <1>3, TriggeredSeen
<1> HIDE DEF s, v
<1>6. /\ s.evidence = driver.evidence /\ ~Cli!JobActive(s)
      /\ s.phase = "READY" /\ s.mode # "CONTINUOUS"
  BY <1>2, SameJob DEF s
<1>7. f = Cli!Released(s) \/ f = s
  BY DEF Cli!Forgotten
<1>8. ~f.started
  <2>1. ~Cli!Released(s).started
    BY <1>1, CliHelpers DEF Has
  <2>2. s.started => s.age >= ReadTimeout
    BY <1>1, <1>2 DEF Has, Expired, SeenAge
  <2> QED BY <2>1, <2>2 DEF Cli!Forgotten
<1>9. f.evidence <=> s.evidence
  <2>1. Cli!Released(s).evidence <=> s.evidence
    BY <1>1, CliHelpers DEF Has
  <2> QED BY <1>7, <2>1
<1>10. Cli!Restarted(f, "POWER_DOWN", TRUE) = Cli!Restarted(s, "POWER_DOWN", TRUE)
  <2>1. Has(Cli!Released(s), driver.mode, FALSE, driver.evidence, driver.retryAge < RetryInterval,
            IF driver.mode = "CONTINUOUS" THEN SeenAge(driver) ELSE 0, SeenJob(job),
            SeenLast(job, last))
    BY <1>1, CliHelpers
  <2>2. /\ Has(Cli!Restarted(s, "POWER_DOWN", TRUE), "POWER_DOWN", TRUE, FALSE, FALSE, 0,
               SeenJob(job), SeenLast(job, last))
        /\ Has(Cli!Restarted(Cli!Released(s), "POWER_DOWN", TRUE), "POWER_DOWN", TRUE, FALSE,
               FALSE, 0, SeenJob(job), SeenLast(job, last))
    BY <1>1, <2>1, CliRestarted DEF Cli!StableModes
  <2>3. Alike(Cli!Restarted(Cli!Released(s), "POWER_DOWN", TRUE),
              Cli!Restarted(s, "POWER_DOWN", TRUE))
    BY <2>2 DEF Has, Alike
  <2> QED BY <1>7, <2>3, AlikeSame
<1>11. Cli!Dropping(f, v) = Cli!Dropping(s, v)
  BY <1>9 DEF Cli!Dropping
<1> HIDE DEF f
<1>12. Cli!Reply(Seen', SeenDev', "IN_PROGRESS") \in Cli!Triggered(f, v, "IN_PROGRESS")
  BY <1>5, <1>10, <1>11 DEF Cli!Triggered
<1>13. Cli!Reply(Seen', SeenDev', "IN_PROGRESS") \in Cli!StartConversion(s, v)
  BY <1>6, <1>8, <1>12 DEF Cli!StartConversion, f
<1> QED BY <1>13, Answered DEF Cli!Replies, s, v

LEMMA StartFailsSeen ==
  ASSUME ConsoleScale, ViewInv, StartConversionFails, Remembers
  PROVE  Cli!Call
<1> DEFINE s == Seen
           v == SeenDev
<1>1. /\ driver \in Drivers /\ job \in Jobs /\ last \in Statuses
      /\ Has(s, driver.mode, driver.started /\ driver.mode # "CONTINUOUS", driver.evidence,
             driver.retryAge < RetryInterval, SeenAge(driver), SeenJob(job), SeenLast(job, last))
  BY InView
<1>2. /\ driver.mode # "CONTINUOUS" /\ driver.started /\ driver.convAge >= ReadTimeout
      /\ driver' = Abandoned(driver) /\ job' = job /\ device' = device /\ unseen' = unseen
  BY DEF StartConversionFails, Expired, Quiet, ghosts
<1>3. last' = last
  BY <1>2, LastKept
<1>4. Seen' = Cli!Released(s)
  BY <1>1, <1>2, <1>3, SeenAbandoned DEF Seen
<1>5. SeenDev' = v
  BY <1>1, <1>2 DEF SeenDev, SeenDevice, Abandoned, Drivers
<1> HIDE DEF s, v
<1>6. s.started /\ s.age >= ReadTimeout /\ s.mode # "CONTINUOUS" /\ s.phase = "READY"
  BY <1>1, <1>2 DEF Has, SeenAge
<1>7. Cli!Forgotten(s) = Cli!Released(s) /\ ~Cli!Released(s).started
  <2>1. ~Cli!Released(s).started
    BY <1>1, CliHelpers DEF Has
  <2> QED BY <1>6, <2>1 DEF Cli!Forgotten
<1>8. \E st : Cli!Reply(Cli!Released(s), v, st) \in Cli!StartConversion(s, v)
  BY <1>6, <1>7 DEF Cli!StartConversion, Cli!Failed
<1>9. PICK st : Cli!Reply(Cli!Released(s), v, st) \in Cli!StartConversion(s, v)
  BY <1>8
<1>10. Cli!Reply(Cli!Released(s), v, st) \in Cli!Replies(s, v)
  BY <1>9 DEF Cli!Replies
<1> QED BY <1>4, <1>5, <1>10, Answered DEF s, v

\* A device that is told to run in a stable mode.
LEMMA RunningSeen ==
  ASSUME ConsoleScale, ViewInv', NEW m \in StableModes, NEW w, NEW r, NEW u,
         Looks(w, r, u), u <=> Unread(driver', device', unseen'),
         device'.running = IF m = "CONTINUOUS" THEN m ELSE "IDLE"
  PROVE  SeenDev' = Cli!Running(w, m)
<1>1. m \in Cli!StableModes
  BY DEF StableModes, Cli!StableModes
<1>2. Looks(Cli!Running(w, m), IF m = "CONTINUOUS" THEN m ELSE "IDLE", u)
  BY <1>1, CliDevice
<1>3. Looks(SeenDev', IF m = "CONTINUOUS" THEN m ELSE "IDLE", Unread(driver', device', unseen'))
  BY InViewNext
<1> QED BY <1>2, <1>3, LooksSame

\* writeConfiguration, in each of its modes.
LEMMA WriteSeen ==
  ASSUME ConsoleScale, ViewInv, ViewInv', WriteConfiguration, Remembers
  PROVE  Cli!Call
<1>1. /\ driver \in Drivers /\ device \in Devices /\ job \in Jobs /\ last \in Statuses
      /\ job.kind = "NONE" /\ job' = job
  BY InView DEF WriteConfiguration
<1>2. last' = last
  BY <1>1, LastKept
<1>3. ~Cli!JobActive(Seen) /\ Seen.phase = "READY" /\ Seen.evidence = driver.evidence
  BY <1>1, SameJob
<1>4. ASSUME NEW m \in StableModes, NEW b \in BOOLEAN, b <=> m = "CONTINUOUS",
             driver' = Restarted(driver, m, b),
             device' = [device EXCEPT !.running = IF m = "CONTINUOUS" THEN m ELSE "IDLE",
                                      !.age = 0],
             unseen' = unseen
      PROVE  Cli!Call
  <2>1. Seen' = Cli!Restarted(Seen, m, FALSE)
    BY <1>1, <1>2, <1>4, SeenRestarted DEF Seen, ConsoleScale
  <2>2. driver'.baseline = driver.baseline /\ ~driver'.evidence
    BY <1>1, <1>4 DEF Restarted, Drivers
  <2>3. device'.flag = device.flag
        /\ device'.running = IF m = "CONTINUOUS" THEN m ELSE "IDLE"
    BY <1>1, <1>4 DEF Devices
  <2>4. PICK w \in Cli!Dropping(Seen, SeenDev) :
          Looks(w, device.running, Unread(driver', device', unseen'))
    BY <1>3, <1>4, <2>2, <2>3, Dropped
  <2>5. SeenDev' = Cli!Running(w, m)
    BY <2>3, <2>4, RunningSeen
  <2>6. m \in Cli!StableModes
    BY DEF StableModes, Cli!StableModes
  <2> DEFINE R == Cli!Reply(Seen', SeenDev', "OK")
             Plain(n) == {Cli!Reply(Cli!Restarted(Seen, n, FALSE), Cli!Running(x, n), "OK") :
                            x \in Cli!Dropping(Seen, SeenDev)}
             Written(n) == Cli!Failed(Seen, Cli!Running(SeenDev, n)) \cup Plain(n)
  <2>7. R \in Plain(m)
    BY <2>1, <2>5
  <2>8. R \in UNION {Written(n) : n \in Cli!StableModes}
    <3>1. R \in Written(m)
      BY <2>7
    <3> HIDE DEF R, Written
    <3> QED BY <2>6, <3>1
  <2>9. Cli!Reply(Seen', SeenDev', "OK") \in Cli!WriteConfiguration(Seen, SeenDev)
    BY <1>3, <2>8 DEF Cli!WriteConfiguration
  <2> QED BY <2>9, Answered DEF Cli!Replies
<1>5. CASE driver' = Restarted(driver, "CONTINUOUS", TRUE) /\ Running("CONTINUOUS")
           /\ unseen' = unseen
  BY <1>4, <1>5 DEF Running, StableModes
<1>6. CASE driver' = Restarted(driver, "POWER_DOWN", FALSE) /\ Running("IDLE")
           /\ unseen' = unseen
  BY <1>4, <1>6 DEF Running, StableModes
<1>7. CASE driver' = Restarted(driver, "POWER_DOWN", TRUE) /\ Running("ONE_SHOT")
           /\ unseen' = unseen
  <2>1. /\ \E w \in Cli!Dropping(Seen, SeenDev) : SeenDev' = [w EXCEPT !.running = "ONE_SHOT"]
        /\ Seen' = Cli!Restarted(Seen, "POWER_DOWN", TRUE)
    BY <1>1, <1>7, TriggeredSeen DEF Running
  <2>2. Cli!Reply(Seen', SeenDev', "IN_PROGRESS") \in Cli!Triggered(Seen, SeenDev, "IN_PROGRESS")
    BY <2>1 DEF Cli!Triggered
  <2>3. Cli!Reply(Seen', SeenDev', "IN_PROGRESS") \in Cli!WriteConfiguration(Seen, SeenDev)
    BY <1>3, <2>2 DEF Cli!WriteConfiguration
  <2> QED BY <2>3, Answered DEF Cli!Replies
<1> QED BY <1>5, <1>6, <1>7 DEF WriteConfiguration, Triggered

\* A whole application: what is unread afterwards is any device's business.
LEMMA AppliedSeen ==
  ASSUME ConsoleScale, ViewInv, ViewInv', job.kind = "NONE", Remembers, NEW m \in StableModes,
         Applied(m), device'.running = IF m = "CONTINUOUS" THEN m ELSE "IDLE"
  PROVE  Cli!Call
<1> DEFINE u == Unread(driver', device', unseen')
           w == [SeenDev EXCEPT !.unread = u]
<1>1. /\ driver \in Drivers /\ job \in Jobs /\ last \in Statuses /\ job' = job
      /\ Looks(SeenDev, device.running, Unread(driver, device, unseen))
      /\ Has(Seen, driver.mode, driver.started /\ driver.mode # "CONTINUOUS", driver.evidence,
             driver.retryAge < RetryInterval, SeenAge(driver), SeenJob(job), SeenLast(job, last))
  BY InView DEF Applied
<1>2. last' = last /\ ~Cli!JobActive(Seen) /\ Seen.phase = "READY"
  BY <1>1, LastKept, SameJob
<1>3. /\ driver'.mode = m /\ ~driver'.evidence /\ (driver'.started <=> m = "CONTINUOUS")
      /\ driver'.convAge = 0 /\ driver'.retryAge = RetryInterval
  BY <1>1 DEF Applied, ClearedRuntime, Restarted, Drivers
<1>4. Has(Seen', m, FALSE, FALSE, FALSE, 0, SeenJob(job), SeenLast(job, last))
  BY <1>1, <1>2, <1>3, InViewNext DEF Has, SeenAge, ConsoleScale
<1>5. m \in Cli!StableModes
  BY DEF StableModes, Cli!StableModes
<1>6. Has(Cli!Applied(Seen, m), m, FALSE, FALSE, FALSE, 0, SeenJob(job), SeenLast(job, last))
  BY <1>1, <1>5, CliRestarted
<1>7. Seen' = Cli!Applied(Seen, m)
  <2>1. Alike(Seen', Cli!Applied(Seen, m))
    BY <1>4, <1>6 DEF Has, Alike
  <2> QED BY <2>1, AlikeSame
<1>8. u \in BOOLEAN
  BY InViewNext DEF Unread, Drivers, Devices
<1> HIDE DEF u
<1>9. Looks(Cli!Running(SeenDev, m), IF m = "CONTINUOUS" THEN m ELSE "IDLE",
            Unread(driver, device, unseen))
  BY <1>1, <1>5, CliDevice
<1>10. Looks([Cli!Running(SeenDev, m) EXCEPT !.unread = u],
             IF m = "CONTINUOUS" THEN m ELSE "IDLE", u)
  BY <1>8, <1>9, CliDevice
<1>11. SeenDev' = [Cli!Running(SeenDev, m) EXCEPT !.unread = u]
  <2>1. Looks(SeenDev', IF m = "CONTINUOUS" THEN m ELSE "IDLE", u)
    BY InViewNext DEF u
  <2> QED BY <1>10, <2>1, LooksSame
<1>12. SeenDev' \in Cli!Forgetting(Cli!Running(SeenDev, m))
  BY <1>8, <1>11 DEF Cli!Forgetting
<1>13. Cli!Reply(Seen', SeenDev', "OK") \in Cli!SetMode(Seen, SeenDev, m)
  BY <1>2, <1>7, <1>12 DEF Cli!SetMode
<1>14. Cli!Reply(Seen', SeenDev', "OK") \in Cli!Replies(Seen, SeenDev)
  BY <1>5, <1>13 DEF Cli!Replies
<1> QED BY <1>14, Answered

\* setMode, recover and the reset are all a configuration applied.
LEMMA ApplicationsSeen ==
  ASSUME ConsoleScale, ViewInv, ViewInv', ApplyConfig \/ ResetAndReapply, Remembers
  PROVE  Cli!Call
<1>1. device \in Devices
  BY InView
<1>2. CASE ApplyConfig
  <2>1. PICK m \in StableModes :
          Applied(m) /\ Running(IF m = "CONTINUOUS" THEN m ELSE "IDLE")
    BY <1>2 DEF ApplyConfig
  <2>2. device'.running = IF m = "CONTINUOUS" THEN m ELSE "IDLE"
    BY <1>1, <2>1 DEF Running, Devices
  <2> QED BY <1>2, <2>1, <2>2, AppliedSeen DEF ApplyConfig
<1>3. CASE ResetAndReapply
  BY <1>3, AppliedSeen DEF ResetAndReapply
<1> QED BY <1>2, <1>3

\* The replies of each call are replies.
LEMMA CallReplies ==
  ASSUME NEW s, NEW v
  PROVE  /\ Cli!ConversionReady(s, v) \subseteq Cli!Replies(s, v)
         /\ Cli!ReadSample(s, v) \subseteq Cli!Replies(s, v)
         /\ Cli!ReadRegister(s, v) \subseteq Cli!Replies(s, v)
         /\ Cli!ClearFlags(s, v) \subseteq Cli!Replies(s, v)
         /\ Cli!Tick(s, v) \subseteq Cli!Replies(s, v)
         /\ Cli!Recover(s, v) \subseteq Cli!Replies(s, v)
         /\ Cli!StartRead(s, v) \subseteq Cli!Replies(s, v)
         /\ Cli!Poll(s, v) \subseteq Cli!Replies(s, v)
         /\ Cli!CancelJob(s, v) \subseteq Cli!Replies(s, v)
  BY DEF Cli!Replies

\* recover() that fails has forgotten the runtime state and the baseline.
LEMMA RecoverFailsSeen ==
  ASSUME ConsoleScale, ViewInv, ViewInv', RecoverFails, Remembers
  PROVE  Cli!Call
<1> DEFINE u == Unread(driver', device', unseen')
           w == [SeenDev EXCEPT !.unread = u]
<1>1. /\ driver \in Drivers /\ job \in Jobs /\ last \in Statuses /\ job.kind = "NONE"
      /\ job' = job /\ device' = device
      /\ Looks(SeenDev, device.running, Unread(driver, device, unseen))
      /\ Has(Seen, driver.mode, driver.started /\ driver.mode # "CONTINUOUS", driver.evidence,
             driver.retryAge < RetryInterval, SeenAge(driver), SeenJob(job), SeenLast(job, last))
  BY InView DEF RecoverFails
<1>2. last' = last /\ ~Cli!JobActive(Seen) /\ Seen.phase = "READY" /\ Seen.mode = driver.mode
  BY <1>1, LastKept, SameJob
<1>3. PICK age \in IF driver.mode = "CONTINUOUS" THEN Ages ELSE {0} :
        driver' = [ClearedRuntime(driver, driver.mode) EXCEPT !.convAge = age]
  BY DEF RecoverFails
<1>4. /\ driver'.mode = driver.mode /\ ~driver'.evidence /\ ~driver'.started
      /\ driver'.convAge = age /\ driver'.retryAge = RetryInterval
  BY <1>1, <1>3 DEF ClearedRuntime, Restarted, Drivers
<1>5. age \in 0 .. ReadTimeout /\ (driver.mode # "CONTINUOUS" => age = 0)
  BY ZeroAge DEF Ages
<1>6. Has(Seen', driver.mode, FALSE, FALSE, FALSE, age, SeenJob(job), SeenLast(job, last))
  BY <1>1, <1>2, <1>4, <1>5, InViewNext DEF Has, SeenAge, ConsoleScale
<1>7. Has(Cli!Cleared(Seen, age), driver.mode, FALSE, FALSE, FALSE, age, SeenJob(job),
          SeenLast(job, last))
  BY <1>1, <1>5, CliCleared
<1>8. Seen' = Cli!Cleared(Seen, age)
  <2>1. Alike(Seen', Cli!Cleared(Seen, age))
    BY <1>6, <1>7 DEF Has, Alike
  <2> QED BY <2>1, AlikeSame
<1>9. Seen' \in Cli!Clearings(Seen)
  BY <1>2, <1>5, <1>8 DEF Cli!Clearings
<1>10. u \in BOOLEAN
  BY InViewNext DEF Unread, Drivers, Devices
<1> HIDE DEF u
<1>11. Looks(w, device.running, u)
  BY <1>1, <1>10, CliDevice
<1>12. SeenDev' = w
  <2>1. Looks(SeenDev', device.running, u)
    BY <1>1, InViewNext DEF u
  <2> QED BY <1>11, <2>1, LooksSame
<1>13. SeenDev' \in Cli!Forgetting(SeenDev)
  BY <1>10, <1>12 DEF Cli!Forgetting
<1>14. Cli!Reply(Seen', SeenDev', "FAILED") \in Cli!Recover(Seen, SeenDev)
  <2>1. Cli!Reply(Seen', SeenDev', "FAILED") \in Cli!Failed(Seen', SeenDev')
    BY DEF Cli!Failed
  <2> DEFINE R == Cli!Reply(Seen', SeenDev', "FAILED")
             Fails(e, x) == Cli!Failed(e, x) \cup Cli!Failed(e, Cli!Running(x, Seen.mode))
             Applies(x) == {Cli!Reply(Cli!Applied(Seen, Seen.mode),
                                      Cli!Running(x, Seen.mode), "OK")}
             Recovers(x) == Applies(x) \cup UNION {Fails(e, x) : e \in Cli!Clearings(Seen)}
  <2>2. R \in Fails(Seen', SeenDev')
    BY <2>1
  <2>3. R \in Recovers(SeenDev')
    <3> HIDE DEF R, Fails, Applies
    <3> QED BY <1>9, <2>2
  <2>4. R \in UNION {Recovers(x) : x \in Cli!Forgetting(SeenDev)}
    <3> HIDE DEF R, Recovers
    <3> QED BY <1>13, <2>3
  <2>5. R \in Cli!Recover(Seen, SeenDev)
    <3> DEFINE All == UNION {Recovers(x) : x \in Cli!Forgetting(SeenDev)}
    <3>1. Cli!Recover(Seen, SeenDev) = Cli!Failed(Seen, SeenDev) \cup All
      BY <1>2, Zenon DEF Cli!Recover
    <3> HIDE DEF R, All
    <3> QED BY <2>4, <3>1 DEF All
  <2> QED BY <2>5
<1>15. Cli!Reply(Seen', SeenDev', "FAILED") \in Cli!Replies(Seen, SeenDev)
  BY <1>14, CallReplies
<1> QED BY <1>15, Answered

\* conversionReady.
LEMMA ReadySeen ==
  ASSUME ConsoleScale, ViewInv, ViewInv', ConversionReady, Remembers
  PROVE  Cli!Call
<1>1. /\ driver \in Drivers /\ device \in Devices /\ job \in Jobs /\ last \in Statuses
      /\ timed /\ job.kind = "NONE" /\ job' = job /\ unseen' = unseen
  BY InView DEF ConversionReady, Quiet, ghosts
<1>2. last' = last /\ Seen.phase = "READY"
  BY <1>1, LastKept, SameJob
<1>3. PICK hint \in Hints : /\ driver' = Refreshed(driver, hint).driver
                            /\ SetFlag(Refreshed(driver, hint).flag)
  BY DEF ConversionReady
<1>4. hint \in BOOLEAN
  BY DEF Hints
<1> DEFINE r == Refreshed(driver, hint)
<1>5. Cli!Reply(SeenDriver(r.driver, job, last),
                SeenDevice(r.driver, [device EXCEPT !.flag = r.flag], unseen), "OK")
        \in Cli!Refreshed(Seen, SeenDev)
  BY <1>1, <1>4, SeenRefreshed DEF Seen, SeenDev
<1> HIDE DEF r
<1>6. driver' = r.driver /\ device' = [device EXCEPT !.flag = r.flag]
  BY <1>3 DEF r, SetFlag
<1>7. Cli!Reply(Seen', SeenDev', "OK") \in Cli!Refreshed(Seen, SeenDev)
  BY <1>1, <1>2, <1>5, <1>6 DEF Seen, SeenDev
<1>8. Cli!Reply(Seen', SeenDev', "OK") \in Cli!ConversionReady(Seen, SeenDev)
  BY <1>2, <1>7 DEF Cli!ConversionReady
<1>9. Cli!Reply(Seen', SeenDev', "OK") \in Cli!Replies(Seen, SeenDev)
  BY <1>8, CallReplies
<1> QED BY <1>9, Answered

\* The reads: a refresh that leaves evidence, then a frame.
LEMMA ReadFreshSeen ==
  ASSUME ConsoleScale, ViewInv, ViewInv', ReadFresh, Remembers
  PROVE  Cli!Call
<1>1. /\ driver \in Drivers /\ device \in Devices /\ job \in Jobs /\ last \in Statuses
      /\ timed /\ job.kind = "NONE" /\ job' = job /\ unseen \in Nat /\ device' \in Devices
  BY InView, InViewNext DEF ReadFresh
<1>2. last' = last /\ Seen.phase = "READY"
  BY <1>1, LastKept, SameJob
<1>3. PICK hint \in Hints, what \in {"SAMPLE", "FRAME"} :
        /\ Refreshed(driver, hint).driver.evidence
        /\ SetFlag(Refreshed(driver, hint).flag)
        /\ Arrives(Refreshed(driver, hint).driver, what)
  BY DEF ReadFresh
<1>4. hint \in BOOLEAN
  BY DEF Hints
<1> DEFINE r == Refreshed(driver, hint)
           d == r.driver
           s == SeenDriver(d, job, last)
           v == SeenDevice(d, device', unseen)
           q == Cli!Reply(s, v, "OK")
<1>5. device' = [device EXCEPT !.flag = r.flag]
  BY <1>3 DEF SetFlag
<1>6. /\ Cli!Reply(SeenDriver(d, job, last),
                   SeenDevice(d, [device EXCEPT !.flag = r.flag], unseen), "OK")
           \in Cli!Refreshed(Seen, SeenDev)
      /\ d \in Drivers
  BY <1>1, <1>4, SeenRefreshed DEF Seen, SeenDev
<1>7. d.evidence /\ Arrives(d, what)
  BY <1>3
<1> HIDE DEF r, d
<1>8. q \in Cli!Refreshed(Seen, SeenDev)
  BY <1>5, <1>6
<1>9. PICK status \in {"OK", "WARN", "NOT_READY"} :
        Cli!Reply(SeenDriver(driver', job, last), SeenDevice(driver', device', unseen'), status)
          \in Cli!FrameRead(s, v)
  BY <1>1, <1>6, <1>7, SeenArrives
<1>10. s.evidence = d.evidence /\ ~Cli!JobActive(s)
  BY <1>1, <1>6, CliGate
<1>11. q.st = "OK" /\ q.d = s /\ q.v = v
  BY DEF Cli!Reply
<1> HIDE DEF s, v, q
<1> DEFINE R == Cli!Reply(Seen', SeenDev', status)
           Read(x) == IF x.st # "OK" THEN {x}
                      ELSE IF ~x.d.evidence THEN {Cli!Reply(x.d, x.v, "NOT_READY")}
                      ELSE IF Cli!JobActive(x.d) THEN {Cli!Reply(x.d, x.v, "BUSY")}
                      ELSE Cli!FrameRead(x.d, x.v)
<1>12. R \in Cli!FrameRead(s, v)
  BY <1>1, <1>2, <1>9 DEF Seen, SeenDev
<1>13. R \in Read(q)
  <2> HIDE DEF R
  <2> QED BY <1>7, <1>10, <1>11, <1>12
<1>14. R \in UNION {Read(x) : x \in Cli!Refreshed(Seen, SeenDev)}
  <2> HIDE DEF R, Read
  <2> QED BY <1>8, <1>13
<1>15. R \in Cli!ReadSample(Seen, SeenDev)
  <2> HIDE DEF R
  <2> QED BY <1>2, <1>14 DEF Cli!ReadSample
<1>16. R \in Cli!Replies(Seen, SeenDev)
  BY <1>15, CallReplies
<1> QED BY <1>16, Answered

\* FLAGS that were read.
LEMMA SeenCaptured ==
  ASSUME ConsoleScale, ViewInv
  PROVE  /\ SeenDriver(Captured(driver), job, last) \in Cli!Captured(Seen)
         /\ Captured(driver) \in Drivers
         /\ Captured(driver).baseline = driver.baseline
         /\ Captured(driver).evidence <=> driver.evidence \/ device.flag
<1>1. driver \in Drivers /\ device \in Devices /\ job \in Jobs /\ last \in Statuses
  BY InView
<1>2. SeenDriver(Captured(driver), job, last) \in Cli!Captured(Seen)
  <2>1. CASE device.flag
    <3>1. SeenDriver(Captured(driver), job, last) = [Cli!Released(Seen) EXCEPT !.evidence = TRUE]
      BY <1>1, <2>1, SeenLatched DEF Captured, Seen
    <3> QED BY <3>1 DEF Cli!Captured
  <2>2. CASE ~device.flag
    BY <2>2 DEF Captured, Seen, Cli!Captured
  <2> QED BY <2>1, <2>2
<1>3. /\ Captured(driver) \in Drivers
      /\ Captured(driver).baseline = driver.baseline
      /\ Captured(driver).evidence <=> driver.evidence \/ device.flag
  BY <1>1 DEF Captured, Latched, Drivers, Devices
<1> QED BY <1>2, <1>3

\* readFlags leaves unread what it latched.
LEMMA ReadFlagsSeen ==
  ASSUME ConsoleScale, ViewInv, ViewInv', ReadFlags, Remembers
  PROVE  Cli!Call
<1>1. /\ driver \in Drivers /\ device \in Devices /\ job \in Jobs /\ last \in Statuses
      /\ job.kind = "NONE" /\ job' = job /\ unseen' = unseen
      /\ driver' = Captured(driver) /\ device' = [device EXCEPT !.flag = FALSE]
      /\ Looks(SeenDev, device.running, Unread(driver, device, unseen))
  BY InView DEF ReadFlags, Quiet, ghosts, SetFlag
<1>2. last' = last /\ Seen.phase = "READY" /\ ~Cli!JobActive(Seen)
  BY <1>1, LastKept, SameJob
<1>3. device'.running = device.running /\ ~device'.flag
  BY <1>1 DEF Devices
<1>4. Unread(driver', device', unseen') <=> Unread(driver, device, unseen)
  BY <1>1, <1>3, SeenCaptured DEF Unread
<1>5. Looks(SeenDev', device.running, Unread(driver', device', unseen'))
  BY <1>3, InViewNext
<1>6. SeenDev' = SeenDev
  BY <1>1, <1>4, <1>5, LooksSame
<1>7. Seen' \in Cli!Captured(Seen)
  <2>1. Seen' = SeenDriver(Captured(driver), job, last)
    BY <1>1, <1>2 DEF Seen
  <2> QED BY <2>1, SeenCaptured
<1>8. Cli!Reply(Seen', SeenDev', "OK") \in Cli!ReadRegister(Seen, SeenDev)
  BY <1>2, <1>6, <1>7 DEF Cli!ReadRegister
<1>9. Cli!Reply(Seen', SeenDev', "OK") \in Cli!Replies(Seen, SeenDev)
  BY <1>8, CallReplies
<1> QED BY <1>9, Answered

\* clearFlags forgets what it read, or does not read at all.
LEMMA ClearFlagsSeen ==
  ASSUME ConsoleScale, ViewInv, ViewInv', ClearFlags, Remembers
  PROVE  Cli!Call
<1>1. /\ driver \in Drivers /\ device \in Devices /\ job \in Jobs /\ last \in Statuses
      /\ job.kind = "NONE" /\ job' = job /\ unseen' = unseen
      /\ driver' \in {NoEvidence(Captured(driver)), NoEvidence(driver)}
      /\ device' = [device EXCEPT !.flag = FALSE]
      /\ Looks(SeenDev, device.running, Unread(driver, device, unseen))
  BY InView DEF ClearFlags, Quiet, ghosts, SetFlag
<1>2. last' = last /\ Seen.phase = "READY" /\ ~Cli!JobActive(Seen)
  BY <1>1, LastKept, SameJob
<1>3. device'.running = device.running /\ ~device'.flag
  BY <1>1 DEF Devices
<1>4. PICK c \in Drivers : /\ driver' = NoEvidence(c)
                           /\ c.baseline = driver.baseline
                           /\ SeenDriver(c, job, last) \in Cli!Captured(Seen)
  <2>1. SeenDriver(driver, job, last) \in Cli!Captured(Seen)
    BY DEF Cli!Captured, Seen
  <2> QED BY <1>1, <2>1, SeenCaptured
<1>5. driver'.baseline = driver.baseline /\ ~driver'.evidence
  BY <1>4 DEF NoEvidence, Drivers
<1>6. Unread(driver', device', unseen') => Unread(driver, device, unseen)
  BY <1>1, <1>3, <1>5 DEF Unread
<1>7. Looks(SeenDev', device.running, Unread(driver', device', unseen'))
  BY <1>3, InViewNext
<1> DEFINE read == [SeenDev EXCEPT !.unread = FALSE]
<1>8. Looks(read, device.running, FALSE)
  BY <1>1, CliDevice
<1>9. SeenDev' = SeenDev \/ SeenDev' = read
  <2> HIDE DEF read
  <2>1. CASE Unread(driver', device', unseen')
    BY <1>1, <1>6, <1>7, <2>1, LooksSame
  <2>2. CASE ~Unread(driver', device', unseen')
    BY <1>7, <1>8, <2>2, LooksSame
  <2> QED BY <2>1, <2>2
<1> DEFINE e == SeenDriver(c, job, last)
<1>10. Seen' = [e EXCEPT !.evidence = FALSE]
  BY <1>1, <1>2, <1>4, SeenNoEvidence DEF Seen
<1> HIDE DEF e, read
<1> DEFINE R == Cli!Reply(Seen', SeenDev', "OK")
           Clear(w) == {Cli!Reply([x EXCEPT !.evidence = FALSE], w, "OK") :
                          x \in Cli!Captured(Seen)}
<1>11. R \in Clear(SeenDev')
  BY <1>4, <1>10 DEF e
<1>12. R \in UNION {Clear(w) : w \in {SeenDev, read}}
  <2> HIDE DEF R, Clear
  <2> QED BY <1>9, <1>11
<1>13. R \in Cli!ClearFlags(Seen, SeenDev)
  <2> HIDE DEF R
  <2> QED BY <1>2, <1>12 DEF Cli!ClearFlags, read
<1>14. R \in Cli!Replies(Seen, SeenDev)
  BY <1>13, CallReplies
<1> QED BY <1>14, Answered

-----------------------------------------------------------------------------
(* tick() and time. *)

\* A job that looks the same leaves the driver looking the same.
LEMMA SeenThrough ==
  ASSUME NEW d, NEW j, NEW k, NEW st, SeenJob(j) = SeenJob(k), j.kind = "NONE" <=> k.kind = "NONE"
  PROVE  SeenDriver(d, j, st) = SeenDriver(d, k, st)
  BY DEF SeenDriver

\* An expired ownership is given up where the console's is forgotten.
LEMMA SeenGivenUp ==
  ASSUME NEW d \in Drivers, NEW j \in Jobs, NEW st \in Statuses
  PROVE  /\ SeenDriver(GivenUp(d), j, st)
              = IF SeenDriver(d, j, st).evidence THEN SeenDriver(d, j, st)
                ELSE Cli!Forgotten(SeenDriver(d, j, st))
         /\ GivenUp(d).baseline = d.baseline /\ GivenUp(d).evidence = d.evidence
<1> DEFINE s == SeenDriver(d, j, st)
<1>1. Has(s, d.mode, d.started /\ d.mode # "CONTINUOUS", d.evidence,
          d.retryAge < RetryInterval, SeenAge(d), SeenJob(j), SeenLast(j, st))
  BY SeenHas
<1>2. GivenUp(d).baseline = d.baseline /\ GivenUp(d).evidence = d.evidence
  BY DEF GivenUp, Abandoned, Drivers
<1>3. SeenDriver(Abandoned(d), j, st) = Cli!Released(s)
  BY SeenAbandoned
<1> HIDE DEF s
<1>4. s.evidence <=> d.evidence
  BY <1>1 DEF Has
<1>5. s.started /\ s.age >= ReadTimeout <=> Expired(d)
  BY <1>1 DEF Has, SeenAge, Expired
<1>6. SeenDriver(GivenUp(d), j, st) = IF s.evidence THEN s ELSE Cli!Forgotten(s)
  BY <1>3, <1>4, <1>5 DEF GivenUp, Cli!Forgotten, s
<1> QED BY <1>2, <1>6 DEF s

\* tick() probes exactly when the console's does.
LEMMA TickSeen ==
  ASSUME ConsoleScale, ViewInv, ViewInv', Tick, Remembers
  PROVE  Cli!Call
<1>1. /\ driver \in Drivers /\ device \in Devices /\ job \in Jobs /\ last \in Statuses
      /\ timed /\ lag = 0 /\ Observed(driver) = driver
      /\ job' = AgedJob(job, lag) /\ unseen' = unseen
  BY InView DEF Tick, Quiet, ghosts
<1>2. job'.kind = job.kind /\ SeenJob(job') = SeenJob(job)
  <2>1. /\ job'.kind = job.kind /\ job'.armed = job.armed
        /\ job'.age = IF job.armed THEN Capped(job.age, ReadTimeout) ELSE 0
    BY <1>1 DEF AgedJob, Jobs, Ages
  <2>2. Capped(job.age, ReadTimeout) = job.age
    BY <1>1, Times DEF Capped, Jobs, Ages
  <2> QED BY <2>1, <2>2 DEF SeenJob
<1>3. last' = last
  BY <1>2, LastKept
<1>4. \A d : SeenDriver(d, job', last') = SeenDriver(d, job, last)
  BY <1>2, <1>3, SeenThrough
<1>5. /\ Seen.phase = "READY" /\ Seen.evidence = driver.evidence
      /\ Cli!JobActive(Seen) <=> job.kind # "NONE"
      /\ Cli!Converting(Seen) <=> driver.started \/ driver.mode = "CONTINUOUS"
      /\ GateElapsed(driver, "NONE", TRUE) <=> Cli!GateOpen(Seen)
  BY <1>1, CliGate DEF Seen
<1> DEFINE due == IF driver.mode = "CONTINUOUS" THEN driver.convAge >= ConversionTime
                  ELSE driver.started /\ driver.convAge >= OneShotBudget
           probes == job.kind = "NONE" /\ ~driver.evidence /\ due
           active == ~(Seen.phase # "READY" \/ Cli!JobActive(Seen) \/ ~Cli!Converting(Seen)
                       \/ Seen.evidence \/ ~Cli!GateOpen(Seen))
           S(x) == [x EXCEPT !.d = IF @.evidence THEN @ ELSE Cli!Forgotten(@)]
           Probes == {S(x) : x \in Cli!Refreshed(Seen, SeenDev)}
<1>6. probes <=> active
  <2>1. GateElapsed(driver, "NONE", TRUE) <=>
          \/ driver.mode = "CONTINUOUS" /\ driver.convAge >= ConversionTime
          \/ driver.mode # "CONTINUOUS" /\ (driver.started => driver.convAge >= OneShotBudget)
    BY DEF GateElapsed, ContinuousGate
  <2> QED BY <1>5, <2>1
<1>7. Cli!Tick(Seen, SeenDev) =
        IF active THEN {Cli!Reply(Seen, SeenDev, "OK")} \cup Probes
        ELSE {Cli!Reply(Seen, SeenDev, "OK")}
  BY DEF Cli!Tick
<1> HIDE DEF active, Probes
<1>8. CASE driver' = driver /\ device' = device
  <2>1. Seen' = Seen /\ SeenDev' = SeenDev
    BY <1>1, <1>4, <1>8 DEF Seen, SeenDev
  <2>2. Cli!Reply(Seen', SeenDev', "OK") \in Cli!Tick(Seen, SeenDev)
    BY <1>7, <2>1
  <2>3. Cli!Reply(Seen', SeenDev', "OK") \in Cli!Replies(Seen, SeenDev)
    BY <2>2, CallReplies
  <2> QED BY <2>3, Answered
<1>9. ASSUME probes, NEW d \in Drivers, NEW v, NEW st,
             Cli!Reply(SeenDriver(d, job, last), SeenDevice(d, v, unseen), st)
               \in Cli!Refreshed(Seen, SeenDev),
             driver' = GivenUp(d), device' = v
      PROVE  Cli!Call
  <2> DEFINE s == SeenDriver(d, job, last)
             w == SeenDevice(d, v, unseen)
             q == Cli!Reply(s, w, st)
             f == IF s.evidence THEN s ELSE Cli!Forgotten(s)
  <2>1. Seen' = f /\ SeenDev' = w
    <3>1. Seen' = SeenDriver(GivenUp(d), job, last)
      BY <1>4, <1>9 DEF Seen
    <3>2. SeenDevice(GivenUp(d), v, unseen) = w
      BY <1>1, SeenGivenUp DEF SeenDevice
    <3>3. SeenDev' = SeenDevice(GivenUp(d), v, unseen)
      BY <1>1, <1>9 DEF SeenDev
    <3>4. SeenDriver(GivenUp(d), job, last) = f
      BY <1>1, SeenGivenUp
    <3> QED BY <3>1, <3>2, <3>3, <3>4
  <2>2. q \in Cli!Refreshed(Seen, SeenDev)
    BY <1>9
  <2> HIDE DEF s, w
  <2>3. S(q) = Cli!Reply(f, w, st)
    BY DEF Cli!Reply
  <2>4. S(q) \in Probes
    <3> HIDE DEF q, S
    <3> QED BY <2>2 DEF Probes
  <2>5. Cli!Reply(Seen', SeenDev', st) \in Probes
    BY <2>1, <2>3, <2>4
  <2>6. Cli!Reply(Seen', SeenDev', st) \in Cli!Tick(Seen, SeenDev)
    BY <1>6, <1>7, <1>9, <2>5
  <2>7. Cli!Reply(Seen', SeenDev', st) \in Cli!Replies(Seen, SeenDev)
    BY <2>6, CallReplies
  <2> QED BY <2>7, Answered
<1>10. CASE probes /\ \E hint \in Hints :
                 LET r == Refreshed(driver, hint)
                 IN  driver' = GivenUp(r.driver) /\ SetFlag(r.flag)
  <2>1. PICK hint \in Hints : driver' = GivenUp(Refreshed(driver, hint).driver)
                              /\ SetFlag(Refreshed(driver, hint).flag)
    BY <1>10
  <2>2. hint \in BOOLEAN
    BY DEF Hints
  <2>3. job.kind = "NONE"
    BY <1>10
  <2> DEFINE r == Refreshed(driver, hint)
             v == [device EXCEPT !.flag = r.flag]
  <2>4. /\ Cli!Reply(SeenDriver(r.driver, job, last), SeenDevice(r.driver, v, unseen), "OK")
             \in Cli!Refreshed(Seen, SeenDev)
        /\ r.driver \in Drivers
    BY <1>1, <2>2, <2>3, SeenRefreshed DEF Seen, SeenDev
  <2>5. driver' = GivenUp(r.driver) /\ device' = v
    BY <2>1 DEF SetFlag
  <2> HIDE DEF r, v, probes
  <2> QED BY <1>9, <1>10, <2>4, <2>5
<1>11. CASE probes /\ driver' = GivenUp(driver) /\ device' = device
  <2>1. active
    BY <1>6, <1>11
  <2>2. ~Cli!JobActive(Seen) /\ ~Seen.evidence /\ Cli!GateOpen(Seen)
    BY <2>1 DEF active
  <2>3. \E st : Cli!Reply(Seen, SeenDev, st) \in Cli!Refreshed(Seen, SeenDev)
    <3>1. CASE Seen.retry
      BY <2>2, <3>1 DEF Cli!Refreshed
    <3>2. CASE ~Seen.retry
      <4>1. Cli!Reply(Seen, SeenDev, "FAILED") \in Cli!Probed(Seen, SeenDev)
        BY DEF Cli!Probed, Cli!Failed
      <4>2. Cli!Probed(Seen, SeenDev) \subseteq Cli!Refreshed(Seen, SeenDev)
        BY <2>2, <3>2 DEF Cli!Refreshed
      <4> QED BY <4>1, <4>2
    <3> QED BY <3>1, <3>2
  <2>4. PICK st : Cli!Reply(Seen, SeenDev, st) \in Cli!Refreshed(Seen, SeenDev)
    BY <2>3
  <2>5. Cli!Reply(SeenDriver(driver, job, last), SeenDevice(driver, device, unseen), st)
          \in Cli!Refreshed(Seen, SeenDev)
    BY <2>4 DEF Seen, SeenDev
  <2> HIDE DEF probes
  <2> QED BY <1>1, <1>9, <1>11, <2>5
<1> QED
  <2>1. IF probes
          THEN \/ \E hint \in Hints :
                    LET r == Refreshed(driver, hint)
                    IN  driver' = GivenUp(r.driver) /\ SetFlag(r.flag)
               \/ driver' = GivenUp(driver) /\ device' = device
          ELSE driver' = driver /\ device' = device
    BY <1>1 DEF Tick
  <2> HIDE DEF probes
  <2> QED BY <1>8, <1>10, <1>11, <2>1

\* A unit of time, for the gate, the retry and the job's deadline.
LEMMA AgedSeen ==
  ASSUME ConsoleScale, ViewInv, ViewInv', TimePasses, Remembers
  PROVE  Cli!TimePasses
<1>1. /\ driver \in Drivers /\ device \in Devices /\ job \in Jobs /\ last \in Statuses
      /\ driver' = Aged(driver, 1) /\ job' = AgedJob(job, 1) /\ device' = device
      /\ unseen' = unseen
      /\ Has(Seen, driver.mode, driver.started /\ driver.mode # "CONTINUOUS", driver.evidence,
             driver.retryAge < RetryInterval, SeenAge(driver), SeenJob(job), SeenLast(job, last))
  BY InView DEF TimePasses, ConsoleScale, ghosts
<1>2. /\ driver'.mode = driver.mode /\ driver'.started = driver.started
      /\ driver'.evidence = driver.evidence /\ driver'.baseline = driver.baseline
      /\ driver'.convAge = IF driver.started \/ driver.mode = "CONTINUOUS"
                             THEN Capped(driver.convAge + 1, ReadTimeout) ELSE 0
      /\ driver'.retryAge = Capped(driver.retryAge + 1, RetryInterval)
  BY <1>1 DEF Aged, Drivers
<1>3. /\ job'.kind = job.kind /\ job'.armed = job.armed
      /\ job'.age = IF job.armed THEN Capped(job.age + 1, ReadTimeout) ELSE 0
  BY <1>1 DEF AgedJob, Jobs
<1>4. SeenDev' = SeenDev
  BY <1>1, <1>2 DEF SeenDev, SeenDevice
<1>5. last' = last
  BY <1>3, LastKept
<1>6. /\ driver.convAge \in 0 .. ReadTimeout /\ driver.retryAge \in 0 .. 1 /\ RetryInterval = 1
      /\ job.age \in 0 .. ReadTimeout /\ ReadTimeout \in Nat /\ job.armed \in BOOLEAN
      /\ driver.started \in BOOLEAN
  BY <1>1, Times DEF Drivers, Jobs, Ages, ConsoleScale
<1> DEFINE a == IF (driver.started \/ driver.mode = "CONTINUOUS") /\ SeenAge(driver) < ReadTimeout
                  THEN SeenAge(driver) + 1 ELSE SeenAge(driver)
           k == SeenJob(job)
           j == IF k.kind = "READ" /\ k.left \in 1 .. ReadTimeout
                  THEN [k EXCEPT !.left = k.left + 1] ELSE k
<1>7. ~(driver'.retryAge < RetryInterval)
  BY <1>2, <1>6 DEF Capped
<1>8. SeenAge(driver') = a
  BY <1>2, <1>6 DEF SeenAge, Capped
<1>9. SeenJob(job') = j
  <2>1. CASE job.kind # "NONE" /\ job.armed
    <3>1. k = [kind |-> "READ", left |-> job.age + 1, to |-> "POWER_DOWN"]
      BY <2>1 DEF SeenJob
    <3>2. SeenJob(job') = [kind |-> "READ", left |-> Capped(job.age + 1, ReadTimeout) + 1,
                           to |-> "POWER_DOWN"]
      BY <1>3, <2>1 DEF SeenJob
    <3>3. k.left = job.age + 1 /\ k.kind = "READ"
      BY <3>1
    <3>4. CASE job.age < ReadTimeout
      <4>1. j = [kind |-> "READ", left |-> job.age + 1 + 1, to |-> "POWER_DOWN"]
        BY <1>6, <3>1, <3>3, <3>4
      <4>2. Capped(job.age + 1, ReadTimeout) = job.age + 1
        BY <1>6, <3>4 DEF Capped
      <4> QED BY <3>2, <4>1, <4>2
    <3>5. CASE ~(job.age < ReadTimeout)
      <4>1. j = k
        BY <1>6, <3>3, <3>5
      <4>2. Capped(job.age + 1, ReadTimeout) = job.age
        BY <1>6, <3>5 DEF Capped
      <4> QED BY <3>1, <3>2, <4>1, <4>2
    <3> QED BY <3>4, <3>5
  <2>2. CASE ~(job.kind # "NONE" /\ job.armed)
    <3>1. k.left = 0 /\ SeenJob(job') = k
      BY <1>3, <2>2 DEF SeenJob
    <3>2. j = k
      BY <1>6, <3>1
    <3> QED BY <3>1, <3>2
  <2> QED BY <2>1, <2>2
<1>10. SeenLast(job', last') = SeenLast(job, last)
  BY <1>3, <1>5 DEF SeenLast
<1>11. a \in 0 .. ReadTimeout /\ j \in Cli!Jobs
  BY <1>8, <1>9, InViewNext DEF Has, Cli!Drivers
<1> HIDE DEF a, j
<1>12. Has(Seen', driver.mode, driver.started /\ driver.mode # "CONTINUOUS", driver.evidence,
           FALSE, a, j, SeenLast(job, last))
  BY <1>2, <1>7, <1>8, <1>9, <1>10, InViewNext DEF Has
<1>13. Has(Cli!Aged(Seen), driver.mode, driver.started /\ driver.mode # "CONTINUOUS",
           driver.evidence, FALSE, a, j, SeenLast(job, last))
  <2> DEFINE s == Seen
  <2>1. /\ Cli!Converting(s) <=> driver.started \/ driver.mode = "CONTINUOUS"
        /\ s.age = SeenAge(driver) /\ s.job = k
    BY <1>1, CliGate DEF Seen, Has
  <2>2. Cli!Aged(s) = [s EXCEPT !.age = a, !.retry = FALSE, !.job = j]
    BY <2>1 DEF Cli!Aged, a, j
  <2> HIDE DEF s
  <2>3. Has([s EXCEPT !.age = a, !.retry = FALSE, !.job = j], driver.mode,
            driver.started /\ driver.mode # "CONTINUOUS", driver.evidence, FALSE, a, j,
            SeenLast(job, last))
    BY <1>1, <1>11 DEF Has, Cli!Drivers, s
  <2> QED BY <2>2, <2>3 DEF s
<1>14. Seen' = Cli!Aged(Seen)
  <2>1. Alike(Seen', Cli!Aged(Seen))
    BY <1>12, <1>13 DEF Has, Alike
  <2> QED BY <2>1, AlikeSame
<1> QED BY <1>4, <1>14 DEF Cli!TimePasses, Seen, SeenDev

\* A conversion ends; the counter tells it from the baseline.
LEMMA SmallRemainder ==
  ASSUME NEW n \in Nat, NEW m \in Nat \ {0}, n < m
  PROVE  n % m = n
  OBVIOUS

LEMMA ConvertedSeen ==
  ASSUME ConsoleScale, ViewInv, ViewInv', ConversionEnds, CounterTells, Remembers
  PROVE  Cli!ConversionEnds
<1>1. /\ driver \in Drivers /\ device \in Devices /\ job \in Jobs /\ last \in Statuses
      /\ driver' = driver /\ job' = job /\ unseen' = NextUnseen /\ unseen \in Nat
      /\ device.running # "IDLE"
      /\ device' = [device EXCEPT !.age = 0, !.flag = TRUE,
                      !.running = IF @ = "ONE_SHOT" THEN "IDLE" ELSE @]
      /\ Looks(SeenDev, device.running, Unread(driver, device, unseen))
  BY InView DEF ConversionEnds, Converted
<1>2. last' = last
  <2>1. job.kind = "NONE" \/ job'.kind # "NONE"
    BY <1>1
  <2> QED BY <2>1, LastKept
<1>3. Seen' = Seen
  BY <1>1, <1>2 DEF Seen
<1>4. device'.flag
      /\ device'.running = IF device.running = "ONE_SHOT" THEN "IDLE" ELSE device.running
  BY <1>1 DEF Devices
<1>5. Unread(driver', device', unseen')
  <2>1. CASE driver.baseline
    <3>1. unseen' < CounterModulo /\ CounterModulo \in Nat \ {0, 1}
      BY <1>1, <2>1, CounterAssumption DEF CounterTells
    <3>2. unseen' \in Nat /\ unseen' > 0
      BY <1>1, <3>1 DEF NextUnseen
    <3>3. unseen' % CounterModulo = unseen'
      BY <3>1, <3>2, SmallRemainder
    <3>4. unseen' % CounterModulo # 0
      BY <3>2, <3>3
    <3> QED BY <1>1, <2>1, <3>4 DEF Unread
  <2>2. CASE ~driver.baseline
    BY <1>1, <1>4, <2>2 DEF Unread
  <2> QED BY <2>1, <2>2
<1>6. Looks(Cli!Ended(SeenDev), IF device.running = "ONE_SHOT" THEN "IDLE" ELSE device.running,
            TRUE)
  BY <1>1, CliDevice
<1>7. Looks(SeenDev', IF device.running = "ONE_SHOT" THEN "IDLE" ELSE device.running,
            Unread(driver', device', unseen'))
  BY <1>4, InViewNext
<1>8. SeenDev' = Cli!Ended(SeenDev)
  BY <1>5, <1>6, <1>7, LooksSame
<1>9. SeenDev.running # "IDLE"
  BY <1>1 DEF Looks
<1> QED BY <1>3, <1>8, <1>9 DEF Cli!ConversionEnds, Seen, SeenDev

-----------------------------------------------------------------------------
(* The read jobs. *)

\* Finishing a job disarms the retry, armed or not.
LEMMA CliFinishedAgain ==
  ASSUME NEW x, NEW m, NEW s, NEW e, NEW r, NEW a, NEW j, NEW l, Has(x, m, s, e, r, a, j, l),
         NEW st
  PROVE  Cli!Finished([x EXCEPT !.retry = FALSE], st) = Cli!Finished(x, st)
<1> DEFINE y == [x EXCEPT !.retry = FALSE]
           k == IF st = "OK" THEN "OK" ELSE "FAILED"
<1>1. Has(y, m, s, e, FALSE, a, j, l)
  BY CliHelpers
<1> HIDE DEF y
<1>2. /\ Has(Cli!Finished(y, st), m, s, e, FALSE, a, Cli!IdleJob, k)
      /\ Has(Cli!Finished(x, st), m, s, e, FALSE, a, Cli!IdleJob, k)
  BY <1>1, CliFinished
<1> HIDE DEF k
<1>3. Alike(Cli!Finished(y, st), Cli!Finished(x, st))
  BY <1>2 DEF Has, Alike
<1>4. Cli!Finished(y, st) = Cli!Finished(x, st)
  BY <1>3, AlikeSame
<1> QED BY <1>4 DEF y

\* A job that ended with status st.
LEMMA SeenEnded ==
  ASSUME ConsoleScale, NEW d \in Drivers, NEW j \in Jobs, NEW old \in Statuses, NEW st
  PROVE  SeenDriver(Finished(d), IdleJob, IF st = "OK" THEN "OK" ELSE "FAILED")
           = Cli!Finished(SeenDriver(d, j, old), st)
<1> DEFINE l == IF st = "OK" THEN "OK" ELSE "FAILED"
           f == Finished(d)
           x == SeenDriver(f, IdleJob, l)
           y == Cli!Finished(SeenDriver(d, j, old), st)
<1>1. l \in Statuses /\ IdleJob \in Jobs /\ IdleJob.kind = "NONE" /\ ~IdleJob.armed
  BY RetryAges DEF Statuses, IdleJob, Jobs, JobKinds, JobSteps
<1>2. /\ f \in Drivers /\ f.mode = d.mode /\ f.evidence = d.evidence /\ f.started = d.started
      /\ f.convAge = d.convAge /\ ~(f.retryAge < RetryInterval)
  BY RetryAges DEF Finished, Drivers, ConsoleScale
<1>3. SeenJob(IdleJob) = Cli!IdleJob /\ SeenLast(IdleJob, l) = l
  BY <1>1 DEF SeenJob, SeenLast, Cli!IdleJob
<1> HIDE DEF l, f
<1>4. Has(x, d.mode, d.started /\ d.mode # "CONTINUOUS", d.evidence, FALSE, SeenAge(d),
          Cli!IdleJob, l)
  <2>1. Has(x, f.mode, f.started /\ f.mode # "CONTINUOUS", f.evidence,
            f.retryAge < RetryInterval, SeenAge(f), SeenJob(IdleJob), SeenLast(IdleJob, l))
    BY <1>1, <1>2, SeenHas
  <2>2. SeenAge(f) = SeenAge(d)
    BY <1>2 DEF SeenAge
  <2> HIDE DEF x
  <2> QED BY <1>2, <1>3, <2>1, <2>2 DEF Has
<1>5. Has(y, d.mode, d.started /\ d.mode # "CONTINUOUS", d.evidence, FALSE, SeenAge(d),
          Cli!IdleJob, l)
  BY SeenHas, CliFinished DEF l
<1> HIDE DEF x, y
<1>6. x = y
  <2>1. Alike(x, y)
    BY <1>4, <1>5 DEF Has, Alike
  <2> QED BY <2>1, AlikeSame
<1> QED BY <1>6 DEF x, y, l, f

\* The driver as a poll of its read job finds it.
Polled == SeenDriver(driver, PolledJob, last)

\* Its deadline is the console's.
LEMMA PolledSeen ==
  ASSUME ConsoleScale, ViewInv, job.kind # "NONE"
  PROVE  /\ PolledJob \in Jobs /\ PolledJob.kind = job.kind /\ PolledJob.step = job.step
         /\ PolledJob.armed
         /\ Polled = [Seen EXCEPT !.job.left = IF @ = 0 THEN 1 ELSE @]
         /\ Cli!ReadDeadlinePassed(Polled) <=> PolledJob.age >= ReadTimeout
         /\ Seen.job.kind = "READ"
<1>1. /\ job \in Jobs /\ driver \in Drivers /\ last \in Statuses /\ lag = 0
      /\ Has(Seen, driver.mode, driver.started /\ driver.mode # "CONTINUOUS", driver.evidence,
             driver.retryAge < RetryInterval, SeenAge(driver), SeenJob(job), SeenLast(job, last))
  BY InView
<1>2. PolledJob \in Jobs
  BY PolledJobType DEF ViewInv
<1>3. /\ PolledJob.kind = job.kind /\ PolledJob.step = job.step /\ PolledJob.armed
      /\ PolledJob.age = IF job.armed THEN job.age ELSE 0
  <2>1. /\ PolledJob.kind = job.kind /\ PolledJob.step = job.step /\ PolledJob.armed
        /\ PolledJob.age = IF job.armed THEN Capped(job.age, ReadTimeout) ELSE 0
    BY <1>1 DEF PolledJob, AgedJob, Jobs, Ages
  <2>2. Capped(job.age, ReadTimeout) = job.age
    BY <1>1, Times DEF Capped, Jobs, Ages
  <2> QED BY <2>1, <2>2
<1>4. /\ job.age \in Nat /\ ReadTimeout \in Nat /\ job.armed \in BOOLEAN
      /\ PolledJob.age \in Nat
  BY <1>1, <1>2, Times DEF Jobs, Ages
<1> DEFINE left == PolledJob.age + 1
           j == [kind |-> "READ", left |-> left, to |-> "POWER_DOWN"]
           a == [Seen EXCEPT !.job.left = IF @ = 0 THEN 1 ELSE @]
<1>5. SeenJob(PolledJob) = j
  BY <1>3 DEF SeenJob
<1>6. SeenJob(job) = [kind |-> "READ", left |-> IF job.armed THEN job.age + 1 ELSE 0,
                      to |-> "POWER_DOWN"]
  BY DEF SeenJob
<1>7. left = IF Seen.job.left = 0 THEN 1 ELSE Seen.job.left
  BY <1>1, <1>3, <1>4, <1>6 DEF Has
<1>8. a = [Seen EXCEPT !.job = j]
  <2>1. a = [Seen EXCEPT !.job = [Seen.job EXCEPT !.left = IF @ = 0 THEN 1 ELSE @]]
    OBVIOUS
  <2>2. [Seen.job EXCEPT !.left = IF @ = 0 THEN 1 ELSE @] = j
    <3>1. Seen.job = SeenJob(job)
      BY <1>1 DEF Has
    <3> HIDE DEF left
    <3> QED BY <1>6, <1>7, <3>1
  <2> QED BY <2>1, <2>2
<1>9. Has(Polled, driver.mode, driver.started /\ driver.mode # "CONTINUOUS", driver.evidence,
          driver.retryAge < RetryInterval, SeenAge(driver), j, "IN_PROGRESS")
      /\ j \in Cli!Jobs
  BY <1>1, <1>2, <1>3, <1>5, SeenHas DEF Polled, SeenLast
<1> HIDE DEF j
<1>10. Has([Seen EXCEPT !.job = j], driver.mode, driver.started /\ driver.mode # "CONTINUOUS",
           driver.evidence, driver.retryAge < RetryInterval, SeenAge(driver), j, "IN_PROGRESS")
  BY <1>1, <1>9 DEF Has, Cli!Drivers, SeenLast
<1>11. Polled = a
  <2>1. Alike(Polled, [Seen EXCEPT !.job = j])
    BY <1>9, <1>10 DEF Has, Alike
  <2> QED BY <1>8, <2>1, AlikeSame
<1>12. Polled.job.left = left
  BY <1>9 DEF Has, j
<1>13. Cli!ReadDeadlinePassed(Polled) <=> PolledJob.age >= ReadTimeout
  BY <1>4, <1>12 DEF Cli!ReadDeadlinePassed
<1>14. Seen.job.kind = "READ"
  BY <1>1, <1>6 DEF Has
<1> QED BY <1>2, <1>3, <1>11, <1>13, <1>14

\* What a poll may answer.
LEMMA PollReplies ==
  ASSUME ConsoleScale, ViewInv, job.kind # "NONE", NEW R
  PROVE  /\ PolledJob.age >= ReadTimeout
              /\ R \in Cli!JobEnds(Cli!Released(Polled), SeenDev, "FAILED")
              => R \in Cli!Replies(Seen, SeenDev)
         /\ \A r \in Cli!FrameRead(Polled, SeenDev) :
              PolledJob.age < ReadTimeout /\ driver.evidence /\ R \in Cli!JobEnds(r.d, r.v, r.st)
              => R \in Cli!Replies(Seen, SeenDev)
         /\ PolledJob.age < ReadTimeout /\ ~driver.evidence
              /\ (~RetryElapsed(driver, TRUE) \/ ~GateElapsed(driver, PolledJob.kind, TRUE))
              /\ R \in Cli!StillRunning(Polled, SeenDev)
              => R \in Cli!Replies(Seen, SeenDev)
         /\ \A r \in Cli!Probed(Polled, SeenDev) :
              PolledJob.age < ReadTimeout /\ ~driver.evidence
              /\ RetryElapsed(driver, TRUE) /\ GateElapsed(driver, PolledJob.kind, TRUE)
              /\ R \in (IF r.st = "OK" THEN Cli!StillRunning(r.d, r.v)
                        ELSE Cli!JobEnds(r.d, r.v, r.st))
              => R \in Cli!Replies(Seen, SeenDev)
<1>1. /\ PolledJob \in Jobs
      /\ Polled = [Seen EXCEPT !.job.left = IF @ = 0 THEN 1 ELSE @]
      /\ Cli!ReadDeadlinePassed(Polled) <=> PolledJob.age >= ReadTimeout
      /\ Seen.job.kind = "READ"
  BY PolledSeen
<1>2. driver \in Drivers /\ last \in Statuses
  BY InView
<1>3. /\ GateElapsed(driver, PolledJob.kind, TRUE) <=> Cli!GateOpen(Polled)
      /\ RetryElapsed(driver, TRUE) <=> ~Polled.retry
      /\ Polled.evidence = driver.evidence
  BY <1>1, <1>2, CliGate DEF Polled
<1>4. PolledJob.age >= ReadTimeout <=> ~(PolledJob.age < ReadTimeout)
  <2>1. PolledJob.age \in Nat /\ ReadTimeout \in Nat
    BY <1>1, Times DEF Jobs, Ages
  <2> QED BY <2>1
<1> DEFINE Ends(r) == Cli!JobEnds(r.d, r.v, r.st)
           Probes(r) == IF r.st = "OK" THEN Cli!StillRunning(r.d, r.v)
                        ELSE Cli!JobEnds(r.d, r.v, r.st)
           Frames == UNION {Ends(r) : r \in Cli!FrameRead(Polled, SeenDev)}
           Tries == UNION {Probes(r) : r \in Cli!Probed(Polled, SeenDev)}
<1>5. Cli!PollRead(Seen, SeenDev) =
        IF Cli!ReadDeadlinePassed(Polled)
        THEN Cli!JobEnds(Cli!Released(Polled), SeenDev, "FAILED")
        ELSE IF Polled.evidence THEN Frames
        ELSE IF Polled.retry \/ ~Cli!GateOpen(Polled) THEN Cli!StillRunning(Polled, SeenDev)
        ELSE Tries
  BY <1>1 DEF Cli!PollRead
<1>6. \A r \in Cli!FrameRead(Polled, SeenDev) : R \in Ends(r) => R \in Frames
  <2> HIDE DEF Ends
  <2> QED OBVIOUS
<1>7. \A r \in Cli!Probed(Polled, SeenDev) : R \in Probes(r) => R \in Tries
  <2> HIDE DEF Probes
  <2> QED OBVIOUS
<1> HIDE DEF Frames, Tries
<1>8. Cli!PollRead(Seen, SeenDev) \subseteq Cli!Replies(Seen, SeenDev)
  <2>1. Cli!Poll(Seen, SeenDev) = Cli!PollRead(Seen, SeenDev)
    BY <1>1 DEF Cli!Poll
  <2> QED BY <2>1, CallReplies
<1>9. \A r \in Cli!FrameRead(Polled, SeenDev) :
        PolledJob.age < ReadTimeout /\ driver.evidence /\ R \in Ends(r)
        => R \in Cli!Replies(Seen, SeenDev)
  <2> HIDE DEF Ends
  <2> QED BY <1>1, <1>3, <1>4, <1>5, <1>6, <1>8
<1>10. \A r \in Cli!Probed(Polled, SeenDev) :
         PolledJob.age < ReadTimeout /\ ~driver.evidence
         /\ RetryElapsed(driver, TRUE) /\ GateElapsed(driver, PolledJob.kind, TRUE)
         /\ R \in Probes(r)
         => R \in Cli!Replies(Seen, SeenDev)
  <2> HIDE DEF Probes
  <2> QED BY <1>1, <1>3, <1>4, <1>5, <1>7, <1>8
<1>11. PolledJob.age >= ReadTimeout
         /\ R \in Cli!JobEnds(Cli!Released(Polled), SeenDev, "FAILED")
       => R \in Cli!Replies(Seen, SeenDev)
  BY <1>1, <1>5, <1>8
<1>12. PolledJob.age < ReadTimeout /\ ~driver.evidence
         /\ (~RetryElapsed(driver, TRUE) \/ ~GateElapsed(driver, PolledJob.kind, TRUE))
         /\ R \in Cli!StillRunning(Polled, SeenDev)
       => R \in Cli!Replies(Seen, SeenDev)
  BY <1>1, <1>3, <1>4, <1>5, <1>8
<1> QED BY <1>9, <1>10, <1>11, <1>12

\* Where a poll gets, and why.
LEMMA PollReaches ==
  ASSUME ConsoleScale, ViewInv, job.kind # "NONE", NEW step, NextStep(driver, PolledJob) = step
  PROVE  /\ step = "READ_BURST_BLOCK" => driver.evidence
         /\ step \in {"READ_FLAGS", "READ_COUNTER"} =>
              /\ ~driver.evidence
              /\ RetryElapsed(driver, TRUE) /\ GateElapsed(driver, PolledJob.kind, TRUE)
              /\ driver.baseline <=> step = "READ_COUNTER"
         /\ step = "WAIT_READY" =>
              /\ ~driver.evidence
              /\ ~RetryElapsed(driver, TRUE) \/ ~GateElapsed(driver, PolledJob.kind, TRUE)
<1>1. PolledJob.step = job.step /\ driver.evidence \in BOOLEAN /\ driver.baseline \in BOOLEAN
  BY PolledSeen, InView DEF Drivers
<1>2. job.step \in {"WAIT_READY", "READ_BURST_BLOCK"}
      /\ (job.step = "READ_BURST_BLOCK" => driver.evidence)
  BY InView DEF ViewInv, ReadJobShape
<1> DEFINE gate == GateElapsed(driver, PolledJob.kind, TRUE)
<1>3. CASE job.step = "READ_BURST_BLOCK"
  <2>1. step = "READ_BURST_BLOCK"
    BY <1>1, <1>3 DEF NextStep
  <2> QED BY <1>2, <1>3, <2>1
<1>4. CASE job.step = "WAIT_READY" /\ driver.evidence
  <2>1. step = "READ_BURST_BLOCK"
    BY <1>1, <1>4 DEF NextStep, ConsoleScale
  <2> QED BY <1>4, <2>1
<1>5. CASE job.step = "WAIT_READY" /\ ~driver.evidence
  <2>1. step = IF ~RetryElapsed(driver, TRUE) \/ ~gate THEN "WAIT_READY"
               ELSE IF driver.baseline THEN "READ_COUNTER" ELSE "READ_FLAGS"
    BY <1>1, <1>5 DEF NextStep
  <2> HIDE DEF gate
  <2>2. /\ step = "READ_BURST_BLOCK" => FALSE
        /\ step \in {"READ_FLAGS", "READ_COUNTER"} =>
             RetryElapsed(driver, TRUE) /\ gate /\ (driver.baseline <=> step = "READ_COUNTER")
        /\ step = "WAIT_READY" => ~RetryElapsed(driver, TRUE) \/ ~gate
    BY <1>1, <2>1
  <2> QED BY <1>5, <2>2 DEF gate
<1> QED BY <1>1, <1>2, <1>3, <1>4, <1>5

\* A job that is over.
LEMMA EndAnswered ==
  ASSUME ConsoleScale, ViewInv, job.kind # "NONE", job' = IdleJob, Remembers,
         NEW d \in Drivers, driver' = Finished(d),
         NEW st, st = "OK" <=> result' \in {"SAMPLE", "FRAME"}
  PROVE  Seen' = Cli!Finished(SeenDriver(d, PolledJob, last), st)
<1>1. last' = IF st = "OK" THEN "OK" ELSE "FAILED"
  BY DEF Remembers, IdleJob
<1>2. PolledJob \in Jobs /\ last \in Statuses
  BY PolledSeen, InView
<1>3. SeenDriver(Finished(d), IdleJob, IF st = "OK" THEN "OK" ELSE "FAILED")
        = Cli!Finished(SeenDriver(d, PolledJob, last), st)
  BY <1>2, SeenEnded
<1> QED BY <1>1, <1>3 DEF Seen

\* The poll that finds the deadline over.
LEMMA TimeoutSeen ==
  ASSUME ConsoleScale, ViewInv, PollTimesOut, Remembers
  PROVE  Cli!Call
<1>1. /\ driver \in Drivers /\ Observed(driver) = driver /\ last \in Statuses
      /\ job.kind # "NONE" /\ PolledJob.age >= ReadTimeout /\ job' = IdleJob
      /\ driver' = Finished(Abandoned(driver)) /\ result' = "NONE"
      /\ device' = device /\ unseen' = unseen
  BY InView DEF PollTimesOut, Quiet, ghosts
<1>2. /\ Abandoned(driver) \in Drivers /\ driver'.baseline = driver.baseline
      /\ driver'.evidence = driver.evidence
  BY <1>1 DEF Abandoned, Finished, Drivers
<1>3. PolledJob \in Jobs
  BY <1>1, PolledSeen
<1>4. Seen' = Cli!Finished(Cli!Released(Polled), "FAILED")
  <2>1. Seen' = Cli!Finished(SeenDriver(Abandoned(driver), PolledJob, last), "FAILED")
    BY <1>1, <1>2, EndAnswered
  <2>2. SeenDriver(Abandoned(driver), PolledJob, last) = Cli!Released(Polled)
    BY <1>1, <1>3, SeenAbandoned DEF Polled
  <2> QED BY <2>1, <2>2
<1>5. SeenDev' = SeenDev
  BY <1>1, <1>2 DEF SeenDev, SeenDevice
<1> DEFINE R == Cli!Reply(Seen', SeenDev', "FAILED")
<1>6. R \in Cli!JobEnds(Cli!Released(Polled), SeenDev, "FAILED")
  BY <1>4, <1>5 DEF Cli!JobEnds
<1> HIDE DEF R
<1>7. R \in Cli!Replies(Seen, SeenDev)
  BY <1>1, <1>6, PollReplies
<1> QED BY <1>7, Answered DEF R

\* A job that goes on.
LEMMA StillSeen ==
  ASSUME ConsoleScale, ViewInv, job.kind # "NONE", Remembers, NEW step,
         job' = [PolledJob EXCEPT !.step = step], NEW d
  PROVE  /\ SeenDriver(d, job', last') = SeenDriver(d, PolledJob, last)
         /\ [SeenDriver(d, PolledJob, last) EXCEPT !.last = "IN_PROGRESS"]
              = SeenDriver(d, PolledJob, last)
<1>1. PolledJob \in Jobs /\ PolledJob.kind = job.kind
  BY PolledSeen
<1>2. /\ job'.kind = PolledJob.kind /\ job'.armed = PolledJob.armed /\ job'.age = PolledJob.age
  BY <1>1 DEF Jobs
<1>3. SeenJob(job') = SeenJob(PolledJob)
  BY <1>2 DEF SeenJob
<1>4. last' = last
  BY <1>1, <1>2, LastKept
<1>5. SeenDriver(d, job', last') = SeenDriver(d, PolledJob, last)
  <2>1. job'.kind = "NONE" <=> PolledJob.kind = "NONE"
    BY <1>2
  <2> QED BY <1>3, <1>4, <2>1 DEF SeenDriver
<1>6. [SeenDriver(d, PolledJob, last) EXCEPT !.last = "IN_PROGRESS"]
        = SeenDriver(d, PolledJob, last)
  BY <1>1 DEF SeenDriver
<1> QED BY <1>5, <1>6

\* A poll that waits, for the gate or for the retry.
LEMMA WaitSeen ==
  ASSUME ConsoleScale, ViewInv, PollWaits, PollMayTransfer, Remembers
  PROVE  Cli!Call
<1>1. /\ driver \in Drivers /\ Observed(driver) = driver
      /\ job.kind # "NONE" /\ PolledJob.age < ReadTimeout
      /\ driver' = driver /\ device' = device /\ unseen' = unseen
      /\ job' = [PolledJob EXCEPT !.step = NextStep(driver, PolledJob)]
  BY InView DEF PollWaits, Quiet, ghosts
<1>2. PolledJob \in Jobs
  BY <1>1, PolledSeen
<1>3. NextStep(driver, PolledJob) = "WAIT_READY"
  <2> DEFINE n == NextStep(driver, PolledJob)
  <2>1. job'.step = "WAIT_READY"
    BY DEF PollMayTransfer
  <2>2. job'.step = n
    <3> HIDE DEF n
    <3>1. job' = [PolledJob EXCEPT !.step = n]
      BY <1>1 DEF n
    <3> QED BY <1>2, <3>1 DEF Jobs
  <2> QED BY <2>1, <2>2
<1>4. /\ ~driver.evidence
      /\ ~RetryElapsed(driver, TRUE) \/ ~GateElapsed(driver, PolledJob.kind, TRUE)
  BY <1>1, <1>3, PollReaches
<1>5. Seen' = Polled /\ [Polled EXCEPT !.last = "IN_PROGRESS"] = Polled
  BY <1>1, StillSeen DEF Seen, Polled
<1>6. SeenDev' = SeenDev
  BY <1>1 DEF SeenDev
<1> DEFINE R == Cli!Reply(Seen', SeenDev', "IN_PROGRESS")
<1>7. R \in Cli!StillRunning(Polled, SeenDev)
  BY <1>5, <1>6 DEF Cli!StillRunning
<1> HIDE DEF R
<1>8. R \in Cli!Replies(Seen, SeenDev)
  BY <1>1, <1>4, <1>7, PollReplies
<1> QED BY <1>8, Answered DEF R

\* A probe of a job.
LEMMA ProbeSeen ==
  ASSUME ConsoleScale, ViewInv, job.kind # "NONE", PolledJob.age < ReadTimeout, Remembers,
         NEW step \in {"READ_FLAGS", "READ_COUNTER"}, NextStep(driver, PolledJob) = step,
         NEW found \in BOOLEAN, NEW f \in BOOLEAN, Found(driver, found),
         device' = [device EXCEPT !.flag = f], unseen' = unseen,
         \/ step = "READ_COUNTER" /\ (found <=> unseen % CounterModulo # 0)
         \/ step = "READ_FLAGS" /\ (found <=> device.flag) /\ f = FALSE
  PROVE  Cli!Call
<1>1. driver \in Drivers /\ device \in Devices /\ last \in Statuses /\ PolledJob \in Jobs
  BY InView, PolledSeen
<1>2. /\ ~driver.evidence
      /\ RetryElapsed(driver, TRUE) /\ GateElapsed(driver, PolledJob.kind, TRUE)
      /\ driver.baseline <=> step = "READ_COUNTER"
  BY PollReaches
<1>3. /\ driver' = Probed(driver, found)
      /\ job' = [PolledJob EXCEPT !.step = IF found THEN "READ_BURST_BLOCK" ELSE "WAIT_READY"]
  BY DEF Found
<1> DEFINE s == SeenDriver(Probed(driver, found), PolledJob, last)
           v == SeenDevice(Probed(driver, found), [device EXCEPT !.flag = f], unseen)
           q == Cli!Reply(s, v, "OK")
<1>4. q \in Cli!Probed(Polled, SeenDev)
  <2>1. \/ driver.baseline /\ (found <=> unseen % CounterModulo # 0)
        \/ ~driver.baseline /\ (found <=> device.flag) /\ f = FALSE
    BY <1>2
  <2> QED BY <1>1, <1>2, <2>1, SeenProbe DEF Polled, SeenDev
<1>5. Seen' = s /\ [s EXCEPT !.last = "IN_PROGRESS"] = s
  BY <1>3, StillSeen DEF Seen
<1>6. SeenDev' = v
  BY <1>3 DEF SeenDev
<1> HIDE DEF s, v
<1>7. q.d = s /\ q.v = v /\ q.st = "OK"
  BY DEF Cli!Reply
<1> DEFINE R == Cli!Reply(Seen', SeenDev', "IN_PROGRESS")
<1>8. R \in Cli!StillRunning(s, v)
  BY <1>5, <1>6 DEF Cli!StillRunning
<1> HIDE DEF R, q
<1>9. R \in Cli!Replies(Seen, SeenDev)
  BY <1>2, <1>4, <1>7, <1>8, PollReplies
<1> QED BY <1>9, Answered DEF R

\* FLAGS without a baseline, the counter with one.
LEMMA PollProbesSeen ==
  ASSUME ConsoleScale, ViewInv, PollReadsFlags \/ PollReadsCounter, Remembers
  PROVE  Cli!Call
<1>1. driver \in Drivers /\ device \in Devices /\ Observed(driver) = driver
  BY InView
<1>2. device.flag \in BOOLEAN /\ [device EXCEPT !.flag = device.flag] = device
  BY <1>1 DEF Devices
<1>3. CASE PollReadsFlags
  <2>1. /\ job.kind # "NONE" /\ PolledJob.age < ReadTimeout
        /\ NextStep(driver, PolledJob) = "READ_FLAGS" /\ Found(driver, device.flag)
        /\ device' = [device EXCEPT !.flag = FALSE] /\ unseen' = unseen
    BY <1>1, <1>3 DEF PollReadsFlags, Polling, SetFlag, Quiet, ghosts
  <2> DEFINE step == "READ_FLAGS"
  <2>2. step \in {"READ_FLAGS", "READ_COUNTER"} /\ FALSE \in BOOLEAN
    OBVIOUS
  <2> QED BY <1>2, <2>1, <2>2, ProbeSeen
<1>4. CASE PollReadsCounter
  <2>1. /\ job.kind # "NONE" /\ PolledJob.age < ReadTimeout
        /\ NextStep(driver, PolledJob) = "READ_COUNTER" /\ Found(driver, CounterFresh(driver))
        /\ device' = device /\ unseen' = unseen
    BY <1>1, <1>4 DEF PollReadsCounter, Polling, Quiet, ghosts
  <2>2. driver.baseline
    BY <2>1, PollReaches
  <2>3. CounterFresh(driver) \in BOOLEAN /\ (CounterFresh(driver) <=> unseen % CounterModulo # 0)
    BY <2>2 DEF CounterFresh
  <2> QED BY <1>2, <2>1, <2>3, ProbeSeen
<1> QED BY <1>3, <1>4

\* The block of a job: its retry is disarmed with the job, not before it.
LEMMA CliFrameRetried ==
  ASSUME NEW x, NEW m, NEW s, NEW e, NEW r, NEW a, NEW j, NEW l, Has(x, m, s, e, r, a, j, l),
         NEW v, NEW q \in Cli!FrameRead([x EXCEPT !.retry = FALSE], v)
  PROVE  \E p \in Cli!FrameRead(x, v) :
           /\ p.v = q.v /\ p.st = q.st
           /\ Cli!Finished(p.d, p.st) = Cli!Finished(q.d, q.st)
<1> DEFINE y == [x EXCEPT !.retry = FALSE]
           read == [v EXCEPT !.unread = FALSE]
<1>1. Has(y, m, s, e, FALSE, a, j, l)
  BY CliHelpers
<1>2. \A st : Cli!Finished(y, st) = Cli!Finished(x, st)
  BY CliFinishedAgain
<1> HIDE DEF y
<1>3. \A st : Cli!Finished(Cli!Consumed(y), st) = Cli!Finished(Cli!Consumed(x), st)
  <2> TAKE st
  <2> DEFINE cx == Cli!Consumed(x)
             cy == Cli!Consumed(y)
             k == IF st = "OK" THEN "OK" ELSE "FAILED"
  <2>1. Has(cx, m, FALSE, FALSE, r, 0, j, l) /\ Has(cy, m, FALSE, FALSE, FALSE, 0, j, l)
    BY <1>1, CliConsumed
  <2> HIDE DEF cx, cy
  <2>2. /\ Has(Cli!Finished(cx, st), m, FALSE, FALSE, FALSE, 0, Cli!IdleJob, k)
        /\ Has(Cli!Finished(cy, st), m, FALSE, FALSE, FALSE, 0, Cli!IdleJob, k)
    BY <2>1, CliFinished
  <2> HIDE DEF k
  <2>3. Alike(Cli!Finished(cx, st), Cli!Finished(cy, st))
    BY <2>2 DEF Has, Alike
  <2>4. Cli!Finished(cx, st) = Cli!Finished(cy, st)
    BY <2>3, AlikeSame
  <2> QED BY <2>4 DEF cx, cy
<1>4. \A st : Cli!Finished([y EXCEPT !.evidence = FALSE], st)
              = Cli!Finished([x EXCEPT !.evidence = FALSE], st)
  <2> TAKE st
  <2> DEFINE cx == [x EXCEPT !.evidence = FALSE]
             cy == [y EXCEPT !.evidence = FALSE]
             k == IF st = "OK" THEN "OK" ELSE "FAILED"
  <2>1. Has(cx, m, s, FALSE, r, a, j, l) /\ Has(cy, m, s, FALSE, FALSE, a, j, l)
    BY <1>1, CliHelpers
  <2> HIDE DEF cx, cy
  <2>2. /\ Has(Cli!Finished(cx, st), m, s, FALSE, FALSE, a, Cli!IdleJob, k)
        /\ Has(Cli!Finished(cy, st), m, s, FALSE, FALSE, a, Cli!IdleJob, k)
    BY <2>1, CliFinished
  <2> HIDE DEF k
  <2>3. Alike(Cli!Finished(cx, st), Cli!Finished(cy, st))
    BY <2>2 DEF Has, Alike
  <2>4. Cli!Finished(cx, st) = Cli!Finished(cy, st)
    BY <2>3, AlikeSame
  <2> QED BY <2>4 DEF cx, cy
<1> HIDE DEF read
<1>5. \/ q = Cli!Reply(y, v, "FAILED")
      \/ \E w \in {v, read} : q = Cli!Reply(Cli!Consumed(y), w, "WARN")
      \/ v.unread /\ q = Cli!Reply(Cli!Consumed(y), read, "OK")
      \/ ~v.unread /\ q = Cli!Reply([y EXCEPT !.evidence = FALSE], v, "NOT_READY")
  <2>1. q \in Cli!FrameRead(y, v)
    BY DEF y
  <2> QED BY <2>1 DEF Cli!FrameRead, Cli!Failed, read
<1>6. /\ Cli!Reply(x, v, "FAILED") \in Cli!FrameRead(x, v)
      /\ \A w \in {v, read} : Cli!Reply(Cli!Consumed(x), w, "WARN") \in Cli!FrameRead(x, v)
      /\ v.unread => Cli!Reply(Cli!Consumed(x), read, "OK") \in Cli!FrameRead(x, v)
      /\ ~v.unread => Cli!Reply([x EXCEPT !.evidence = FALSE], v, "NOT_READY")
                        \in Cli!FrameRead(x, v)
  BY DEF Cli!FrameRead, Cli!Failed, read
<1>7. ASSUME NEW c, NEW d, NEW w, NEW st, q = Cli!Reply(c, w, st),
             Cli!Reply(d, w, st) \in Cli!FrameRead(x, v),
             Cli!Finished(c, st) = Cli!Finished(d, st)
      PROVE  \E p \in Cli!FrameRead(x, v) :
               /\ p.v = q.v /\ p.st = q.st
               /\ Cli!Finished(p.d, p.st) = Cli!Finished(q.d, q.st)
  <2> DEFINE p == Cli!Reply(d, w, st)
  <2>1. p.v = w /\ p.st = st /\ p.d = d /\ q.v = w /\ q.st = st /\ q.d = c
    BY <1>7 DEF Cli!Reply
  <2>2. p \in Cli!FrameRead(x, v)
    BY <1>7
  <2> HIDE DEF p
  <2> QED BY <1>7, <2>1, <2>2
<1>8. CASE q = Cli!Reply(y, v, "FAILED")
  BY <1>2, <1>6, <1>7, <1>8
<1>9. CASE \E w \in {v, read} : q = Cli!Reply(Cli!Consumed(y), w, "WARN")
  <2>1. PICK w \in {v, read} : q = Cli!Reply(Cli!Consumed(y), w, "WARN")
    BY <1>9
  <2>2. Cli!Reply(Cli!Consumed(x), w, "WARN") \in Cli!FrameRead(x, v)
    BY <1>6
  <2> QED BY <1>3, <1>7, <2>1, <2>2
<1>10. CASE v.unread /\ q = Cli!Reply(Cli!Consumed(y), read, "OK")
  BY <1>3, <1>6, <1>7, <1>10
<1>11. CASE ~v.unread /\ q = Cli!Reply([y EXCEPT !.evidence = FALSE], v, "NOT_READY")
  BY <1>4, <1>6, <1>7, <1>11
<1> QED BY <1>5, <1>8, <1>9, <1>10, <1>11

\* The poll that reads the block, the one that fails, and the two ends of a job
\* that its owner decides about.
LEMMA BlockSeen ==
  ASSUME ConsoleScale, ViewInv, ViewInv', PollReadsBlock, Remembers
  PROVE  Cli!Call
<1> DEFINE what == IF job.kind = "READ_BURST" THEN "FRAME" ELSE "SAMPLE"
           d == Finished(driver)
<1>1. /\ driver \in Drivers /\ Observed(driver) = driver /\ device \in Devices
      /\ last \in Statuses /\ unseen \in Nat
      /\ job.kind # "NONE" /\ PolledJob.age < ReadTimeout
      /\ NextStep(driver, PolledJob) = "READ_BURST_BLOCK"
      /\ job' = IdleJob /\ device' = device /\ Arrives(d, what)
  BY InView DEF PollReadsBlock, Polling
<1>2. /\ PolledJob \in Jobs /\ driver.evidence
      /\ Has(Polled, driver.mode, driver.started /\ driver.mode # "CONTINUOUS", driver.evidence,
             driver.retryAge < RetryInterval, SeenAge(driver), SeenJob(PolledJob),
             SeenLast(PolledJob, last))
  BY <1>1, PolledSeen, PollReaches, SeenHas DEF Polled
<1>3. /\ d \in Drivers /\ d.evidence /\ d.baseline = driver.baseline
      /\ d.retryAge = RetryInterval /\ driver.evidence = d.evidence
  BY <1>1, <1>2, RetryAges DEF Finished, Drivers
<1>4. /\ SeenDriver(d, PolledJob, last) = [Polled EXCEPT !.retry = FALSE]
      /\ SeenDevice(d, device', unseen) = SeenDev
  <2>1. SeenDriver(d, PolledJob, last) = [Polled EXCEPT !.retry = FALSE]
    BY <1>1, <1>2, SeenRetries DEF Polled, ConsoleScale
  <2>2. SeenDevice(d, device', unseen) = SeenDev
    BY <1>1, <1>3 DEF SeenDev, SeenDevice
  <2> QED BY <2>1, <2>2
<1>5. what \in {"SAMPLE", "FRAME"}
  OBVIOUS
<1> HIDE DEF d, what
<1>6. driver' \in Drivers /\ driver'.retryAge = RetryInterval
  <2>1. PICK trusted \in BOOLEAN : driver' = NoEvidence(d) \/ driver' = Consumed(d, trusted)
    BY <1>1 DEF Arrives, Trusts, Deliver
  <2> QED BY <1>3, <2>1, RetryAges DEF NoEvidence, Consumed, Drivers
<1>7. driver' = Finished(driver')
  <2> DEFINE e == driver'
  <2>1. e \in Drivers /\ e.retryAge = RetryInterval
    BY <1>6
  <2> HIDE DEF e
  <2>2. e = Finished(e)
    BY <2>1 DEF Finished, Drivers
  <2> QED BY <2>2 DEF e
<1>8. PICK status \in {"OK", "WARN", "NOT_READY"} :
        /\ Cli!Reply(SeenDriver(driver', PolledJob, last),
                     SeenDevice(driver', device', unseen'), status)
             \in Cli!FrameRead(SeenDriver(d, PolledJob, last), SeenDevice(d, device', unseen))
        /\ status = "OK" <=> result' \in {"SAMPLE", "FRAME"}
  BY <1>1, <1>2, <1>3, <1>5, SeenArrives
<1> DEFINE s == SeenDriver(driver', PolledJob, last)
           q == Cli!Reply(s, SeenDev', status)
           R == Cli!Reply(Seen', SeenDev', status)
<1>9. Seen' = Cli!Finished(s, status)
  BY <1>1, <1>6, <1>7, <1>8, EndAnswered
<1>10. q \in Cli!FrameRead([Polled EXCEPT !.retry = FALSE], SeenDev)
  BY <1>4, <1>8 DEF SeenDev
<1> HIDE DEF s
<1>11. q.d = s /\ q.v = SeenDev' /\ q.st = status
  BY DEF Cli!Reply
<1> HIDE DEF q
<1>12. PICK p \in Cli!FrameRead(Polled, SeenDev) :
         /\ p.v = q.v /\ p.st = q.st
         /\ Cli!Finished(p.d, p.st) = Cli!Finished(q.d, q.st)
  <2> DEFINE started == driver.started /\ driver.mode # "CONTINUOUS"
             retry == driver.retryAge < RetryInterval
  <2>1. Has(Polled, driver.mode, started, driver.evidence, retry, SeenAge(driver),
            SeenJob(PolledJob), SeenLast(PolledJob, last))
    BY <1>2
  <2> HIDE DEF started, retry
  <2> QED BY <1>10, <2>1, CliFrameRetried
<1>13. R \in Cli!JobEnds(p.d, p.v, p.st)
  BY <1>9, <1>11, <1>12 DEF Cli!JobEnds
<1> HIDE DEF R
<1>14. R \in Cli!Replies(Seen, SeenDev)
  BY <1>1, <1>2, <1>12, <1>13, PollReplies
<1> QED BY <1>14, Answered DEF R

LEMMA PollFailsSeen ==
  ASSUME ConsoleScale, ViewInv, PollFails, Remembers
  PROVE  Cli!Call
<1>1. PICK step \in {"READ_FLAGS", "READ_COUNTER", "READ_BURST_BLOCK"} : Polling(step)
  BY DEF PollFails
<1>2. /\ driver \in Drivers /\ Observed(driver) = driver
      /\ job.kind # "NONE" /\ PolledJob.age < ReadTimeout
      /\ NextStep(driver, PolledJob) = step
      /\ driver' = Finished(driver) /\ job' = IdleJob /\ result' = "NONE"
      /\ device' = device /\ unseen' = unseen
  BY <1>1, InView DEF PollFails, Polling, Quiet, ghosts
<1>3. Seen' = Cli!Finished(Polled, "FAILED")
  BY <1>2, EndAnswered DEF Polled
<1>4. SeenDev' = SeenDev
  BY <1>2 DEF SeenDev, SeenDevice, Finished, Drivers
<1> DEFINE R == Cli!Reply(Seen', SeenDev', "FAILED")
           q == Cli!Reply(Polled, SeenDev, "FAILED")
<1>5. q.d = Polled /\ q.v = SeenDev /\ q.st = "FAILED"
  BY DEF Cli!Reply
<1>6. q \in Cli!FrameRead(Polled, SeenDev) /\ q \in Cli!Probed(Polled, SeenDev)
  BY DEF Cli!FrameRead, Cli!Probed, Cli!Failed
<1> HIDE DEF q
<1>7. R \in Cli!JobEnds(q.d, q.v, q.st)
  BY <1>3, <1>4, <1>5 DEF Cli!JobEnds
<1> HIDE DEF R
<1>8. R \in Cli!Replies(Seen, SeenDev)
  <2>1. CASE step = "READ_BURST_BLOCK"
    <3>1. driver.evidence
      BY <1>2, <2>1, PollReaches
    <3> QED BY <1>2, <1>6, <1>7, <3>1, PollReplies
  <2>2. CASE step \in {"READ_FLAGS", "READ_COUNTER"}
    <3>1. /\ ~driver.evidence
          /\ RetryElapsed(driver, TRUE) /\ GateElapsed(driver, PolledJob.kind, TRUE)
      BY <1>2, <2>2, PollReaches
    <3> QED BY <1>2, <1>5, <1>6, <1>7, <3>1, PollReplies
  <2> QED BY <2>1, <2>2
<1> QED BY <1>8, Answered DEF R

LEMMA StartReadSeen ==
  ASSUME ConsoleScale, ViewInv, ViewInv', StartRead, Remembers
  PROVE  Cli!Call
<1>1. /\ driver \in Drivers /\ job \in Jobs /\ last \in Statuses
      /\ job.kind = "NONE" /\ (driver.mode = "CONTINUOUS" \/ driver.started \/ driver.evidence)
      /\ driver' = Finished(driver) /\ device' = device /\ unseen' = unseen
      /\ Has(Seen, driver.mode, driver.started /\ driver.mode # "CONTINUOUS", driver.evidence,
             driver.retryAge < RetryInterval, SeenAge(driver), SeenJob(job), SeenLast(job, last))
  BY InView DEF StartRead, Finished, Quiet, ghosts
<1>2. PICK kind \in {"READ_SAMPLE", "READ_BURST"} : job' = Started(kind)
  BY DEF StartRead
<1>3. job'.kind # "NONE" /\ ~job'.armed
  BY <1>2 DEF Started
<1>4. /\ Seen.phase = "READY" /\ ~Cli!JobActive(Seen)
      /\ Cli!Converting(Seen) \/ Seen.evidence
  BY <1>1, CliGate DEF Seen
<1>5. /\ driver'.mode = driver.mode /\ driver'.evidence = driver.evidence
      /\ driver'.started = driver.started /\ driver'.convAge = driver.convAge
      /\ driver'.baseline = driver.baseline /\ ~(driver'.retryAge < RetryInterval)
  BY <1>1, RetryAges DEF Finished, Drivers, ConsoleScale
<1> DEFINE j == [kind |-> "READ", left |-> 0, to |-> "POWER_DOWN"]
           e == [Seen EXCEPT !.retry = FALSE]
           w == [e EXCEPT !.job = j, !.last = "IN_PROGRESS"]
<1>6. SeenJob(job') = j /\ SeenLast(job', last') = "IN_PROGRESS"
  BY <1>3 DEF SeenJob, SeenLast
<1>7. j \in Cli!Jobs
  BY <1>6, InViewNext DEF Has, Cli!Drivers
<1>8. SeenAge(driver') = SeenAge(driver)
  BY <1>5 DEF SeenAge
<1>9. Has(e, driver.mode, driver.started /\ driver.mode # "CONTINUOUS", driver.evidence, FALSE,
          SeenAge(driver), SeenJob(job), SeenLast(job, last))
  BY <1>1, CliHelpers
<1> HIDE DEF e, j
<1>10. Has(w, driver.mode, driver.started /\ driver.mode # "CONTINUOUS", driver.evidence, FALSE,
           SeenAge(driver), j, "IN_PROGRESS")
  BY <1>7, <1>9 DEF Has, Cli!Drivers
<1>11. Has(Seen', driver.mode, driver.started /\ driver.mode # "CONTINUOUS", driver.evidence,
           FALSE, SeenAge(driver), j, "IN_PROGRESS")
  BY <1>5, <1>6, <1>8, InViewNext DEF Has
<1>12. Seen' = w
  <2> HIDE DEF w
  <2>1. Alike(Seen', w)
    BY <1>10, <1>11 DEF Has, Alike
  <2> QED BY <2>1, AlikeSame
<1>13. SeenDev' = SeenDev
  BY <1>1, <1>5 DEF SeenDev, SeenDevice
<1> DEFINE R == Cli!Reply(Seen', SeenDev', "IN_PROGRESS")
           J == Cli!WithJob(e, "READ", 0, "POWER_DOWN")
<1>14. J = {w}
  BY DEF Cli!WithJob, j
<1>15. R \in {Cli!Reply(x, SeenDev, "IN_PROGRESS") : x \in J}
  <2> HIDE DEF w, J
  <2> QED BY <1>12, <1>13, <1>14
<1>16. R \in Cli!StartRead(Seen, SeenDev)
  <2>1. Cli!StartRead(Seen, SeenDev) = Cli!Failed(Seen, SeenDev)
          \cup {Cli!Reply(x, SeenDev, "IN_PROGRESS") : x \in J}
    BY <1>4 DEF Cli!StartRead, Cli!StartJob, e
  <2> HIDE DEF R, J
  <2> QED BY <1>15, <2>1
<1> HIDE DEF R
<1>17. R \in Cli!Replies(Seen, SeenDev)
  BY <1>16, CallReplies
<1> QED BY <1>17, Answered DEF R

LEMMA CancelSeen ==
  ASSUME ConsoleScale, ViewInv, ViewInv', CancelPollJob, Remembers
  PROVE  Cli!Call
<1>1. /\ driver \in Drivers /\ job \in Jobs /\ last \in Statuses
      /\ job.kind # "NONE" /\ job' = IdleJob /\ result' = "NONE"
      /\ driver' = Finished(driver) /\ device' = device /\ unseen' = unseen
  BY InView DEF CancelPollJob, Finished, Quiet, ghosts
<1>2. last' = "FAILED"
  BY <1>1 DEF Remembers, IdleJob
<1>3. Seen' = Cli!Finished(Seen, "FAILED")
  BY <1>1, <1>2, SeenEnded DEF Seen
<1>4. SeenDev' = SeenDev
  BY <1>1 DEF SeenDev, SeenDevice, Finished, Drivers
<1>5. Seen.job.kind = "READ"
  BY <1>1, PolledSeen
<1> DEFINE R == Cli!Reply(Seen', SeenDev', "FAILED")
<1>6. R \in Cli!CancelJob(Seen, SeenDev)
  BY <1>3, <1>4, <1>5 DEF Cli!CancelJob, Cli!JobEnds, Cli!JobActive, Cli!ResetApplied
<1> HIDE DEF R
<1>7. R \in Cli!Replies(Seen, SeenDev)
  BY <1>6, CallReplies
<1> QED BY <1>7, Answered DEF R

-----------------------------------------------------------------------------

\* The beginning and every step.
LEMMA ViewInitSeen ==
  ASSUME ConsoleScale, ViewInit
  PROVE  Cli!Init
<1>1. PICK m \in StableModes, f \in BOOLEAN :
        /\ driver = [mode |-> m, evidence |-> FALSE, started |-> m = "CONTINUOUS",
                     baseline |-> FALSE, convAge |-> 0, retryAge |-> RetryInterval]
        /\ job = IdleJob
        /\ device = [running |-> IF m = "CONTINUOUS" THEN m ELSE "IDLE", age |-> 0, flag |-> f]
  BY DEF ViewInit, Init
<1>2. ViewInv /\ last = "OK"
  BY ViewInitInv DEF ViewInit
<1>3. /\ Has(Seen, driver.mode, driver.started /\ driver.mode # "CONTINUOUS", driver.evidence,
             driver.retryAge < RetryInterval, SeenAge(driver), SeenJob(job), SeenLast(job, last))
      /\ Looks(SeenDev, device.running, Unread(driver, device, unseen))
  BY <1>2, InView
<1>4. SeenJob(job) = Cli!IdleJob /\ SeenLast(job, last) = "OK"
  BY <1>1, <1>2 DEF SeenJob, SeenLast, Cli!IdleJob, IdleJob
<1>5. /\ driver.mode = m /\ ~(driver.started /\ driver.mode # "CONTINUOUS") /\ ~driver.evidence
      /\ ~(driver.retryAge < RetryInterval) /\ SeenAge(driver) = 0 /\ ~driver.baseline
  <2>1. ~(RetryInterval < RetryInterval)
    BY DEF ConsoleScale
  <2> QED BY <1>1, <2>1 DEF SeenAge
<1>6. m \in Cli!StableModes
  BY DEF StableModes, Cli!StableModes
<1> DEFINE x == Cli!Fresh("READY", m)
<1>7. Has(Seen, m, FALSE, FALSE, FALSE, 0, Cli!IdleJob, "OK")
  BY <1>3, <1>4, <1>5 DEF Has
<1>8. Has(x, m, FALSE, FALSE, FALSE, 0, Cli!IdleJob, "OK")
  <2>1. Cli!IdleJob \in Cli!Jobs
    BY <1>7 DEF Has, Cli!Drivers
  <2> QED BY <1>6, <2>1, ZeroAge DEF Has, Cli!Fresh, Cli!Drivers
<1> HIDE DEF x
<1>9. Seen = x
  <2>1. Alike(Seen, x)
    BY <1>7, <1>8 DEF Has, Alike
  <2> QED BY <2>1, AlikeSame
<1>10. Seen \in {Cli!Fresh("READY", n) : n \in Cli!StableModes}
  BY <1>6, <1>9 DEF x
<1>11. Seen.mode = m
  BY <1>7 DEF Has
<1>12. SeenDev \in {[running |-> IF Seen.mode = "CONTINUOUS" THEN Seen.mode ELSE "IDLE",
                     unread |-> u] : u \in BOOLEAN}
  <2> DEFINE r == IF Seen.mode = "CONTINUOUS" THEN Seen.mode ELSE "IDLE"
  <2>1. SeenDev = [running |-> r, unread |-> f]
    BY <1>1, <1>11 DEF SeenDev, SeenDevice
  <2> HIDE DEF r
  <2>2. SeenDev \in {[running |-> r, unread |-> u] : u \in BOOLEAN}
    BY <2>1
  <2> QED BY <2>2 DEF r
<1> QED BY <1>10, <1>12 DEF Cli!Init, Seen, SeenDev

LEMMA ViewStepSeen ==
  ASSUME ConsoleScale, ViewInv, ViewInv', [ViewNext]_viewVars
  PROVE  [Cli!Next]_<<Seen, SeenDev>>
<1>1. CASE UNCHANGED viewVars
  BY <1>1 DEF viewVars, vars, Seen, SeenDev
<1>2. CASE ViewNext
  <2>1. Remembers /\ CounterTells /\ PollMayTransfer
    BY <1>2 DEF ViewNext
  <2>2. CASE StartConversion \/ StartConversionFails \/ WriteConfiguration
    BY <2>1, <2>2, StartSeen, StartFailsSeen, WriteSeen DEF Cli!Next
  <2>3. CASE ApplyConfig \/ ResetAndReapply \/ RecoverFails
    BY <2>1, <2>3, ApplicationsSeen, RecoverFailsSeen DEF Cli!Next
  <2>4. CASE ConversionReady \/ ReadFresh \/ ReadFlags \/ ClearFlags \/ Tick
    BY <2>1, <2>4, ReadySeen, ReadFreshSeen, ReadFlagsSeen, ClearFlagsSeen, TickSeen
       DEF Cli!Next
  <2>5. CASE StartRead \/ CancelPollJob \/ PollTimesOut \/ PollWaits
    BY <2>1, <2>5, StartReadSeen, CancelSeen, TimeoutSeen, WaitSeen DEF Cli!Next
  <2>6. CASE PollReadsFlags \/ PollReadsCounter \/ PollReadsBlock \/ PollFails
    BY <2>1, <2>6, PollProbesSeen, BlockSeen, PollFailsSeen DEF Cli!Next
  <2>7. CASE ConversionEnds \/ TimePasses
    BY <2>1, <2>7, ConvertedSeen, AgedSeen DEF Cli!Next
  <2> QED BY <1>2, <2>2, <2>3, <2>4, <2>5, <2>6, <2>7
          DEF ViewNext, Next, Conversions, Applications, Reads, Jobbing, Poll, Environment
<1> QED BY <1>1, <1>2

\* On the console's scale the detailed driver, with its read jobs, probes, flags and
\* clock, implements the driver of CliDriver: what Console shows of the sessions is
\* not owed to a driver that hides something of the real one.
THEOREM ConsoleSeesTheDriver == ASSUME ConsoleScale PROVE ViewSpec => SeenAsCliDriver
<1>1. ViewInit => ViewInv /\ Cli!Init
  BY ViewInitInv, ViewInitSeen
<1>2. ViewInv /\ [ViewNext]_viewVars => ViewInv'
  BY ViewStepInv
<1>3. ViewInv /\ ViewInv' /\ [ViewNext]_viewVars => [Cli!Next]_<<Seen, SeenDev>>
  BY ViewStepSeen
<1> QED BY <1>1, <1>2, <1>3, PTL DEF ViewSpec, SeenAsCliDriver, Cli!Spec, Seen, SeenDev
=============================================================================
