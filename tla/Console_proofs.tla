---------------------------- MODULE Console_proofs ----------------------------
(***************************************************************************)
(* Theorems about the console's main loop, its two sessions and the driver *)
(* they share: for any read timeout and deadline, any number of            *)
(* configuration writes, and sessions of any length.                       *)
(***************************************************************************)
EXTENDS Console, TLAPS

-----------------------------------------------------------------------------
(* The driver's calls.  Beyond its type, a job that writes has something   *)
(* left to write, or its counter would run below zero.                     *)

Codes == {"OK", "IN_PROGRESS", "FAILED", "BUSY", "WARN", "NOT_READY"}
Sound == {d \in Drivers : d.job.kind \notin {"NONE", "READ"} => d.job.left >= 1}
Replies == [d : Sound, v : Devices, st : Codes]

\* What a call may reply that leaves the job alone.
Keeping(d) == {r \in Replies : r.d.job = d.job}

LEMMA ReplyFields ==
  ASSUME NEW d \in Sound, NEW v \in Devices, NEW st \in Codes
  PROVE  /\ Reply(d, v, st) \in Replies
         /\ Reply(d, v, st).d = d /\ Reply(d, v, st).v = v /\ Reply(d, v, st).st = st
  BY DEF Reply, Replies

LEMMA FailedReplies ==
  ASSUME NEW d \in Sound, NEW v \in Devices
  PROVE  Failed(d, v) \subseteq Keeping(d)
  BY ReplyFields DEF Failed, Codes, Keeping

LEMMA Limits ==
  /\ ReadTimeout \in Nat \ {0} /\ Writes \in Nat \ {0}
  /\ Larger(ReadTimeout, Writes) \in Nat
  /\ ReadTimeout <= Larger(ReadTimeout, Writes) /\ Writes <= Larger(ReadTimeout, Writes)
  BY CliDriverAssumption DEF Larger

LEMMA SoundFields ==
  ASSUME NEW d \in Sound
  PROVE  /\ d \in Drivers
         /\ d.phase \in {"UNBOUND", "BOUND", "READY"} /\ d.mode \in StableModes
         /\ d.started \in BOOLEAN /\ d.evidence \in BOOLEAN /\ d.retry \in BOOLEAN
         /\ d.age \in 0 .. ReadTimeout /\ d.job \in Jobs
         /\ d.last \in {"OK", "IN_PROGRESS", "FAILED"}
         /\ d.job.kind \in JobKinds /\ d.job.to \in StableModes
         /\ d.job.left \in 0 .. Larger(ReadTimeout, Writes) + 1
         /\ d.job.kind \notin {"NONE", "READ"} => d.job.left >= 1
  BY DEF Sound, Drivers, Jobs

\* Changes that leave the job alone leave a sound driver.
LEMMA SameJob ==
  ASSUME NEW d \in Sound, NEW e \in Drivers, e.job = d.job
  PROVE  e \in Sound
  BY DEF Sound

LEMMA IdleJobType == IdleJob \in Jobs
  BY Limits DEF IdleJob, Jobs, JobKinds, StableModes

LEMMA ReleasedSound ==
  ASSUME NEW d \in Sound
  PROVE  /\ Released(d) \in Sound /\ Released(d).job = d.job
         /\ Released(d).evidence = d.evidence /\ Released(d).phase = d.phase
<1>1. 0 \in 0 .. ReadTimeout /\ d \in Drivers
  BY Limits, SoundFields
<1>2. Released(d) \in Drivers /\ Released(d).job = d.job
      /\ Released(d).evidence = d.evidence /\ Released(d).phase = d.phase
  BY <1>1 DEF Released, Drivers
<1> QED BY <1>2, SameJob

LEMMA ClearedSound ==
  ASSUME NEW d \in Sound, NEW age \in 0 .. ReadTimeout
  PROVE  Cleared(d, age) \in Sound /\ Cleared(d, age).job = d.job
<1>1. Cleared(d, age) \in Drivers /\ Cleared(d, age).job = d.job
  BY SoundFields DEF Cleared, Drivers
<1> QED BY <1>1, SameJob

LEMMA ClearingsSound ==
  ASSUME NEW d \in Sound, NEW e \in Clearings(d)
  PROVE  e \in Sound /\ e.job = d.job
<1>1. PICK age \in 0 .. ReadTimeout : e = Cleared(d, age)
  BY Limits DEF Clearings
<1> QED BY <1>1, ClearedSound

LEMMA FinishedSound ==
  ASSUME NEW d \in Sound, NEW st
  PROVE  /\ Finished(d, st) \in Sound /\ Finished(d, st).job = IdleJob
         /\ Finished(d, st).last = IF st = "OK" THEN "OK" ELSE "FAILED"
<1>1. d \in Drivers /\ IdleJob \in Jobs
  BY SoundFields, IdleJobType
<1>2. Finished(d, st) \in Drivers /\ Finished(d, st).job = IdleJob
      /\ Finished(d, st).last = IF st = "OK" THEN "OK" ELSE "FAILED"
  BY <1>1 DEF Finished, Drivers
<1>3. IdleJob.kind = "NONE"
  BY DEF IdleJob
<1> QED BY <1>2, <1>3 DEF Sound

LEMMA DownSound ==
  ASSUME NEW d \in Sound
  PROVE  Down(d) \in Sound /\ Down(d).job = d.job
<1> DEFINE c == Cleared(d, 0)
<1>1. c \in Sound /\ c \in Drivers /\ c.job = d.job
  BY Limits, ClearedSound, SoundFields
<1>2. Down(d) = [c EXCEPT !.phase = "BOUND"]
  BY DEF Down
<1> HIDE DEF c
<1>3. Down(d) \in Drivers /\ Down(d).job = c.job
  BY <1>1, <1>2 DEF Drivers
<1> QED BY <1>1, <1>3, SameJob

LEMMA AppliedSound ==
  ASSUME NEW d \in Sound, NEW m \in StableModes
  PROVE  Applied(d, m) \in Sound /\ Applied(d, m).job = d.job
<1> DEFINE c == Cleared(d, 0)
<1>1. c \in Sound /\ c \in Drivers /\ c.job = d.job
  BY Limits, ClearedSound, SoundFields
<1>2. Applied(d, m) = [c EXCEPT !.phase = "READY", !.mode = m]
  BY DEF Applied
<1> HIDE DEF c
<1>3. Applied(d, m) \in Drivers /\ Applied(d, m).job = c.job
  BY <1>1, <1>2 DEF Drivers
<1> QED BY <1>1, <1>3, SameJob

LEMMA DeviceTypes ==
  /\ ResetDevice \in Devices
  /\ \A v \in Devices, m \in StableModes : Running(v, m) \in Devices
  /\ \A v \in Devices : v.running \in {"IDLE", "ONE_SHOT", "CONTINUOUS"} /\ v.unread \in BOOLEAN
  /\ \A v \in Devices : /\ Forgetting(v) \subseteq Devices
                        /\ [v EXCEPT !.unread = FALSE] \in Devices
                        /\ [v EXCEPT !.running = "ONE_SHOT"] \in Devices
  BY DEF ResetDevice, Devices, Running, Forgetting, StableModes

\* Time leaves the job what it is, and a job that writes its count.
LEMMA AgedSound ==
  ASSUME NEW d \in Sound
  PROVE  Aged(d) \in Sound /\ Aged(d).job.kind = d.job.kind
<1> DEFINE a == IF Converting(d) /\ d.age < ReadTimeout THEN d.age + 1 ELSE d.age
           j == IF d.job.kind = "READ" /\ d.job.left \in 1 .. ReadTimeout
                  THEN [d.job EXCEPT !.left = d.job.left + 1] ELSE d.job
<1>1. Aged(d) = [d EXCEPT !.age = a, !.retry = FALSE, !.job = j]
  BY DEF Aged
<1>2. d \in Drivers /\ a \in 0 .. ReadTimeout
  BY SoundFields, Limits
<1>3. /\ j \in Jobs /\ j.kind = d.job.kind
      /\ j.kind \notin {"NONE", "READ"} => j.left >= 1
  <2>1. CASE d.job.kind = "READ" /\ d.job.left \in 1 .. ReadTimeout
    <3>1. d.job.left + 1 \in 0 .. Larger(ReadTimeout, Writes) + 1
      BY <2>1, SoundFields, Limits
    <3> QED BY <2>1, <3>1, SoundFields DEF Jobs
  <2>2. CASE ~(d.job.kind = "READ" /\ d.job.left \in 1 .. ReadTimeout)
    BY <2>2, SoundFields
  <2> QED BY <2>1, <2>2
<1> HIDE DEF a, j
<1>4. Aged(d) \in Drivers /\ Aged(d).job = j
  BY <1>1, <1>2, <1>3 DEF Drivers
<1> QED BY <1>3, <1>4 DEF Sound

-----------------------------------------------------------------------------
(* Readiness and conversions keep the job. *)

LEMMA WithEvidence ==
  ASSUME NEW d \in Sound
  PROVE  /\ \A b \in BOOLEAN : /\ [d EXCEPT !.evidence = b] \in Sound
                               /\ [d EXCEPT !.evidence = b].job = d.job
                               /\ [d EXCEPT !.evidence = b].evidence = b
         /\ \A b \in BOOLEAN : /\ [d EXCEPT !.retry = b] \in Sound
                               /\ [d EXCEPT !.retry = b].job = d.job
                               /\ [d EXCEPT !.retry = b].evidence = d.evidence
<1>1. d \in Drivers
  BY SoundFields
<1>2. ASSUME NEW b \in BOOLEAN
      PROVE  /\ [d EXCEPT !.evidence = b] \in Drivers
             /\ [d EXCEPT !.evidence = b].job = d.job /\ [d EXCEPT !.evidence = b].evidence = b
             /\ [d EXCEPT !.retry = b] \in Drivers /\ [d EXCEPT !.retry = b].job = d.job
             /\ [d EXCEPT !.retry = b].evidence = d.evidence
  BY <1>1 DEF Drivers
<1> QED BY <1>2, SameJob

LEMMA ProbedReplies ==
  ASSUME NEW d \in Sound, NEW v \in Devices
  PROVE  /\ Probed(d, v) \subseteq Keeping(d)
         /\ \A r \in Probed(d, v) : r.st \in {"OK", "FAILED"}
<1> DEFINE a == [Released(d) EXCEPT !.evidence = TRUE]
           b == [d EXCEPT !.retry = TRUE]
           e == IF v.unread THEN a ELSE b
<1>1. a \in Sound /\ a.job = d.job
  <2> DEFINE c == Released(d)
  <2>1. c \in Sound /\ c.job = d.job
    BY ReleasedSound
  <2> HIDE DEF c
  <2>2. [c EXCEPT !.evidence = TRUE] \in Sound /\ [c EXCEPT !.evidence = TRUE].job = d.job
    BY <2>1, WithEvidence
  <2> QED BY <2>2 DEF c
<1>2. b \in Sound /\ b.job = d.job
  BY WithEvidence
<1>3. Probed(d, v) = Failed(d, v) \cup {Reply(e, v, "OK")}
  BY DEF Probed
<1>4. e \in Sound /\ e.job = d.job
  BY <1>1, <1>2
<1> HIDE DEF a, b, e
<1>5. Reply(e, v, "OK") \in Keeping(d) /\ Reply(e, v, "OK").st = "OK"
  BY <1>4, ReplyFields DEF Keeping, Codes
<1>6. \A r \in Failed(d, v) : r.st = "FAILED"
  BY DEF Failed, Reply
<1> QED BY <1>3, <1>5, <1>6, FailedReplies

LEMMA OneReply ==
  ASSUME NEW d \in Sound, NEW v \in Devices, NEW st \in Codes
  PROVE  {Reply(d, v, st)} \subseteq Keeping(d)
  BY ReplyFields DEF Keeping

LEMMA RefreshedReplies ==
  ASSUME NEW d \in Sound, NEW v \in Devices
  PROVE  Refreshed(d, v) \subseteq Keeping(d)
<1>1. {Reply(d, v, "OK")} \subseteq Keeping(d) /\ {Reply(d, v, "BUSY")} \subseteq Keeping(d)
  BY OneReply DEF Codes
<1> QED BY <1>1, ProbedReplies DEF Refreshed

LEMMA ReadinessReplies ==
  ASSUME NEW d \in Sound, NEW v \in Devices
  PROVE  ConversionReady(d, v) \subseteq Keeping(d)
  BY RefreshedReplies, FailedReplies DEF ConversionReady

LEMMA ConsumedSound ==
  ASSUME NEW d \in Sound
  PROVE  Consumed(d) \in Sound /\ Consumed(d).job = d.job
<1> DEFINE c == Released(d)
<1>1. 0 \in 0 .. ReadTimeout /\ c \in Sound /\ c \in Drivers /\ c.job = d.job
  BY Limits, ReleasedSound, SoundFields
<1>2. Consumed(d) = [c EXCEPT !.evidence = FALSE, !.age = 0]
  BY DEF Consumed
<1> HIDE DEF c
<1>3. Consumed(d) \in Drivers /\ Consumed(d).job = c.job
  BY <1>1, <1>2 DEF Drivers
<1> QED BY <1>1, <1>3, SameJob

\* A frame's OK is a conversion the device had and the baseline did not know.
LEMMA FrameReplies ==
  ASSUME NEW d \in Sound, NEW v \in Devices
  PROVE  /\ FrameRead(d, v) \subseteq Keeping(d)
         /\ \A r \in FrameRead(d, v) :
              /\ r.st \in {"OK", "FAILED", "WARN", "NOT_READY"}
              /\ r.st = "OK" => v.unread /\ ~r.v.unread
<1> DEFINE c == Consumed(d)
           f == [d EXCEPT !.evidence = FALSE]
           w == [v EXCEPT !.unread = FALSE]
<1>1. c \in Sound /\ c.job = d.job /\ f \in Sound /\ f.job = d.job
  BY ConsumedSound, WithEvidence
<1>2. w \in Devices /\ ~w.unread
  BY DEF Devices
<1>3. FrameRead(d, v) =
        Failed(d, v) \cup {Reply(c, x, "WARN") : x \in {v, w}} \cup
        IF v.unread THEN {Reply(c, w, "OK")} ELSE {Reply(f, v, "NOT_READY")}
  BY DEF FrameRead
<1> HIDE DEF c, f, w
<1>4. \A r \in Failed(d, v) : r \in Keeping(d) /\ r.st = "FAILED"
  BY FailedReplies DEF Failed, Reply
<1>5. LET r == Reply(c, w, "OK") IN r \in Keeping(d) /\ r.st = "OK" /\ ~r.v.unread
  BY <1>1, <1>2, ReplyFields DEF Keeping, Codes
<1>6. \A x \in {v, w} : LET r == Reply(c, x, "WARN") IN r \in Keeping(d) /\ r.st = "WARN"
  BY <1>1, <1>2, ReplyFields DEF Keeping, Codes
<1>7. LET r == Reply(f, v, "NOT_READY") IN r \in Keeping(d) /\ r.st = "NOT_READY"
  BY <1>1, ReplyFields DEF Keeping, Codes
<1> QED BY <1>3, <1>4, <1>5, <1>6, <1>7

LEMMA SampleReplies ==
  ASSUME NEW d \in Sound, NEW v \in Devices
  PROVE  ReadSample(d, v) \subseteq Keeping(d)
<1> SUFFICES ASSUME NEW q \in ReadSample(d, v) PROVE q \in Keeping(d)
  OBVIOUS
<1>1. CASE d.phase # "READY"
  BY <1>1, FailedReplies DEF ReadSample
<1>2. CASE d.phase = "READY"
  <2>1. PICK r \in Refreshed(d, v) :
          q \in IF r.st # "OK" THEN {r}
                ELSE IF ~r.d.evidence THEN {Reply(r.d, r.v, "NOT_READY")}
                ELSE IF JobActive(r.d) THEN {Reply(r.d, r.v, "BUSY")}
                ELSE FrameRead(r.d, r.v)
    BY <1>2 DEF ReadSample
  <2>2. r \in Keeping(d) /\ r.d \in Sound /\ r.v \in Devices /\ r.d.job = d.job
    BY <2>1, RefreshedReplies DEF Keeping, Replies
  <2>3. Keeping(r.d) = Keeping(d)
    BY <2>2 DEF Keeping
  <2>4. /\ {Reply(r.d, r.v, "NOT_READY")} \subseteq Keeping(d)
        /\ {Reply(r.d, r.v, "BUSY")} \subseteq Keeping(d)
        /\ FrameRead(r.d, r.v) \subseteq Keeping(d)
    BY <2>2, <2>3, OneReply, FrameReplies DEF Codes
  <2> QED BY <2>1, <2>2, <2>4
<1> QED BY <1>1, <1>2

LEMMA CapturedSound ==
  ASSUME NEW d \in Sound, NEW e \in Captured(d)
  PROVE  e \in Sound /\ e.job = d.job
<1> DEFINE c == Released(d)
<1>1. c \in Sound /\ c.job = d.job
  BY ReleasedSound
<1>2. e = d \/ e = [c EXCEPT !.evidence = TRUE]
  BY DEF Captured
<1> HIDE DEF c
<1>3. LET x == [c EXCEPT !.evidence = TRUE] IN x \in Sound /\ x.job = c.job
  BY <1>1, WithEvidence
<1> QED BY <1>1, <1>2, <1>3

LEMMA RegisterReplies ==
  ASSUME NEW d \in Sound, NEW v \in Devices
  PROVE  ReadRegister(d, v) \subseteq Keeping(d)
<1>1. \A e \in Captured(d) : Reply(e, v, "OK") \in Keeping(d)
  BY CapturedSound, ReplyFields DEF Keeping, Codes
<1>2. {Reply(d, v, "BUSY")} \subseteq Keeping(d)
  BY OneReply DEF Codes
<1> QED BY <1>1, <1>2, FailedReplies DEF ReadRegister

LEMMA ClearFlagsReplies ==
  ASSUME NEW d \in Sound, NEW v \in Devices
  PROVE  ClearFlags(d, v) \subseteq Keeping(d)
<1> SUFFICES ASSUME NEW q \in ClearFlags(d, v) PROVE q \in Keeping(d)
  OBVIOUS
<1>1. CASE q \in Failed(d, v) \cup {Reply(d, v, "BUSY")}
  BY <1>1, FailedReplies, OneReply DEF Codes
<1>2. CASE q \notin Failed(d, v) \cup {Reply(d, v, "BUSY")}
  <2>0. PICK w \in {v, [v EXCEPT !.unread = FALSE]} :
          q \in {Reply([e EXCEPT !.evidence = FALSE], w, "OK") : e \in Captured(d)}
    BY <1>2 DEF ClearFlags
  <2>1. PICK e \in Captured(d) : q = Reply([e EXCEPT !.evidence = FALSE], w, "OK")
    BY <2>0
  <2>2. e \in Sound /\ e.job = d.job /\ w \in Devices
    BY <2>0, <2>1, CapturedSound, DeviceTypes
  <2> DEFINE f == [e EXCEPT !.evidence = FALSE]
  <2>3. f \in Sound /\ f.job = d.job
    BY <2>2, WithEvidence
  <2>4. q = Reply(f, w, "OK")
    BY <2>1
  <2> HIDE DEF f
  <2> QED BY <2>2, <2>3, <2>4, ReplyFields DEF Keeping, Codes
<1> QED BY <1>1, <1>2

LEMMA ForgottenSound ==
  ASSUME NEW d \in Sound
  PROVE  Forgotten(d) \in Sound /\ Forgotten(d).job = d.job
  BY ReleasedSound DEF Forgotten

LEMMA DroppingDevices ==
  ASSUME NEW d, NEW v \in Devices
  PROVE  Dropping(d, v) \subseteq Devices
  BY DeviceTypes DEF Dropping

LEMMA RestartedSound ==
  ASSUME NEW d \in Sound, NEW m \in StableModes, NEW b \in BOOLEAN
  PROVE  Restarted(d, m, b) \in Sound /\ Restarted(d, m, b).job = d.job
<1> DEFINE c == Cleared(d, 0)
<1>1. c \in Sound /\ c \in Drivers /\ c.job = d.job
  BY Limits, ClearedSound, SoundFields
<1>2. Restarted(d, m, b) = [c EXCEPT !.mode = m, !.started = b]
  BY DEF Restarted
<1> HIDE DEF c
<1>3. Restarted(d, m, b) \in Drivers /\ Restarted(d, m, b).job = c.job
  BY <1>1, <1>2 DEF Drivers
<1> QED BY <1>1, <1>3, SameJob

LEMMA TriggeredReplies ==
  ASSUME NEW d \in Sound, NEW v \in Devices, NEW st \in Codes
  PROVE  Triggered(d, v, st) \subseteq Keeping(d)
<1> DEFINE e == Restarted(d, "POWER_DOWN", TRUE)
<1>1. e \in Sound /\ e.job = d.job
  BY RestartedSound DEF StableModes
<1>2. Triggered(d, v, st) =
        {Reply(e, [w EXCEPT !.running = "ONE_SHOT"], st) : w \in Dropping(d, v)}
  BY DEF Triggered
<1> HIDE DEF e
<1> SUFFICES ASSUME NEW q \in Triggered(d, v, st) PROVE q \in Keeping(d)
  OBVIOUS
<1>3. PICK w \in Dropping(d, v) : q = Reply(e, [w EXCEPT !.running = "ONE_SHOT"], st)
  BY <1>2
<1>4. [w EXCEPT !.running = "ONE_SHOT"] \in Devices
  BY <1>3, DroppingDevices, DeviceTypes
<1> QED BY <1>1, <1>3, <1>4, ReplyFields DEF Keeping

LEMMA StartReplies ==
  ASSUME NEW d \in Sound, NEW v \in Devices
  PROVE  StartConversion(d, v) \subseteq Keeping(d)
<1> DEFINE f == Forgotten(d)
<1>1. f \in Sound /\ f.job = d.job
  BY ForgottenSound
<1>2. StartConversion(d, v) \subseteq
        Failed(d, v) \cup {Reply(f, v, "BUSY")} \cup Failed(f, v)
        \cup Triggered(f, v, "IN_PROGRESS")
  BY DEF StartConversion
<1> HIDE DEF f
<1>3. Keeping(f) = Keeping(d)
  BY <1>1 DEF Keeping
<1>4. {Reply(f, v, "BUSY")} \subseteq Keeping(d) /\ Failed(f, v) \subseteq Keeping(d)
      /\ Triggered(f, v, "IN_PROGRESS") \subseteq Keeping(d)
  BY <1>1, <1>3, OneReply, FailedReplies, TriggeredReplies DEF Codes
<1> QED BY <1>2, <1>4, FailedReplies

LEMMA TickReplies ==
  ASSUME NEW d \in Sound, NEW v \in Devices
  PROVE  Tick(d, v) \subseteq Keeping(d)
<1> SUFFICES ASSUME NEW q \in Tick(d, v) PROVE q \in Keeping(d)
  OBVIOUS
<1>1. Reply(d, v, "OK") \in Keeping(d)
  BY OneReply DEF Codes
<1>2. CASE q = Reply(d, v, "OK")
  BY <1>1, <1>2
<1>3. CASE q # Reply(d, v, "OK")
  <2>1. PICK r \in Refreshed(d, v) : q = [r EXCEPT !.d = IF @.evidence THEN @ ELSE Forgotten(@)]
    BY <1>3 DEF Tick
  <2>2. r \in Replies /\ r.d \in Sound /\ r.d.job = d.job
    BY <2>1, RefreshedReplies DEF Keeping, Replies
  <2> DEFINE e == IF r.d.evidence THEN r.d ELSE Forgotten(r.d)
  <2>3. e \in Sound /\ e.job = d.job
    BY <2>2, ForgottenSound
  <2>4. q = [r EXCEPT !.d = e]
    BY <2>1
  <2> HIDE DEF e
  <2> QED BY <2>2, <2>3, <2>4 DEF Keeping, Replies
<1> QED BY <1>2, <1>3

-----------------------------------------------------------------------------
(* Poll jobs. *)

LEMMA ModesSound ==
  ASSUME NEW d \in Sound, NEW v \in Devices, NEW m \in StableModes
  PROVE  SetMode(d, v, m) \subseteq Replies
<1> DEFINE e == Applied(d, m)
           x == Running(v, m)
<1>1. e \in Sound /\ x \in Devices /\ Forgetting(x) \subseteq Devices
  BY AppliedSound, DeviceTypes
<1>2. SetMode(d, v, m) \subseteq
        Failed(d, v) \cup {Reply(d, v, "BUSY")} \cup Failed(d, x)
        \cup {Reply(e, w, "OK") : w \in Forgetting(x)}
  BY DEF SetMode
<1> HIDE DEF e, x
<1>3. Failed(d, v) \subseteq Replies /\ Failed(d, x) \subseteq Replies
  BY <1>1, FailedReplies DEF Keeping
<1> QED BY <1>1, <1>2, <1>3, ReplyFields DEF Codes

LEMMA WrittenReplies ==
  ASSUME NEW d \in Sound, NEW v \in Devices
  PROVE  WriteConfiguration(d, v) \subseteq Replies
<1> SUFFICES ASSUME NEW q \in WriteConfiguration(d, v) PROVE q \in Replies
  OBVIOUS
<1>1. \/ q \in Failed(d, v) \/ q \in {Reply(d, v, "BUSY")}
      \/ q \in Failed(d, [v EXCEPT !.running = "ONE_SHOT"])
      \/ q \in Triggered(d, v, "IN_PROGRESS")
      \/ \E m \in StableModes :
           \/ q \in Failed(d, Running(v, m))
           \/ \E w \in Dropping(d, v) : q = Reply(Restarted(d, m, FALSE), Running(w, m), "OK")
  BY DEF WriteConfiguration
<1>2. \A m \in StableModes : /\ Restarted(d, m, FALSE) \in Sound
                             /\ \A w \in Devices : Running(w, m) \in Devices
  BY RestartedSound, DeviceTypes
<1>3. [v EXCEPT !.running = "ONE_SHOT"] \in Devices /\ Dropping(d, v) \subseteq Devices
  BY DroppingDevices, DeviceTypes
<1>4. \A w \in Devices : Failed(d, w) \subseteq Replies
  BY FailedReplies DEF Keeping
<1>5. {Reply(d, v, "BUSY")} \subseteq Replies /\ Triggered(d, v, "IN_PROGRESS") \subseteq Replies
  BY OneReply, TriggeredReplies DEF Keeping, Codes
<1>6. \A m \in StableModes, w \in Dropping(d, v) :
        Reply(Restarted(d, m, FALSE), Running(w, m), "OK") \in Replies
  BY <1>2, <1>3, ReplyFields DEF Codes
<1> QED BY <1>1, <1>2, <1>3, <1>4, <1>5, <1>6

\* A job that is begun holds what it will write, or is a read job.
LEMMA JobBegun ==
  ASSUME NEW d \in Sound, NEW kind \in JobKinds, NEW m \in StableModes,
         NEW n \in 0 .. Writes + 1, kind \in {"NONE", "READ"} \/ n >= 1
  PROVE  \A e \in WithJob(d, kind, n, m) : e \in Sound /\ e.job.kind = kind
<1> DEFINE j == [kind |-> kind, left |-> n, to |-> m]
<1>1. n \in 0 .. Larger(ReadTimeout, Writes) + 1
  BY Limits
<1>2. j \in Jobs /\ j.kind = kind /\ (j.kind \notin {"NONE", "READ"} => j.left >= 1)
  BY <1>1 DEF Jobs
<1>3. WithJob(d, kind, n, m) = {[d EXCEPT !.job = j, !.last = "IN_PROGRESS"]}
  BY DEF WithJob
<1> HIDE DEF j
<1>4. LET e == [d EXCEPT !.job = j, !.last = "IN_PROGRESS"] IN e \in Drivers /\ e.job = j
  BY <1>2, SoundFields DEF Drivers
<1> QED BY <1>2, <1>3, <1>4 DEF Sound

LEMMA BegunReplies ==
  ASSUME NEW d \in Sound, NEW v \in Devices, NEW ok, NEW js \in SUBSET Sound
  PROVE  /\ StartJob(d, v, ok, js) \subseteq Replies
         /\ \A r \in StartJob(d, v, ok, js) : r.st = "IN_PROGRESS" => r.d \in js
<1>1. \A e \in js : Reply(e, v, "IN_PROGRESS") \in Replies /\ Reply(e, v, "IN_PROGRESS").d = e
  BY ReplyFields DEF Codes
<1>2. Reply(d, v, "BUSY") \in Replies /\ Reply(d, v, "BUSY").st = "BUSY"
  BY ReplyFields DEF Codes
<1>3. Failed(d, v) \subseteq Replies /\ \A r \in Failed(d, v) : r.st = "FAILED"
  BY FailedReplies, ReplyFields DEF Keeping, Failed, Codes
<1>4. StartJob(d, v, ok, js) \in
        {Failed(d, v), {Reply(d, v, "BUSY")}, {Reply(e, v, "IN_PROGRESS") : e \in js}}
  BY DEF StartJob
<1> QED BY <1>1, <1>2, <1>3, <1>4

LEMMA StartReadReplies ==
  ASSUME NEW d \in Sound, NEW v \in Devices
  PROVE  /\ StartRead(d, v) \subseteq Replies
         /\ \A r \in StartRead(d, v) : r.st = "IN_PROGRESS" => r.d.job.kind = "READ"
<1> DEFINE e == [d EXCEPT !.retry = FALSE]
           js == IF Converting(d) \/ d.evidence THEN WithJob(e, "READ", 0, "POWER_DOWN") ELSE {}
<1>1. e \in Sound
  BY WithEvidence
<1>2. 0 \in 0 .. Writes + 1 /\ "READ" \in JobKinds /\ "POWER_DOWN" \in StableModes
  BY Limits DEF JobKinds, StableModes
<1>3. \A x \in WithJob(e, "READ", 0, "POWER_DOWN") : x \in Sound /\ x.job.kind = "READ"
  <2> HIDE DEF e
  <2> QED BY <1>1, <1>2, JobBegun
<1>4. js \in SUBSET Sound /\ \A x \in js : x.job.kind = "READ"
  BY <1>3
<1>5. StartRead(d, v) = Failed(d, v) \cup StartJob(d, v, d.phase = "READY", js)
  BY DEF StartRead
<1> HIDE DEF js
<1>6. Failed(d, v) \subseteq Replies /\ \A r \in Failed(d, v) : r.st = "FAILED"
  BY FailedReplies, ReplyFields DEF Keeping, Failed, Codes
<1> QED BY <1>4, <1>5, <1>6, BegunReplies

LEMMA StartWriteReplies ==
  ASSUME NEW d \in Sound, NEW v \in Devices
  PROVE  /\ \A m \in StableModes : StartConfigure(d, v, m) \subseteq Replies
         /\ StartReset(d, v) \subseteq Replies /\ StartAttach(d, v) \subseteq Replies
<1>1. Writes \in 0 .. Writes + 1 /\ Writes + 1 \in 0 .. Writes + 1 /\ Writes >= 1 /\ Writes + 1 >= 1
  BY Limits
<1>2. d.mode \in StableModes /\ {"CONFIG", "RESET", "ATTACH"} \subseteq JobKinds
  BY SoundFields DEF JobKinds
<1>3. ASSUME NEW m \in StableModes
      PROVE  WithJob(d, "CONFIG", Writes, m) \subseteq Sound
  BY <1>1, <1>2, <1>3, JobBegun
<1>4. WithJob(d, "RESET", Writes + 1, d.mode) \subseteq Sound
      /\ WithJob(d, "ATTACH", Writes + 1, d.mode) \subseteq Sound
  BY <1>1, <1>2, JobBegun
<1> QED BY <1>3, <1>4, BegunReplies DEF StartConfigure, StartReset, StartAttach

\* A job that ends is gone, and its status is OK exactly if it ended so.
LEMMA EndedReplies ==
  ASSUME NEW d \in Sound, NEW v \in Devices, NEW st \in Codes
  PROVE  \A r \in JobEnds(d, v, st) :
           /\ r \in Replies /\ r.st = st /\ r.v = v /\ r.d.job = IdleJob
           /\ r.d.last = "OK" => st = "OK"
<1> DEFINE e == Finished(d, st)
<1>1. e \in Sound /\ e.job = IdleJob /\ (e.last = "OK" => st = "OK")
  BY FinishedSound
<1>2. JobEnds(d, v, st) = {Reply(e, v, st)}
  BY DEF JobEnds
<1> HIDE DEF e
<1> QED BY <1>1, <1>2, ReplyFields

LEMMA RunningReplies ==
  ASSUME NEW d \in Sound, NEW v \in Devices
  PROVE  \A r \in StillRunning(d, v) :
           r \in Replies /\ r.st = "IN_PROGRESS" /\ r.d.job = d.job
<1> DEFINE e == [d EXCEPT !.last = "IN_PROGRESS"]
<1>1. e \in Sound /\ e.job = d.job
  BY SoundFields, SameJob DEF Drivers
<1>2. StillRunning(d, v) = {Reply(e, v, "IN_PROGRESS")}
  BY DEF StillRunning
<1> HIDE DEF e
<1> QED BY <1>1, <1>2, ReplyFields DEF Codes

\* The one way for a read job to end with OK is a frame the baseline did not know.
LEMMA PollReadReplies ==
  ASSUME NEW d \in Sound, NEW v \in Devices, d.job.kind = "READ", NEW r \in PollRead(d, v)
  PROVE  /\ r \in Replies
         /\ r.st = "IN_PROGRESS" => r.d.job.kind = "READ"
         /\ r.st # "IN_PROGRESS" => /\ r.d.job = IdleJob
                                    /\ r.d.last = "OK" => /\ d.evidence /\ v.unread
                                                          /\ ~r.v.unread
<1> DEFINE n == IF d.job.left = 0 THEN 1 ELSE d.job.left
           a == [d EXCEPT !.job.left = n]
<1>1. n \in 0 .. Larger(ReadTimeout, Writes) + 1
  BY SoundFields, Limits
<1>2. a \in Sound /\ a.job.kind = "READ" /\ a.evidence = d.evidence
  <2> HIDE DEF n
  <2>1. a \in Drivers /\ a.job.kind = "READ" /\ a.evidence = d.evidence
    BY <1>1, SoundFields DEF Drivers, Jobs
  <2> QED BY <2>1 DEF Sound
<1>3. \/ ReadDeadlinePassed(a) /\ r \in JobEnds(Released(a), v, "FAILED")
      \/ a.evidence /\ \E f \in FrameRead(a, v) : r \in JobEnds(f.d, f.v, f.st)
      \/ r \in StillRunning(a, v)
      \/ \E p \in Probed(a, v) : IF p.st = "OK" THEN r \in StillRunning(p.d, p.v)
                                 ELSE r \in JobEnds(p.d, p.v, p.st)
  BY DEF PollRead
<1> HIDE DEF a
<1>4. CASE r \in JobEnds(Released(a), v, "FAILED")
  BY <1>2, <1>4, ReleasedSound, EndedReplies DEF Codes
<1>5. CASE a.evidence /\ \E f \in FrameRead(a, v) : r \in JobEnds(f.d, f.v, f.st)
  <2>1. PICK f \in FrameRead(a, v) : r \in JobEnds(f.d, f.v, f.st)
    BY <1>5
  <2>2. /\ f.d \in Sound /\ f.v \in Devices /\ f.st \in Codes /\ f.st # "IN_PROGRESS"
        /\ f.st = "OK" => v.unread /\ ~f.v.unread
    BY <1>2, FrameReplies DEF Keeping, Replies
  <2>3. /\ r \in Replies /\ r.st = f.st /\ r.v = f.v /\ r.d.job = IdleJob
        /\ r.d.last = "OK" => f.st = "OK"
    BY <2>1, <2>2, EndedReplies
  <2> QED BY <1>2, <1>5, <2>2, <2>3
<1>6. CASE r \in StillRunning(a, v)
  BY <1>2, <1>6, RunningReplies
<1>7. CASE \E p \in Probed(a, v) : IF p.st = "OK" THEN r \in StillRunning(p.d, p.v)
                                  ELSE r \in JobEnds(p.d, p.v, p.st)
  <2>1. PICK p \in Probed(a, v) : IF p.st = "OK" THEN r \in StillRunning(p.d, p.v)
                                  ELSE r \in JobEnds(p.d, p.v, p.st)
    BY <1>7
  <2>2. /\ p.d \in Sound /\ p.v \in Devices /\ p.st \in {"OK", "FAILED"}
        /\ p.d.job.kind = "READ"
    BY <1>2, ProbedReplies DEF Keeping, Replies
  <2>3. CASE p.st = "OK"
    BY <2>1, <2>2, <2>3, RunningReplies
  <2>4. CASE p.st = "FAILED"
    <3>1. r \in JobEnds(p.d, p.v, "FAILED") /\ "FAILED" \in Codes
      BY <2>1, <2>4 DEF Codes
    <3>2. r \in Replies /\ r.st = "FAILED" /\ r.d.job = IdleJob /\ r.d.last # "OK"
      BY <2>2, <3>1, EndedReplies
    <3> QED BY <3>2
  <2> QED BY <2>2, <2>3, <2>4
<1> QED BY <1>3, <1>4, <1>5, <1>6, <1>7

LEMMA WriteFailsReplies ==
  ASSUME NEW d \in Sound, NEW v \in Devices
  PROVE  WriteJobFails(d, v) \subseteq Replies
<1> DEFINE e == IF ResetApplied(d) THEN Down(d) ELSE d
           landed == CASE d.job.left = 1 -> {v, Running(v, d.job.to)}
                       [] d.job.kind = "RESET" /\ d.job.left > Writes -> {v, ResetDevice}
                       [] OTHER -> {v}
<1>1. e \in Sound
  BY DownSound
<1>2. landed \subseteq Devices
  BY SoundFields, DeviceTypes
<1>3. WriteJobFails(d, v) = UNION {JobEnds(e, w, "FAILED") : w \in landed}
  BY DEF WriteJobFails
<1> HIDE DEF e, landed
<1> QED BY <1>1, <1>2, <1>3, EndedReplies DEF Codes

LEMMA PollWriteReplies ==
  ASSUME NEW d \in Sound, NEW v \in Devices, d.job.kind \notin {"NONE", "READ"}
  PROVE  PollWrite(d, v) \subseteq Replies
<1> DEFINE next == [d EXCEPT !.job.left = d.job.left - 1]
           resets == d.job.kind = "RESET" /\ d.job.left = Writes + 1
           x == Applied(d, d.job.to)
           y == Running(v, d.job.to)
<1>1. x \in Sound /\ Forgetting(y) \subseteq Devices /\ ResetDevice \in Devices
  BY SoundFields, AppliedSound, DeviceTypes
<1>2. ASSUME d.job.left # 1 PROVE next \in Sound
  <2>1. d.job.left - 1 \in 1 .. Larger(ReadTimeout, Writes) + 1
    BY <1>2, SoundFields, Limits
  <2>2. next \in Drivers /\ next.job.left >= 1
    BY <2>1, SoundFields DEF Drivers, Jobs
  <2> QED BY <2>2 DEF Sound
<1>3. PollWrite(d, v) =
        WriteJobFails(d, v) \cup
        IF d.job.left = 1 THEN UNION {JobEnds(x, w, "OK") : w \in Forgetting(y)}
        ELSE IF resets THEN UNION {StillRunning(e, ResetDevice) : e \in Clearings(next)}
        ELSE StillRunning(next, v)
  BY DEF PollWrite
<1> HIDE DEF next, resets, x, y
<1>4. UNION {JobEnds(x, w, "OK") : w \in Forgetting(y)} \subseteq Replies
  BY <1>1, EndedReplies DEF Codes
<1>5. ASSUME d.job.left # 1
      PROVE  /\ UNION {StillRunning(e, ResetDevice) : e \in Clearings(next)} \subseteq Replies
             /\ StillRunning(next, v) \subseteq Replies
  <2>1. \A e \in Clearings(next) : StillRunning(e, ResetDevice) \subseteq Replies
    BY <1>1, <1>2, <1>5, ClearingsSound, RunningReplies
  <2> QED BY <1>2, <1>5, <2>1, RunningReplies
<1> QED BY <1>3, <1>4, <1>5, WriteFailsReplies

LEMMA PollReplies ==
  ASSUME NEW d \in Sound, NEW v \in Devices
  PROVE  Poll(d, v) \subseteq Replies
<1>1. CASE d.job.kind = "NONE"
  <2>1. Poll(d, v) = {Reply(d, v, d.last)} /\ d.last \in Codes
    BY <1>1, SoundFields DEF Poll, Codes
  <2> QED BY <2>1, ReplyFields
<1>2. CASE d.job.kind = "READ"
  BY <1>2, PollReadReplies DEF Poll
<1>3. CASE d.job.kind \notin {"NONE", "READ"}
  <2>1. Poll(d, v) = PollWrite(d, v)
    BY <1>3 DEF Poll
  <2> QED BY <1>3, <2>1, PollWriteReplies
<1> QED BY <1>1, <1>2, <1>3

LEMMA CancelReplies ==
  ASSUME NEW d \in Sound, NEW v \in Devices
  PROVE  /\ CancelJob(d, v) \subseteq Replies
         /\ d.job = IdleJob => CancelJob(d, v) = {Reply(d, v, "OK")}
<1> DEFINE e == IF d.job.kind = "ATTACH" \/ ResetApplied(d) THEN Down(d) ELSE d
<1>1. e \in Sound
  BY DownSound
<1>2. CancelJob(d, v) = IF ~JobActive(d) THEN {Reply(d, v, "OK")} ELSE JobEnds(e, v, "FAILED")
  BY DEF CancelJob
<1> HIDE DEF e
<1>3. CancelJob(d, v) \subseteq Replies
  BY <1>1, <1>2, EndedReplies, ReplyFields DEF Codes
<1> QED BY <1>2, <1>3 DEF JobActive, IdleJob

-----------------------------------------------------------------------------
(* Lifecycle. *)

LEMMA FreshSound ==
  ASSUME NEW phase \in {"UNBOUND", "BOUND", "READY"}, NEW m \in StableModes
  PROVE  Fresh(phase, m) \in Sound
<1>1. 0 \in 0 .. ReadTimeout /\ IdleJob \in Jobs /\ IdleJob.kind = "NONE"
  BY Limits, IdleJobType DEF IdleJob
<1>2. Fresh(phase, m) \in Drivers /\ Fresh(phase, m).job = IdleJob
  BY <1>1 DEF Fresh, Drivers
<1> QED BY <1>1, <1>2 DEF Sound

LEMMA BindReplies ==
  ASSUME NEW v \in Devices, NEW m \in StableModes
  PROVE  Bind(v, m) \subseteq Replies
<1>1. Fresh("BOUND", m) \in Sound
  BY FreshSound
<1> QED BY <1>1, ReplyFields DEF Bind, Codes

LEMMA UnboundReplies ==
  ASSUME NEW v \in Devices, NEW st \in Codes
  PROVE  Unbound \in Sound /\ Reply(Unbound, v, st) \in Replies
<1>1. Unbound \in Sound
  BY FreshSound DEF Unbound, StableModes
<1> QED BY <1>1, ReplyFields

LEMMA BeginReplies ==
  ASSUME NEW v \in Devices, NEW m \in StableModes, NEW suitable \in BOOLEAN
  PROVE  Begin(v, m, suitable) \subseteq Replies
<1>1. /\ Fresh("BOUND", m) \in Sound /\ Fresh("READY", m) \in Sound
      /\ Running(v, m) \in Devices /\ Forgetting(Running(v, m)) \subseteq Devices
  BY FreshSound, DeviceTypes
<1>2. Reply(Unbound, v, "FAILED") \in Replies
  BY UnboundReplies DEF Codes
<1> QED BY <1>1, <1>2, ReplyFields DEF Begin, Failed, Codes

LEMMA EndReplies ==
  ASSUME NEW d \in Sound, NEW v \in Devices
  PROVE  End(d, v) \subseteq Replies
<1> DEFINE c == Down(d)
           p == IF d.phase = "UNBOUND" THEN "UNBOUND" ELSE c.phase
           e == [c EXCEPT !.phase = p, !.job = IdleJob, !.last = "OK"]
<1>1. c \in Drivers /\ p \in {"UNBOUND", "BOUND", "READY"} /\ IdleJob \in Jobs
  BY DownSound, SoundFields, IdleJobType
<1>2. End(d, v) = {Reply(e, w, "OK") :
                     w \in {v} \cup (IF d.phase = "READY" THEN {Running(v, "POWER_DOWN")} ELSE {})}
  BY DEF End
<1> HIDE DEF c, p
<1>3. e \in Drivers /\ e.job = IdleJob
  BY <1>1 DEF Drivers
<1>4. e \in Sound
  <2>1. IdleJob.kind = "NONE"
    BY DEF IdleJob
  <2> HIDE DEF e
  <2> QED BY <1>3, <2>1 DEF Sound
<1> HIDE DEF e
<1>5. Running(v, "POWER_DOWN") \in Devices
  BY DeviceTypes DEF StableModes
<1> QED BY <1>2, <1>4, <1>5, ReplyFields DEF Codes

LEMMA RecoverReplies ==
  ASSUME NEW d \in Sound, NEW v \in Devices
  PROVE  Recover(d, v) \subseteq Replies
<1>1. d.mode \in StableModes
  BY SoundFields
<1>2. Applied(d, d.mode) \in Sound /\ Forgetting(v) \subseteq Devices
  BY <1>1, AppliedSound, DeviceTypes
<1>3. Failed(d, v) \subseteq Replies /\ Reply(d, v, "BUSY") \in Replies
  BY FailedReplies, ReplyFields DEF Keeping, Codes
<1>4. ASSUME NEW w \in Forgetting(v)
      PROVE  /\ Reply(Applied(d, d.mode), Running(w, d.mode), "OK") \in Replies
             /\ \A e \in Clearings(d) : /\ Failed(e, w) \subseteq Replies
                                        /\ Failed(e, Running(w, d.mode)) \subseteq Replies
  <2>1. w \in Devices /\ Running(w, d.mode) \in Devices
    BY <1>1, <1>2, DeviceTypes
  <2> QED BY <1>2, <2>1, ReplyFields, FailedReplies, ClearingsSound DEF Keeping, Codes
<1> QED BY <1>3, <1>4 DEF Recover

LEMMA ResetReplies ==
  ASSUME NEW d \in Sound, NEW v \in Devices
  PROVE  SoftReset(d, v) \subseteq Replies /\ ResetAndReapply(d, v) \subseteq Replies
<1>1. d.mode \in StableModes /\ ResetDevice \in Devices /\ Down(d) \in Sound
  BY SoundFields, DeviceTypes, DownSound
<1>2. Applied(d, d.mode) \in Sound /\ Running(ResetDevice, d.mode) \in Devices
  BY <1>1, AppliedSound, DeviceTypes
<1>3. Failed(d, v) \subseteq Replies /\ Failed(d, ResetDevice) \subseteq Replies
  BY <1>1, FailedReplies DEF Keeping
<1>4. ASSUME NEW then, then \subseteq Replies PROVE ResetCall(d, v, then) \subseteq Replies
  BY <1>3, <1>4, ReplyFields DEF ResetCall, Codes
<1>5. /\ Reply(Down(d), ResetDevice, "OK") \in Replies
      /\ Reply(Applied(d, d.mode), Running(ResetDevice, d.mode), "OK") \in Replies
      /\ Reply(Down(d), ResetDevice, "FAILED") \in Replies
      /\ Reply(Down(d), Running(ResetDevice, d.mode), "FAILED") \in Replies
  BY <1>1, <1>2, ReplyFields DEF Codes
<1>6. SoftReset(d, v) \subseteq Replies
  BY <1>4, <1>5 DEF SoftReset
<1>7. ResetAndReapply(d, v) \subseteq Replies
  BY <1>4, <1>5 DEF ResetAndReapply
<1> QED BY <1>6, <1>7

-----------------------------------------------------------------------------
(* The watch.  A wait for a conversion the watch started has as much of    *)
(* its deadline left as has not passed since the start.                    *)

Patience == {w \in Watches : w.wait = "STARTED" => w.since + w.left = Deadline}

LEMMA ConsoleLimits ==
  Deadline \in Nat \ {0} /\ MaxResults \in Nat \ {0} /\ MaxOperations \in Nat \ {0}
  BY ConsoleAssumption

LEMMA PatienceFields ==
  ASSUME NEW w \in Patience
  PROVE  /\ w \in Watches
         /\ w.active \in BOOLEAN /\ w.wait \in {"NO", "PENDING", "STARTED"}
         /\ w.remaining \in 0 .. MaxResults
         /\ w.left \in 0 .. Deadline /\ w.since \in 0 .. Deadline
         /\ w.paced \in BOOLEAN /\ w.polled \in BOOLEAN /\ w.late \in BOOLEAN
         /\ w.wait = "STARTED" => w.since + w.left = Deadline
  BY DEF Patience, Watches

LEMMA OlderKeeps ==
  ASSUME NEW w \in Patience
  PROVE  /\ Older(w) \in Patience
         /\ Older(w).wait = w.wait /\ Older(w).late = w.late
<1> DEFINE l == IF w.left > 0 THEN w.left - 1 ELSE 0
           s == IF w.wait = "STARTED" /\ w.since < Deadline THEN w.since + 1 ELSE w.since
<1>1. /\ l \in 0 .. Deadline /\ s \in 0 .. Deadline
      /\ w.wait = "STARTED" => s + l = Deadline
  BY PatienceFields, ConsoleLimits
<1>2. Older(w) = [w EXCEPT !.left = l, !.since = s, !.paced = FALSE, !.polled = FALSE]
  BY DEF Older
<1> HIDE DEF l, s
<1>3. /\ Older(w) \in Watches /\ Older(w).wait = w.wait /\ Older(w).late = w.late
      /\ Older(w).left = l /\ Older(w).since = s
  BY <1>1, <1>2, PatienceFields DEF Watches
<1> QED BY <1>1, <1>3 DEF Patience

LEMMA NoWatchKeeps ==
  /\ NoWatch \in Patience /\ ~NoWatch.late
  /\ \A b \in BOOLEAN : /\ [NoWatch EXCEPT !.late = b] \in Patience
                        /\ [NoWatch EXCEPT !.late = b].late = b
  /\ \A n \in 0 .. MaxResults :
       LET w == [NoWatch EXCEPT !.active = TRUE, !.remaining = n]
       IN w \in Patience /\ ~w.late
<1>1. NoWatch \in Watches /\ NoWatch.wait = "NO" /\ ~NoWatch.late
  BY ConsoleLimits DEF NoWatch, Watches
<1>2. ASSUME NEW b \in BOOLEAN
      PROVE  /\ [NoWatch EXCEPT !.late = b] \in Watches
             /\ [NoWatch EXCEPT !.late = b].late = b
             /\ [NoWatch EXCEPT !.late = b].wait = "NO"
  BY <1>1 DEF Watches
<1>3. ASSUME NEW n \in 0 .. MaxResults
      PROVE  LET w == [NoWatch EXCEPT !.active = TRUE, !.remaining = n]
             IN w \in Watches /\ w.wait = "NO" /\ ~w.late
  BY <1>1 DEF Watches
<1> QED BY <1>1, <1>2, <1>3 DEF Patience

LEMMA RecordedKeeps ==
  ASSUME NEW w \in Patience, w.remaining > 0
  PROVE  /\ Recorded(w) \in Patience /\ ~Recorded(w).late
         /\ [Recorded(w) EXCEPT !.late = TRUE] \in Patience
<1> DEFINE n == w.remaining - 1
<1>1. n \in 0 .. MaxResults /\ 0 \in 0 .. Deadline
  BY PatienceFields, ConsoleLimits
<1>2. Recorded(w) = [w EXCEPT !.remaining = n, !.wait = "NO", !.paced = TRUE, !.polled = FALSE,
                              !.since = 0, !.late = FALSE]
  BY DEF Recorded
<1> HIDE DEF n
<1>3. Recorded(w) \in Watches /\ Recorded(w).wait = "NO" /\ ~Recorded(w).late
  BY <1>1, <1>2, PatienceFields DEF Watches
<1> DEFINE r == Recorded(w)
<1> HIDE DEF r
<1>4. r \in Watches /\ r.wait = "NO" => LET x == [r EXCEPT !.late = TRUE]
                                        IN x \in Watches /\ x.wait = "NO"
  BY DEF Watches
<1> QED BY <1>3, <1>4 DEF r, Patience

LEMMA ClosedKeeps ==
  ASSUME NEW w \in Patience
  PROVE  Closed(w) \in Patience /\ Closed(w).late = w.late
  BY PatienceFields, NoWatchKeeps DEF Closed

LEMMA WaitKeeps ==
  ASSUME NEW w \in Patience
  PROVE  /\ Pending(w) \in Patience /\ Pending(w).wait = "PENDING"
         /\ Awaiting(w) \in Patience /\ Awaiting(w).wait = "STARTED"
         /\ [w EXCEPT !.polled = TRUE] \in Patience
         /\ [w EXCEPT !.polled = TRUE].wait = w.wait
<1>1. 0 \in 0 .. Deadline /\ Deadline \in 0 .. Deadline /\ w \in Watches /\ 0 + Deadline = Deadline
  BY PatienceFields, ConsoleLimits
<1>2. Pending(w) \in Watches /\ Pending(w).wait = "PENDING"
  BY <1>1 DEF Pending, Watches
<1>3. /\ Awaiting(w) \in Watches /\ Awaiting(w).wait = "STARTED"
      /\ Awaiting(w).since = 0 /\ Awaiting(w).left = Deadline
  BY <1>1 DEF Awaiting, Watches
<1>4. LET x == [w EXCEPT !.polled = TRUE]
      IN x \in Watches /\ x.wait = w.wait /\ x.since = w.since /\ x.left = w.left
  BY <1>1 DEF Watches
<1> QED BY <1>1, <1>2, <1>3, <1>4 DEF Patience

\* A poll that records the timeout has seen the deadline run out.
LEMMA AfterPollKeeps ==
  ASSUME NEW w \in Patience, w.remaining > 0, NEW r
  PROVE  /\ AfterPoll(w, r) \in Patience
         /\ AfterPoll(w, r).late /\ AfterPoll(w, r).wait = "NO" /\ w.wait = "STARTED"
              => w.since = Deadline
<1> DEFINE t == [Recorded(w) EXCEPT !.late = TRUE]
<1>1. Closed(Recorded(w)) \in Patience /\ ~Closed(Recorded(w)).late
  BY RecordedKeeps, ClosedKeeps
<1>2. Closed(t) \in Patience
  <2>1. t \in Patience
    BY RecordedKeeps
  <2> HIDE DEF t
  <2> QED BY <2>1, ClosedKeeps
<1>3. w.left = 0 /\ w.wait = "STARTED" => w.since = Deadline
  BY PatienceFields
<1>4. CASE AfterPoll(w, r) = Closed(Recorded(w))
  BY <1>1, <1>4
<1>5. CASE w.left = 0 /\ AfterPoll(w, r) = Closed(t)
  BY <1>2, <1>3, <1>5
<1>6. CASE AfterPoll(w, r) = [w EXCEPT !.polled = TRUE]
  BY <1>6, WaitKeeps
<1> QED BY <1>4, <1>5, <1>6 DEF AfterPoll

-----------------------------------------------------------------------------
(* The loop.  A stress session has operations left, and while it polls and *)
(* no command has meddled, the job is its read job.                        *)

SessionInv ==
  /\ stress.phase # "OFF" => stress.todo >= 1
  /\ stress.phase = "POLL" /\ ~meddled => drv.job.kind = "READ"

ConsoleInv == TypeOK /\ drv \in Sound /\ watch \in Patience /\ SessionInv

\* The driver and device a reply leaves.
LEMMA DriverIsSound ==
  ASSUME NEW r \in Replies, DriverIs(r)
  PROVE  drv' \in Sound /\ dev' \in Devices
  BY DEF DriverIs, Replies

\* What a step must show to keep the invariant when it leaves the sessions' own
\* bookkeeping in order.
LEMMA InvFromParts ==
  ASSUME drv' \in Sound, dev' \in Devices, watch' \in Patience, stress' \in Stresses,
         turn' \in Turns, user' \in {"THERE", "GONE"}, meddled' \in BOOLEAN, SessionInv'
  PROVE  ConsoleInv'
<1>1. drv' \in Drivers /\ watch' \in Watches
  BY SoundFields, PatienceFields
<1> QED BY <1>1 DEF ConsoleInv, TypeOK

LEMMA InvFields ==
  ASSUME ConsoleInv
  PROVE  /\ drv \in Sound /\ dev \in Devices /\ watch \in Patience /\ stress \in Stresses
         /\ turn \in Turns /\ user \in {"THERE", "GONE"} /\ meddled \in BOOLEAN /\ SessionInv
  BY DEF ConsoleInv, TypeOK

LEMMA TickStep == ConsoleInv /\ TickTurn => ConsoleInv'
<1> SUFFICES ASSUME ConsoleInv, TickTurn PROVE ConsoleInv'
  OBVIOUS
<1>1. PICK r \in Tick(drv, dev) : DriverIs(r)
  BY DEF TickTurn
<1>2. r \in Replies /\ r.d.job = drv.job
  BY InvFields, TickReplies DEF Keeping
<1>3. drv' \in Sound /\ dev' \in Devices /\ drv'.job = drv.job
  BY <1>1, <1>2, DriverIsSound DEF DriverIs
<1>4. SessionInv'
  BY <1>3, InvFields DEF TickTurn, SessionInv
<1> QED BY <1>3, <1>4, InvFields, InvFromParts DEF TickTurn, Turns

\* A turn of the watch calls the driver without touching its job.
LEMMA WatchTurnStep ==
  ASSUME ConsoleInv, drv' \in Sound, dev' \in Devices, drv'.job = drv.job,
         NEW w \in Patience, WatchTurn(w)
  PROVE  ConsoleInv'
<1>1. SessionInv'
  BY InvFields DEF WatchTurn, SessionInv
<1> QED BY <1>1, InvFields, InvFromParts DEF WatchTurn, Turns

LEMMA WatchDriver ==
  ASSUME ConsoleInv, NEW r \in Keeping(drv), DriverIs(r)
  PROVE  drv' \in Sound /\ dev' \in Devices /\ drv'.job = drv.job
  BY DriverIsSound DEF Keeping, DriverIs

\* What the watch's own steps do; only a poll records a timeout.
LEMMA WatchKeeps ==
  ASSUME ConsoleInv, WatchStep
  PROVE  /\ ConsoleInv'
         /\ watch'.late /\ watch'.wait = "NO" /\ watch.wait = "STARTED"
              => watch.since = Deadline
<1> DEFINE goal == watch'.late /\ watch'.wait = "NO" /\ watch.wait = "STARTED"
                     => watch.since = Deadline
<1>1. drv \in Sound /\ dev \in Devices /\ watch \in Patience /\ Recorded(watch).late = FALSE
      /\ (Watching => watch.remaining > 0)
  BY InvFields DEF Watching, Recorded
<1>2. ASSUME NEW w \in Patience, WatchTurn(w),
             drv' \in Sound, dev' \in Devices, drv'.job = drv.job,
             w.late /\ w.wait = "NO" /\ watch.wait = "STARTED" => watch.since = Deadline
      PROVE  ConsoleInv' /\ goal
  <2>1. watch' = w
    BY <1>2 DEF WatchTurn
  <2> QED BY <1>2, <2>1, WatchTurnStep
<1>3. CASE WatchIdles
  BY <1>1, <1>2, <1>3 DEF WatchIdles
<1>4. CASE WatchContinuous
  <2>1. PICK r \in ConversionReady(drv, dev) :
          \/ DriverIs(r) /\ WatchTurn(Recorded(watch))
          \/ DriverIs(r) /\ WatchTurn(Pending(watch))
          \/ \E s \in ReadSample(r.d, r.v) : DriverIs(s) /\ WatchTurn(Closed(Recorded(watch)))
    BY <1>4 DEF WatchContinuous, UnclosedOnFailure
  <2>2. r \in Keeping(drv) /\ r.d \in Sound /\ r.v \in Devices /\ r.d.job = drv.job
    BY <1>1, ReadinessReplies DEF Keeping, Replies
  <2>3. Recorded(watch) \in Patience /\ ~Recorded(watch).late
    BY <1>1, <1>4, RecordedKeeps DEF WatchContinuous
  <2>4. CASE DriverIs(r) /\ WatchTurn(Recorded(watch))
    BY <1>2, <2>2, <2>3, <2>4, WatchDriver
  <2>5. CASE DriverIs(r) /\ WatchTurn(Pending(watch))
    <3>1. Pending(watch) \in Patience /\ Pending(watch).wait # "NO"
      BY <1>1, WaitKeeps
    <3> QED BY <1>2, <2>2, <2>5, <3>1, WatchDriver
  <2>6. CASE \E s \in ReadSample(r.d, r.v) : DriverIs(s) /\ WatchTurn(Closed(Recorded(watch)))
    <3>1. PICK s \in ReadSample(r.d, r.v) : DriverIs(s) /\ WatchTurn(Closed(Recorded(watch)))
      BY <2>6
    <3>2. s \in Keeping(drv)
      BY <2>2, SampleReplies DEF Keeping
    <3>3. Closed(Recorded(watch)) \in Patience /\ ~Closed(Recorded(watch)).late
      BY <2>3, ClosedKeeps
    <3> QED BY <1>2, <3>1, <3>2, <3>3, WatchDriver
  <2> QED BY <2>1, <2>4, <2>5, <2>6
<1>5. CASE WatchStarts
  <2>1. PICK r \in StartConversion(drv, dev) :
          /\ DriverIs(r)
          /\ WatchTurn(IF StartAccepted(r.st) THEN Awaiting(watch) ELSE Closed(Recorded(watch)))
    BY <1>5 DEF WatchStarts
  <2>2. r \in Keeping(drv)
    BY <1>1, <2>1, StartReplies
  <2>3. Awaiting(watch) \in Patience /\ Awaiting(watch).wait = "STARTED"
    BY <1>1, WaitKeeps
  <2>4. Closed(Recorded(watch)) \in Patience /\ ~Closed(Recorded(watch)).late
    BY <1>1, <1>5, RecordedKeeps, ClosedKeeps DEF WatchStarts
  <2>5. drv' \in Sound /\ dev' \in Devices /\ drv'.job = drv.job
    BY <2>1, <2>2, WatchDriver
  <2>6. CASE WatchTurn(Awaiting(watch))
    BY <1>2, <2>3, <2>5, <2>6
  <2>7. CASE WatchTurn(Closed(Recorded(watch)))
    BY <1>2, <2>4, <2>5, <2>7
  <2> QED BY <2>1, <2>6, <2>7
<1>6. CASE WatchPolls
  <2>1. PICK r \in ReadSample(drv, dev) : DriverIs(r) /\ WatchTurn(AfterPoll(watch, r))
    BY <1>6 DEF WatchPolls
  <2>2. r \in Keeping(drv) /\ watch.remaining > 0
    BY <1>1, <1>6, <2>1, SampleReplies DEF WatchPolls
  <2>3. drv' \in Sound /\ dev' \in Devices /\ drv'.job = drv.job
    BY <2>1, <2>2, WatchDriver
  <2> DEFINE w == AfterPoll(watch, r)
  <2>4. w \in Patience /\ (w.late /\ w.wait = "NO" /\ watch.wait = "STARTED"
                             => watch.since = Deadline)
    BY <1>1, <2>2, AfterPollKeeps
  <2> HIDE DEF w
  <2>5. WatchTurn(w)
    BY <2>1 DEF w
  <2> QED BY <1>2, <2>3, <2>4, <2>5
<1> QED BY <1>3, <1>4, <1>5, <1>6 DEF WatchStep

-----------------------------------------------------------------------------
(* The stress session. *)

LEMMA StressFields ==
  ASSUME ConsoleInv
  PROVE  /\ stress.phase \in {"OFF", "START", "READY", "POLL", "SLOT"}
         /\ stress.todo \in 0 .. MaxOperations /\ stress.mixed \in BOOLEAN
         /\ stress.phase # "OFF" => stress.todo >= 1
  BY InvFields DEF Stresses, SessionInv

LEMMA NoStressType == NoStress \in Stresses /\ NoStress.phase = "OFF"
  BY ConsoleLimits DEF NoStress, Stresses

LEMMA RecordsKeeps ==
  ASSUME ConsoleInv, stress.phase # "OFF", StressTurn, NEW r \in Replies, StressRecords(r)
  PROVE  ConsoleInv'
<1>1. CASE stress.todo = 1
  <2>1. stress' = NoStress /\ \E c \in CancelJob(r.d, r.v) : DriverIs(c)
    BY <1>1 DEF StressRecords, StressOver
  <2>2. drv' \in Sound /\ dev' \in Devices
    BY <2>1, CancelReplies, DriverIsSound DEF Replies
  <2>3. SessionInv' /\ stress' \in Stresses
    BY <2>1, NoStressType DEF SessionInv
  <2> QED BY <2>2, <2>3, InvFields, InvFromParts DEF StressTurn, Turns, StressRecords
<1>2. CASE stress.todo # 1
  <2> DEFINE n == stress.todo - 1
  <2>1. stress' = [stress EXCEPT !.todo = n, !.phase = "START"] /\ DriverIs(r)
    BY <1>2 DEF StressRecords
  <2>2. n \in 0 .. MaxOperations /\ n >= 1
    BY <1>2, StressFields, ConsoleLimits
  <2> HIDE DEF n
  <2>3. stress' \in Stresses /\ stress'.phase = "START" /\ stress'.todo = n
    BY <2>1, <2>2, InvFields DEF Stresses
  <2>4. drv' \in Sound /\ dev' \in Devices
    BY <2>1, DriverIsSound
  <2>5. SessionInv'
    BY <2>2, <2>3 DEF SessionInv
  <2> QED BY <2>3, <2>4, <2>5, InvFields, InvFromParts DEF StressTurn, Turns, StressRecords
<1> QED BY <1>1, <1>2

LEMMA WaitsKeeps ==
  ASSUME ConsoleInv, stress.phase # "OFF", StressTurn,
         NEW r \in Replies, NEW phase \in {"READY", "POLL", "SLOT"}, StressWaits(r, phase),
         phase = "POLL" => r.d.job.kind = "READ"
  PROVE  ConsoleInv'
<1>1. stress' = [stress EXCEPT !.phase = phase] /\ DriverIs(r) /\ drv' = r.d
  BY DEF StressWaits, DriverIs
<1>2. stress' \in Stresses /\ stress'.phase = phase /\ stress'.todo = stress.todo
  BY <1>1, InvFields DEF Stresses
<1>3. drv' \in Sound /\ dev' \in Devices
  BY <1>1, DriverIsSound
<1>4. SessionInv'
  BY <1>1, <1>2, StressFields DEF SessionInv
<1> QED BY <1>2, <1>3, <1>4, InvFields, InvFromParts DEF StressTurn, Turns, StressWaits

LEMMA StressKeeps ==
  ASSUME ConsoleInv, StressStep
  PROVE  ConsoleInv'
<1>1. drv \in Sound /\ dev \in Devices
  BY InvFields
<1>2. CASE StressIdles
  <2>1. SessionInv'
    BY <1>2, InvFields DEF StressIdles, SessionInv
  <2> QED BY <1>2, <2>1, InvFields, InvFromParts DEF StressIdles, StressTurn, Turns
<1>3. CASE StressSamples
  <2>1. stress.phase # "OFF" /\ StressTurn
    BY <1>3 DEF StressSamples
  <2>2. PICK r \in StartConversion(drv, dev) :
          \/ StressRecords(r)
          \/ StressWaits(r, "READY")
          \/ \E s \in StartRead(r.d, r.v) :
               IF ReadStarted(s.st) THEN StressWaits(s, "POLL") ELSE StressRecords(s)
    BY <1>3 DEF StressSamples
  <2>3. r \in Replies /\ r.d \in Sound /\ r.v \in Devices
    BY <1>1, <2>2, StartReplies DEF Keeping, Replies
  <2>4. CASE StressRecords(r)
    BY <2>1, <2>3, <2>4, RecordsKeeps
  <2>5. CASE StressWaits(r, "READY")
    BY <2>1, <2>3, <2>5, WaitsKeeps
  <2>6. CASE \E s \in StartRead(r.d, r.v) :
               IF ReadStarted(s.st) THEN StressWaits(s, "POLL") ELSE StressRecords(s)
    <3>1. PICK s \in StartRead(r.d, r.v) :
               IF ReadStarted(s.st) THEN StressWaits(s, "POLL") ELSE StressRecords(s)
      BY <2>6
    <3>2. s \in Replies /\ (s.st = "IN_PROGRESS" => s.d.job.kind = "READ")
      BY <2>3, StartReadReplies
    <3>3. CASE ReadStarted(s.st)
      BY <2>1, <3>1, <3>2, <3>3, WaitsKeeps DEF ReadStarted
    <3>4. CASE ~ReadStarted(s.st)
      BY <2>1, <3>1, <3>2, <3>4, RecordsKeeps
    <3> QED BY <3>3, <3>4
  <2> QED BY <2>2, <2>4, <2>5, <2>6
<1>4. CASE StressReadsRegister
  <2>1. PICK r \in ReadRegister(drv, dev) : StressRecords(r)
    BY <1>4 DEF StressReadsRegister
  <2>2. r \in Replies
    BY <1>1, RegisterReplies DEF Keeping
  <2> QED BY <1>4, <2>1, <2>2, RecordsKeeps DEF StressReadsRegister
<1>5. CASE StressChecksReady
  <2>1. PICK r \in ConversionReady(drv, dev) :
          \/ StressRecords(r)
          \/ \E phase \in {"SLOT", "READY"} : StressWaits(r, phase)
    BY <1>5 DEF StressChecksReady
  <2>2. r \in Replies
    BY <1>1, ReadinessReplies DEF Keeping
  <2>3. stress.phase # "OFF" /\ StressTurn
    BY <1>5 DEF StressChecksReady
  <2> QED BY <2>1, <2>2, <2>3, RecordsKeeps, WaitsKeeps
<1>6. CASE StressReadsSlot
  <2>1. PICK r \in ReadSample(drv, dev) : StressRecords(r)
    BY <1>6 DEF StressReadsSlot
  <2>2. r \in Replies
    BY <1>1, SampleReplies DEF Keeping
  <2> QED BY <1>6, <2>1, <2>2, RecordsKeeps DEF StressReadsSlot
<1>7. CASE StressPolls
  <2>1. PICK r \in Poll(drv, dev) :
          IF r.st = "IN_PROGRESS" THEN DriverIs(r) /\ UNCHANGED <<stress, meddled>>
          ELSE StressRecords(r)
    BY <1>7 DEF StressPolls
  <2>2. r \in Replies /\ stress.phase = "POLL" /\ StressTurn
    BY <1>1, <1>7, PollReplies DEF StressPolls
  <2>3. CASE r.st # "IN_PROGRESS"
    BY <2>1, <2>2, <2>3, RecordsKeeps
  <2>4. CASE r.st = "IN_PROGRESS"
    <3>1. drv' \in Sound /\ dev' \in Devices /\ drv' = r.d
      BY <2>1, <2>2, <2>4, DriverIsSound DEF DriverIs
    <3>2. ASSUME ~meddled PROVE r.d.job.kind = "READ"
      <4>1. drv.job.kind = "READ"
        BY <2>2, <3>2, InvFields DEF SessionInv
      <4>2. r \in PollRead(drv, dev)
        BY <4>1 DEF Poll
      <4> QED BY <1>1, <2>4, <4>1, <4>2, PollReadReplies
    <3>3. SessionInv'
      BY <2>1, <2>4, <3>1, <3>2, InvFields DEF SessionInv
    <3> QED BY <2>1, <2>2, <2>4, <3>1, <3>3, InvFields, InvFromParts DEF StressTurn, Turns
  <2> QED BY <2>3, <2>4
<1> QED BY <1>2, <1>3, <1>4, <1>5, <1>6, <1>7 DEF StressStep

\* A poll that ends the session's own job with OK read a conversion nobody knew.
LEMMA StressReads ==
  ASSUME ConsoleInv, StressPolls, ~meddled, stress' # stress, drv'.last = "OK"
  PROVE  drv.evidence /\ dev.unread /\ ~dev'.unread
<1>1. drv \in Sound /\ dev \in Devices /\ drv.job.kind = "READ"
  BY InvFields DEF SessionInv, StressPolls
<1>2. PICK r \in PollRead(drv, dev) : r.st # "IN_PROGRESS" /\ StressRecords(r)
  BY <1>1 DEF StressPolls, Poll
<1>3. /\ r \in Replies /\ r.d.job = IdleJob
      /\ r.d.last = "OK" => drv.evidence /\ dev.unread /\ ~r.v.unread
  BY <1>1, <1>2, PollReadReplies
<1>4. r.d \in Sound /\ r.v \in Devices
  BY <1>3 DEF Replies
<1>5. CancelJob(r.d, r.v) = {Reply(r.d, r.v, "OK")}
  BY <1>3, <1>4, CancelReplies
<1>6. drv' = r.d /\ dev' = r.v
  BY <1>2, <1>4, <1>5, ReplyFields DEF StressRecords, StressOver, DriverIs, Codes
<1> QED BY <1>3, <1>6

-----------------------------------------------------------------------------
(* Commands. *)

\* What every command must show.
LEMMA CommandKeeps ==
  ASSUME ConsoleInv, Typed \/ Calling, Noted,
         drv' \in Sound, dev' \in Devices, watch' \in Patience, stress' \in Stresses,
         stress' = stress \/ stress'.phase = "OFF"
           \/ (stress'.phase = "START" /\ stress'.todo >= 1)
  PROVE  ConsoleInv'
<1>1. meddled' \in BOOLEAN
  BY DEF Noted
<1>2. SessionInv'
  BY InvFields DEF Noted, SessionInv
<1> QED BY <1>1, <1>2, InvFields, InvFromParts DEF Typed, Calling, Turns

LEMMA StoppedReplies ==
  ASSUME NEW d \in Sound, NEW v \in Devices
  PROVE  StressStopped(d, v) \subseteq Replies
  BY CancelReplies, ReplyFields DEF StressStopped, StressOver, Codes

LEMMA RebegunReplies ==
  ASSUME ConsoleInv
  PROVE  Rebegun \subseteq Replies
<1>1. drv \in Sound /\ dev \in Devices /\ drv.mode \in StableModes /\ "POWER_DOWN" \in StableModes
  BY InvFields, SoundFields DEF StableModes
<1> SUFFICES ASSUME NEW q \in Rebegun PROVE q \in Replies
  OBVIOUS
<1> DEFINE m == IF drv.phase = "READY" THEN drv.mode ELSE "POWER_DOWN"
<1>2. PICK e \in End(drv, dev) :
        q \in UNION {
          IF b.st = "OK" THEN {b}
          ELSE CASE drv.phase = "UNBOUND" -> {Reply(Unbound, b.v, "FAILED")}
                 [] drv.phase = "BOUND"   -> Bind(b.v, drv.mode)
                 [] drv.phase = "READY"   -> Begin(b.v, drv.mode, TRUE) :
            b \in UNION {Begin(e.v, m, fit) : fit \in BOOLEAN}}
  BY DEF Rebegun
<1>3. m \in StableModes
  BY <1>1
<1> HIDE DEF m
<1>4. PICK b \in UNION {Begin(e.v, m, fit) : fit \in BOOLEAN} :
        q \in (IF b.st = "OK" THEN {b}
               ELSE CASE drv.phase = "UNBOUND" -> {Reply(Unbound, b.v, "FAILED")}
                      [] drv.phase = "BOUND"   -> Bind(b.v, drv.mode)
                      [] drv.phase = "READY"   -> Begin(b.v, drv.mode, TRUE))
  BY <1>2
<1>5. e.v \in Devices
  BY <1>1, EndReplies DEF Replies
<1>6. b \in Replies /\ b.v \in Devices
  BY <1>3, <1>4, <1>5, BeginReplies DEF Replies
<1>7. /\ Reply(Unbound, b.v, "FAILED") \in Replies
      /\ Bind(b.v, drv.mode) \subseteq Replies
      /\ Begin(b.v, drv.mode, TRUE) \subseteq Replies
  BY <1>1, <1>6, UnboundReplies, BindReplies, BeginReplies DEF Codes
<1>8. drv.phase \in {"UNBOUND", "BOUND", "READY"}
  BY <1>1, SoundFields
<1> QED BY <1>4, <1>6, <1>7, <1>8

LEMMA WatchCommandKeeps ==
  ASSUME ConsoleInv, NEW n \in 1 .. MaxResults, WatchCommand(n)
  PROVE  ConsoleInv' /\ ~watch'.late
<1>1. n \in 0 .. MaxResults
  BY ConsoleLimits
<1>2. watch' \in Patience /\ ~watch'.late
  BY <1>1, NoWatchKeeps DEF WatchCommand
<1>3. SessionInv'
  BY InvFields DEF WatchCommand, SessionInv
<1> QED BY <1>2, <1>3, InvFields, InvFromParts DEF WatchCommand, Typed, Turns

LEMMA StressCommandKeeps ==
  ASSUME ConsoleInv, NEW n \in 1 .. MaxOperations, NEW mixed \in BOOLEAN,
         StressCommand(n, mixed)
  PROVE  ConsoleInv' /\ ~watch'.late
<1>1. PICK c \in StressStopped(drv, dev) : DriverIs(c)
  BY DEF StressCommand
<1>2. drv' \in Sound /\ dev' \in Devices
  BY <1>1, InvFields, StoppedReplies, DriverIsSound
<1>3. stress' = [phase |-> "START", mixed |-> mixed, todo |-> n]
      /\ watch' \in Patience /\ ~watch'.late
  BY NoWatchKeeps DEF StressCommand
<1>4. stress' \in Stresses /\ stress'.phase = "START" /\ stress'.todo >= 1
  BY <1>3, ConsoleLimits DEF Stresses
<1> QED BY <1>2, <1>3, <1>4, CommandKeeps DEF StressCommand

\* Commands that stop or leave the sessions.
LEMMA PlainCommands ==
  ASSUME ConsoleInv,
         StopCommand \/ BindingCommand \/ LifecycleCommand \/ JobCommand \/ DirectCommand
  PROVE  ConsoleInv' /\ watch' \in {watch, NoWatch}
<1>1. drv \in Sound /\ dev \in Devices /\ watch \in Patience /\ stress \in Stresses
      /\ "POWER_DOWN" \in StableModes
  BY InvFields DEF StableModes
<1>2. NoWatch \in Patience /\ NoStress \in Stresses /\ NoStress.phase = "OFF"
  BY NoWatchKeeps, NoStressType
<1>3. ASSUME Typed \/ Calling, Noted, NEW r \in Replies, DriverIs(r), watch' \in {watch, NoWatch},
             stress' \in {stress, NoStress}
      PROVE  ConsoleInv' /\ watch' \in {watch, NoWatch}
  BY <1>1, <1>2, <1>3, DriverIsSound, CommandKeeps
<1>4. CASE StopCommand
  <2>1. PICK c \in StressStopped(drv, dev) : \E r \in CancelJob(c.d, c.v) : DriverIs(r)
    BY <1>4 DEF StopCommand
  <2>2. PICK r \in CancelJob(c.d, c.v) : DriverIs(r)
    BY <2>1
  <2>3. c.d \in Sound /\ c.v \in Devices
    BY <1>1, <2>1, StoppedReplies DEF Replies
  <2>4. r \in Replies
    BY <2>2, <2>3, CancelReplies
  <2> QED BY <1>3, <1>4, <2>2, <2>4 DEF StopCommand, SessionsStop
<1>5. CASE BindingCommand
  <2>1. PICK r \in Bind(dev, "POWER_DOWN") \cup {Reply(Unbound, dev, "OK")} \cup Rebegun :
          DriverIs(r)
    BY <1>5 DEF BindingCommand
  <2>2. r \in Replies
    BY <1>1, <2>1, BindReplies, UnboundReplies, RebegunReplies DEF Codes
  <2> QED BY <1>3, <1>5, <2>1, <2>2 DEF BindingCommand, SessionsStop
<1>6. CASE LifecycleCommand
  <2>1. PICK r \in End(drv, dev) \cup SoftReset(drv, dev) \cup ResetAndReapply(drv, dev)
                   \cup UNION {Begin(e.v, "POWER_DOWN", TRUE) : e \in End(drv, dev)} : DriverIs(r)
    BY <1>6 DEF LifecycleCommand
  <2>2. ASSUME NEW e \in End(drv, dev) PROVE Begin(e.v, "POWER_DOWN", TRUE) \subseteq Replies
    <3>1. e.v \in Devices
      BY <1>1, EndReplies DEF Replies
    <3> QED BY <1>1, <3>1, BeginReplies
  <2>3. r \in Replies
    BY <1>1, <2>1, <2>2, EndReplies, ResetReplies
  <2> QED BY <1>3, <1>6, <2>1, <2>3 DEF LifecycleCommand
<1>7. CASE JobCommand
  <2>1. PICK r \in StartAttach(drv, dev) \cup StartRead(drv, dev) \cup StartReset(drv, dev)
                   \cup Poll(drv, dev) \cup CancelJob(drv, dev)
                   \cup UNION {StartConfigure(drv, dev, m) : m \in StableModes} : DriverIs(r)
    BY <1>7 DEF JobCommand
  <2>2. r \in Replies
    BY <1>1, <2>1, StartWriteReplies, StartReadReplies, PollReplies, CancelReplies
  <2> QED BY <1>3, <1>7, <2>1, <2>2 DEF JobCommand, SessionsGoOn
<1>8. CASE DirectCommand
  <2>1. PICK r \in StartConversion(drv, dev) \cup ReadSample(drv, dev)
                   \cup ConversionReady(drv, dev)
                   \cup ReadRegister(drv, dev) \cup Recover(drv, dev)
                   \cup ClearFlags(drv, dev) \cup WriteConfiguration(drv, dev)
                   \cup UNION {SetMode(drv, dev, m) : m \in StableModes} : DriverIs(r)
    BY <1>8 DEF DirectCommand
  <2>2. Keeping(drv) \subseteq Replies
    BY DEF Keeping
  <2>3. r \in Replies
    BY <1>1, <2>1, <2>2, StartReplies, SampleReplies, ReadinessReplies, RegisterReplies,
       RecoverReplies, ModesSound, ClearFlagsReplies, WrittenReplies
  <2> QED BY <1>3, <1>8, <2>1, <2>3 DEF DirectCommand, SessionsGoOn
<1> QED BY <1>4, <1>5, <1>6, <1>7, <1>8

LEMMA StartedReplies ==
  ASSUME NEW d \in Sound, NEW v \in Devices
  PROVE  Started(d, v) \subseteq Replies
  BY OneReply, StartReplies DEF Started, Keeping, Codes

LEMMA LaterReplies ==
  ASSUME NEW r \in Replies
  PROVE  Later(r) \subseteq Replies
<1>1. r.d \in Sound /\ r.v \in Devices
  BY DEF Replies
<1>2. Aged(r.d) \in Sound
  BY <1>1, AgedSound
<1>3. Ended(r.v) \in Devices
  BY <1>1, DeviceTypes DEF Ended, Devices
<1> QED BY <1>1, <1>2, <1>3, ReplyFields DEF Later, Codes

\* A read that waits ends with a reply, and the watch no better off.
LEMMA WaitingKeeps ==
  ASSUME ConsoleInv, NEW r \in Replies, WaitingRead(r)
  PROVE  drv' \in Sound /\ dev' \in Devices /\ watch' \in {watch, Older(watch)}
<1>1. r.d \in Sound /\ r.v \in Devices
  BY DEF Replies
<1>2. ReadSample(r.d, r.v) \subseteq Replies
  BY <1>1, SampleReplies DEF Keeping
<1>3. CASE \E s \in ReadSample(r.d, r.v) : s.st # "NOT_READY" /\ DriverIs(s) /\ UNCHANGED watch
  BY <1>2, <1>3, DriverIsSound
<1>4. CASE \E s \in ReadSample(r.d, r.v) :
             /\ \E l \in Later(s) : \E q \in ReadSample(l.d, l.v) : DriverIs(q)
             /\ watch' = Older(watch)
  <2>1. PICK s \in ReadSample(r.d, r.v) :
             /\ \E l \in Later(s) : \E q \in ReadSample(l.d, l.v) : DriverIs(q)
             /\ watch' = Older(watch)
    BY <1>4
  <2>2. PICK l \in Later(s) : \E q \in ReadSample(l.d, l.v) : DriverIs(q)
    BY <2>1
  <2>3. l.d \in Sound /\ l.v \in Devices
    BY <1>2, <2>2, LaterReplies DEF Replies
  <2>4. ReadSample(l.d, l.v) \subseteq Replies
    BY <2>3, SampleReplies DEF Keeping
  <2> QED BY <2>1, <2>2, <2>4, DriverIsSound
<1> QED BY <1>3, <1>4 DEF WaitingRead

LEMMA WaitingCommands ==
  ASSUME ConsoleInv, ReadCommand \/ FreshCommand
  PROVE  ConsoleInv' /\ watch' \in {watch, Older(watch)}
<1>1. drv \in Sound /\ dev \in Devices /\ watch \in Patience /\ Older(watch) \in Patience
      /\ stress \in Stresses /\ NoStress \in Stresses /\ NoStress.phase = "OFF"
  BY InvFields, OlderKeeps, NoStressType
<1>2. PICK r \in Started(drv, dev) :
        \/ DriverIs(r) /\ SessionsGoOn
        \/ WaitingRead(r) /\ stress' = stress
        \/ stress' = NoStress /\ \E c \in StressStopped(r.d, r.v) : WaitingRead(c)
  BY DEF ReadCommand, FreshCommand, SessionsGoOn
<1>3. r \in Replies /\ r.d \in Sound /\ r.v \in Devices
  BY <1>1, StartedReplies DEF Replies
<1>4. (Typed \/ Calling) /\ Noted
  BY DEF ReadCommand, FreshCommand
<1>5. CASE DriverIs(r) /\ SessionsGoOn
  BY <1>1, <1>3, <1>4, <1>5, DriverIsSound, CommandKeeps DEF SessionsGoOn
<1>6. CASE WaitingRead(r) /\ stress' = stress
  BY <1>1, <1>3, <1>4, <1>6, WaitingKeeps, CommandKeeps
<1>7. CASE stress' = NoStress /\ \E c \in StressStopped(r.d, r.v) : WaitingRead(c)
  <2>1. PICK c \in StressStopped(r.d, r.v) : WaitingRead(c)
    BY <1>7
  <2>2. c \in Replies
    BY <1>3, <2>1, StoppedReplies
  <2> QED BY <1>1, <1>4, <1>7, <2>1, <2>2, WaitingKeeps, CommandKeeps
<1> QED BY <1>2, <1>5, <1>6, <1>7

-----------------------------------------------------------------------------
(* The environment. *)

LEMMA EnvironmentKeeps ==
  ASSUME ConsoleInv,
         TimePasses \/ ConversionEnds \/ ConversionLost \/ UserLeaves \/ NoCommand
           \/ UNCHANGED vars
  PROVE  ConsoleInv' /\ watch' \in {watch, Older(watch)}
<1>1. drv \in Sound /\ dev \in Devices /\ watch \in Patience /\ Older(watch) \in Patience
  BY InvFields, OlderKeeps
<1>2. CASE TimePasses
  <2>1. drv' \in Sound /\ drv'.job.kind = drv.job.kind
    BY <1>1, <1>2, AgedSound DEF TimePasses
  <2>2. SessionInv'
    BY <1>2, <2>1, InvFields DEF TimePasses, SessionInv
  <2> QED BY <1>1, <1>2, <2>1, <2>2, InvFields, InvFromParts DEF TimePasses
<1>3. CASE ConversionEnds \/ ConversionLost
  <2>1. dev' \in Devices
    BY <1>1, <1>3, DeviceTypes DEF ConversionEnds, ConversionLost, Ended, Devices
  <2>2. SessionInv'
    BY <1>3, InvFields DEF ConversionEnds, ConversionLost, SessionInv
  <2> QED BY <1>1, <1>3, <2>1, <2>2, InvFields, InvFromParts DEF ConversionEnds, ConversionLost
<1>4. CASE UserLeaves \/ NoCommand \/ UNCHANGED vars
  <2>1. UNCHANGED <<drv, dev, watch, stress, meddled>> /\ turn' \in Turns
        /\ user' \in {"THERE", "GONE"}
    BY <1>4, InvFields DEF UserLeaves, NoCommand, vars, Turns
  <2>2. SessionInv'
    BY <2>1, InvFields DEF SessionInv
  <2> QED BY <1>1, <2>1, <2>2, InvFields, InvFromParts
<1> QED BY <1>2, <1>3, <1>4

-----------------------------------------------------------------------------
(* The theorems. *)

LEMMA ConsoleInit == Init => ConsoleInv
<1> SUFFICES ASSUME Init PROVE ConsoleInv
  OBVIOUS
<1>1. "POWER_DOWN" \in StableModes
  BY DEF StableModes
<1>2. PICK v \in Devices : \E r \in Begin(v, "POWER_DOWN", TRUE) : drv = r.d /\ dev = r.v
  BY DEF Init
<1>3. drv \in Sound /\ dev \in Devices
  BY <1>1, <1>2, BeginReplies DEF Replies
<1>4. drv \in Drivers /\ watch \in Patience /\ watch \in Watches /\ stress \in Stresses
      /\ stress.phase = "OFF"
  BY <1>3, SoundFields, NoWatchKeeps, PatienceFields, NoStressType DEF Init
<1> QED BY <1>3, <1>4 DEF Init, ConsoleInv, TypeOK, SessionInv, Turns

LEMMA ConsoleStep == ConsoleInv /\ [Next]_vars => ConsoleInv'
  BY TickStep, WatchKeeps, StressKeeps, WatchCommandKeeps, StressCommandKeeps,
     PlainCommands, WaitingCommands, EnvironmentKeeps DEF Next, Loop, Command

LEMMA ConsoleSpecInv == Spec => []ConsoleInv
  BY ConsoleInit, ConsoleStep, PTL DEF Spec

\* The two sessions and the driver they share keep their types, the counts of jobs,
\* results and operations included, whatever is typed between their steps.
THEOREM ConsoleTypes == Spec => []TypeOK
<1>1. ConsoleInv => TypeOK
  BY DEF ConsoleInv
<1> QED BY <1>1, ConsoleSpecInv, PTL

\* An OK counted for a polled operation is a sample read in that very poll, unless a
\* command took the session's job, for a session of any length and mix.
THEOREM StressCountsReads == Spec => StressOkMeansRead
<1>1. ConsoleInv /\ [Next]_vars =>
        [/\ turn = "STRESS" /\ stress.phase = "POLL" /\ ~meddled
         /\ stress' # stress
         /\ drv'.last = "OK"
         => drv.evidence /\ dev.unread /\ ~dev'.unread]_vars
  <2> SUFFICES ASSUME ConsoleInv, [Next]_vars, turn = "STRESS", stress.phase = "POLL",
                      ~meddled, stress' # stress, drv'.last = "OK"
               PROVE  drv.evidence /\ dev.unread /\ ~dev'.unread
    OBVIOUS
  <2>1. StressPolls
    BY DEF Next, Loop, Command, TickTurn, WatchStep, WatchIdles, WatchContinuous, WatchStarts,
       WatchPolls, WatchTurn, StressStep, StressIdles, StressSamples, StressReadsRegister,
       StressChecksReady, StressReadsSlot, NoCommand, UserLeaves, WatchCommand, StressCommand,
       StopCommand, BindingCommand, LifecycleCommand, JobCommand, DirectCommand, ReadCommand,
       FreshCommand, Typed, Calling, TimePasses, ConversionEnds, ConversionLost, vars
  <2> QED BY <2>1, StressReads
<1> QED BY <1>1, ConsoleSpecInv, PTL DEF Spec, StressOkMeansRead

\* A watch records a conversion timeout only when the conversion it started was given
\* its whole deadline, whatever the deadline is and whoever shares the driver.
THEOREM WatchIsPatient == Spec => WatchTimeoutWaited
<1>1. ConsoleInv /\ [Next]_vars =>
        [watch'.late /\ watch'.wait = "NO" /\ watch.wait = "STARTED"
           => watch.since = Deadline]_vars
  <2> SUFFICES ASSUME ConsoleInv, [Next]_vars, watch'.late, watch'.wait = "NO",
                      watch.wait = "STARTED"
               PROVE  watch.since = Deadline
    OBVIOUS
  <2>1. watch' = watch \/ watch' = Older(watch) => watch'.wait = watch.wait
    BY InvFields, OlderKeeps
  <2>2. watch' # watch /\ watch' # Older(watch) /\ watch' # NoWatch
    BY <2>1, NoWatchKeeps
  <2>3. WatchStep
    BY <2>2, WatchCommandKeeps, StressCommandKeeps, PlainCommands, WaitingCommands,
       EnvironmentKeeps
       DEF Next, Loop, Command, TickTurn, StressStep, StressIdles, StressSamples,
       StressReadsRegister, StressChecksReady, StressReadsSlot, StressPolls, StressTurn
  <2> QED BY <2>3, WatchKeeps
<1> QED BY <1>1, ConsoleSpecInv, PTL DEF Spec, WatchTimeoutWaited
=============================================================================
