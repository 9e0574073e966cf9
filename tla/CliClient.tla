------------------------------ MODULE CliClient ------------------------------
(***************************************************************************)
(* Abstract specification: an initialized driver as CliDriver describes    *)
(* it, with a device that converts.  Whatever a caller does next, the      *)
(* driver gives one of the replies of that call.  The lifecycle calls and  *)
(* the jobs that write are left to DriverLifecycle.                        *)
(***************************************************************************)
EXTENDS CliDriver

VARIABLES
  drv,  \* the driver
  dev   \* the device

\* A driver that has just been initialized, in either mode.
Init ==
  /\ drv \in {Fresh("READY", m) : m \in StableModes}
  /\ dev \in {[running |-> IF drv.mode = "CONTINUOUS" THEN drv.mode ELSE "IDLE", unread |-> u] :
                u \in BOOLEAN}

Replies(d, v) ==
  ConversionReady(d, v) \cup ReadSample(d, v) \cup ReadRegister(d, v) \cup ClearFlags(d, v)
  \cup StartConversion(d, v) \cup WriteConfiguration(d, v) \cup Tick(d, v)
  \cup Recover(d, v) \cup StartRead(d, v) \cup Poll(d, v) \cup CancelJob(d, v)
  \cup UNION {SetMode(d, v, m) : m \in StableModes}

Call == \E r \in Replies(drv, dev) : drv' = r.d /\ dev' = r.v
TimePasses == drv' = Aged(drv) /\ UNCHANGED dev
ConversionEnds == dev.running # "IDLE" /\ dev' = Ended(dev) /\ UNCHANGED drv

Next == Call \/ TimePasses \/ ConversionEnds

Spec == Init /\ [][Next]_<<drv, dev>>
=============================================================================
