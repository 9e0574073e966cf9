----------------------------- MODULE HonestCache -----------------------------
(***************************************************************************)
(* What the driver promises of its cached configuration.  While it is      *)
(* trusted, the device holds it at every instant, and a change of one is a *)
(* change of both.  Once it is in doubt, the way back is an application of *)
(* the whole of it, and until then it still takes up no value that the     *)
(* device does not hold at that moment.                                    *)
(***************************************************************************)
EXTENDS Registers

VARIABLES
  trust,   \* "DOWN", "TRUSTED" or "DOUBTED"
  cache,   \* the configuration the driver shows
  device   \* the device's registers

Init == trust = "DOWN" /\ cache \in Configs /\ device \in RegisterFiles

\* The whole configuration, old or new, is in the device.
Apply == trust' = "TRUSTED" /\ device' = Image(cache')

\* Cache and device move together, or the device starts or ends a one-shot.
Change == trust = "TRUSTED" /\ trust' = "TRUSTED" /\ Holds(device', cache')

\* A partial update, a raw write or a reset: the cache stays what it was.
Doubt == trust = "TRUSTED" /\ trust' = "DOUBTED" /\ cache' = cache

\* What the device has in the fields that the cache changes.
TakesUp(old, new, r) ==
  /\ \A f \in {"low", "high", "int", "burst", "meas"} : new[f] # old[f] => r[f] = new[f]
  /\ new.mode # old.mode =>
       r.mode = new.mode \/ (r.mode = "ONE_SHOT" /\ new.mode = "POWER_DOWN")

Adopt == trust = "DOUBTED" /\ trust' = "DOUBTED" /\ TakesUp(cache, cache', device')

\* The driver is initialized again only by Apply.
TakeDown == trust' = "DOWN"

Next ==
  /\ cache' \in Configs /\ device' \in RegisterFiles
  /\ Apply \/ Change \/ Doubt \/ Adopt \/ TakeDown

Spec == Init /\ [][Next]_<<trust, cache, device>>
=============================================================================
