------------------------------ MODULE SelfCheck ------------------------------
(***************************************************************************)
(* The selfcheck commands, runSelfTest() of both consoles, and what they   *)
(* leave of the application's settings.  The Arduino one tries every       *)
(* setter that changes the thresholds and the INT pin and then puts back   *)
(* what it captured before; the ESP-IDF one only reads, but its threshold  *)
(* readback adopts what the device holds and recover() writes that back.   *)
(*                                                                         *)
(* A threshold is a value and the form it is encoded in: encoding its lux  *)
(* again keeps the value and may change the form.  Of CONFIGURATION only   *)
(* its place as the last write of an application is left, and reads of     *)
(* results, FLAGS and identification are one step that may fail.  A failed *)
(* write may have landed.  TriesAnyway is a slip of the definition that    *)
(* follows it.                                                             *)
(***************************************************************************)
EXTENDS Naturals

CONSTANTS
  Levels,        \* threshold values, in order
  DefaultLow, DefaultHigh   \* THRESHOLD_L_RESET, THRESHOLD_H_RESET

ASSUME SelfCheckAssumption ==
  Levels \subseteq Nat /\ {DefaultLow, DefaultHigh} \subseteq Levels

VARIABLES
  port,      \* "ARDUINO" or "IDF"
  step,      \* where runSelfTest() is
  cache,     \* the settings the driver holds
  device,    \* the settings the device holds
  base,      \* baseLowThreshold ... baseIntConfig: what was captured
  failed,    \* of the steps that put things back, those that reported FAIL
  began      \* cache and device at the start

selfVars == <<port, step, cache, device, base, failed, began>>

Thresholds == [level : Levels, form : {"GIVEN", "ENCODED"}]
Given(level) == [level |-> level, form |-> "GIVEN"]
Directions == {"PIN_INPUT", "PIN_OUTPUT"}
IntConfigs == {"THRESHOLD", "EVERY_CONVERSION", "FIFO_FULL"}
Settings == [low : Thresholds, high : Thresholds, direction : Directions, int : IntConfigs]

ResetDeviceSettings ==
  [low |-> Given(DefaultLow), high |-> Given(DefaultHigh),
   direction |-> "PIN_OUTPUT", int |-> "THRESHOLD"]

\* The order of the steps, and the step after each.
ArduinoSteps ==
  <<"INSPECT", "CAPTURE", "CAPTURE_LUX", "MEASURE", "BASELINE", "DEFAULTS", "RESTORE",
    "CONVERSION_READY", "FIFO_FULL", "THRESHOLD", "RESTORE_AGAIN", "DIRECTION", "CONFIG",
    "CLEAR_FLAGS", "RECOVER", "DONE">>
IdfSteps == <<"INSPECT", "CAPTURE", "CAPTURE_LUX", "MEASURE", "RECOVER", "DONE">>
Sequence == IF port = "IDF" THEN IdfSteps ELSE ArduinoSteps
Following(s) ==
  LET i == CHOOSE k \in DOMAIN Sequence : Sequence[k] = s IN Sequence[i + 1]

PutBack == {"RESTORE_AGAIN", "DIRECTION", "CONFIG", "RECOVER"}

StepNames == {ArduinoSteps[k] : k \in DOMAIN ArduinoSteps} \cup {"ABORTED"}

SelfTypeOK ==
  /\ port \in {"ARDUINO", "IDF"}
  /\ step \in StepNames
  /\ cache \in Settings /\ device \in Settings /\ base \in Settings
  /\ failed \subseteq PutBack
  /\ began \in [cache : Settings, device : Settings]

\* The device may have reset since the driver configured it.
SelfInit ==
  /\ port \in {"ARDUINO", "IDF"}
  /\ step = "INSPECT"
  /\ cache \in {s \in Settings : s.low.form = "GIVEN" /\ s.high.form = "GIVEN"}
  /\ device \in {cache, ResetDeviceSettings}
  /\ base = cache
  /\ failed = {}
  /\ began = [cache |-> cache, device |-> device]

-----------------------------------------------------------------------------
\* The registers after the first n of the writes of settings s.
Landed(s, n) ==
  [low  |-> IF n >= 1 THEN s.low ELSE device.low,
   high |-> IF n >= 2 THEN s.high ELSE device.high,
   direction |-> IF n >= 3 THEN s.direction ELSE device.direction,
   int       |-> IF n >= 3 THEN s.int ELSE device.int]

Passes == step' = Following(step) /\ failed' = failed
Fails  == step' = Following(step) /\ failed' = failed \cup ({step} \cap PutBack)
Frame  == UNCHANGED <<port, base, began>>

\* _applyConfig for settings s: kept in the cache if every write succeeds.
Apply(s) ==
  \/ Passes /\ cache' = s /\ device' = Landed(s, 3)
  \/ Fails /\ cache' = cache /\ \E n \in 0 .. 3 : device' = Landed(s, n)

\* setThresholds: the two threshold registers alone.
SetThresholds(low, high) ==
  LET s == [cache EXCEPT !.low = low, !.high = high]
  IN \/ Passes /\ cache' = s /\ device' = Landed(s, 2)
     \/ Fails /\ cache' = cache /\ \E n \in 0 .. 2 : device' = Landed(s, n)

\* Without an initialized driver there is nothing to check.
NotInitialized ==
  /\ step = "INSPECT" /\ step' = "ABORTED"
  /\ UNCHANGED <<cache, device, failed>> /\ Frame

\* Steps that read, or write what no setting depends on.
Look ==
  /\ step \in {"INSPECT", "MEASURE", "CLEAR_FLAGS"}
  /\ Passes \/ Fails
  /\ UNCHANGED <<cache, device>> /\ Frame

TriesAnyway == Following(step)
\* Without a saved threshold window the Arduino check stops.
AfterFailedCapture == IF port = "ARDUINO" THEN "ABORTED" ELSE Following(step)

\* getThresholds: the cache adopts what was read; a failed read leaves it.
Capture ==
  /\ step \in {"CAPTURE", "CAPTURE_LUX"}
  /\ \/ LET read == [cache EXCEPT !.low = device.low, !.high = device.high]
        IN Passes /\ cache' = read /\ base' = read
     \/ step' = AfterFailedCapture /\ UNCHANGED <<cache, base, failed>>
  /\ UNCHANGED <<port, device, began>>

Baseline == step = "BASELINE" /\ Apply(cache) /\ Frame

Defaults ==
  step = "DEFAULTS" /\ SetThresholds(Given(DefaultLow), Given(DefaultHigh)) /\ Frame

RestoreThresholds ==
  step \in {"RESTORE", "RESTORE_AGAIN"} /\ SetThresholds(base.low, base.high) /\ Frame

\* The presets for the INT pin; a PicoStar has none and refuses them.
Preset(int) == Apply([cache EXCEPT !.direction = "PIN_OUTPUT", !.int = int])
Refused == Fails /\ UNCHANGED <<cache, device>>

PresetConversion == step = "CONVERSION_READY" /\ (Preset("EVERY_CONVERSION") \/ Refused) /\ Frame
PresetFifo == step = "FIFO_FULL" /\ (Preset("FIFO_FULL") \/ Refused) /\ Frame

\* The captured lux, encoded again; refused if the window is inside out.
Encoded(t) == {t, [t EXCEPT !.form = "ENCODED"]}
PresetThreshold ==
  /\ step = "THRESHOLD"
  /\ \/ /\ base.low.level <= base.high.level
        /\ \E low \in Encoded(base.low), high \in Encoded(base.high) :
             Apply([low |-> low, high |-> high, direction |-> "PIN_OUTPUT",
                    int |-> "THRESHOLD"])
     \/ Refused
  /\ Frame

RestoreDirection ==
  step = "DIRECTION" /\ Apply([cache EXCEPT !.direction = base.direction]) /\ Frame

RestoreConfig == step = "CONFIG" /\ Apply([cache EXCEPT !.int = base.int]) /\ Frame

\* recover(): identify the device, then write the whole cache.
Rewritten(s) == Landed(s, 3)
Recover ==
  /\ step = "RECOVER"
  /\ \/ Passes /\ device' = Rewritten(cache)
     \/ Fails /\ \E n \in 0 .. 3 : device' = Landed(cache, n)
  /\ UNCHANGED cache /\ Frame

SelfNext ==
  \/ NotInitialized \/ Look \/ Capture \/ Baseline \/ Defaults \/ RestoreThresholds
  \/ PresetConversion \/ PresetFifo \/ PresetThreshold
  \/ RestoreDirection \/ RestoreConfig \/ Recover

SelfSpec == SelfInit /\ [][SelfNext]_selfVars
-----------------------------------------------------------------------------
(* Properties. *)

\* A self-check that could not capture the thresholds stops before it has written
\* anything.  One that runs to its end brings the settings back, whatever failed on
\* the way: on Arduino, if the calls that put things back succeeded, the thresholds
\* are those the device had and the INT settings those the driver had; on either
\* console driver and device agree after a successful recover().
SettingsComeBack ==
  /\ step = "ABORTED" => device = began.device
  /\ port = "ARDUINO" /\ step = "DONE" /\ failed = {} =>
       cache = [began.cache EXCEPT !.low = began.device.low, !.high = began.device.high]
  /\ step = "DONE" /\ "RECOVER" \notin failed => device = cache
=============================================================================
