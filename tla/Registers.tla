------------------------------ MODULE Registers ------------------------------
(***************************************************************************)
(* The configuration the driver caches (struct Config) and the four device *)
(* registers it programs from it: THRESHOLD_L, THRESHOLD_H,                *)
(* INT_CONFIGURATION and CONFIGURATION.  A configuration is applied by     *)
(* writing the four registers, in that order, one I2C write each; the      *)
(* operators below say what the registers hold after a prefix of those     *)
(* writes.                                                                 *)
(*                                                                         *)
(* Field groups that no property tells apart are one abstract value:       *)
(* "meas" is everything of CONFIGURATION but the operating mode (range,    *)
(* conversion time, quick wake, latch, polarity, fault count), "int" is    *)
(* everything of INT_CONFIGURATION but the burst bit (pin direction and    *)
(* function), and "local" is what never reaches the device (verifyCrc,     *)
(* packageVariant).                                                        *)
(***************************************************************************)
EXTENDS Naturals

CONSTANTS
  Thresholds,    \* packed threshold register values
  MeasFields,    \* CONFIGURATION bits other than the operating mode
  IntFields,     \* INT_CONFIGURATION bits other than I2C_BURST
  LocalFields,   \* settings that are cached but never written to the device
  DefaultLow, DefaultHigh, DefaultMeas, DefaultInt, DefaultLocal

ASSUME DefaultsAssumption ==
  /\ DefaultLow \in Thresholds /\ DefaultHigh \in Thresholds
  /\ DefaultMeas \in MeasFields /\ DefaultInt \in IntFields
  /\ DefaultLocal \in LocalFields

StableModes == {"POWER_DOWN", "CONTINUOUS"}       \* isStableMode
Modes       == StableModes \cup {"ONE_SHOT"}      \* both one-shot modes as one

Configs == [low : Thresholds, high : Thresholds, int : IntFields,
            burst : BOOLEAN, meas : MeasFields, mode : StableModes,
            local : LocalFields]

RegisterFiles == [low : Thresholds, high : Thresholds, int : IntFields,
                  burst : BOOLEAN, meas : MeasFields, mode : Modes]

\* Config{}: its register image is exactly the documented reset state.
DefaultConfig == [low |-> DefaultLow, high |-> DefaultHigh, int |-> DefaultInt,
                  burst |-> TRUE, meas |-> DefaultMeas, mode |-> "POWER_DOWN",
                  local |-> DefaultLocal]

\* One register write.
PutLow(r, v)     == [r EXCEPT !.low = v]
PutHigh(r, v)    == [r EXCEPT !.high = v]
PutInt(r, i, b)  == [r EXCEPT !.int = i, !.burst = b]
PutCfg(r, m, o)  == [r EXCEPT !.meas = m, !.mode = o]

\* The register image of configuration c.
Image(c) == [low |-> c.low, high |-> c.high, int |-> c.int, burst |-> c.burst,
             meas |-> c.meas, mode |-> c.mode]

ResetRegisters == Image(DefaultConfig)

\* The registers r after the first k of the four writes that apply c.
Written(r, c, k) ==
  [low   |-> IF k >= 1 THEN c.low   ELSE r.low,
   high  |-> IF k >= 2 THEN c.high  ELSE r.high,
   int   |-> IF k >= 3 THEN c.int   ELSE r.int,
   burst |-> IF k >= 3 THEN c.burst ELSE r.burst,
   meas  |-> IF k >= 4 THEN c.meas  ELSE r.meas,
   mode  |-> IF k >= 4 THEN c.mode  ELSE r.mode]

\* The registers hold configuration c.  A one-shot conversion runs on a driver
\* whose stable mode is POWER_DOWN; the device drops back to it by itself.
Holds(r, c) ==
  /\ r.low = c.low /\ r.high = c.high
  /\ r.int = c.int /\ r.burst = c.burst
  /\ r.meas = c.meas
  /\ r.mode = c.mode \/ (r.mode = "ONE_SHOT" /\ c.mode = "POWER_DOWN")
=============================================================================
