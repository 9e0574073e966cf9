------------------------------- MODULE Numeric -------------------------------
(***************************************************************************)
(* The driver's conversions between registers and values: the fields of    *)
(* the CONFIGURATION and INT_CONFIGURATION registers, the result frame and *)
(* its CRC nibble, the threshold encoding, and the range check of a raw    *)
(* block access.  They are pure: a register is a number, a result frame is *)
(* the set of the bits that are 1 among its 32, and an enumeration is the  *)
(* number of the enumerator.  Lux is counted in ADC codes, the unit in     *)
(* which every comparison of the encoder is made.                          *)
(***************************************************************************)
EXTENDS Integers, FiniteSets

CONSTANTS
  ThresholdResultMax,     \* THRESHOLD_RESULT_MAX,   0xFFF in the code
  ThresholdExponentMax,   \* THRESHOLD_EXPONENT_MAX, 15 in the code
  ThresholdShiftBase,     \* THRESHOLD_SHIFT_BASE,   8 in the code
  ThresholdGuardCodes     \* THRESHOLD_ADC_FLOAT_GUARD_CODES, 4096 in the code

ASSUME ThresholdAssumption ==
  /\ ThresholdResultMax \in Nat \ {0} /\ ThresholdExponentMax \in Nat
  /\ ThresholdShiftBase \in Nat /\ ThresholdGuardCodes \in Nat

-----------------------------------------------------------------------------
\* Register fields: the weight of the lowest bit of each mask, 2^BIT, and how many
\* values the mask has room for.
ConversionTimeField == <<64, 16>>

ConfigurationLayout ==
  [quickWake |-> <<32768, 2>>, reserved |-> <<16384, 2>>, range |-> <<1024, 16>>,
   conversionTime |-> ConversionTimeField, mode |-> <<16, 4>>,
   interruptLatch |-> <<8, 2>>, interruptPolarity |-> <<4, 2>>,
   faultCount |-> <<1, 4>>]

IntConfigurationLayout ==
  [fixed |-> <<32, 2048>>, intDirection |-> <<16, 2>>, intConfig |-> <<4, 4>>,
   reserved |-> <<2, 2>>, burstMode |-> <<1, 2>>]

\* (raw & MASK) >> BIT and (value << BIT) & MASK.
FieldValue(raw, f)  == (raw \div f[1]) % f[2]
FieldBits(value, f) == (value % f[2]) * f[1]

DecodedFields(raw, layout) == [f \in DOMAIN layout |-> FieldValue(raw, layout[f])]

\* The builders start from zero and from the fixed bits, and set every field but the
\* reserved one.
BuildConfigurationRegister(c) ==
  LET bits(f) == FieldBits(c[f], ConfigurationLayout[f])
  IN bits("quickWake") + bits("range") + bits("conversionTime") + bits("mode")
     + bits("interruptLatch") + bits("interruptPolarity") + bits("faultCount")

BuildIntConfigurationRegister(c) ==
  LET bits(f) == FieldBits(c[f], IntConfigurationLayout[f])
  IN bits("fixed") + bits("intDirection") + bits("intConfig") + bits("burstMode")

RangeValues     == 0..8 \cup {12}
IntConfigValues == {0, 1, 3}
FixedPattern    == 1024              \* INTCFG_FIXED_BITS, bits 15:5

\* decodeConfiguration's "valid", and what writeConfiguration accepts; the
\* fields not named are valid with any value their width allows.
IgnoresReserved(c) == c.range \in RangeValues /\ c.conversionTime <= 11    \* slip
ValidConfiguration(c) ==
  c.reserved = 0 /\ c.range \in RangeValues /\ c.conversionTime <= 11

ValidIntConfiguration(c) ==
  c.fixed = FixedPattern /\ c.reserved = 0 /\ c.intConfig \in IntConfigValues

\* Configuration values the driver can hold.
ConfigurationValues ==
  [quickWake : 0..1, reserved : {0}, range : RangeValues,
   conversionTime : 0..11, mode : 0..3, interruptLatch : 0..1,
   interruptPolarity : 0..1, faultCount : 0..3]

IntConfigurationValues ==
  [fixed : {FixedPattern}, intDirection : 0..1, intConfig : IntConfigValues,
   reserved : {0}, burstMode : 0..1]

-----------------------------------------------------------------------------
\* A result frame: resultReg is its bits 31..16, lsbCrcReg its bits 15..0.
FrameField(frame, low, width) == {i \in 0..(width - 1) : low + i \in frame}

Exponent(frame) == FrameField(frame, 28, 4)
Mantissa(frame) == FrameField(frame, 8, 20)
CounterOf(frame) == FrameField(frame, 4, 4)
Crc(frame)      == FrameField(frame, 0, 4)

\* The mantissa bits of the second XOR, and a slip that forgets one.
OddBitsBut13 == {1, 3, 5, 7, 9, 11, 15, 17, 19}
OddBits == {1, 3, 5, 7, 9, 11, 13, 15, 17, 19}

\* The bits of exponent, mantissa and counter that each CRC bit is the XOR of.
CrcInputs(k) ==
  CASE k = 0 -> [e |-> 0..3,   m |-> 0..19, c |-> 0..3]
    [] k = 1 -> [e |-> {1, 3}, m |-> OddBits, c |-> {1, 3}]
    [] k = 2 -> [e |-> {3},    m |-> {3, 7, 11, 15, 19}, c |-> {3}]
    [] k = 3 -> [e |-> {},     m |-> {3, 11, 19},        c |-> {}]

ComputeCrcNibble(exponent, mantissa, counter) ==
  {k \in 0..3 : LET in == CrcInputs(k)
                IN (Cardinality(exponent \cap in.e) + Cardinality(mantissa \cap in.m)
                      + Cardinality(counter \cap in.c)) % 2 = 1}

FrameCrc(frame) ==
  ComputeCrcNibble(Exponent(frame), Mantissa(frame), CounterOf(frame))

\* Exponents above RESULT_EXPONENT_MAX = 8: bit 3 and another one.
ExponentInRange(frame) == 3 \in Exponent(frame) => Exponent(frame) = {3}

\* _decodeSampleRegisters with verifyCrc on.
DecodeSampleRegisters(frame) ==
  IF ExponentInRange(frame) /\ FrameCrc(frame) = Crc(frame) THEN "OK"
  ELSE "CRC_ERROR"

-----------------------------------------------------------------------------
\* Thresholds: result << (THRESHOLD_SHIFT_BASE + exponent) ADC codes.
ValidThresholds == [exponent : 0..ThresholdExponentMax, result : 0..ThresholdResultMax]

Quantum(exponent) == 2^(ThresholdShiftBase + exponent)
ThresholdToAdcCodes(t) == t.result * Quantum(t.exponent)
ThresholdAdcCodesMax == ThresholdResultMax * Quantum(ThresholdExponentMax)

LuxInRange(codes) == codes <= ThresholdAdcCodesMax + ThresholdGuardCodes

\* Slip: truncation instead of rounding.
TruncatedResult(codes, exponent) ==
  LET floor == codes \div Quantum(exponent)
  IN IF floor > ThresholdResultMax THEN ThresholdResultMax ELSE floor

\* The result that represents codes best with one exponent: (uint64_t)(x + 0.5),
\* then clamped.
RoundedResult(codes, exponent) ==
  LET nearest == (2 * codes + Quantum(exponent)) \div (2 * Quantum(exponent))
  IN IF nearest > ThresholdResultMax THEN ThresholdResultMax ELSE nearest

EncodingError(codes, t) ==
  LET d == ThresholdToAdcCodes(t) - codes IN IF d < 0 THEN -d ELSE d

\* The loop of luxToThreshold: strictly smaller errors win, so the smallest
\* exponent keeps a tie.
LuxToThreshold(codes) ==
  LET candidate(e) == [exponent |-> e, result |-> RoundedResult(codes, e)]
      err(e) == EncodingError(codes, candidate(e))
  IN candidate(CHOOSE e \in 0..ThresholdExponentMax :
       \A f \in 0..ThresholdExponentMax :
         err(e) < err(f) \/ (err(e) = err(f) /\ e <= f))

-----------------------------------------------------------------------------
\* Registers 0x00..0x0C and DEVICE_ID are public.
IsValidPublicRegisterAddress(reg) == reg <= 12 \/ reg = 17

\* A block of len bytes spans (len - 1) / 2 further registers; the sum must not
\* wrap the 8-bit address.
EvenSpan(len)     == (len \div 2) - 1   \* slip: an odd last byte is forgotten
RegisterSpan(len) == (len - 1) \div 2

IsValidPublicRegisterBlock(startReg, len) ==
  /\ len > 0
  /\ RegisterSpan(len) <= 255 - startReg
  /\ \A reg \in startReg..(startReg + RegisterSpan(len)) :
        IsValidPublicRegisterAddress(reg)

\* What the check stands for, byte by byte: the device reads two bytes of a
\* register and goes on to the next one.
BlockIsPublic(startReg, len) ==
  /\ len > 0
  /\ \A i \in 0..(len - 1) : /\ startReg + i \div 2 <= 255
                            /\ IsValidPublicRegisterAddress(startReg + i \div 2)

-----------------------------------------------------------------------------
\* Tables indexed by the conversion time, and what the driver derives from them.
ConversionTimeUs ==
  <<600, 1000, 1800, 3400, 6500, 12700, 25000, 50000, 100000, 200000, 400000, 800000>>
ConversionTimeMs == <<1, 1, 2, 4, 7, 13, 25, 50, 100, 200, 400, 800>>

StandbyUs == 500
ForcedAutoExtraUs == 500
SlotCount == 4

CeilUsToMs(us) == (us + 999) \div 1000

OneShotBudgetMs(time, forced, quickWake) ==
  CeilUsToMs(ConversionTimeUs[time] + (IF quickWake THEN 0 ELSE StandbyUs)
             + (IF forced THEN ForcedAutoExtraUs ELSE 0))

\* _pollContinuousGateMs, for a read of the whole FIFO or not.
ContinuousGateMs(time, fifo) == ConversionTimeMs[time] * (IF fifo THEN SlotCount ELSE 1)

RetryIntervalMs(time) ==
  LET sixteenth == ConversionTimeMs[time] \div 16 IN IF sixteenth = 0 THEN 1 ELSE sixteenth

OneConversion(time, quickWake) == OneShotBudgetMs(time, TRUE, quickWake) + 1000   \* slip
ReadTimeoutMs(time, quickWake) == OneShotBudgetMs(time, TRUE, quickWake) * SlotCount + 1000
=============================================================================
