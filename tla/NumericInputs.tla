---------------------------- MODULE NumericInputs ----------------------------
(***************************************************************************)
(* Every input of the conversions of Numeric, one initial state each.  The *)
(* threshold constants are small enough to enumerate every code; frames    *)
(* are those with at most two data bits set, which is enough for a CRC     *)
(* that is linear, with one bit or two neighbouring bits changed on the    *)
(* way.                                                                    *)
(***************************************************************************)
EXTENDS Numeric, Transports

VARIABLE input

\* Frames as the device sends them: data bits 31..4 and their CRC.
FewBits == {{i, j} : i, j \in 4..31} \cup {{}}
SomeData == {d \in FewBits : ExponentInRange(d)}
SentFrames == {data \cup FrameCrc(data) : data \in SomeData}

\* One bit, or two neighbouring ones, changed on the bus.
Disturbances == {{i} : i \in 0..31} \cup {{i, i + 1} : i \in 0..30}

RawValues == 0..65535
RawInputs == [kind : {"raw"}, raw : RawValues]
ConfigurationInputs == [kind : {"configuration"}, values : ConfigurationValues]
IntConfigurationInputs == [kind : {"intConfiguration"}, values : IntConfigurationValues]
FrameInputs == [kind : {"frame"}, sent : SentFrames, changed : Disturbances]
CodeInputs ==
  [kind : {"codes"}, codes : {c \in 0..(2 * ThresholdAdcCodesMax) : LuxInRange(c)}]
TableInputs == [kind : {"table"}, time : 1..12, quickWake : BOOLEAN]
WireInputs ==
  [kind : {"wire"}, tx : {0, 1, 3, 128, 129}, rx : {0, 1, 4, 128, 129},
   taken : 0..3 \cup {128, 129}, result : 0..6, received : 0..4 \cup {128}]
IdfInputs ==
  [kind : {"idf"}, addr : {GeneralCall, 68, 69}, len : {0, 1, 3}, err : EspErrors,
   context : [device : BOOLEAN, generalCall : BOOLEAN, address : {68, 69}]]
BlockInputs == [kind : {"block"}, startReg : 0..255, len : 0..40 \cup 470..520]

Inputs ==
  UNION {RawInputs, ConfigurationInputs, IntConfigurationInputs, FrameInputs,
         CodeInputs, TableInputs, WireInputs, IdfInputs, BlockInputs}

NumericInit == input \in Inputs
NumericNext == UNCHANGED input
NumericSpec == NumericInit /\ [][NumericNext]_input

\* What the driver builds from a configuration, both registers, it decodes back
\* to the same configuration and calls valid; and a raw register value that it
\* accepts is reproduced bit by bit from the fields decoded from it.  So no field
\* overlaps another or is cut, and what writeConfiguration caches of a raw write is
\* all that a later re-application needs.
CodecRoundTrip ==
  /\ input.kind = "configuration" =>
       LET back == DecodedFields(BuildConfigurationRegister(input.values),
                                 ConfigurationLayout)
       IN back = input.values /\ ValidConfiguration(back)
  /\ input.kind = "intConfiguration" =>
       LET back == DecodedFields(BuildIntConfigurationRegister(input.values),
                                 IntConfigurationLayout)
       IN back = input.values /\ ValidIntConfiguration(back)
  /\ input.kind = "raw" =>
       LET c == DecodedFields(input.raw, ConfigurationLayout)
           i == DecodedFields(input.raw, IntConfigurationLayout)
       IN /\ ValidConfiguration(c) => BuildConfigurationRegister(c) = input.raw
          /\ ValidIntConfiguration(i) => BuildIntConfigurationRegister(i) = input.raw

\* A frame with one wrong bit, or two neighbouring ones, is never accepted:
\* wherever they are, also across the border of two fields.
DisturbanceNoticed ==
  input.kind = "frame" =>
    LET received == (input.sent \cup input.changed) \ (input.sent \cap input.changed)
    IN DecodeSampleRegisters(received) = "CRC_ERROR"

\* luxToThreshold returns a valid threshold, and none of the valid thresholds is
\* closer to the request; also at the top, where rounding leaves the register.
NearestThreshold ==
  input.kind = "codes" =>
    LET t == LuxToThreshold(input.codes)
    IN t \in ValidThresholds /\ \A u \in ValidThresholds :
         EncodingError(input.codes, t) <= EncodingError(input.codes, u)

\* A block is accepted exactly if every byte the device's auto-increment reaches
\* belongs to a public register and none is beyond address 255.
BlockAcceptsExactly ==
  input.kind = "block" =>
    (IsValidPublicRegisterBlock(input.startReg, input.len)
      <=> BlockIsPublic(input.startReg, input.len))

\* A read is not given up, nor an owned conversion released, before the slowest
\* gate that may hold it has opened and a retry after that was due: for every
\* conversion time, with and without quick wake-up.
TimeoutCoversGates ==
  input.kind = "table" =>
    \A forced, fifo \in BOOLEAN :
      LET gates == {OneShotBudgetMs(input.time, forced, input.quickWake),
                    ContinuousGateMs(input.time, fifo)}
      IN \A gate \in gates :
           gate + RetryIntervalMs(input.time) < ReadTimeoutMs(input.time, input.quickWake)

\* What the Wire adapter tells of a transfer of these lengths, of which Wire
\* buffered "taken" bytes and received so many; and the ESP-IDF adapter.
WireVerdict(tx, rx, taken, result, received) ==
  LET write   == WireWrite(tx, taken, result)
      read    == WireWriteRead(tx, rx, taken, result, received)
      sent    == tx \in 1..WireCapacity /\ taken = tx /\ result = 0
      refused == tx \notin 1..WireCapacity \/ (taken = tx /\ result = 1)
      tooLong == rx \notin 1..WireCapacity
  IN /\ write = "OK" <=> sent
     /\ read = "OK" <=> sent /\ ~tooLong /\ received = rx
     /\ write \in Uncounted <=> refused
     /\ read \in Uncounted <=> refused \/ tooLong

IdfVerdict(context, addr, len, err) ==
  LET write == IdfWrite(context, addr, len, err)
      read  == IdfWriteRead(context, addr, len, err)
      own   == len > 0 /\ context.device /\ addr = context.address
      all   == len > 0 /\ context.device /\ context.generalCall /\ addr = GeneralCall
  IN /\ write = "OK" <=> (own \/ all) /\ err = "ESP_OK"
     /\ read = "OK" <=> own /\ err = "ESP_OK"
     /\ write \in Uncounted <=> ~(own \/ all) \/ err = "ESP_ERR_INVALID_ARG"
     /\ read \in Uncounted <=> ~own \/ err = "ESP_ERR_INVALID_ARG"

\* What an adapter tells the driver of a transfer: OK only if every byte went both
\* ways, through the handle of the very address; and never one of the statuses that
\* the health counters ignore unless the bus API refused the arguments, so that no
\* bus fault stays uncounted.
TransferVerdict ==
  /\ input.kind = "wire" =>
       WireVerdict(input.tx, input.rx, input.taken, input.result, input.received)
  /\ input.kind = "idf" => IdfVerdict(input.context, input.addr, input.len, input.err)
=============================================================================
