----------------------------- MODULE Transports -----------------------------
(***************************************************************************)
(* The two bus adapters of the examples: what status the driver is given   *)
(* for each outcome of the Wire and of the ESP-IDF bus API.  The buffers   *)
(* themselves are never null when the driver calls; their lengths, the     *)
(* address and what the bus API answers decide.  LumpedWire and AnyHandle  *)
(* are slips of the definitions that follow them.                          *)
(***************************************************************************)
EXTENDS Naturals

WireCapacity == 128     \* bytes of the Wire buffer

\* Statuses that the driver's tracked gate returns without counting them.
Uncounted == {"INVALID_CONFIG", "INVALID_PARAM"}

LumpedWire(result) == IF result = 0 THEN "OK" ELSE "INVALID_PARAM"
WireStatus(result) ==
  CASE result = 0 -> "OK"
    [] result = 1 -> "INVALID_PARAM"
    [] result = 2 -> "I2C_NACK_ADDR"
    [] result = 3 -> "I2C_NACK_DATA"
    [] result = 4 -> "I2C_BUS"
    [] result = 5 -> "I2C_TIMEOUT"
    [] OTHER      -> "I2C_ERROR"

\* taken: the bytes Wire buffered; received: the bytes the device answered.
WireWrite(len, taken, result) ==
  IF len = 0 \/ len > WireCapacity THEN "INVALID_PARAM"
  ELSE IF taken # len THEN "I2C_ERROR"
  ELSE WireStatus(result)

WireWriteRead(txLen, rxLen, taken, result, received) ==
  IF rxLen = 0 \/ rxLen > WireCapacity THEN "INVALID_PARAM"
  ELSE LET sent == WireWrite(txLen, taken, result)
       IN IF sent = "OK" /\ received # rxLen THEN "I2C_ERROR" ELSE sent

EspErrors == {"ESP_OK", "ESP_ERR_TIMEOUT", "ESP_ERR_INVALID_ARG",
              "ESP_ERR_INVALID_STATE", "ESP_ERR_INVALID_RESPONSE", "ESP_FAIL"}

EspStatus(err) ==
  CASE err = "ESP_OK"                   -> "OK"
    [] err = "ESP_ERR_TIMEOUT"          -> "I2C_TIMEOUT"
    [] err = "ESP_ERR_INVALID_ARG"      -> "INVALID_PARAM"
    [] err = "ESP_ERR_INVALID_RESPONSE" -> "I2C_ERROR"
    [] OTHER                            -> "I2C_BUS"

GeneralCall == 0

\* The device handle an address selects; context is Opt4001IdfI2c.
NoHandle == "none"
AnyHandle(context, addr) == "device"
IdfHandle(context, addr) ==
  IF addr = context.address THEN "device"
  ELSE IF addr = GeneralCall /\ context.generalCall THEN "generalCall"
  ELSE NoHandle

IdfWrite(context, addr, len, err) ==
  IF ~context.device THEN "INVALID_CONFIG"
  ELSE IF len = 0 \/ IdfHandle(context, addr) = NoHandle THEN "INVALID_PARAM"
  ELSE EspStatus(err)

IdfWriteRead(context, addr, txLen, err) ==
  IF ~context.device THEN "INVALID_CONFIG"
  ELSE IF txLen = 0 \/ IdfHandle(context, addr) # "device" THEN "INVALID_PARAM"
  ELSE EspStatus(err)
=============================================================================
