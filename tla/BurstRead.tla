------------------------------ MODULE BurstRead ------------------------------
(***************************************************************************)
(* readBurst() of a driver that cannot rely on burst framing: the newest   *)
(* result and three FIFO shadows are read as eight single registers, and a *)
(* ninth read of the newest counter decides whether the window moved.  The *)
(* device may complete a conversion between any two transfers, which       *)
(* shifts every pair by one slot.                                          *)
(*                                                                         *)
(* Conversions are numbered; a register's content is the number of the     *)
(* conversion it belongs to, and the counter field is that number modulo   *)
(* CounterModulo.  A torn newest pair fails its CRC: the CRC's collisions  *)
(* are the documented limit of this read and are left out, as is evidence, *)
(* which a call may find or not (Freshness).                               *)
(*                                                                         *)
(* UnguardedMove is a plausible slip of the definition that follows it; no *)
(* action uses it.                                                         *)
(***************************************************************************)
EXTENDS Naturals, Sequences

CONSTANTS
  Slots,           \* SAMPLE_SLOT_COUNT
  CounterModulo,   \* SAMPLE_COUNT_MODULO
  MaxNewest,       \* bound on the conversions of a run
  MaxShifts,       \* conversions that may complete during one call
  CorruptFrames    \* an untorn newest sample may still arrive malformed

ASSUME BurstAssumption ==
  /\ Slots \in Nat \ {0}
  /\ CounterModulo \in Nat \ {0, 1}
  /\ MaxNewest \in Nat /\ MaxNewest >= Slots
  /\ MaxShifts \in Nat
  /\ CorruptFrames \in BOOLEAN

\* Fewer conversions during a call than the counter can tell apart.
ASSUME NoWrapAssumption == MaxShifts < CounterModulo

VARIABLES
  newest,     \* the number of the newest conversion
  call,       \* the readBurst() in progress
  baseline,   \* _lastFreshCounterValid and _lastFreshCounter
  published   \* _lastBurst and _lastBurstValid

vars == <<newest, call, baseline, published>>

Registers == 2 * Slots

Counter(n) == n % CounterModulo

\* "step" is the number of the next transfer, 0 between calls.
Idle == [step |-> 0, from |-> 0, regs |-> <<>>, trusted |-> FALSE]
NoBaseline == [valid |-> FALSE, counter |-> 0]
NoBurst == [valid |-> FALSE, trusted |-> FALSE, regs |-> <<>>]

Conversions == 0 .. MaxNewest

TypeOK ==
  /\ newest \in Slots .. MaxNewest
  /\ call.step \in 0 .. Registers + 1 /\ call.from \in Conversions
  /\ call.trusted \in BOOLEAN
  /\ Len(call.regs) = IF call.step = 0 THEN 0 ELSE call.step - 1
  /\ \A k \in DOMAIN call.regs : call.regs[k] \in Conversions
  /\ baseline \in [valid : BOOLEAN, counter : 0 .. CounterModulo - 1]
  /\ published.valid \in BOOLEAN /\ published.trusted \in BOOLEAN
  /\ Len(published.regs) = IF published.valid THEN Registers ELSE 0

Init ==
  /\ newest = Slots
  /\ call = Idle
  /\ baseline = NoBaseline
  /\ published = NoBurst

\* Register number k holds half of the result of this conversion.
Held(k) == newest - ((k - 1) \div 2)

Begin ==
  /\ call.step = 0
  /\ call' = [Idle EXCEPT !.step = 1, !.from = newest]
  /\ UNCHANGED <<newest, baseline, published>>

\* Whether the newest pair a, b decodes to a trusted sample.
Trusts(a, b) == {a = b} \cup (IF CorruptFrames THEN {FALSE} ELSE {})

Duplicate(n, trusted) == trusted /\ baseline.valid /\ Counter(n) = baseline.counter

\* All registers are read: a repeated newest sample ends the call unpublished.
ReadRegister ==
  /\ call.step \in 1 .. Registers
  /\ LET read == Append(call.regs, Held(call.step))
     IN  \E trusted \in IF call.step = 2 THEN Trusts(read[1], read[2]) ELSE {call.trusted} :
           call' = IF call.step = Registers /\ Duplicate(read[2], trusted)
                     THEN Idle
                     ELSE [call EXCEPT !.step = @ + 1, !.regs = read, !.trusted = trusted]
  /\ UNCHANGED <<newest, baseline, published>>

UnguardedMove(c) == FALSE
Moved(c) == c.trusted /\ Counter(newest) # Counter(c.regs[2])

ReadGuard ==
  /\ call.step = Registers + 1
  /\ IF Moved(call)
       THEN UNCHANGED <<baseline, published>>
       ELSE /\ published' = [valid |-> TRUE, trusted |-> call.trusted, regs |-> call.regs]
            /\ baseline' = IF call.trusted
                             THEN [valid |-> TRUE, counter |-> Counter(call.regs[2])]
                             ELSE baseline
  /\ call' = Idle
  /\ UNCHANGED newest

TransferFails ==
  /\ call.step # 0
  /\ call' = Idle
  /\ UNCHANGED <<newest, baseline, published>>

\* A poll read starts and drops the frame; an applied configuration drops the
\* baseline with it.
Forget ==
  /\ call.step = 0
  /\ published' = NoBurst
  /\ baseline' \in {baseline, NoBaseline}
  /\ UNCHANGED <<newest, call>>

ConversionEnds ==
  /\ newest < MaxNewest
  /\ call.step # 0 => newest - call.from < MaxShifts
  /\ newest' = newest + 1
  /\ UNCHANGED <<call, baseline, published>>

Next == Begin \/ ReadRegister \/ ReadGuard \/ TransferFails \/ Forget \/ ConversionEnds

Spec == Init /\ [][Next]_vars
-----------------------------------------------------------------------------
(* Properties. *)

\* The cached frame as its reader sees it: pairs of registers, slot by slot.
SlotPairs(regs) ==
  [i \in 1 .. Slots |-> [msb |-> regs[2 * i - 1], lsb |-> regs[2 * i]]]

frame ==
  IF ~published.valid THEN [kind |-> "NONE", slots |-> <<>>]
  ELSE IF ~published.trusted THEN [kind |-> "SUSPECT", slots |-> <<>>]
  ELSE [kind |-> "FRAME", slots |-> SlotPairs(published.regs)]

\* Register-by-register reading implements the atomic window: whatever shifts
\* while the registers are read, a cached frame with a trusted newest sample is
\* the device's history at one instant, no pair torn and no slot lost or doubled,
\* and never an older one than the frame it replaces.
Window == INSTANCE HistoryWindow WITH frame <- frame
ReadsOneWindow == Window!Spec
=============================================================================
