---------------------------- MODULE HistoryWindow ----------------------------
(***************************************************************************)
(* What readBurst() promises of the frame it caches: the newest result and *)
(* the FIFO shadows behind it as they were at one instant, although they   *)
(* are read one register at a time.  A frame whose newest sample fails its *)
(* checks is delivered with a warning and promises nothing.                *)
(***************************************************************************)
EXTENDS Naturals

CONSTANTS
  Slots,      \* SAMPLE_SLOT_COUNT
  MaxNewest   \* bound on the conversions of a run

VARIABLES
  newest,   \* the number of the newest conversion
  frame     \* the cached frame

NoFrame == [kind |-> "NONE",    slots |-> <<>>]
Suspect == [kind |-> "SUSPECT", slots |-> <<>>]

\* Slot i holds the result of conversion n - i + 1, in both of its registers.
Window(n) == [i \in 1 .. Slots |-> [msb |-> n + 1 - i, lsb |-> n + 1 - i]]

Init == newest = Slots /\ frame = NoFrame

Convert == newest < MaxNewest /\ newest' = newest + 1 /\ UNCHANGED frame

\* A frame is replaced by a newer one.
Publish ==
  /\ frame.kind = "FRAME" => frame.slots[1].msb < newest
  /\ frame' = [kind |-> "FRAME", slots |-> Window(newest)]
  /\ UNCHANGED newest

Warn == frame' = Suspect /\ UNCHANGED newest

Forget == frame' = NoFrame /\ UNCHANGED newest

Next == Convert \/ Publish \/ Warn \/ Forget

Spec == Init /\ [][Next]_<<newest, frame>>
=============================================================================
