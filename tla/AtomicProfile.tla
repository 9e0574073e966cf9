---------------------------- MODULE AtomicProfile ----------------------------
(***************************************************************************)
(* What a change of the device's address and package promises: once it has *)
(* been asked for, the driver ends either initialized with the new profile *)
(* or with what it had before.  If what it had before cannot be brought    *)
(* back, the driver is left uninitialized or without a transport; it never *)
(* keeps a profile that was refused.                                       *)
(***************************************************************************)
CONSTANTS
  Profiles,   \* pairs of an address and a package
  Default     \* the profile of a driver without a binding

VARIABLES
  driver,     \* the driver's life and profile
  request     \* the profile asked for: no element or one

Unbound  == [life |-> "UNBOUND", profile |-> Default]
Bound(p) == [life |-> "BOUND",   profile |-> p]
Ready(p) == [life |-> "READY",   profile |-> p]

Drivers == {Unbound} \cup {Bound(p) : p \in Profiles} \cup {Ready(p) : p \in Profiles}

Init == driver \in Drivers /\ request = {}

Ask ==
  /\ request = {}
  /\ \E p \in Profiles : request' = {p}
  /\ UNCHANGED driver

\* What a refused change may leave behind.
Kept(d) == {d, Unbound} \cup (IF d.life = "READY" THEN {Bound(d.profile)} ELSE {})

Answer ==
  /\ request # {}
  /\ driver' \in {Ready(p) : p \in request} \cup Kept(driver)
  /\ request' = {}

\* Every other command, between changes.
Otherwise == request = {} /\ driver' \in Drivers /\ UNCHANGED request

Next == Ask \/ Answer \/ Otherwise

Spec == Init /\ [][Next]_<<driver, request>>
=============================================================================
