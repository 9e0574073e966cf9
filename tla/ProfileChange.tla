---------------------------- MODULE ProfileChange ----------------------------
(***************************************************************************)
(* The addr and pkg commands of the two consoles: the driver is taken down *)
(* and begun again with another address or package, and what it had before *)
(* is brought back when that fails.  On ESP-IDF the bus handle belongs to  *)
(* one address and is replaced first, which may fail in either direction;  *)
(* the Wire adapter is handed the address with each transfer.              *)
(*                                                                         *)
(* The functions run without yielding; their steps are kept apart because  *)
(* each may fail on its own.  Of the driver only its life and its profile  *)
(* are left.  NotRolledBack and InitializedOnly are slips of the           *)
(* definitions that follow them.                                           *)
(***************************************************************************)
EXTENDS Transports

CONSTANTS
  Addresses,  \* bus addresses, and the invalid ones a user may type
  Packages,   \* package variants
  Allowed,    \* <<address, package>> pairs that bind() accepts
  Default,    \* the profile of makeDefaultConfig() and of Config{}
  PicoStar    \* the package whose address is fixed

ASSUME ProfileAssumption ==
  /\ Allowed \subseteq Addresses \X Packages
  /\ Default \in Allowed
  /\ PicoStar \in Packages /\ <<Default[1], PicoStar>> \in Allowed
  /\ \A p \in Allowed : p[2] = PicoStar => p[1] = Default[1]
  /\ Addresses \subseteq Nat \ {GeneralCall}

VARIABLES
  adapter,    \* "WIRE" or "IDF": which console this is
  driver,     \* [life, profile] of the device object
  handle,     \* i2c.address: the address of the device handle (IDF)
  selected,   \* selectedAddress and selectedPackage (IDF)
  change      \* the profile change in progress

profileVars == <<adapter, driver, handle, selected, change>>

Profiles == Addresses \X Packages

Unbound  == [life |-> "UNBOUND", profile |-> Default]
Bound(p) == [life |-> "BOUND",   profile |-> p]
Ready(p) == [life |-> "READY",   profile |-> p]

Drivers == {Unbound} \cup {Bound(p) : p \in Allowed} \cup {Ready(p) : p \in Allowed}

Steps == {"IDLE", "REPLACE", "BEGIN", "ROLL_BACK", "RESTORE"}
NoChange == [step |-> "IDLE", target |-> Default, saved |-> Unbound, chosen |-> Default]

ProfileTypeOK ==
  /\ adapter \in {"WIRE", "IDF"}
  /\ driver \in Drivers
  /\ handle \in Addresses
  /\ selected \in Allowed
  /\ change \in [step : Steps, target : Profiles, saved : Drivers, chosen : Allowed]
  /\ adapter = "IDF" => change.target \in Allowed
  /\ adapter = "WIRE" => change.step \in {"IDLE", "BEGIN", "RESTORE"}

\* setup() and app_main() begin with the default profile, which may fail.
ProfileInit ==
  /\ adapter \in {"WIRE", "IDF"}
  /\ driver \in {Bound(Default), Ready(Default)}
  /\ handle = Default[1]
  /\ selected = Default
  /\ change = NoChange

-----------------------------------------------------------------------------
\* What the first transfer with an address may answer: a register read.
Answers(address) ==
  IF adapter = "IDF"
  THEN {IdfWriteRead([device |-> TRUE, generalCall |-> TRUE, address |-> handle],
                     address, 1, err) : err \in EspErrors}
  ELSE {WireWriteRead(1, 2, taken, result, received) :
          taken \in 0 .. 1, result \in 0 .. 6, received \in 0 .. 2}

\* bind(), and begin(): after a bind the device is probed and configured.
AfterBind(p) == IF p \in Allowed THEN Bound(p) ELSE Unbound
AfterBegin(p) ==
  {AfterBind(p)} \cup (IF p \in Allowed /\ "OK" \in Answers(p[1]) THEN {Ready(p)} ELSE {})

Down(d) == IF d.life = "READY" THEN Bound(d.profile) ELSE d

\* replaceDeviceAddress: nothing to do for the address it has; otherwise the
\* handle may not be had, and then stays.
Replaced(address) == {TRUE} \cup (IF address = handle THEN {} ELSE {FALSE})

-----------------------------------------------------------------------------
\* The profiles a user can ask for.  Wire starts from the default unless the
\* driver is initialized and leaves the check to bind(); IDF refuses an address
\* a PicoStar does not have, and moves to it with the package.
WireTargets ==
  LET base == IF driver.life = "READY" THEN driver.profile ELSE Default
  IN {<<a, base[2]>> : a \in Addresses} \cup {<<base[1], k>> : k \in Packages}
IdfTargets ==
  Allowed \cap ({<<a, selected[2]>> : a \in Addresses} \cup
                {<<IF k = PicoStar THEN Default[1] ELSE selected[1], k>> : k \in Packages})

Rebegin ==
  /\ change.step = "IDLE"
  /\ \E target \in IF adapter = "IDF" THEN IdfTargets ELSE WireTargets :
       change' = [step |-> IF adapter = "IDF" THEN "REPLACE" ELSE "BEGIN",
                  target |-> target, saved |-> driver, chosen |-> selected]
  /\ driver' = Down(driver)
  /\ UNCHANGED <<adapter, handle, selected>>

\* selectedPackage follows the handle at once.
ReplaceHandle ==
  /\ change.step = "REPLACE"
  /\ \E ok \in Replaced(change.target[1]) :
       /\ handle' = IF ok THEN change.target[1] ELSE handle
       /\ selected' = IF ok THEN change.target ELSE selected
       /\ change' = [change EXCEPT !.step = IF ok THEN "BEGIN" ELSE "ROLL_BACK"]
  /\ UNCHANGED <<adapter, driver>>

BeginTarget ==
  /\ change.step = "BEGIN"
  /\ driver' \in AfterBegin(change.target)
  /\ change' = IF driver'.life = "READY" THEN NoChange
               ELSE [change EXCEPT !.step = IF adapter = "IDF" THEN "ROLL_BACK" ELSE "RESTORE"]
  /\ UNCHANGED <<adapter, handle, selected>>

NotRolledBack(ok) == selected
RolledBack(ok) == IF ok THEN change.chosen ELSE selected

\* Without its handle back the driver gives up the transport.
RollBackHandle ==
  /\ change.step = "ROLL_BACK"
  /\ \E ok \in Replaced(change.chosen[1]) :
       /\ handle' = IF ok THEN change.chosen[1] ELSE handle
       /\ selected' = RolledBack(ok)
       /\ driver' = IF ok THEN driver ELSE Unbound
       /\ change' = IF ok THEN [change EXCEPT !.step = "RESTORE"] ELSE NoChange
  /\ UNCHANGED adapter

InitializedOnly(saved) ==
  IF saved.life = "READY" THEN AfterBegin(saved.profile) ELSE {driver}
\* What is brought back: an initialized, a bound or an unbound driver.
Restored(saved) ==
  CASE saved.life = "READY"   -> AfterBegin(saved.profile)
    [] saved.life = "BOUND"   -> {AfterBind(saved.profile)}
    [] saved.life = "UNBOUND" -> {Unbound}

RestorePrevious ==
  /\ change.step = "RESTORE"
  /\ driver' \in Restored(change.saved)
  /\ change' = NoChange
  /\ UNCHANGED <<adapter, handle, selected>>

-----------------------------------------------------------------------------
\* The other commands that bind, initialize or release the driver.
MakeConfig == IF adapter = "IDF" THEN selected ELSE Default

BindCommand   == driver' = AfterBind(MakeConfig)
InitCommand   == driver' \in AfterBegin(MakeConfig)
UnbindCommand == driver' = Unbound
\* end, a reset, a cancelled job; and a job that attaches or re-applies.
TakenDown     == driver' = Down(driver)
BroughtUp     == driver.life = "BOUND" /\ driver' = Ready(driver.profile)
                 /\ "OK" \in Answers(driver.profile[1])

OtherCommand ==
  /\ change.step = "IDLE"
  /\ BindCommand \/ InitCommand \/ UnbindCommand \/ TakenDown \/ BroughtUp
  /\ UNCHANGED <<adapter, handle, selected, change>>

ProfileNext ==
  \/ Rebegin \/ ReplaceHandle \/ BeginTarget \/ RollBackHandle \/ RestorePrevious
  \/ OtherCommand

ProfileSpec == ProfileInit /\ [][ProfileNext]_profileVars
-----------------------------------------------------------------------------
(* Properties. *)

\* Between commands an ESP-IDF driver with a transport uses the profile that the
\* console shows, and the handle is that profile's: a driver bound to an address
\* the adapter has no handle for gets INVALID_PARAM, which the health counters
\* ignore, and would stay READY without ever reaching its device.
TransportAgrees ==
  adapter = "IDF" =>
    /\ handle = selected[1]
    /\ change.step = "IDLE" /\ driver.life # "UNBOUND" => driver.profile = selected

\* The whole sequence, with its failures and its rollback, is one change that
\* succeeds or leaves what there was.
Change == INSTANCE AtomicProfile WITH
  Profiles <- Profiles,
  driver   <- IF change.step = "IDLE" THEN driver ELSE change.saved,
  request  <- IF change.step = "IDLE" THEN {} ELSE {change.target}
ChangesAtomically == Change!Spec
=============================================================================
