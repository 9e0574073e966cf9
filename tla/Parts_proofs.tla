----------------------------- MODULE Parts_proofs -----------------------------
(***************************************************************************)
(* Theorems about the components that MCParts puts side by side, for every *)
(* value of their constants: the change of address and package, the        *)
(* self-check, the line input and the burst window, whose register reads   *)
(* implement HistoryWindow; and the types of all parts together.  The      *)
(* codecs, the CRC and the clock have modules of their own.                *)
(***************************************************************************)
EXTENDS MCParts, TimeBase_proofs, SequenceTheorems, WellFoundedInduction, TLAPS

-----------------------------------------------------------------------------
(* Drivers and profiles. *)

\* A driver is one of its three forms, with an accepted profile.
LEMMA DriverForms ==
  ASSUME NEW d \in Drivers
  PROVE  /\ d.profile \in Allowed
         /\ d.life \in {"UNBOUND", "BOUND", "READY"}
         /\ d.life = "UNBOUND" => d = Unbound
         /\ d.life = "BOUND" => d = Bound(d.profile)
         /\ d.life = "READY" => d = Ready(d.profile)
  BY ProfileAssumption DEF Drivers, Unbound, Bound, Ready

\* What the driver's calls leave is a driver.
LEMMA CallsKeepType ==
  /\ \A p : AfterBind(p) \in Drivers
  /\ \A p : AfterBegin(p) \subseteq Drivers
  /\ \A d \in Drivers : Down(d) \in Drivers
<1>1. \A p : AfterBind(p) \in Drivers
  BY DEF AfterBind, Drivers
<1>2. \A p : AfterBegin(p) \subseteq Drivers
  BY <1>1 DEF AfterBegin, Drivers
<1>3. \A d \in Drivers : Down(d) \in Drivers
  BY DriverForms DEF Down, Drivers
<1> QED BY <1>1, <1>2, <1>3

\* The part after a failed change leaves a driver, too.
LEMMA RestoreKeepsType ==
  ASSUME NEW d \in Drivers
  PROVE  Restored(d) \subseteq Drivers
<1>1. CASE d.life = "READY"
  BY <1>1, CallsKeepType DEF Restored
<1>2. CASE d.life = "BOUND"
  BY <1>2, CallsKeepType DEF Restored
<1>3. CASE d.life = "UNBOUND"
  BY <1>3 DEF Restored, Drivers
<1> QED BY <1>1, <1>2, <1>3, DriverForms

\* What a user can ask for is a pair of an address and a package.
LEMMA TargetsAreProfiles ==
  ASSUME ProfileTypeOK
  PROVE  /\ WireTargets \subseteq Profiles
         /\ IdfTargets \subseteq Allowed
         /\ Allowed \subseteq Profiles
<1>1. Allowed \subseteq Addresses \X Packages /\ Default \in Allowed
  BY ProfileAssumption
<1>2. driver.profile \in Addresses \X Packages
  BY <1>1, DriverForms DEF ProfileTypeOK
<1>3. WireTargets \subseteq Profiles
  <2> DEFINE shown == IF driver.life = "READY" THEN driver.profile ELSE Default
  <2>1. shown[1] \in Addresses /\ shown[2] \in Packages
    BY <1>1, <1>2
  <2>2. WireTargets = {<<a, shown[2]>> : a \in Addresses} \cup {<<shown[1], k>> : k \in Packages}
    BY DEF WireTargets
  <2> HIDE DEF shown
  <2> QED BY <2>1, <2>2 DEF Profiles
<1> QED BY <1>1, <1>3 DEF IdfTargets, Profiles

-----------------------------------------------------------------------------
(* Types. *)

LEMMA TypeInit == ProfileInit => ProfileTypeOK
<1> SUFFICES ASSUME ProfileInit PROVE ProfileTypeOK
  OBVIOUS
<1>1. Default \in Allowed /\ Default \in Profiles /\ Default[1] \in Addresses
  BY ProfileAssumption DEF Profiles
<1>2. Unbound \in Drivers /\ driver \in Drivers
  BY <1>1 DEF ProfileInit, Drivers
<1> QED BY <1>1, <1>2 DEF ProfileInit, ProfileTypeOK, NoChange, Steps

LEMMA TypeStep == ProfileTypeOK /\ [ProfileNext]_profileVars => ProfileTypeOK'
<1> SUFFICES ASSUME ProfileTypeOK, [ProfileNext]_profileVars PROVE ProfileTypeOK'
  OBVIOUS
<1>0. NoChange \in [step : Steps, target : Profiles, saved : Drivers, chosen : Allowed]
      /\ NoChange.step = "IDLE" /\ NoChange.target \in Allowed
  BY ProfileAssumption DEF NoChange, Steps, Profiles, Drivers
<1>1. CASE Rebegin
  <2>1. PICK target \in IF adapter = "IDF" THEN IdfTargets ELSE WireTargets :
          change' = [step |-> IF adapter = "IDF" THEN "REPLACE" ELSE "BEGIN",
                     target |-> target, saved |-> driver, chosen |-> selected]
    BY <1>1 DEF Rebegin
  <2>2. target \in Profiles /\ (adapter = "IDF" => target \in Allowed)
    BY TargetsAreProfiles
  <2>3. driver' \in Drivers
    BY <1>1, CallsKeepType DEF Rebegin, ProfileTypeOK
  <2> QED BY <1>1, <2>1, <2>2, <2>3 DEF Rebegin, ProfileTypeOK, Steps
<1>2. CASE ReplaceHandle
  <2>1. adapter = "IDF" /\ change.target \in Allowed
    BY <1>2 DEF ReplaceHandle, ProfileTypeOK
  <2>2. change.target[1] \in Addresses
    BY <2>1, ProfileAssumption
  <2> QED BY <1>2, <2>1, <2>2 DEF ReplaceHandle, ProfileTypeOK, Steps
<1>3. CASE BeginTarget
  <2>1. driver' \in Drivers
    BY <1>3, CallsKeepType DEF BeginTarget
  <2> QED BY <1>0, <1>3, <2>1 DEF BeginTarget, ProfileTypeOK, Steps
<1>4. CASE RollBackHandle
  <2>1. adapter = "IDF"
    BY <1>4 DEF RollBackHandle, ProfileTypeOK
  <2>2. change.chosen \in Allowed /\ change.chosen[1] \in Addresses
    BY ProfileAssumption DEF ProfileTypeOK
  <2>3. driver' \in Drivers
    BY <1>4 DEF RollBackHandle, ProfileTypeOK, Drivers
  <2> QED BY <1>0, <1>4, <2>1, <2>2, <2>3
          DEF RollBackHandle, RolledBack, ProfileTypeOK, Steps
<1>5. CASE RestorePrevious
  <2>1. driver' \in Drivers
    BY <1>5, RestoreKeepsType DEF RestorePrevious, ProfileTypeOK
  <2> QED BY <1>0, <1>5, <2>1 DEF RestorePrevious, ProfileTypeOK
<1>6. CASE OtherCommand
  <2>1. driver' \in Drivers
    <3>1. Unbound \in Drivers
      BY DEF Drivers
    <3>2. BroughtUp => driver' \in Drivers
      BY DriverForms DEF BroughtUp, ProfileTypeOK, Drivers
    <3> QED BY <1>6, <3>1, <3>2, CallsKeepType
            DEF OtherCommand, BindCommand, InitCommand, UnbindCommand, TakenDown, ProfileTypeOK
  <2> QED BY <1>6, <2>1 DEF OtherCommand, ProfileTypeOK
<1>7. CASE UNCHANGED profileVars
  BY <1>7 DEF profileVars, ProfileTypeOK
<1> QED BY <1>1, <1>2, <1>3, <1>4, <1>5, <1>6, <1>7 DEF ProfileNext

\* Whatever fails on the way, the driver is in one of its three forms with an
\* accepted profile, and an ESP-IDF change is only started for an accepted one.
THEOREM ProfileTypes == ProfileSpec => []ProfileTypeOK
  BY TypeInit, TypeStep, PTL DEF ProfileSpec

-----------------------------------------------------------------------------
(* Agreement of handle, selection and driver on ESP-IDF. *)

\* What a step of a change may rely on: the console still shows what was chosen
\* before until the handle has been replaced, then the target, and what is saved
\* is a driver with the profile chosen before.
ChangeInv ==
  adapter = "IDF" =>
    /\ TransportAgrees
    /\ change.step # "IDLE" /\ change.saved.life # "UNBOUND" =>
         change.saved.profile = change.chosen
    /\ change.step \in {"REPLACE", "RESTORE"} => selected = change.chosen
    /\ change.step = "BEGIN" => selected = change.target

ProfileInv == ProfileTypeOK /\ ChangeInv

\* The driver's calls use the profile they are given.
LEMMA CallsKeepProfile ==
  /\ \A p : \A d \in {AfterBind(p)} \cup AfterBegin(p) :
       /\ d.life # "UNBOUND" => d.profile = p
       /\ d.life = "READY" => d = Ready(p)
  /\ \A d \in Drivers : Down(d).profile = d.profile
  /\ \A d \in Drivers : Down(d).life = "UNBOUND" <=> d.life = "UNBOUND"
<1>1. \A p : /\ AfterBind(p).life # "UNBOUND" => AfterBind(p).profile = p
             /\ AfterBind(p).life # "READY"
  BY DEF AfterBind, Bound, Unbound
<1>2. \A p : \A d \in AfterBegin(p) : d = AfterBind(p) \/ d = Ready(p)
  BY DEF AfterBegin
<1>3. \A p : Ready(p).profile = p
  BY DEF Ready
<1>4. \A d \in Drivers : /\ Down(d).profile = d.profile
                         /\ Down(d).life = "UNBOUND" <=> d.life = "UNBOUND"
  BY DEF Down, Bound
<1> QED BY <1>1, <1>2, <1>3, <1>4

\* A restored driver has the profile it was saved with.
LEMMA RestoredProfile ==
  ASSUME NEW s \in Drivers, NEW d \in Restored(s), d.life # "UNBOUND"
  PROVE  s.life # "UNBOUND" /\ d.profile = s.profile
<1>1. CASE s.life = "READY"
  BY <1>1, CallsKeepProfile DEF Restored
<1>2. CASE s.life = "BOUND"
  BY <1>2, CallsKeepProfile DEF Restored
<1>3. CASE s.life = "UNBOUND"
  BY <1>3 DEF Restored, Unbound
<1> QED BY <1>1, <1>2, <1>3, DriverForms

LEMMA AgreeInit == ProfileInit => ChangeInv
  BY DEF ProfileInit, ChangeInv, TransportAgrees, NoChange, Bound, Ready

LEMMA AgreeStep == ProfileInv /\ [ProfileNext]_profileVars => ChangeInv'
<1> SUFFICES ASSUME ProfileInv, [ProfileNext]_profileVars, adapter = "IDF"
             PROVE  ChangeInv'
  BY DEF ChangeInv, ProfileNext, profileVars, Rebegin, ReplaceHandle, BeginTarget,
         RollBackHandle, RestorePrevious, OtherCommand
<1>0. NoChange.step = "IDLE"
  BY DEF NoChange
<1>1. CASE Rebegin
  BY <1>1 DEF Rebegin, ProfileInv, ProfileTypeOK, ChangeInv, TransportAgrees
<1>2. CASE ReplaceHandle
  BY <1>2 DEF ReplaceHandle, ProfileInv, ProfileTypeOK, ChangeInv, TransportAgrees
<1>3. CASE BeginTarget
  BY <1>0, <1>3, CallsKeepProfile
     DEF BeginTarget, ProfileInv, ProfileTypeOK, ChangeInv, TransportAgrees
<1>4. CASE RollBackHandle
  BY <1>0, <1>4 DEF RollBackHandle, RolledBack, Unbound, ProfileInv, ProfileTypeOK,
                    ChangeInv, TransportAgrees
<1>5. CASE RestorePrevious
  <2>1. driver'.life # "UNBOUND" => driver'.profile = selected
    BY <1>5, RestoredProfile
       DEF RestorePrevious, ProfileInv, ProfileTypeOK, ChangeInv
  <2> QED BY <1>0, <1>5, <2>1
          DEF RestorePrevious, ProfileInv, ChangeInv, TransportAgrees
<1>6. CASE OtherCommand
  <2>1. driver'.life # "UNBOUND" => driver'.profile = selected
    <3>1. CASE BindCommand \/ InitCommand
      BY <3>1, CallsKeepProfile DEF BindCommand, InitCommand, MakeConfig
    <3>2. CASE UnbindCommand
      BY <3>2 DEF UnbindCommand, Unbound
    <3>3. CASE TakenDown \/ BroughtUp
      BY <1>6, <3>3, CallsKeepProfile
         DEF TakenDown, BroughtUp, Ready, OtherCommand, ProfileInv, ProfileTypeOK,
             ChangeInv, TransportAgrees
    <3> QED BY <1>6, <3>1, <3>2, <3>3 DEF OtherCommand
  <2> QED BY <1>6, <2>1 DEF OtherCommand, ProfileInv, ChangeInv, TransportAgrees
<1>7. CASE UNCHANGED profileVars
  BY <1>7 DEF profileVars, ProfileInv, ChangeInv, TransportAgrees
<1> QED BY <1>1, <1>2, <1>3, <1>4, <1>5, <1>6, <1>7 DEF ProfileNext

\* On ESP-IDF the bus handle is always the one of the profile the console shows,
\* and between commands a driver with a transport uses that profile, whichever of
\* the steps of a change and of its rollback fail.
THEOREM AgreementInvariant == ProfileSpec => []TransportAgrees
<1>1. ProfileInit => ProfileInv
  BY TypeInit, AgreeInit DEF ProfileInv
<1>2. ProfileInv /\ [ProfileNext]_profileVars => ProfileInv'
  BY TypeStep, AgreeStep DEF ProfileInv
<1>3. ProfileInv => TransportAgrees
  BY DEF ProfileInv, ChangeInv, TransportAgrees
<1> QED BY <1>1, <1>2, <1>3, PTL DEF ProfileSpec

-----------------------------------------------------------------------------
(* The change implements the atomic one. *)

seen == IF change.step = "IDLE" THEN driver ELSE change.saved
asked == IF change.step = "IDLE" THEN {} ELSE {change.target}

\* A driver of the concrete module is one of the abstract module.
LEMMA AbstractDrivers == Drivers \subseteq Change!Drivers
  BY ProfileAssumption
  DEF Drivers, Change!Drivers, Unbound, Change!Unbound, Bound, Change!Bound,
      Ready, Change!Ready, Profiles

LEMMA ChangeInit == ProfileInit => Change!Init
<1> SUFFICES ASSUME ProfileInit PROVE Change!Init
  OBVIOUS
<1>1. ProfileTypeOK /\ change.step = "IDLE"
  BY TypeInit DEF ProfileInit, NoChange
<1> QED BY <1>1, AbstractDrivers DEF Change!Init, ProfileTypeOK

LEMMA ChangeStep ==
  ProfileTypeOK /\ [ProfileNext]_profileVars => [Change!Next]_<<seen, asked>>
<1> SUFFICES ASSUME ProfileTypeOK, [ProfileNext]_profileVars
             PROVE  [Change!Next]_<<seen, asked>>
  OBVIOUS
<1>0. NoChange.step = "IDLE"
  BY DEF NoChange
<1>1. CASE Rebegin
  <2>1. PICK target \in IF adapter = "IDF" THEN IdfTargets ELSE WireTargets :
          change' = [step |-> IF adapter = "IDF" THEN "REPLACE" ELSE "BEGIN",
                     target |-> target, saved |-> driver, chosen |-> selected]
    BY <1>1 DEF Rebegin
  <2>2. target \in Profiles
    BY TargetsAreProfiles
  <2>3. change.step = "IDLE" /\ change'.step # "IDLE"
        /\ change'.saved = driver /\ change'.target = target
    BY <1>1, <2>1 DEF Rebegin
  <2>4. Change!Ask
    BY <2>2, <2>3 DEF Change!Ask
  <2> QED BY <2>4 DEF Change!Next
<1>2. CASE ReplaceHandle
  BY <1>2 DEF ReplaceHandle, ProfileTypeOK, seen, asked
<1>3. CASE BeginTarget
  <2>1. CASE driver'.life = "READY"
    <3>1. driver' = Ready(change.target)
      BY <1>3, <2>1, CallsKeepProfile DEF BeginTarget
    <3>2. Change!Answer
      BY <1>0, <1>3, <2>1, <3>1 DEF BeginTarget, Change!Answer, Ready, Change!Ready
    <3> QED BY <3>2 DEF Change!Next
  <2>2. CASE driver'.life # "READY"
    BY <1>3, <2>2 DEF BeginTarget, ProfileTypeOK, seen, asked
  <2> QED BY <2>1, <2>2
<1>4. CASE RollBackHandle
  <2>1. CASE change' = [change EXCEPT !.step = "RESTORE"]
    BY <1>4, <2>1 DEF RollBackHandle, ProfileTypeOK, seen, asked
  <2>2. CASE change' = NoChange /\ driver' = Unbound
    <3>1. Change!Answer
      BY <1>0, <1>4, <2>2
         DEF RollBackHandle, Change!Answer, Change!Kept, Unbound, Change!Unbound
    <3> QED BY <3>1 DEF Change!Next
  <2> QED BY <1>4, <2>1, <2>2 DEF RollBackHandle
<1>5. CASE RestorePrevious
  <2>1. driver' \in Change!Kept(change.saved)
    <3>1. change.saved \in Drivers /\ change.saved.profile \in Allowed
      BY DriverForms DEF ProfileTypeOK
    <3>2. CASE change.saved.life = "READY"
      <4>1. driver' \in AfterBegin(change.saved.profile)
        BY <1>5, <3>2 DEF RestorePrevious, Restored
      <4>2. change.saved = Ready(change.saved.profile)
        BY <3>1, <3>2, DriverForms
      <4>3. driver' = Bound(change.saved.profile) \/ driver' = change.saved
        BY <3>1, <4>1, <4>2 DEF AfterBegin, AfterBind
      <4> QED BY <3>2, <4>3 DEF Change!Kept, Bound, Change!Bound
    <3>3. CASE change.saved.life = "BOUND"
      <4>1. driver' = AfterBind(change.saved.profile)
        BY <1>5, <3>3 DEF RestorePrevious, Restored
      <4>2. driver' = change.saved
        BY <3>1, <3>3, <4>1, DriverForms DEF AfterBind
      <4> QED BY <4>2 DEF Change!Kept
    <3>4. CASE change.saved.life = "UNBOUND"
      <4>1. driver' = Unbound
        BY <1>5, <3>4 DEF RestorePrevious, Restored
      <4> QED BY <4>1 DEF Change!Kept, Unbound, Change!Unbound
    <3> QED BY <3>1, <3>2, <3>3, <3>4, DriverForms
  <2>2. Change!Answer
    BY <1>0, <1>5, <2>1 DEF RestorePrevious, Change!Answer
  <2> QED BY <2>2 DEF Change!Next
<1>6. CASE OtherCommand
  <2>1. driver' \in Drivers
    BY TypeStep DEF ProfileTypeOK
  <2>2. Change!Otherwise
    BY <1>6, <2>1, AbstractDrivers DEF OtherCommand, Change!Otherwise
  <2> QED BY <2>2 DEF Change!Next
<1>7. CASE UNCHANGED profileVars
  BY <1>7 DEF profileVars, seen, asked
<1> QED BY <1>1, <1>2, <1>3, <1>4, <1>5, <1>6, <1>7 DEF ProfileNext

\* The steps of a change of address or package, with every failure and rollback,
\* are one atomic change that succeeds or leaves what there was, on either console.
THEOREM ChangeRefinesAtomic == ProfileSpec => ChangesAtomically
<1>1. ProfileSpec => [][Change!Next]_<<seen, asked>>
  BY TypeInit, TypeStep, ChangeStep, PTL DEF ProfileSpec
<1> QED BY <1>1, ChangeInit, PTL
        DEF ProfileSpec, ChangesAtomically, Change!Spec, seen, asked

-----------------------------------------------------------------------------
(* The self-check: the order of its steps. *)

LEMMA ArduinoFollowing ==
  ASSUME port = "ARDUINO"
  PROVE  /\ Following("INSPECT") = "CAPTURE"
         /\ Following("CAPTURE") = "CAPTURE_LUX"
         /\ Following("CAPTURE_LUX") = "MEASURE"
         /\ Following("MEASURE") = "BASELINE"
         /\ Following("BASELINE") = "DEFAULTS"
         /\ Following("DEFAULTS") = "RESTORE"
         /\ Following("RESTORE") = "CONVERSION_READY"
         /\ Following("CONVERSION_READY") = "FIFO_FULL"
         /\ Following("FIFO_FULL") = "THRESHOLD"
         /\ Following("THRESHOLD") = "RESTORE_AGAIN"
         /\ Following("RESTORE_AGAIN") = "DIRECTION"
         /\ Following("DIRECTION") = "CONFIG"
         /\ Following("CONFIG") = "CLEAR_FLAGS"
         /\ Following("CLEAR_FLAGS") = "RECOVER"
         /\ Following("RECOVER") = "DONE"
<1> DEFINE At(s) == CHOOSE k \in DOMAIN ArduinoSteps : ArduinoSteps[k] = s
<1>1. /\ DOMAIN ArduinoSteps = 1 .. 16
      /\ ArduinoSteps[1] = "INSPECT" /\ ArduinoSteps[2] = "CAPTURE"
      /\ ArduinoSteps[3] = "CAPTURE_LUX" /\ ArduinoSteps[4] = "MEASURE"
      /\ ArduinoSteps[5] = "BASELINE" /\ ArduinoSteps[6] = "DEFAULTS"
      /\ ArduinoSteps[7] = "RESTORE" /\ ArduinoSteps[8] = "CONVERSION_READY"
      /\ ArduinoSteps[9] = "FIFO_FULL" /\ ArduinoSteps[10] = "THRESHOLD"
      /\ ArduinoSteps[11] = "RESTORE_AGAIN" /\ ArduinoSteps[12] = "DIRECTION"
      /\ ArduinoSteps[13] = "CONFIG" /\ ArduinoSteps[14] = "CLEAR_FLAGS"
      /\ ArduinoSteps[15] = "RECOVER" /\ ArduinoSteps[16] = "DONE"
  BY DEF ArduinoSteps
<1>2. \A s : Following(s) = ArduinoSteps[At(s) + 1]
  BY DEF Following, Sequence
<1>3. At("INSPECT") = 1 /\ At("CAPTURE") = 2 /\ At("CAPTURE_LUX") = 3 /\ At("MEASURE") = 4
  BY <1>1
<1>4. At("BASELINE") = 5 /\ At("DEFAULTS") = 6 /\ At("RESTORE") = 7
  BY <1>1
<1>5. At("CONVERSION_READY") = 8 /\ At("FIFO_FULL") = 9 /\ At("THRESHOLD") = 10
  BY <1>1
<1>6. At("RESTORE_AGAIN") = 11 /\ At("DIRECTION") = 12 /\ At("CONFIG") = 13
  BY <1>1
<1>7. At("CLEAR_FLAGS") = 14 /\ At("RECOVER") = 15
  BY <1>1
<1> HIDE DEF At
<1> QED BY <1>1, <1>2, <1>3, <1>4, <1>5, <1>6, <1>7

LEMMA IdfFollowing ==
  ASSUME port = "IDF"
  PROVE  /\ Following("INSPECT") = "CAPTURE"
         /\ Following("CAPTURE") = "CAPTURE_LUX"
         /\ Following("CAPTURE_LUX") = "MEASURE"
         /\ Following("MEASURE") = "RECOVER"
         /\ Following("RECOVER") = "DONE"
<1> DEFINE At(s) == CHOOSE k \in DOMAIN IdfSteps : IdfSteps[k] = s
<1>1. /\ DOMAIN IdfSteps = 1 .. 6
      /\ IdfSteps[1] = "INSPECT" /\ IdfSteps[2] = "CAPTURE" /\ IdfSteps[3] = "CAPTURE_LUX"
      /\ IdfSteps[4] = "MEASURE" /\ IdfSteps[5] = "RECOVER" /\ IdfSteps[6] = "DONE"
  BY DEF IdfSteps
<1>2. \A s : Following(s) = IdfSteps[At(s) + 1]
  BY DEF Following, Sequence
<1>3. /\ At("INSPECT") = 1 /\ At("CAPTURE") = 2 /\ At("CAPTURE_LUX") = 3
      /\ At("MEASURE") = 4 /\ At("RECOVER") = 5
  BY <1>1
<1> HIDE DEF At
<1> QED BY <1>1, <1>2, <1>3

LEMMA StepNamesAre ==
  StepNames = {"INSPECT", "CAPTURE", "CAPTURE_LUX", "MEASURE", "BASELINE", "DEFAULTS",
               "RESTORE", "CONVERSION_READY", "FIFO_FULL", "THRESHOLD", "RESTORE_AGAIN",
               "DIRECTION", "CONFIG", "CLEAR_FLAGS", "RECOVER", "DONE", "ABORTED"}
<1>1. /\ DOMAIN ArduinoSteps = 1 .. 16
      /\ ArduinoSteps[1] = "INSPECT" /\ ArduinoSteps[2] = "CAPTURE"
      /\ ArduinoSteps[3] = "CAPTURE_LUX" /\ ArduinoSteps[4] = "MEASURE"
      /\ ArduinoSteps[5] = "BASELINE" /\ ArduinoSteps[6] = "DEFAULTS"
      /\ ArduinoSteps[7] = "RESTORE" /\ ArduinoSteps[8] = "CONVERSION_READY"
      /\ ArduinoSteps[9] = "FIFO_FULL" /\ ArduinoSteps[10] = "THRESHOLD"
      /\ ArduinoSteps[11] = "RESTORE_AGAIN" /\ ArduinoSteps[12] = "DIRECTION"
      /\ ArduinoSteps[13] = "CONFIG" /\ ArduinoSteps[14] = "CLEAR_FLAGS"
      /\ ArduinoSteps[15] = "RECOVER" /\ ArduinoSteps[16] = "DONE"
  BY DEF ArduinoSteps
<1>2. \A k \in 1 .. 16 : k \in {1, 2, 3, 4, 5, 6, 7, 8, 9, 10, 11, 12, 13, 14, 15, 16}
  OBVIOUS
<1> QED BY <1>1, <1>2 DEF StepNames

-----------------------------------------------------------------------------
(* Its types. *)

LEMMA GivenType ==
  Given(DefaultLow) \in Thresholds /\ Given(DefaultHigh) \in Thresholds
  BY SelfCheckAssumption DEF Given, Thresholds

LEMMA EncodedType ==
  ASSUME NEW t \in Thresholds
  PROVE  Encoded(t) \subseteq Thresholds
  BY DEF Encoded, Thresholds

LEMMA LandedType ==
  ASSUME device \in Settings, NEW s \in Settings, NEW n \in 0 .. 3
  PROVE  Landed(s, n) \in Settings /\ Landed(s, 3) = s
  BY DEF Landed, Settings

\* A write of settings s, or of its thresholds, changes the cache to s or not at all
\* and leaves the device with settings.
LEMMA WritesKeep ==
  ASSUME cache \in Settings, device \in Settings, failed \subseteq PutBack, NEW s \in Settings
  PROVE  /\ Apply(s) =>
              /\ cache' \in Settings /\ device' \in Settings /\ failed' \subseteq PutBack
              /\ step' = Following(step)
              /\ \/ cache' = s /\ failed' = failed
                 \/ cache' = cache /\ failed' = failed \cup ({step} \cap PutBack)
  BY LandedType DEF Apply, Passes, Fails

LEMMA ThresholdsKeep ==
  ASSUME cache \in Settings, device \in Settings, failed \subseteq PutBack,
         NEW low \in Thresholds, NEW high \in Thresholds, SetThresholds(low, high)
  PROVE  /\ cache' \in Settings /\ device' \in Settings /\ failed' \subseteq PutBack
         /\ step' = Following(step)
         /\ cache'.direction = cache.direction /\ cache'.int = cache.int
         /\ \/ cache'.low = low /\ cache'.high = high /\ failed' = failed
            \/ cache' = cache /\ failed' = failed \cup ({step} \cap PutBack)
<1> DEFINE s == [cache EXCEPT !.low = low, !.high = high]
<1>1. /\ s \in Settings /\ s.low = low /\ s.high = high
      /\ s.direction = cache.direction /\ s.int = cache.int
  BY DEF Settings
<1>2. \/ Passes /\ cache' = s /\ device' = Landed(s, 2)
      \/ Fails /\ cache' = cache /\ \E n \in 0 .. 2 : device' = Landed(s, n)
  BY DEF SetThresholds
<1> HIDE DEF s
<1> QED BY <1>1, <1>2, LandedType DEF Passes, Fails

-----------------------------------------------------------------------------
(* What each step has established by the time the next one runs. *)

Adopted == [began.cache EXCEPT !.low = began.device.low, !.high = began.device.high]

\* Nothing is written before the thresholds are captured.
Untouched ==
  /\ step \in {"INSPECT", "CAPTURE", "CAPTURE_LUX", "ABORTED"} => device = began.device
  /\ step \in {"INSPECT", "CAPTURE"} => cache = began.cache

\* What the Arduino check has captured is what it will put back.
Captured ==
  port = "ARDUINO" =>
    /\ step = "CAPTURE_LUX" => cache = Adopted
    /\ step \notin {"INSPECT", "CAPTURE", "ABORTED"} => base = Adopted

\* What it has put back, if no attempt failed, stays.
PutBackDone ==
  port = "ARDUINO" =>
    /\ step \in {"DIRECTION", "CONFIG", "CLEAR_FLAGS", "RECOVER", "DONE"} =>
         "RESTORE_AGAIN" \in failed \/ (cache.low = base.low /\ cache.high = base.high)
    /\ step \in {"CONFIG", "CLEAR_FLAGS", "RECOVER", "DONE"} =>
         "DIRECTION" \in failed \/ cache.direction = base.direction
    /\ step \in {"CLEAR_FLAGS", "RECOVER", "DONE"} =>
         "CONFIG" \in failed \/ cache.int = base.int

Recovered == step = "DONE" => "RECOVER" \in failed \/ device = cache

InOrder ==
  port = "IDF" =>
    step \in {"INSPECT", "CAPTURE", "CAPTURE_LUX", "MEASURE", "RECOVER", "DONE", "ABORTED"}

SelfInv == SelfTypeOK /\ InOrder /\ Untouched /\ Captured /\ PutBackDone /\ Recovered

LEMMA AdoptedFields ==
  ASSUME SelfTypeOK
  PROVE  /\ Adopted \in Settings
         /\ Adopted.low = began.device.low /\ Adopted.high = began.device.high
         /\ Adopted.direction = began.cache.direction /\ Adopted.int = began.cache.int
  BY DEF SelfTypeOK, Adopted, Settings

LEMMA SettingsEqual ==
  ASSUME NEW s \in Settings, NEW t \in Settings, s.low = t.low, s.high = t.high,
         s.direction = t.direction, s.int = t.int
  PROVE  s = t
  BY DEF Settings

LEMMA SelfFields ==
  ASSUME SelfTypeOK
  PROVE  /\ port \in {"ARDUINO", "IDF"} /\ step \in StepNames
         /\ cache \in Settings /\ device \in Settings /\ base \in Settings
         /\ failed \subseteq PutBack /\ began \in [cache : Settings, device : Settings]
         /\ cache.low \in Thresholds /\ cache.high \in Thresholds
         /\ base.low \in Thresholds /\ base.high \in Thresholds
         /\ device.low \in Thresholds /\ device.high \in Thresholds
         /\ base.direction \in Directions /\ base.int \in IntConfigs
  BY DEF SelfTypeOK, Settings

LEMMA SelfInvInit == SelfInit => SelfInv
<1> SUFFICES ASSUME SelfInit PROVE SelfInv
  OBVIOUS
<1>1. ResetDeviceSettings \in Settings
  BY GivenType DEF ResetDeviceSettings, Settings, Directions, IntConfigs
<1>2. SelfTypeOK
  BY <1>1, StepNamesAre DEF SelfInit, SelfTypeOK
<1> QED BY <1>2
  DEF SelfInit, SelfInv, InOrder, Untouched, Captured, PutBackDone, Recovered

\* A step after the captures and before the end only has to keep what was captured
\* and what was put back.
LEMMA MiddleStep ==
  ASSUME SelfInv, Frame, cache' \in Settings, device' \in Settings, failed' \subseteq PutBack,
         port = "ARDUINO", failed \subseteq failed',
         step \notin {"INSPECT", "CAPTURE", "ABORTED"},
         step' \in StepNames \ {"INSPECT", "CAPTURE", "CAPTURE_LUX", "ABORTED", "DONE"},
         PutBackDone'
  PROVE  SelfInv'
<1>1. SelfTypeOK'
  BY SelfFields DEF SelfInv, SelfTypeOK, Frame
<1>2. InOrder' /\ Untouched' /\ Recovered'
  BY DEF InOrder, Untouched, Recovered, Frame
<1>3. Captured'
  BY DEF SelfInv, Captured, Frame, Adopted
<1> QED BY <1>1, <1>2, <1>3 DEF SelfInv

LEMMA LookStep == SelfInv /\ (NotInitialized \/ Look) => SelfInv'
<1> SUFFICES ASSUME SelfInv, NotInitialized \/ Look PROVE SelfInv'
  OBVIOUS
<1>1. UNCHANGED <<port, base, began, cache, device>>
  BY DEF NotInitialized, Look, Frame
<1>2. failed' = failed /\ SelfTypeOK /\ port \in {"ARDUINO", "IDF"}
  BY SelfFields DEF NotInitialized, Look, Passes, Fails, PutBack, SelfInv
<1>3. CASE step = "INSPECT" /\ step' \in {"ABORTED", "CAPTURE"}
  BY <1>1, <1>2, <1>3, StepNamesAre
     DEF SelfInv, SelfTypeOK, InOrder, Untouched, Captured, PutBackDone, Recovered
<1>4. CASE step = "MEASURE" /\ step' = "BASELINE" /\ port = "ARDUINO"
  BY <1>1, <1>2, <1>4, StepNamesAre
     DEF SelfInv, SelfTypeOK, InOrder, Untouched, Captured, PutBackDone, Recovered, Adopted
<1>5. CASE step = "MEASURE" /\ step' = "RECOVER" /\ port = "IDF"
  BY <1>1, <1>2, <1>5, StepNamesAre
     DEF SelfInv, SelfTypeOK, InOrder, Untouched, Captured, PutBackDone, Recovered
<1>6. CASE step = "CLEAR_FLAGS" /\ step' = "RECOVER" /\ port = "ARDUINO"
  BY <1>1, <1>2, <1>6, StepNamesAre
     DEF SelfInv, SelfTypeOK, InOrder, Untouched, Captured, PutBackDone, Recovered, Adopted
<1>7. step = "INSPECT" => step' \in {"ABORTED", "CAPTURE"}
  BY <1>2, ArduinoFollowing, IdfFollowing DEF NotInitialized, Look, Passes, Fails
<1>8. step # "INSPECT" => step' = Following(step) /\ step \in {"MEASURE", "CLEAR_FLAGS"}
  BY DEF NotInitialized, Look, Passes, Fails
<1>9. step = "CLEAR_FLAGS" => port = "ARDUINO"
  BY <1>2 DEF SelfInv, InOrder
<1> QED BY <1>2, <1>3, <1>4, <1>5, <1>6, <1>7, <1>8, <1>9, ArduinoFollowing, IdfFollowing

LEMMA CaptureStep == SelfInv /\ Capture => SelfInv'
<1> SUFFICES ASSUME SelfInv, Capture PROVE SelfInv'
  OBVIOUS
<1> DEFINE read == [cache EXCEPT !.low = device.low, !.high = device.high]
<1>1. SelfTypeOK /\ UNCHANGED <<port, device, began, failed>> /\ device = began.device
      /\ step \in {"CAPTURE", "CAPTURE_LUX"} /\ port \in {"ARDUINO", "IDF"}
  BY SelfFields DEF SelfInv, Untouched, Capture, Passes
<1>2. read \in Settings /\ read.low = device.low /\ read.high = device.high
      /\ read.direction = cache.direction /\ read.int = cache.int
  BY <1>1, SelfFields DEF Settings
<1>3. port = "ARDUINO" => read = Adopted
  <2> HIDE DEF read
  <2>1. CASE step = "CAPTURE"
    BY <1>1, <1>2, <2>1, AdoptedFields, SettingsEqual DEF SelfInv, Untouched
  <2>2. CASE step = "CAPTURE_LUX"
    BY <1>1, <1>2, <2>2, AdoptedFields, SettingsEqual DEF SelfInv, Captured
  <2> QED BY <1>1, <2>1, <2>2
<1>4. \/ step' = Following(step) /\ cache' = read /\ base' = read
      \/ step' = AfterFailedCapture /\ UNCHANGED <<cache, base>>
  BY DEF Capture, Passes
<1> HIDE DEF read
<1>5. Adopted' = Adopted
  BY <1>1 DEF Adopted
<1>6. CASE port = "ARDUINO"
  <2>1. \/ step' \in {"CAPTURE_LUX", "MEASURE"} /\ cache' = Adopted /\ base' = Adopted
        \/ step' = "ABORTED" /\ UNCHANGED <<cache, base>>
    BY <1>1, <1>3, <1>4, <1>6, ArduinoFollowing DEF AfterFailedCapture
  <2> QED BY <1>1, <1>5, <1>6, <2>1, AdoptedFields, StepNamesAre
    DEF SelfInv, SelfTypeOK, InOrder, Untouched, Captured, PutBackDone, Recovered
<1>7. CASE port = "IDF"
  <2>1. step' \in {"CAPTURE_LUX", "MEASURE"} /\ cache' \in Settings /\ base' \in Settings
    BY <1>1, <1>2, <1>4, <1>7, SelfFields, IdfFollowing DEF AfterFailedCapture
  <2> QED BY <1>1, <1>7, <2>1, StepNamesAre
    DEF SelfInv, SelfTypeOK, InOrder, Untouched, Captured, PutBackDone, Recovered
<1> QED BY <1>1, <1>6, <1>7

\* Steps only the Arduino check has.
ArduinoOnly ==
  {"BASELINE", "DEFAULTS", "RESTORE", "CONVERSION_READY", "FIFO_FULL", "THRESHOLD",
   "RESTORE_AGAIN", "DIRECTION", "CONFIG"}

LEMMA OnArduino ==
  ASSUME SelfInv, step \in ArduinoOnly
  PROVE  port = "ARDUINO"
  BY SelfFields DEF SelfInv, InOrder, ArduinoOnly

LEMMA TryStep ==
  ASSUME SelfInv,
         Baseline \/ Defaults \/ PresetConversion \/ PresetFifo \/ PresetThreshold
           \/ (RestoreThresholds /\ step = "RESTORE")
  PROVE  SelfInv'
<1>1. step \in {"BASELINE", "DEFAULTS", "RESTORE", "CONVERSION_READY", "FIFO_FULL", "THRESHOLD"}
      /\ Frame
  BY DEF Baseline, Defaults, PresetConversion, PresetFifo, PresetThreshold, RestoreThresholds
<1>2. port = "ARDUINO"
  BY <1>1, OnArduino DEF ArduinoOnly
<1>3. cache \in Settings /\ device \in Settings /\ base \in Settings /\ failed \subseteq PutBack
  BY SelfFields DEF SelfInv
<1>4. /\ "PIN_OUTPUT" \in Directions
      /\ {"EVERY_CONVERSION", "FIFO_FULL", "THRESHOLD"} \subseteq IntConfigs
  BY DEF Directions, IntConfigs
<1> DEFINE Written == /\ cache' \in Settings /\ device' \in Settings /\ failed' \subseteq PutBack
                      /\ step' = Following(step) /\ failed \subseteq failed'
<1>5. ASSUME NEW s \in Settings, Apply(s) PROVE Written
  BY <1>3, <1>5, WritesKeep
<1>6. ASSUME NEW low \in Thresholds, NEW high \in Thresholds, SetThresholds(low, high)
      PROVE  Written
  BY <1>3, <1>6, ThresholdsKeep
<1>7. Written
  <2>1. CASE Baseline
    BY <1>3, <1>5, <2>1 DEF Baseline
  <2>2. CASE Defaults
    BY <1>6, <2>2, GivenType DEF Defaults
  <2>3. CASE RestoreThresholds
    BY <1>6, <2>3, SelfFields DEF RestoreThresholds, SelfInv
  <2>4. ASSUME Refused PROVE Written
    BY <1>3, <2>4 DEF Refused, Fails
  <2>5. ASSUME NEW int \in IntConfigs, Preset(int) PROVE Written
    <3>1. [cache EXCEPT !.direction = "PIN_OUTPUT", !.int = int] \in Settings
      BY <1>3, <1>4, <2>5 DEF Settings
    <3> QED BY <1>5, <2>5, <3>1 DEF Preset
  <2>6. CASE PresetConversion \/ PresetFifo
    BY <1>4, <2>4, <2>5, <2>6 DEF PresetConversion, PresetFifo
  <2>7. CASE PresetThreshold
    <3>1. CASE Refused
      BY <2>4, <3>1
    <3>2. CASE ~Refused
      <4>1. PICK low \in Encoded(base.low), high \in Encoded(base.high) :
              Apply([low |-> low, high |-> high, direction |-> "PIN_OUTPUT",
                     int |-> "THRESHOLD"])
        BY <2>7, <3>2 DEF PresetThreshold
      <4>2. low \in Thresholds /\ high \in Thresholds
        BY <4>1, EncodedType, SelfFields DEF SelfInv
      <4>3. [low |-> low, high |-> high, direction |-> "PIN_OUTPUT", int |-> "THRESHOLD"]
              \in Settings
        BY <1>4, <4>2 DEF Settings
      <4> QED BY <1>5, <4>1, <4>3
    <3> QED BY <3>1, <3>2
  <2> QED BY <2>1, <2>2, <2>3, <2>6, <2>7
<1>8. step' \in {"DEFAULTS", "RESTORE", "CONVERSION_READY", "FIFO_FULL", "THRESHOLD",
                "RESTORE_AGAIN"}
  BY <1>1, <1>2, <1>7, ArduinoFollowing
<1>9. PutBackDone'
  BY <1>8 DEF PutBackDone
<1> QED BY <1>1, <1>2, <1>7, <1>8, <1>9, MiddleStep, StepNamesAre

LEMMA PutBackStep ==
  ASSUME SelfInv, (RestoreThresholds /\ step = "RESTORE_AGAIN") \/ RestoreDirection \/ RestoreConfig
  PROVE  SelfInv'
<1>1. step \in {"RESTORE_AGAIN", "DIRECTION", "CONFIG"} /\ Frame
  BY DEF RestoreThresholds, RestoreDirection, RestoreConfig
<1>2. port = "ARDUINO"
  BY <1>1, OnArduino DEF ArduinoOnly
<1>3. /\ cache \in Settings /\ device \in Settings /\ base \in Settings
      /\ failed \subseteq PutBack /\ base' = base /\ PutBackDone /\ port' = port
      /\ base.low \in Thresholds /\ base.high \in Thresholds
      /\ base.direction \in Directions /\ base.int \in IntConfigs
  BY <1>1, SelfFields DEF SelfInv, Frame
<1>4. CASE RestoreThresholds /\ step = "RESTORE_AGAIN"
  <2>1. SetThresholds(base.low, base.high)
    BY <1>4 DEF RestoreThresholds
  <2>2. /\ cache' \in Settings /\ device' \in Settings /\ failed' \subseteq PutBack
        /\ step' = "DIRECTION"
        /\ \/ cache'.low = base.low /\ cache'.high = base.high /\ failed' = failed
           \/ cache' = cache /\ failed' = failed \cup ({step} \cap PutBack)
    BY <1>2, <1>3, <1>4, <2>1, ThresholdsKeep, ArduinoFollowing
  <2>3. PutBackDone' /\ failed \subseteq failed'
    BY <1>3, <1>4, <2>2 DEF PutBackDone, PutBack
  <2> QED BY <1>1, <1>2, <2>2, <2>3, MiddleStep, StepNamesAre
<1>5. CASE RestoreDirection
  <2> DEFINE s == [cache EXCEPT !.direction = base.direction]
  <2>1. s \in Settings /\ s.direction = base.direction /\ s.low = cache.low /\ s.high = cache.high
    BY <1>3 DEF Settings
  <2>2. Apply(s) /\ step = "DIRECTION"
    BY <1>5 DEF RestoreDirection
  <2> HIDE DEF s
  <2>3. /\ cache' \in Settings /\ device' \in Settings /\ failed' \subseteq PutBack
        /\ step' = "CONFIG"
        /\ \/ cache' = s /\ failed' = failed
           \/ cache' = cache /\ failed' = failed \cup ({step} \cap PutBack)
    BY <1>2, <1>3, <2>1, <2>2, WritesKeep, ArduinoFollowing
  <2>4. PutBackDone' /\ failed \subseteq failed'
    BY <1>2, <1>3, <2>1, <2>2, <2>3 DEF PutBackDone, PutBack
  <2> QED BY <1>1, <1>2, <2>2, <2>3, <2>4, MiddleStep, StepNamesAre
<1>6. CASE RestoreConfig
  <2> DEFINE s == [cache EXCEPT !.int = base.int]
  <2>1. s \in Settings /\ s.direction = cache.direction /\ s.low = cache.low
        /\ s.high = cache.high /\ s.int = base.int
    BY <1>3 DEF Settings
  <2>2. Apply(s) /\ step = "CONFIG"
    BY <1>6 DEF RestoreConfig
  <2> HIDE DEF s
  <2>3. /\ cache' \in Settings /\ device' \in Settings /\ failed' \subseteq PutBack
        /\ step' = "CLEAR_FLAGS"
        /\ \/ cache' = s /\ failed' = failed
           \/ cache' = cache /\ failed' = failed \cup ({step} \cap PutBack)
    BY <1>2, <1>3, <2>1, <2>2, WritesKeep, ArduinoFollowing
  <2>4. PutBackDone' /\ failed \subseteq failed'
    BY <1>2, <1>3, <2>1, <2>2, <2>3 DEF PutBackDone, PutBack
  <2> QED BY <1>1, <1>2, <2>2, <2>3, <2>4, MiddleStep, StepNamesAre
<1> QED BY <1>4, <1>5, <1>6

LEMMA RecoverStep == SelfInv /\ Recover => SelfInv'
<1> SUFFICES ASSUME SelfInv, Recover PROVE SelfInv'
  OBVIOUS
<1>1. /\ SelfTypeOK /\ step = "RECOVER" /\ port \in {"ARDUINO", "IDF"}
      /\ UNCHANGED <<port, base, began, cache>> /\ step' = Following(step)
      /\ cache \in Settings /\ device \in Settings
  BY SelfFields DEF SelfInv, Recover, Frame, Passes, Fails
<1>2. step' = "DONE"
  BY <1>1, ArduinoFollowing, IdfFollowing
<1>3. /\ device' \in Settings /\ failed' \subseteq PutBack /\ failed \subseteq failed'
      /\ device' = cache \/ "RECOVER" \in failed'
  <2>1. CASE Passes /\ device' = Rewritten(cache)
    BY <1>1, <2>1, LandedType, SelfFields DEF Passes, Rewritten
  <2>2. CASE Fails /\ \E n \in 0 .. 3 : device' = Landed(cache, n)
    BY <1>1, <2>2, LandedType, SelfFields DEF Fails, PutBack
  <2> QED BY <2>1, <2>2 DEF Recover
<1>4. SelfTypeOK'
  BY <1>1, <1>2, <1>3, StepNamesAre DEF SelfTypeOK
<1>5. PutBackDone' /\ Captured'
  BY <1>1, <1>2, <1>3 DEF SelfInv, PutBackDone, Captured, Adopted
<1> QED BY <1>1, <1>2, <1>3, <1>4, <1>5 DEF SelfInv, InOrder, Untouched, Recovered

LEMMA SelfInvStep == SelfInv /\ [SelfNext]_selfVars => SelfInv'
<1>1. SelfInv /\ UNCHANGED selfVars => SelfInv'
  BY DEF selfVars, SelfInv, SelfTypeOK, InOrder, Untouched, Captured, PutBackDone, Recovered,
         Adopted
<1>2. RestoreThresholds => step \in {"RESTORE", "RESTORE_AGAIN"}
  BY DEF RestoreThresholds
<1> QED BY <1>1, <1>2, LookStep, CaptureStep, TryStep, PutBackStep, RecoverStep DEF SelfNext

LEMMA SelfSpecInv == SelfSpec => []SelfInv
  BY SelfInvInit, SelfInvStep, PTL DEF SelfSpec

\* The settings stay settings, for any set of threshold levels.
THEOREM SelfCheckTypes == SelfSpec => []SelfTypeOK
<1>1. SelfInv => SelfTypeOK
  BY DEF SelfInv
<1> QED BY <1>1, SelfSpecInv, PTL

\* A self-check that stops early has written nothing, and one that ends has put the
\* settings back unless it said that a step of that failed, for any threshold levels
\* and whatever fails on the way.
THEOREM SelfCheckRestores == SelfSpec => []SettingsComeBack
<1>1. SelfInv => SettingsComeBack
  <2> SUFFICES ASSUME SelfInv PROVE SettingsComeBack
    OBVIOUS
  <2>1. ASSUME port = "ARDUINO", step = "DONE", failed = {} PROVE cache = Adopted
    <3>1. /\ cache \in Settings /\ base = Adopted /\ Adopted \in Settings
          /\ cache.low = base.low /\ cache.high = base.high
          /\ cache.direction = base.direction /\ cache.int = base.int
      BY <2>1, SelfFields, AdoptedFields DEF SelfInv, Captured, PutBackDone
    <3> QED BY <3>1, SettingsEqual
  <2> QED BY <2>1 DEF SelfInv, Untouched, Recovered, SettingsComeBack, Adopted
<1> QED BY <1>1, SelfSpecInv, PTL

-----------------------------------------------------------------------------
(* The line input.  What a recursive function returns is proved for every  *)
(* argument by taking the least length at which it would be wrong.         *)

\* What can be typed within a line.
Keys == Chars \cup {"BACKSPACE"}

\* A non-empty set of natural numbers has a least element.
LEMMA Smallest ==
  ASSUME NEW S, S \subseteq Nat, S # {}
  PROVE  \E m \in S : \A k \in S : m <= k
<1> DEFINE R == {p \in Nat \X Nat : p[1] < p[2]}
<1>1. IsWellFoundedOn(R, Nat)
  BY NatLessThanWellFounded DEF OpToRel
<1>2. PICK m \in S : \A k \in S : <<k, m>> \notin R
  <2> HIDE DEF R
  <2> QED BY <1>1, WFMin
<1>3. m \in Nat
  OBVIOUS
<1>4. ASSUME NEW k \in S PROVE m <= k
  <2>1. k \in Nat /\ <<k, m>> \notin R
    BY <1>2
  <2> QED BY <1>3, <2>1
<1> QED BY <1>4

\* History(keys) meets its recursive definition.
LEMMA HistoryExists ==
  ASSUME NEW keys \in Seq(Keys)
  PROVE  History(keys) = [n \in 0 .. Len(keys) |->
           IF n = 0 THEN <<>> ELSE Pressed(History(keys)[n - 1], keys[n])]
<1> DEFINE Is(f, m) ==
      f = [n \in 0 .. m |-> IF n = 0 THEN <<>> ELSE Pressed(f[n - 1], keys[n])]
<1> DEFINE Missing == {m \in Nat : ~ \E f : Is(f, m)}
<1>1. Missing = {}
  <2>1. SUFFICES ASSUME Missing # {} PROVE FALSE
    OBVIOUS
  <2>2. PICK m \in Missing : \A k \in Missing : m <= k
    <3>1. Missing \subseteq Nat
      OBVIOUS
    <3> HIDE DEF Missing
    <3> QED BY <2>1, <3>1, Smallest
  <2>3. m \in Nat /\ ~ \E f : Is(f, m)
    OBVIOUS
  <2>4. CASE m = 0
    <3> DEFINE f == [n \in 0 .. 0 |-> <<>>]
    <3>1. Is(f, 0)
      OBVIOUS
    <3> QED BY <2>3, <2>4, <3>1
  <2>5. CASE m > 0
    <3>1. m - 1 \in Nat /\ m - 1 \notin Missing
      BY <2>2, <2>3, <2>5
    <3>2. PICK f : Is(f, m - 1)
      BY <3>1
    <3> DEFINE g == [n \in 0 .. m |-> IF n < m THEN f[n] ELSE Pressed(f[m - 1], keys[m])]
    <3>3. ASSUME NEW n \in 0 .. m
          PROVE  g[n] = IF n = 0 THEN <<>> ELSE Pressed(g[n - 1], keys[n])
      <4>1. CASE n = 0
        BY <2>5, <3>2, <4>1
      <4>2. CASE n > 0 /\ n < m
        <5>1. f[n] = Pressed(f[n - 1], keys[n])
          BY <3>2, <4>2, <2>3
        <5>2. g[n - 1] = f[n - 1] /\ g[n] = f[n]
          BY <4>2, <2>3
        <5> QED BY <4>2, <5>1, <5>2
      <4>3. CASE n = m
        <5>1. g[n - 1] = f[n - 1] /\ g[n] = Pressed(f[m - 1], keys[m])
          BY <4>3, <2>3, <2>5
        <5> QED BY <4>3, <2>5, <5>1
      <4> QED BY <2>3, <4>1, <4>2, <4>3
    <3>4. Is(g, m)
      <4> DEFINE h == [n \in 0 .. m |-> IF n = 0 THEN <<>> ELSE Pressed(g[n - 1], keys[n])]
      <4>1. \A n \in 0 .. m : g[n] = h[n]
        <5> HIDE DEF g
        <5> QED BY <3>3
      <4>2. DOMAIN g = 0 .. m /\ DOMAIN h = 0 .. m
        OBVIOUS
      <4>3. g = [n \in 0 .. m |-> g[n]] /\ h = [n \in 0 .. m |-> h[n]]
        OBVIOUS
      <4> HIDE DEF g, h
      <4>4. g = h
        BY <4>1, <4>3
      <4> QED BY <4>4 DEF h
    <3> HIDE DEF g
    <3> QED BY <2>3, <3>4
  <2> QED BY <2>3, <2>4, <2>5
<1>2. Len(keys) \in Nat
  OBVIOUS
<1>3. \E f : Is(f, Len(keys))
  BY <1>1, <1>2
<1>4. History(keys) = CHOOSE f : Is(f, Len(keys))
  BY DEF History
<1>5. Is(CHOOSE f : Is(f, Len(keys)), Len(keys))
  <2> HIDE DEF Is
  <2> QED BY <1>3
<1> QED BY <1>4, <1>5

\* What History is at each point: a line, empty first, then one key further.
LEMMA HistorySteps ==
  ASSUME NEW keys \in Seq(Keys)
  PROVE  /\ History(keys)[0] = <<>>
         /\ \A n \in 1 .. Len(keys) :
              History(keys)[n] = Pressed(History(keys)[n - 1], keys[n])
<1> DEFINE H == History(keys)
<1>1. H = [n \in 0 .. Len(keys) |-> IF n = 0 THEN <<>> ELSE Pressed(H[n - 1], keys[n])]
  BY HistoryExists
<1> HIDE DEF H
<1>2. Len(keys) \in Nat
  OBVIOUS
<1>3. H[0] = <<>>
  BY <1>1, <1>2
<1>4. ASSUME NEW n \in 1 .. Len(keys) PROVE H[n] = Pressed(H[n - 1], keys[n])
  BY <1>1, <1>2
<1> QED BY <1>3, <1>4 DEF H

\* A line of characters stays one, whatever key is pressed.
LEMMA PressedType ==
  ASSUME NEW line \in Seq(Chars), NEW c \in Keys
  PROVE  Pressed(line, c) \in Seq(Chars)
<1>1. CASE c # "BACKSPACE"
  <2>1. c \in Chars
    BY <1>1 DEF Keys
  <2> QED BY <1>1, <2>1 DEF Pressed
<1>2. CASE c = "BACKSPACE" /\ line = <<>>
  BY <1>2 DEF Pressed
<1>3. CASE c = "BACKSPACE" /\ line # <<>>
  <2>1. Len(line) \in Nat /\ Len(line) > 0
    BY <1>3, EmptySeq
  <2>2. Len(line) - 1 \in 0 .. Len(line)
    BY <2>1
  <2>3. SubSeq(line, 1, Len(line) - 1) \in Seq(Chars)
    BY <2>2
  <2> QED BY <1>3, <2>3 DEF Pressed, Front
<1> QED BY <1>1, <1>2, <1>3

\* Every line of a history is a line of characters.
LEMMA HistoryType ==
  ASSUME NEW keys \in Seq(Keys)
  PROVE  \A n \in 0 .. Len(keys) : History(keys)[n] \in Seq(Chars)
<1> DEFINE Bad == {n \in 0 .. Len(keys) : History(keys)[n] \notin Seq(Chars)}
<1>1. Bad = {}
  <2>1. SUFFICES ASSUME Bad # {} PROVE FALSE
    OBVIOUS
  <2>2. PICK m \in Bad : \A k \in Bad : m <= k
    <3>1. Bad \subseteq Nat
      OBVIOUS
    <3> HIDE DEF Bad
    <3> QED BY <2>1, <3>1, Smallest
  <2>3. m \in 0 .. Len(keys) /\ History(keys)[m] \notin Seq(Chars)
    OBVIOUS
  <2>4. m # 0
    <3>1. History(keys)[0] = <<>> /\ <<>> \in Seq(Chars)
      BY HistorySteps
    <3> QED BY <2>3, <3>1
  <2>5. m - 1 \in 0 .. Len(keys) /\ m \in 1 .. Len(keys) /\ ~ m <= m - 1
    BY <2>3, <2>4
  <2>6. History(keys)[m - 1] \in Seq(Chars)
    BY <2>2, <2>5
  <2>7. History(keys)[m] = Pressed(History(keys)[m - 1], keys[m])
    BY <2>5, HistorySteps
  <2>8. keys[m] \in Keys
    BY <2>5
  <2> QED BY <2>3, <2>6, <2>7, <2>8, PressedType
<1> QED BY <1>1

\* The same keys have the same history, whatever follows them.
LEMMA HistoryAgrees ==
  ASSUME NEW ks \in Seq(Keys), NEW ls \in Seq(Keys),
         NEW n \in 0 .. Len(ks), n <= Len(ls), \A i \in 1 .. n : ks[i] = ls[i]
  PROVE  \A i \in 0 .. n : History(ks)[i] = History(ls)[i]
<1> DEFINE Bad == {i \in 0 .. n : History(ks)[i] # History(ls)[i]}
<1>1. Bad = {}
  <2>1. SUFFICES ASSUME Bad # {} PROVE FALSE
    OBVIOUS
  <2>2. PICK m \in Bad : \A k \in Bad : m <= k
    <3>1. Bad \subseteq Nat
      OBVIOUS
    <3> HIDE DEF Bad
    <3> QED BY <2>1, <3>1, Smallest
  <2>3. m \in 0 .. n /\ History(ks)[m] # History(ls)[m]
    OBVIOUS
  <2>4. m # 0
    BY <2>3, HistorySteps
  <2>5. m - 1 \in 0 .. n /\ m \in 1 .. n /\ m \in 1 .. Len(ks) /\ m \in 1 .. Len(ls)
        /\ ~ m <= m - 1
    BY <2>3, <2>4
  <2>6. History(ks)[m - 1] = History(ls)[m - 1]
    BY <2>2, <2>5
  <2>7. /\ History(ks)[m] = Pressed(History(ks)[m - 1], ks[m])
        /\ History(ls)[m] = Pressed(History(ls)[m - 1], ls[m])
    BY <2>5, HistorySteps
  <2>8. ks[m] = ls[m]
    BY <2>5
  <2> QED BY <2>3, <2>6, <2>7, <2>8
<1> QED BY <1>1

\* The line the user meant is a line of characters.
LEMMA EditedType ==
  ASSUME NEW keys \in Seq(Keys)
  PROVE  Edited(keys) \in Seq(Chars)
BY HistoryType, LenProperties DEF Edited

\* With nothing typed, it is empty.
LEMMA EditedEmpty == Edited(<<>>) = <<>> /\ ~ TooLong(<<>>)
<1>1. <<>> \in Seq(Keys) /\ Len(<<>>) = 0
  OBVIOUS
<1>2. Edited(<<>>) = <<>>
  BY <1>1, HistorySteps DEF Edited
<1>3. \A n \in 0 .. Len(<<>>) : SubSeq(<<>>, 1, n) = <<>>
  OBVIOUS
<1>4. ~ Len(<<>>) > Capacity - 1
  BY LineAssumption
<1>5. \A n \in 0 .. Len(<<>>) : ~ Len(Edited(SubSeq(<<>>, 1, n))) > Capacity - 1
  BY <1>2, <1>3, <1>4
<1> QED BY <1>2, <1>5 DEF TooLong

\* What a prefix of the keys gives is the history's line there.
LEMMA EditedPrefix ==
  ASSUME NEW keys \in Seq(Keys), NEW n \in 0 .. Len(keys)
  PROVE  Edited(SubSeq(keys, 1, n)) = History(keys)[n]
<1> DEFINE front == SubSeq(keys, 1, n)
<1>1. /\ front \in Seq(Keys) /\ Len(front) = n /\ Len(keys) \in Nat /\ n \in Nat
      /\ \A i \in 1 .. n : front[i] = keys[i]
  OBVIOUS
<1> HIDE DEF front
<1>2. \A i \in 0 .. n : History(front)[i] = History(keys)[i]
  BY <1>1, HistoryAgrees
<1>3. Edited(front) = History(keys)[n]
  BY <1>1, <1>2 DEF Edited
<1> QED BY <1>3 DEF front

\* One more key acts on it, and "too long" remembers.
LEMMA EditedAppend ==
  ASSUME NEW keys \in Seq(Keys), NEW c \in Keys
  PROVE  /\ Edited(Append(keys, c)) = Pressed(Edited(keys), c)
         /\ TooLong(Append(keys, c)) <=>
              TooLong(keys) \/ Len(Edited(Append(keys, c))) > Capacity - 1
<1> DEFINE more == Append(keys, c)
<1>1. /\ more \in Seq(Keys) /\ Len(more) = Len(keys) + 1 /\ Len(keys) \in Nat
      /\ more[Len(keys) + 1] = c /\ \A i \in 1 .. Len(keys) : more[i] = keys[i]
  OBVIOUS
<1> HIDE DEF more
<1>2. \A i \in 0 .. Len(keys) : History(keys)[i] = History(more)[i]
  BY <1>1, HistoryAgrees
<1>3. History(more)[Len(keys) + 1] = Pressed(History(more)[Len(keys)], c)
  <2>1. Len(keys) + 1 \in 1 .. Len(more) /\ (Len(keys) + 1) - 1 = Len(keys)
    BY <1>1
  <2> QED BY <1>1, <2>1, HistorySteps
<1>4. Edited(more) = Pressed(Edited(keys), c)
  BY <1>1, <1>2, <1>3 DEF Edited
<1>5. TooLong(more) <=> \E n \in 0 .. Len(more) : Len(History(more)[n]) > Capacity - 1
  BY <1>1, EditedPrefix DEF TooLong
<1>6. TooLong(keys) <=> \E n \in 0 .. Len(keys) : Len(History(more)[n]) > Capacity - 1
  BY <1>2, EditedPrefix DEF TooLong
<1>7. 0 .. Len(more) = (0 .. Len(keys)) \cup {Len(keys) + 1}
  BY <1>1
<1>8. Edited(more) = History(more)[Len(keys) + 1]
  BY <1>1 DEF Edited
<1>9. TooLong(more) <=> TooLong(keys) \/ Len(Edited(more)) > Capacity - 1
  BY <1>5, <1>6, <1>7, <1>8
<1> QED BY <1>4, <1>9 DEF more

-----------------------------------------------------------------------------
(* The trimming. *)

\* A set of positions of a line has a first and a last one.
LEMMA FirstAndLast ==
  ASSUME NEW n \in Nat, NEW S, S \subseteq 1 .. n, S # {}
  PROVE  /\ Min(S) \in S /\ \A k \in S : Min(S) <= k
         /\ Max(S) \in S /\ \A k \in S : k <= Max(S)
<1>0. \A k \in S : k \in Nat
  OBVIOUS
<1>1. PICK least \in S : \A k \in S : least <= k
  BY <1>0, Smallest
<1>2. Min(S) \in S /\ \A k \in S : Min(S) <= k
  BY <1>1 DEF Min
<1> DEFINE T == {n - k : k \in S}
<1>3. T \subseteq Nat /\ T # {}
  <2>1. \A k \in S : n - k \in Nat
    OBVIOUS
  <2> QED BY <2>1
<1>4. PICK t \in T : \A u \in T : t <= u
  <2> HIDE DEF T
  <2> QED BY <1>3, Smallest
<1>5. PICK m \in S : t = n - m
  OBVIOUS
<1>6. ASSUME NEW k \in S PROVE m >= k
  <2>1. n - m <= n - k
    BY <1>4, <1>5
  <2>2. \A x, y \in Nat : n - x <= n - y => x >= y
    OBVIOUS
  <2>3. m \in Nat /\ k \in Nat
    BY <1>0
  <2> HIDE DEF T
  <2> QED BY <2>1, <2>2, <2>3
<1>7. Max(S) \in S /\ \A k \in S : Max(S) >= k
  BY <1>6 DEF Max
<1>8. \A k \in S : k <= Max(S)
  <2>1. ASSUME NEW k \in S PROVE k <= Max(S)
    <3>1. Max(S) >= k
      BY <1>7
    <3>2. \A x, y \in Nat : x >= y => y <= x
      OBVIOUS
    <3>3. k \in Nat /\ Max(S) \in Nat
      BY <1>0, <1>7
    <3> QED BY <3>1, <3>2, <3>3
  <2> QED BY <2>1
<1> QED BY <1>2, <1>7, <1>8

\* trimCopy's part of a line is the line without the blanks around it.
LEMMA TrimmedIsTrimmed ==
  ASSUME NEW s \in Seq(Chars)
  PROVE  \E i, j \in 0 .. Len(s) :
           /\ Trimmed(s) = SubSeq(s, i + 1, j)
           /\ IsTrimmed(Trimmed(s), s)
<1>1. Len(s) \in Nat /\ DOMAIN s = 1 .. Len(s)
  OBVIOUS
<1>2. CASE Visible(s) = {}
  <2>1. Trimmed(s) = <<>>
    BY <1>2 DEF Trimmed
  <2>2. 0 \in 0 .. Len(s) /\ Len(s) \in 0 .. Len(s)
    BY <1>1
  <2>3. SubSeq(s, 0 + 1, 0) = <<>>
    BY SubSeqEmpty
  <2>4. SubSeq(s, Len(s) + 1, Len(s) - 0) = <<>>
    BY <1>1, SubSeqEmpty
  <2>5. \A k \in DOMAIN s : s[k] = "BLANK"
    BY <1>2 DEF Visible
  <2>6. IsTrimmed(<<>>, s)
    BY <1>1, <2>2, <2>4, <2>5 DEF IsTrimmed
  <2> QED BY <2>1, <2>2, <2>3, <2>6
<1>3. CASE Visible(s) # {}
  <2> DEFINE a == Min(Visible(s))
             b == Max(Visible(s))
  <2>1. Visible(s) \subseteq 1 .. Len(s)
    BY <1>1 DEF Visible
  <2>2. a \in Visible(s) /\ b \in Visible(s) /\ \A k \in Visible(s) : a <= k /\ k <= b
    BY <1>1, <1>3, <2>1, FirstAndLast
  <2>3. Trimmed(s) = SubSeq(s, a, b)
    BY <1>3 DEF Trimmed
  <2> HIDE DEF a, b
  <2>4. /\ a \in 1 .. Len(s) /\ b \in 1 .. Len(s) /\ a <= b
        /\ s[a] # "BLANK" /\ s[b] # "BLANK"
    BY <2>1, <2>2 DEF Visible
  <2>5. \A k \in DOMAIN s : k < a \/ b < k => s[k] = "BLANK"
    BY <1>1, <2>2, <2>4 DEF Visible
  <2> DEFINE i == a - 1
             j == Len(s) - b
             line == SubSeq(s, a, b)
  <2>6. /\ i \in 0 .. Len(s) /\ j \in 0 .. Len(s) /\ i + j <= Len(s)
        /\ i + 1 = a /\ Len(s) - j = b /\ b \in 0 .. Len(s)
    BY <1>1, <2>4
  <2>7. line = SubSeq(s, i + 1, Len(s) - j) /\ line = SubSeq(s, i + 1, b)
    BY <2>6
  <2>8. \A k \in DOMAIN s : k <= i \/ k > Len(s) - j => s[k] = "BLANK"
    BY <1>1, <2>4, <2>5
  <2>9. /\ line \in Seq(Chars) /\ Len(line) = b - a + 1
        /\ line[1] = s[a] /\ line[b - a + 1] = s[b]
    <3>1. \A k \in a .. b : s[k] \in Chars
      BY <1>1, <2>4
    <3>2. a \in Int /\ b \in Int /\ 1 \in 1 .. (b - a + 1) /\ b - a + 1 \in 1 .. (b - a + 1)
      BY <1>1, <2>4
    <3>3. /\ line \in Seq(Chars)
          /\ Len(line) = IF a <= b THEN b - a + 1 ELSE 0
          /\ \A k \in 1 .. (b - a + 1) : line[k] = s[a + k - 1]
      BY <3>1, <3>2, SubSeqProperties
    <3>4. a + 1 - 1 = a /\ a + (b - a + 1) - 1 = b
      BY <3>2
    <3> QED BY <2>4, <3>2, <3>3, <3>4
  <2>10. "BLANK" \notin {Head(line), Last(line)}
    <3>1. Head(line) = line[1] /\ Last(line) = line[b - a + 1]
      <4> HIDE DEF line
      <4>1. Len(line) # 0
        BY <1>1, <2>4, <2>9
      <4> QED BY <2>9, <4>1, EmptySeq DEF Last
    <3> QED BY <2>4, <2>9, <3>1
  <2> HIDE DEF i, j, line
  <2>11. IsTrimmed(line, s)
    BY <2>6, <2>7, <2>8, <2>10 DEF IsTrimmed
  <2> QED BY <2>3, <2>6, <2>7, <2>11 DEF line
<1> QED BY <1>2, <1>3

-----------------------------------------------------------------------------
(* The buffer and what was typed. *)

\* The buffer is discarding exactly the lines that did not fit; it holds any other
\* as the user meant it.
LineInv ==
  /\ LineTypeOK
  /\ discarding => TooLong(typed)
  /\ ~discarding => text = Edited(typed) /\ ~TooLong(typed)

LEMMA LineInvInit == LineInit => LineInv
<1> SUFFICES ASSUME LineInit PROVE LineInv
  OBVIOUS
<1>1. LineTypeOK
  <2>1. <<>> \in Seq(Chars) /\ <<>> \in Seq(Chars \cup {"BACKSPACE"}) /\ Len(<<>>) = 0
    OBVIOUS
  <2>2. 0 <= Capacity - 1
    BY LineAssumption
  <2> QED BY <2>1, <2>2 DEF LineInit, LineTypeOK, Silent, Answer
<1> QED BY <1>1, EditedEmpty DEF LineInit, LineInv

\* One more key: what was typed, the answer's type, and the two laws about it.
LEMMA TypeKeeps ==
  ASSUME LineInv, NEW c \in Keys, Type(c), Quiet
  PROVE  /\ typed' \in Seq(Keys)
         /\ answer'.kind = "NONE" /\ answer'.line = <<>>
         /\ Edited(typed') = Pressed(Edited(typed), c)
         /\ TooLong(typed') <=> TooLong(typed) \/ Len(Edited(typed')) > Capacity - 1
<1>1. typed \in Seq(Keys)
  BY DEF LineInv, LineTypeOK, Keys
<1>2. typed' = Append(typed, c)
  BY DEF Type
<1>3. Append(typed, c) \in Seq(Keys)
  BY <1>1
<1>4. /\ Edited(Append(typed, c)) = Pressed(Edited(typed), c)
      /\ TooLong(Append(typed, c)) <=>
           TooLong(typed) \/ Len(Edited(Append(typed, c))) > Capacity - 1
  BY <1>1, EditedAppend
<1> QED BY <1>2, <1>3, <1>4 DEF Quiet, Silent, Answer

LEMMA LineInvStep == LineInv /\ [LineNext]_lineVars => LineInv'
<1> SUFFICES ASSUME LineInv, [LineNext]_lineVars PROVE LineInv'
  OBVIOUS
<1> USE LineAssumption
<1>a. /\ text \in Seq(Chars) /\ Len(text) \in Nat /\ Len(text) <= Capacity - 1
      /\ typed \in Seq(Keys)
      /\ Keys = Chars \cup {"BACKSPACE"}
  BY DEF LineInv, LineTypeOK, Keys
<1>b. <<>> \in Seq(Chars) /\ <<>> \in Seq(Keys) /\ Len(<<>>) = 0 /\ Capacity \in Nat
      /\ 0 <= Capacity - 1
  OBVIOUS
<1>1. CASE DiscardChar
  <2>1. PICK c \in Keys : Type(c)
    BY <1>1 DEF DiscardChar, Keys
  <2>2. Quiet /\ text' = text /\ discarding' = discarding /\ discarding
    BY <1>1 DEF DiscardChar
  <2>3. /\ typed' \in Seq(Keys) /\ answer'.kind = "NONE" /\ answer'.line = <<>>
        /\ TooLong(typed) => TooLong(typed')
    BY <2>1, <2>2, TypeKeeps
  <2>4. LineTypeOK'
    BY <1>a, <1>b, <2>2, <2>3 DEF LineInv, LineTypeOK
  <2> QED BY <2>2, <2>3, <2>4 DEF LineInv
<1>2. CASE Erase
  <2>1. /\ Type("BACKSPACE") /\ Quiet /\ discarding' = discarding /\ ~discarding
        /\ text' = Pressed(text, "BACKSPACE") /\ "BACKSPACE" \in Keys
    BY <1>2 DEF Erase, Pressed, Keys
  <2>2. /\ typed' \in Seq(Keys) /\ answer'.kind = "NONE" /\ answer'.line = <<>>
        /\ Edited(typed') = Pressed(Edited(typed), "BACKSPACE")
        /\ TooLong(typed') <=> TooLong(typed) \/ Len(Edited(typed')) > Capacity - 1
    BY <2>1, TypeKeeps
  <2>3. text' \in Seq(Chars)
    BY <1>a, <2>1, PressedType
  <2>4. Len(text') <= Capacity - 1
    <3>1. CASE text = <<>>
      BY <1>a, <2>1, <3>1 DEF Pressed
    <3>2. CASE text # <<>>
      <4>1. text' = SubSeq(text, 1, Len(text) - 1)
        BY <2>1, <3>2 DEF Pressed, Front
      <4>2. Len(text) > 0
        BY <1>a, <3>2, EmptySeq
      <4>3. Len(SubSeq(text, 1, Len(text) - 1)) = Len(text) - 1
        <5> DEFINE n == Len(text) - 1
        <5>1. n \in Nat /\ 1 \in Int /\ \A k \in 1 .. n : text[k] \in Chars
          BY <1>a, <4>2
        <5> HIDE DEF n
        <5>2. Len(SubSeq(text, 1, n)) = IF 1 <= n THEN n - 1 + 1 ELSE 0
          BY <5>1, SubSeqProperties
        <5>3. Len(SubSeq(text, 1, n)) = n
          BY <5>1, <5>2
        <5> QED BY <5>3 DEF n
      <4>4. \A x, cap \in Nat : x <= cap - 1 => x - 1 <= cap - 1
        OBVIOUS
      <4>5. Len(text) - 1 <= Capacity - 1
        BY <1>a, <1>b, <4>4
      <4> QED BY <4>1, <4>3, <4>5
    <3> QED BY <3>1, <3>2
  <2>5. LineTypeOK'
    BY <1>a, <1>b, <2>1, <2>2, <2>3, <2>4 DEF LineInv, LineTypeOK
  <2>6. Len(text') \in Nat
    BY <2>3
  <2>7. ~ Len(text') > Capacity - 1
    BY <1>b, <2>4, <2>6
  <2> QED BY <2>1, <2>2, <2>5, <2>7 DEF LineInv
<1>3. CASE Store
  <2>1. PICK c \in Chars : Type(c) /\ text' = Append(text, c)
    BY <1>3 DEF Store
  <2>2. c \in Keys /\ c # "BACKSPACE"
    BY <2>1 DEF Keys, Chars
  <2>3. Quiet /\ discarding' = discarding /\ ~discarding /\ ~Full
    BY <1>3 DEF Store
  <2>4. /\ typed' \in Seq(Keys) /\ answer'.kind = "NONE" /\ answer'.line = <<>>
        /\ Edited(typed') = Pressed(Edited(typed), c)
        /\ TooLong(typed') <=> TooLong(typed) \/ Len(Edited(typed')) > Capacity - 1
    BY <2>1, <2>2, <2>3, TypeKeeps
  <2>5. text' = Pressed(text, c)
    BY <2>1, <2>2 DEF Pressed
  <2>6. text' \in Seq(Chars) /\ Len(text') = Len(text) + 1
    BY <1>a, <2>1
  <2>7. Len(text') <= Capacity - 1 /\ ~ Len(text') > Capacity - 1
    BY <1>a, <1>b, <2>3, <2>6 DEF Full
  <2>8. LineTypeOK'
    BY <1>a, <1>b, <2>3, <2>4, <2>6, <2>7 DEF LineInv, LineTypeOK
  <2> QED BY <2>3, <2>4, <2>5, <2>7, <2>8 DEF LineInv
<1>4. CASE Overflow
  <2>1. PICK c \in Chars : Type(c)
    BY <1>4 DEF Overflow
  <2>2. c \in Keys /\ c # "BACKSPACE"
    BY <2>1 DEF Keys, Chars
  <2>3. Quiet /\ discarding' = TRUE /\ text' = <<>> /\ ~discarding /\ Full
    BY <1>4 DEF Overflow
  <2>4. /\ typed' \in Seq(Keys) /\ answer'.kind = "NONE" /\ answer'.line = <<>>
        /\ Edited(typed') = Pressed(Edited(typed), c)
        /\ TooLong(typed') <=> TooLong(typed) \/ Len(Edited(typed')) > Capacity - 1
    BY <2>1, <2>2, <2>3, TypeKeeps
  <2>5. Edited(typed') = Append(text, c)
    BY <2>2, <2>3, <2>4 DEF LineInv, Pressed
  <2>6. Len(Append(text, c)) = Len(text) + 1
    BY <1>a, <2>1
  <2>7. Len(Edited(typed')) > Capacity - 1
    BY <1>a, <1>b, <2>3, <2>5, <2>6 DEF Full
  <2>8. LineTypeOK'
    BY <1>a, <1>b, <2>3, <2>4 DEF LineInv, LineTypeOK
  <2> QED BY <2>3, <2>4, <2>7, <2>8 DEF LineInv
<1>5. CASE EndLine
  <2>1. text' = <<>> /\ discarding' = FALSE /\ typed' = <<>>
    BY <1>5 DEF EndLine, Reset
  <2>2. Trimmed(text) \in Seq(Chars)
    <3>1. PICK i, j \in 0 .. Len(text) : Trimmed(text) = SubSeq(text, i + 1, j)
      BY <1>a, TrimmedIsTrimmed
    <3>2. \A k \in (i + 1) .. j : text[k] \in Chars
      BY <1>a, <3>1
    <3>3. i + 1 \in Int /\ j \in Int
      BY <1>a, <3>1
    <3> QED BY <3>1, <3>2, <3>3, SubSeqProperties
  <2>3. /\ answer'.kind \in {"NONE", "READY", "TOO_LONG", "OUTPUT_TOO_SMALL"}
        /\ answer'.line \in Seq(Chars)
    BY <1>5, <1>b, <2>2 DEF EndLine, Delivered, Silent, Answer
  <2>4. LineTypeOK'
    BY <1>b, <2>1, <2>3, <1>a DEF LineTypeOK
  <2>5. Edited(typed') = <<>> /\ ~TooLong(typed')
    BY <2>1, EditedEmpty
  <2> QED BY <2>1, <2>4, <2>5 DEF LineInv
<1>6. CASE UNCHANGED lineVars
  BY <1>6 DEF LineInv, LineTypeOK, lineVars, Edited, TooLong
<1> QED BY <1>1, <1>2, <1>3, <1>4, <1>5, <1>6 DEF LineNext

\* The types of the line buffer's variables; in particular the text never
\* reaches the place of the terminating zero, for any capacity.
THEOREM LineTypes == LineSpec => []LineTypeOK
<1>1. LineInv => LineTypeOK
  BY DEF LineInv
<1> QED BY <1>1, LineInvInit, LineInvStep, PTL DEF LineSpec

\* Each end of line delivers the line the user meant, and nothing of it if
\* it was ever too long: for any alphabet, capacity and sequence of keys.
THEOREM LineDelivered == LineSpec => DeliversTheLine
<1> DEFINE Right ==
      EndLine =>
        IF TooLong(typed) THEN answer' = Answer("TOO_LONG", <<>>)
        ELSE \E i, j \in 0 .. Len(Edited(typed)) :
               LET line == SubSeq(Edited(typed), i + 1, j)
               IN IsTrimmed(line, Edited(typed)) /\ answer' = Delivered(line)
<1>1. LineInv /\ [LineNext]_lineVars => [Right]_lineVars
  <2> SUFFICES ASSUME LineInv, EndLine
               PROVE  IF TooLong(typed) THEN answer' = Answer("TOO_LONG", <<>>)
                      ELSE \E i, j \in 0 .. Len(Edited(typed)) :
                             LET line == SubSeq(Edited(typed), i + 1, j)
                             IN IsTrimmed(line, Edited(typed)) /\ answer' = Delivered(line)
    OBVIOUS
  <2>1. CASE discarding
    BY <2>1 DEF LineInv, EndLine
  <2>2. CASE ~discarding
    <3>1. text = Edited(typed) /\ ~TooLong(typed) /\ text \in Seq(Chars)
      BY <2>2 DEF LineInv, LineTypeOK
    <3>2. answer' = Delivered(Trimmed(text))
      BY <2>2 DEF EndLine
    <3>3. PICK i, j \in 0 .. Len(text) :
            Trimmed(text) = SubSeq(text, i + 1, j) /\ IsTrimmed(Trimmed(text), text)
      BY <3>1, TrimmedIsTrimmed
    <3>4. LET line == SubSeq(text, i + 1, j)
          IN IsTrimmed(line, text) /\ answer' = Delivered(line)
      BY <3>2, <3>3
    <3>5. \E a, b \in 0 .. Len(text) :
            LET line == SubSeq(text, a + 1, b)
            IN IsTrimmed(line, text) /\ answer' = Delivered(line)
      BY <3>3, <3>4
    <3> QED BY <3>1, <3>5
  <2>3. discarding \in BOOLEAN
    BY DEF LineInv, LineTypeOK
  <2> QED BY <2>1, <2>2, <2>3
<1> QED BY <1>1, LineInvInit, LineInvStep, PTL DEF LineSpec, DeliversTheLine

-----------------------------------------------------------------------------
(* The burst window, read one register at a time. *)

\* Numbers less than a modulus apart are told apart by it.
LEMMA ModuloTells ==
  ASSUME NEW m \in Nat \ {0}, NEW a \in Nat, NEW b \in Nat,
         a <= b, b - a < m, a % m = b % m
  PROVE  a = b
<1>1. b - a = (b \div m - a \div m) * m
  OBVIOUS
<1> DEFINE q == b \div m - a \div m
<1>2. q \in Int /\ b - a = q * m
  BY <1>1
<1> HIDE DEF q
<1>3. CASE q <= 0
  <2>1. q * m <= 0
    BY <1>2, <1>3
  <2> QED BY <1>2, <2>1
<1>4. CASE q >= 1
  <2>1. q * m >= m
    BY <1>2, <1>4
  <2> QED BY <1>2, <2>1
<1> QED BY <1>2, <1>3, <1>4

\* The slot of a register.
Slot(k) == (k - 1) \div 2

LEMMA SlotRange ==
  ASSUME NEW k \in 1 .. Registers
  PROVE  Slot(k) \in 0 .. Slots - 1
  BY BurstAssumption DEF Slot, Registers

LEMMA SlotOfPair ==
  ASSUME NEW i \in 1 .. Slots
  PROVE  /\ 2 * i - 1 \in 1 .. Registers /\ 2 * i \in 1 .. Registers
         /\ Slot(2 * i - 1) = i - 1 /\ Slot(2 * i) = i - 1
  BY BurstAssumption DEF Slot, Registers

LEMMA FirstSlots == Slot(1) = 0 /\ Slot(2) = 0 /\ Registers \in Nat /\ Registers >= 2
  BY BurstAssumption DEF Slot, Registers

\* Registers hold numbers.
LEMMA RegistersAreNat ==
  ASSUME NEW s \in Seq(Conversions), NEW k \in 1 .. Len(s)
  PROVE  s[k] \in Nat
<1>1. s[k] \in Conversions
  OBVIOUS
<1> QED BY <1>1 DEF Conversions

-----------------------------------------------------------------------------
(* The invariant. *)

\* In a call, register k was read between its start and now, and not before
\* register 2; a trusted newest pair is not torn.
CallInv ==
  /\ call \in [step : 0 .. Registers + 1, from : Conversions, regs : Seq(Conversions),
               trusted : BOOLEAN]
  /\ call.step = 0 => call = Idle
  /\ call.step # 0 =>
       /\ Len(call.regs) = call.step - 1
       /\ call.from <= newest /\ newest - call.from <= MaxShifts
       /\ \A k \in 1 .. call.step - 1 :
            /\ call.from <= call.regs[k] + Slot(k)
            /\ call.regs[k] + Slot(k) <= newest
       /\ \A k \in 3 .. call.step - 1 : call.regs[2] <= call.regs[k] + Slot(k)
       /\ call.trusted => call.step > 2 /\ call.regs[1] = call.regs[2]

\* A trusted frame is the window as it was at some conversion.
HoldsWindow(regs, n) == \A k \in 1 .. Registers : regs[k] = n - Slot(k)

PublishedInv ==
  /\ published \in [valid : BOOLEAN, trusted : BOOLEAN, regs : Seq(Conversions)]
  /\ Len(published.regs) = IF published.valid THEN Registers ELSE 0
  /\ published.valid /\ published.trusted =>
       \E n \in Slots .. newest : HoldsWindow(published.regs, n)

BurstInv ==
  /\ newest \in Slots .. MaxNewest
  /\ baseline \in [valid : BOOLEAN, counter : 0 .. CounterModulo - 1]
  /\ CallInv
  /\ PublishedInv

LEMMA InvImpliesType == BurstInv => TypeOK
<1> SUFFICES ASSUME BurstInv PROVE TypeOK
  OBVIOUS
<1>1. Len(call.regs) = IF call.step = 0 THEN 0 ELSE call.step - 1
  BY DEF BurstInv, CallInv, Idle
<1>2. \A k \in DOMAIN call.regs : call.regs[k] \in Conversions
  BY DEF BurstInv, CallInv
<1> QED BY <1>1, <1>2 DEF BurstInv, CallInv, PublishedInv, TypeOK

LEMMA IdleCall == Idle \in [step : 0 .. Registers + 1, from : Conversions,
                            regs : Seq(Conversions), trusted : BOOLEAN]
                  /\ Idle.step = 0
  BY BurstAssumption, FirstSlots DEF Idle, Conversions

LEMMA NoFrame == /\ NoBurst \in [valid : BOOLEAN, trusted : BOOLEAN, regs : Seq(Conversions)]
                 /\ Len(NoBurst.regs) = 0 /\ NoBurst.valid = FALSE
  BY DEF NoBurst

LEMMA CounterInRange == \A n \in Nat : Counter(n) \in 0 .. CounterModulo - 1
  BY BurstAssumption DEF Counter

LEMMA NewestIsNat == newest \in Slots .. MaxNewest => newest \in Conversions /\ newest \in Nat
  BY BurstAssumption DEF Conversions

LEMMA HeldInRange ==
  ASSUME newest \in Slots .. MaxNewest, NEW k \in 1 .. Registers
  PROVE  Held(k) \in Conversions /\ Held(k) + Slot(k) = newest
  BY SlotRange, BurstAssumption DEF Held, Slot, Conversions

LEMMA BurstInit == Init => BurstInv
<1> SUFFICES ASSUME Init PROVE BurstInv
  OBVIOUS
<1>1. newest \in Slots .. MaxNewest
  BY BurstAssumption DEF Init
<1>2. NoBaseline \in [valid : BOOLEAN, counter : 0 .. CounterModulo - 1]
  BY BurstAssumption DEF NoBaseline
<1>3. CallInv
  BY IdleCall DEF Init, CallInv
<1>4. PublishedInv
  BY NoFrame DEF Init, PublishedInv
<1> QED BY <1>1, <1>2, <1>3, <1>4 DEF Init, BurstInv

-----------------------------------------------------------------------------
(* Steps. *)

LEMMA BeginStep == BurstInv /\ Begin => BurstInv'
<1> SUFFICES ASSUME BurstInv, Begin PROVE BurstInv'
  OBVIOUS
<1>1. newest \in Conversions /\ newest \in Nat
  BY NewestIsNat DEF BurstInv
<1>2. call' = [step |-> 1, from |-> newest, regs |-> <<>>, trusted |-> FALSE]
  BY DEF Begin, Idle
<1>3. call'.step = 1 /\ call'.from = newest /\ call'.regs = <<>>
      /\ call'.trusted = FALSE /\ newest' = newest
  <2>1. newest' = newest
    BY DEF Begin
  <2> QED BY <1>2, <2>1
<1>4. 1 \in 0 .. Registers + 1 /\ <<>> \in Seq(Conversions) /\ Len(<<>>) = 0
  BY FirstSlots
<1>5. newest - newest <= MaxShifts
  BY <1>1, BurstAssumption
<1>6. CallInv'
  <2>1. call' \in [step : 0 .. Registers + 1, from : Conversions, regs : Seq(Conversions),
                   trusted : BOOLEAN]
    BY <1>1, <1>2, <1>4
  <2>2. \A k \in 1 .. call'.step - 1 : FALSE
    BY <1>3
  <2>3. \A k \in 3 .. call'.step - 1 : FALSE
    BY <1>3
  <2> QED BY <1>1, <1>3, <1>4, <1>5, <2>1, <2>2, <2>3 DEF CallInv
<1> QED BY <1>6 DEF Begin, BurstInv, PublishedInv

LEMMA ReadStep == BurstInv /\ ReadRegister => BurstInv'
<1> SUFFICES ASSUME BurstInv, ReadRegister PROVE BurstInv'
  OBVIOUS
<1> DEFINE k == call.step
           read == Append(call.regs, Held(k))
<1>1. k \in 1 .. Registers /\ newest \in Nat /\ newest' = newest
  BY NewestIsNat DEF ReadRegister, BurstInv
<1>2. Held(k) \in Conversions /\ Held(k) + Slot(k) = newest
  BY <1>1, HeldInRange DEF BurstInv
<1>3. call.regs \in Seq(Conversions) /\ Len(call.regs) = k - 1
  BY <1>1 DEF BurstInv, CallInv
<1>4. /\ read \in Seq(Conversions) /\ Len(read) = k
      /\ \A j \in 1 .. k - 1 : read[j] = call.regs[j]
      /\ read[k] = Held(k)
  BY <1>1, <1>2, <1>3
<1>5. PICK trusted \in IF k = 2 THEN Trusts(read[1], read[2]) ELSE {call.trusted} :
        call' = IF k = Registers /\ Duplicate(read[2], trusted) THEN Idle
                ELSE [call EXCEPT !.step = @ + 1, !.regs = read, !.trusted = trusted]
  BY DEF ReadRegister
<1>6. CASE call' = Idle
  BY <1>6, IdleCall DEF ReadRegister, BurstInv, CallInv, PublishedInv
<1>7. CASE call' = [call EXCEPT !.step = @ + 1, !.regs = read, !.trusted = trusted]
  <2>1. /\ call'.step = k + 1 /\ call'.from = call.from
        /\ call'.regs = read /\ call'.trusted = trusted
        /\ k \in 0 .. Registers + 1 /\ call.from \in Conversions
    BY <1>7 DEF BurstInv, CallInv
  <2>2. trusted \in BOOLEAN /\ (trusted => k + 1 > 2 /\ read[1] = read[2])
    <3>1. CASE k = 2
      <4> DEFINE untorn == read[1] = read[2]
      <4>1. trusted \in Trusts(read[1], read[2])
        BY <1>5, <3>1
      <4>2. trusted = untorn \/ trusted = FALSE
        BY <4>1, Zenon DEF Trusts
      <4>3. trusted \in BOOLEAN /\ (trusted => untorn)
        BY <4>2, Zenon
      <4>4. k + 1 > 2
        BY <3>1
      <4> QED BY <4>3, <4>4
    <3>2. CASE k # 2
      <4>1. trusted = call.trusted
        BY <1>5, <3>2
      <4>2. call.trusted \in BOOLEAN
            /\ (call.trusted => k > 2 /\ call.regs[1] = call.regs[2])
        BY <1>1 DEF BurstInv, CallInv
      <4> QED BY <1>1, <1>4, <4>1, <4>2
    <3> QED BY <3>1, <3>2
  <2>3. call' \in [step : 0 .. Registers + 1, from : Conversions, regs : Seq(Conversions),
                   trusted : BOOLEAN]
    <3> HIDE DEF k, read
    <3>1. k + 1 \in 0 .. Registers + 1
      BY <1>1, FirstSlots
    <3>2. call' = [step |-> k + 1, from |-> call.from, regs |-> read, trusted |-> trusted]
      BY <1>7 DEF BurstInv, CallInv, k
    <3> QED BY <1>4, <2>1, <2>2, <3>1, <3>2
  <2>4. call.from <= newest /\ newest - call.from <= MaxShifts
    BY <1>1 DEF BurstInv, CallInv
  <2>5. \A j \in 1 .. k : call.from <= read[j] + Slot(j) /\ read[j] + Slot(j) <= newest
    <3> TAKE j \in 1 .. k
    <3>1. CASE j = k
      BY <1>1, <1>2, <1>4, <2>4, <3>1 DEF Conversions
    <3>2. CASE j \in 1 .. k - 1
      BY <1>1, <1>4, <3>2 DEF BurstInv, CallInv
    <3>3. j = k \/ j \in 1 .. k - 1
      BY <1>1, FirstSlots
    <3> QED BY <3>1, <3>2, <3>3
  <2>6. \A j \in 3 .. k : read[2] <= read[j] + Slot(j)
    <3> TAKE j \in 3 .. k
    <3>1. CASE j = k
      <4>1. read[2] + Slot(2) <= newest
        <5>1. 2 \in 1 .. k
          BY <1>1, <3>1, FirstSlots
        <5> QED BY <2>5, <5>1
      <4>2. read[2] \in Nat
        BY <1>1, <1>4, <3>1, FirstSlots, RegistersAreNat
      <4> QED BY <1>2, <1>4, <3>1, <4>1, <4>2, FirstSlots
    <3>2. CASE j \in 3 .. k - 1
      BY <1>1, <1>4, <3>2 DEF BurstInv, CallInv
    <3>3. j = k \/ j \in 3 .. k - 1
      BY <1>1, FirstSlots
    <3> QED BY <3>1, <3>2, <3>3
  <2>7. CallInv'
    <3> HIDE DEF k, read
    <3>1. k + 1 - 1 = k /\ k + 1 # 0
      BY <1>1, FirstSlots
    <3> QED BY <1>1, <1>4, <2>1, <2>2, <2>3, <2>4, <2>5, <2>6, <3>1 DEF CallInv
  <2> QED BY <2>7 DEF ReadRegister, BurstInv, PublishedInv
<1> QED BY <1>5, <1>6, <1>7

\* When the guard read finds a trusted newest counter where it was, nothing has
\* moved since the newest pair was read, and the registers are one window.
LEMMA GuardSeesWindow ==
  ASSUME BurstInv, call.step = Registers + 1, call.trusted, ~Moved(call)
  PROVE  HoldsWindow(call.regs, newest)
<1>1. /\ newest \in Nat /\ call.from \in Nat /\ MaxShifts \in Nat
      /\ CounterModulo \in Nat \ {0} /\ MaxShifts < CounterModulo
  BY NewestIsNat, BurstAssumption, NoWrapAssumption DEF BurstInv, CallInv, Conversions
<1>2. call.step - 1 = Registers /\ call.step # 0 /\ 2 \in 1 .. Registers
  BY FirstSlots
<1>3. /\ call.regs \in Seq(Conversions) /\ Len(call.regs) = Registers
      /\ newest - call.from <= MaxShifts
      /\ \A k \in 1 .. Registers : /\ call.from <= call.regs[k] + Slot(k)
                                   /\ call.regs[k] + Slot(k) <= newest
      /\ \A k \in 3 .. Registers : call.regs[2] <= call.regs[k] + Slot(k)
      /\ call.regs[1] = call.regs[2]
  BY <1>2 DEF BurstInv, CallInv
<1>4. \A k \in 1 .. Registers : call.regs[k] \in Nat
  BY <1>3, RegistersAreNat
<1>5. call.regs[2] = newest
  <2>1. call.regs[2] \in Nat /\ call.from <= call.regs[2] /\ call.regs[2] <= newest
    BY <1>2, <1>3, <1>4, FirstSlots
  <2>2. newest - call.regs[2] < CounterModulo
    BY <1>1, <1>3, <2>1
  <2>3. newest % CounterModulo = call.regs[2] % CounterModulo
    BY DEF Moved, Counter
  <2> QED BY <1>1, <2>1, <2>2, <2>3, ModuloTells
<1>6. \A k \in 1 .. Registers : call.regs[k] = newest - Slot(k)
  <2> TAKE k \in 1 .. Registers
  <2>1. Slot(k) \in Nat /\ call.regs[k] \in Nat
    BY <1>4, SlotRange
  <2>2. CASE k = 1 \/ k = 2
    BY <1>1, <1>3, <1>5, <2>2, FirstSlots
  <2>3. CASE k \in 3 .. Registers
    <3>1. newest <= call.regs[k] + Slot(k) /\ call.regs[k] + Slot(k) <= newest
      BY <1>3, <1>5, <2>3
    <3> QED BY <1>1, <2>1, <3>1
  <2> QED BY <2>2, <2>3, FirstSlots
<1> QED BY <1>6 DEF HoldsWindow

LEMMA GuardStep == BurstInv /\ ReadGuard => BurstInv'
<1> SUFFICES ASSUME BurstInv, ReadGuard PROVE BurstInv'
  OBVIOUS
<1>1. call' = Idle /\ newest' = newest /\ call.step = Registers + 1
  BY DEF ReadGuard
<1>2. CallInv'
  BY <1>1, IdleCall DEF CallInv
<1>3. CASE Moved(call)
  BY <1>1, <1>2, <1>3 DEF ReadGuard, BurstInv, PublishedInv
<1>4. CASE ~Moved(call)
  <2>1. published' = [valid |-> TRUE, trusted |-> call.trusted, regs |-> call.regs]
    BY <1>4 DEF ReadGuard
  <2>2. call.regs \in Seq(Conversions) /\ Len(call.regs) = Registers
        /\ call.trusted \in BOOLEAN
    BY <1>1, FirstSlots DEF BurstInv, CallInv
  <2>3. newest \in Slots .. newest
    BY BurstAssumption DEF BurstInv
  <2>4. PublishedInv'
    BY <1>1, <1>4, <2>1, <2>2, <2>3, GuardSeesWindow DEF PublishedInv
  <2>5. baseline' \in [valid : BOOLEAN, counter : 0 .. CounterModulo - 1]
    <3>1. call.regs[2] \in Nat
      BY <2>2, FirstSlots, RegistersAreNat
    <3>2. [valid |-> TRUE, counter |-> Counter(call.regs[2])]
            \in [valid : BOOLEAN, counter : 0 .. CounterModulo - 1]
      BY <3>1, CounterInRange
    <3> QED BY <1>4, <3>2 DEF ReadGuard, BurstInv
  <2> QED BY <1>1, <1>2, <2>4, <2>5 DEF BurstInv
<1> QED BY <1>3, <1>4

LEMMA ForgetStep == BurstInv /\ (TransferFails \/ Forget) => BurstInv'
<1> SUFFICES ASSUME BurstInv, TransferFails \/ Forget PROVE BurstInv'
  OBVIOUS
<1>1. CASE TransferFails
  BY <1>1, IdleCall DEF TransferFails, BurstInv, CallInv, PublishedInv
<1>2. CASE Forget
  <2>1. NoBaseline \in [valid : BOOLEAN, counter : 0 .. CounterModulo - 1]
    BY BurstAssumption DEF NoBaseline
  <2>2. PublishedInv'
    BY <1>2, NoFrame DEF Forget, PublishedInv
  <2> QED BY <1>2, <2>1, <2>2 DEF Forget, BurstInv, CallInv
<1> QED BY <1>1, <1>2

LEMMA ConversionStep == BurstInv /\ ConversionEnds => BurstInv'
<1> SUFFICES ASSUME BurstInv, ConversionEnds PROVE BurstInv'
  OBVIOUS
<1>1. newest \in Nat /\ newest' = newest + 1 /\ newest' \in Slots .. MaxNewest
  BY NewestIsNat, BurstAssumption DEF ConversionEnds, BurstInv
<1>2. CallInv'
  <2>1. CASE call.step = 0
    BY <2>1 DEF ConversionEnds, BurstInv, CallInv
  <2>2. CASE call.step # 0
    <3>1. call.from \in Nat /\ MaxShifts \in Nat /\ newest - call.from < MaxShifts
      BY <2>2, BurstAssumption DEF ConversionEnds, BurstInv, CallInv, Conversions
    <3>2. \A k \in 1 .. call.step - 1 : call.regs[k] \in Nat /\ Slot(k) \in Nat
      <4> TAKE k \in 1 .. call.step - 1
      <4>1. call.regs \in Seq(Conversions) /\ Len(call.regs) = call.step - 1
            /\ call.step \in 0 .. Registers + 1
        BY <2>2 DEF BurstInv, CallInv
      <4>2. k \in 1 .. Registers
        BY <4>1, FirstSlots
      <4> QED BY <4>1, <4>2, SlotRange, RegistersAreNat
    <3>3. \A k \in 1 .. call.step - 1 : call.regs[k] + Slot(k) <= newest'
      BY <1>1, <2>2, <3>2 DEF BurstInv, CallInv
    <3> QED BY <1>1, <2>2, <3>1, <3>3 DEF ConversionEnds, BurstInv, CallInv
  <2> QED BY <2>1, <2>2
<1>3. PublishedInv'
  BY <1>1, BurstAssumption DEF ConversionEnds, BurstInv, PublishedInv
<1> QED BY <1>1, <1>2, <1>3 DEF ConversionEnds, BurstInv

LEMMA BurstStep == BurstInv /\ [Next]_vars => BurstInv'
<1> SUFFICES ASSUME BurstInv, [Next]_vars PROVE BurstInv'
  OBVIOUS
<1>1. CASE Next
  BY <1>1, BeginStep, ReadStep, GuardStep, ForgetStep, ConversionStep DEF Next
<1>2. CASE UNCHANGED vars
  BY <1>2 DEF vars, BurstInv, CallInv, PublishedInv
<1> QED BY <1>1, <1>2

\* Whatever shifts during a call, its registers are conversions that exist, and
\* the call's bookkeeping fits how far it has come.
THEOREM BurstTypes == Spec => []TypeOK
  BY BurstInit, BurstStep, InvImpliesType, PTL DEF Spec

-----------------------------------------------------------------------------
(* The atomic window. *)

\* Registers that hold a window are read as that window.
LEMMA WindowOfRegisters ==
  ASSUME NEW regs, NEW n \in Nat, HoldsWindow(regs, n)
  PROVE  SlotPairs(regs) = Window!Window(n)
<1>1. \A i \in 1 .. Slots : /\ regs[2 * i - 1] = n + 1 - i
                            /\ regs[2 * i] = n + 1 - i
  <2> TAKE i \in 1 .. Slots
  <2>1. regs[2 * i - 1] = n - Slot(2 * i - 1) /\ regs[2 * i] = n - Slot(2 * i)
    BY SlotOfPair DEF HoldsWindow
  <2> QED BY <2>1, SlotOfPair, BurstAssumption
<1> QED BY <1>1 DEF SlotPairs, Window!Window

\* A trusted cached frame is a window of the past.
LEMMA FrameIsWindow ==
  ASSUME BurstInv, published.valid, published.trusted
  PROVE  \E n \in Slots .. newest : frame = [kind |-> "FRAME", slots |-> Window!Window(n)]
<1>1. PICK n \in Slots .. newest : HoldsWindow(published.regs, n)
  BY DEF BurstInv, PublishedInv
<1>2. n \in Nat
  BY BurstAssumption
<1> QED BY <1>1, <1>2, WindowOfRegisters DEF frame

LEMMA WindowInit == Init => Window!Init
  BY DEF Init, Window!Init, NoBurst, frame, Window!NoFrame

LEMMA WindowStep == BurstInv /\ [Next]_vars => [Window!Next]_<<newest, frame>>
<1> SUFFICES ASSUME BurstInv, [Next]_vars PROVE [Window!Next]_<<newest, frame>>
  OBVIOUS
<1>1. CASE published' = published /\ newest' = newest
  BY <1>1 DEF frame, SlotPairs
<1>2. CASE ReadGuard /\ ~Moved(call)
  <2>1. published' = [valid |-> TRUE, trusted |-> call.trusted, regs |-> call.regs]
        /\ newest' = newest /\ newest \in Nat
    BY <1>2, NewestIsNat DEF ReadGuard, BurstInv
  <2>2. CASE ~call.trusted
    <3>1. Window!Warn
      BY <2>1, <2>2 DEF frame, Window!Warn, Window!Suspect
    <3> QED BY <3>1 DEF Window!Next
  <2>3. CASE call.trusted
    <3>1. frame' = [kind |-> "FRAME", slots |-> Window!Window(newest)]
      <4>1. HoldsWindow(call.regs, newest)
        BY <1>2, <2>3, GuardSeesWindow DEF ReadGuard
      <4>2. SlotPairs(call.regs) = Window!Window(newest)
        BY <2>1, <4>1, WindowOfRegisters
      <4> QED BY <2>1, <2>3, <4>2 DEF frame, SlotPairs
    <3>2. CASE frame.kind # "FRAME"
      <4>1. Window!Publish
        BY <2>1, <3>1, <3>2 DEF Window!Publish
      <4> QED BY <4>1 DEF Window!Next
    <3>3. CASE frame.kind = "FRAME"
      <4>1. published.valid /\ published.trusted
        BY <3>3 DEF frame
      <4>2. PICK n \in Slots .. newest :
              frame = [kind |-> "FRAME", slots |-> Window!Window(n)]
        BY <4>1, FrameIsWindow
      <4>3. CASE n = newest
        BY <2>1, <3>1, <4>2, <4>3
      <4>4. CASE n # newest
        <5>1. n \in Nat /\ n < newest
          BY <2>1, <4>4, BurstAssumption
        <5>2. frame.slots[1].msb < newest
          BY <4>2, <5>1, BurstAssumption DEF Window!Window
        <5>3. Window!Publish
          BY <2>1, <3>1, <5>2 DEF Window!Publish
        <5> QED BY <5>3 DEF Window!Next
      <4> QED BY <4>3, <4>4
    <3> QED BY <3>2, <3>3
  <2> QED BY <2>2, <2>3
<1>3. CASE Forget
  <2>1. Window!Forget
    BY <1>3 DEF Forget, NoBurst, frame, Window!Forget, Window!NoFrame
  <2> QED BY <2>1 DEF Window!Next
<1>4. CASE ConversionEnds
  <2>1. Window!Convert
    BY <1>4 DEF ConversionEnds, frame, SlotPairs, Window!Convert
  <2> QED BY <2>1 DEF Window!Next
<1> QED BY <1>1, <1>2, <1>3, <1>4
        DEF Next, vars, Begin, ReadRegister, ReadGuard, TransferFails

\* A frame read register by register is the device's history at one instant, for
\* any number of slots, as long as fewer conversions complete during a call than
\* the counter can tell apart, and a frame is only replaced by a newer one.
THEOREM BurstRefinesWindow == Spec => ReadsOneWindow
<1>1. Spec => [][Window!Next]_<<newest, frame>>
  BY BurstInit, BurstStep, WindowStep, PTL DEF Spec
<1> QED BY <1>1, WindowInit, PTL DEF Spec, ReadsOneWindow, Window!Spec

-----------------------------------------------------------------------------
(* The parts side by side. *)

\* A step of the run is, for each part, a step of its own or none.
LEMMA PartsStep ==
  ASSUME [PartsNext]_partsVars
  PROVE  /\ [Next]_vars
         /\ [ProfileNext]_profileVars
         /\ [TimeNext]_timeVars
         /\ [LineNext]_lineVars
         /\ [SelfNext]_selfVars
         /\ [NumericNext]_input
<1>1. CASE BurstTurn
  BY <1>1 DEF BurstTurn
<1>2. CASE ProfileTurn
  BY <1>2 DEF ProfileTurn
<1>3. CASE TimeTurn
  BY <1>3 DEF TimeTurn
<1>4. CASE LineTurn
  BY <1>4 DEF LineTurn
<1>5. CASE SelfTurn
  BY <1>5 DEF SelfTurn
<1>6. CASE NumericTurn
  BY <1>6 DEF NumericTurn
<1>7. CASE UNCHANGED partsVars
  BY <1>7 DEF partsVars
<1> QED BY <1>1, <1>2, <1>3, <1>4, <1>5, <1>6, <1>7 DEF PartsNext

\* What MCParts checks is each part's own specification: the theorems above, and
\* those of TimeBase_proofs and Numeric_proofs, hold of the run that checks the
\* parts together.
THEOREM PartsRunAlone ==
  PartsSpec => Spec /\ ProfileSpec /\ TimeSpec /\ LineSpec /\ SelfSpec /\ NumericSpec
<1>1. PartsInit => Init /\ ProfileInit /\ TimeInit /\ LineInit /\ SelfInit /\ NumericInit
  BY DEF PartsInit
<1> QED BY <1>1, PartsStep, PTL
     DEF PartsSpec, Spec, ProfileSpec, TimeSpec, LineSpec, SelfSpec, NumericSpec

\* The types of every part's variables, whatever the other parts do.
THEOREM PartsTypes == PartsSpec => []PartsTypeOK
<1> QED BY PartsRunAlone, BurstTypes, ProfileTypes, TimeSpecTypeOK, LineTypes,
           SelfCheckTypes, PTL DEF PartsTypeOK
=============================================================================
