------------------------------- MODULE MCParts -------------------------------
(***************************************************************************)
(* The components that can be checked on their own, side by side in one    *)
(* run: each behaviour picks one of them at the start and exercises it     *)
(* while the others rest in an initial state.  They share no variable, so  *)
(* nothing is lost that the products of their states could show.           *)
(***************************************************************************)
EXTENDS BurstRead, ProfileChange, TimeBase, LineBuffer, SelfCheck, NumericInputs

VARIABLE part

\* A pair of addresses, one that no package accepts, and the fixed PicoStar one.
SomeAllowed == {<<68, "SOT_5X3">>, <<69, "SOT_5X3">>, <<69, "PICOSTAR">>}
SomeDefault == <<69, "SOT_5X3">>

PartNames == {"BURST", "PROFILE", "TIME", "LINE", "SELF", "NUMERIC"}

AtRest ==
  /\ part # "PROFILE" => adapter = "WIRE" /\ driver = Ready(Default)
  /\ part # "TIME" => hook = TRUE
  /\ part # "SELF" => port = "IDF" /\ cache = ResetDeviceSettings /\ device = cache
  /\ part # "NUMERIC" => input = [kind |-> "raw", raw |-> 0]

PartsInit ==
  /\ part \in PartNames /\ AtRest
  /\ Init /\ ProfileInit /\ TimeInit /\ LineInit /\ SelfInit /\ NumericInit

BurstTurn ==
  part = "BURST" /\ Next /\ UNCHANGED <<profileVars, timeVars, lineVars, selfVars, input>>
ProfileTurn ==
  part = "PROFILE" /\ ProfileNext /\ UNCHANGED <<vars, timeVars, lineVars, selfVars, input>>
TimeTurn ==
  part = "TIME" /\ TimeNext /\ UNCHANGED <<vars, profileVars, lineVars, selfVars, input>>
LineTurn ==
  part = "LINE" /\ LineNext /\ UNCHANGED <<vars, profileVars, timeVars, selfVars, input>>
SelfTurn ==
  part = "SELF" /\ SelfNext /\ UNCHANGED <<vars, profileVars, timeVars, lineVars, input>>
NumericTurn ==
  part = "NUMERIC" /\ NumericNext /\ UNCHANGED <<vars, profileVars, timeVars, lineVars, selfVars>>

PartsNext ==
  /\ BurstTurn \/ ProfileTurn \/ TimeTurn \/ LineTurn \/ SelfTurn \/ NumericTurn
  /\ UNCHANGED part

partsVars == <<part, vars, profileVars, timeVars, lineVars, selfVars, input>>

PartsSpec ==
  PartsInit /\ [][PartsNext]_partsVars /\ TimeFairness

\* Every component's variables have their types.
PartsTypeOK == TypeOK /\ ProfileTypeOK /\ TimeTypeOK /\ LineTypeOK /\ SelfTypeOK
=============================================================================
