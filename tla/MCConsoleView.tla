---------------------------- MODULE MCConsoleView ----------------------------
(***************************************************************************)
(* Values for model checking ConsoleView: ConsoleScale holds of them.      *)
(***************************************************************************)
EXTENDS ConsoleView

ASSUME ScaleAssumption == ConsoleScale
=============================================================================
