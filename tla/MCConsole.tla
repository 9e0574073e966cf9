------------------------------ MODULE MCConsole ------------------------------
(***************************************************************************)
(* Values for model checking Console.                                      *)
(***************************************************************************)
EXTENDS Console
=============================================================================
