-------------------------- MODULE MCDriverLifecycle --------------------------
(***************************************************************************)
(* Values for model checking DriverLifecycle.  The default threshold       *)
(* values are those of the reset state; one other value of a field group   *)
(* is enough to tell a register that was written from one that was not.    *)
(***************************************************************************)
EXTENDS DriverLifecycle
=============================================================================
