----------------------------- MODULE MCFreshness -----------------------------
(***************************************************************************)
(* Values for model checking Freshness: small times and a counter that     *)
(* wraps after a few conversions, so that aliases are reached.             *)
(***************************************************************************)
EXTENDS Freshness
=============================================================================
