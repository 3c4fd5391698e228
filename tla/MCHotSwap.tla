----------------------------- MODULE MCHotSwap -----------------------------
(***************************************************************************)
(* HotSwap under TLC; the configurations give all constants their values.  *)
(***************************************************************************)
EXTENDS HotSwap
=============================================================================
