---------------------------- MODULE MCSupervisor ----------------------------
(***************************************************************************)
(* An instance of Supervisor for TLC: one service that is always           *)
(* restarted.                                                              *)
(***************************************************************************)
EXTENDS Supervisor

AllPermanent == [s \in Services |-> "Permanent"]
=============================================================================
