-------------------------- MODULE MCServiceClient --------------------------
(***************************************************************************)
(* An instance of ServiceClient for TLC: which restart policies the        *)
(* services have.  The last service stands for the shell.                  *)
(***************************************************************************)
EXTENDS ServiceClient

TwoPolicies == [s \in Services |-> IF s = 1 THEN "Permanent" ELSE "Transient"]
=============================================================================
