----------------------------- MODULE MCNetWaker -----------------------------
(***************************************************************************)
(* Setups of NetWaker for TLC: the net cell alone, without a timeout and   *)
(* with one; and beside a second waiter.                                   *)
(***************************************************************************)
EXTENDS NetWaker

NetSetups == {[w \in {1} |-> 0], [w \in {1} |-> 2], [w \in {1, 2} |-> 4 - w]}
=============================================================================
