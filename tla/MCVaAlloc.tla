----------------------------- MODULE MCVaAlloc -----------------------------
(* VaAlloc for TLC: the contexts are interchangeable. *)
EXTENDS VaAlloc, TLC

Symmetry == Permutations(Spawners)
=============================================================================
