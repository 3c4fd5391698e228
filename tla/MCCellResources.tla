-------------------------- MODULE MCCellResources --------------------------
(* CellResources with init and two more tasks. *)
EXTENDS CellResources

SomeManifests == {{"mmio", "hypervisor"}, {"system"}}
SomeMasks == {{"mmio", "hypervisor"}}

=============================================================================
