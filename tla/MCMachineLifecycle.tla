------------------------- MODULE MCMachineLifecycle -------------------------
(* Symmetry for the runs of MachineLifecycle.                              *)
EXTENDS MachineLifecycle, TLC

Requests == Permutations(Handlers)

=============================================================================
